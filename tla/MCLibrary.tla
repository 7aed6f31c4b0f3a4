----------------------------- MODULE MCLibrary -----------------------------
(***************************************************************************)
(* The parts of the library and of the user interface that share no state: *)
(* one of them runs at a time, the others stay as they start.              *)
(***************************************************************************)
EXTENDS Signals, SavedStatuses, CipherSuite, Ciphers, XmlTree, Markup,
        ThemeFiles, Themes, PopupDrawing, HtmlWidget, TrayIcon,
        PluginFiles, PrefTree, Reports

VARIABLE part       \* the part that runs

-----------------------------------------------------------------------------
(* Values of the constants.                                                 *)

\* Saved statuses: what statuses.xml holds, nothing or the same title twice.
Titles == {<<"lunch">>}
OldStatus == [addr |-> "none", title |-> <<"lunch">>, type |-> "away", created |-> 0,
              lastused |-> 0, usage |-> 0]
Old == {<<>>, <<OldStatus, OldStatus>>}

\* A block cipher on blocks of three bits, in which the order of two keys matters.
Num(b) == b[1] + 2 * b[2] + 4 * b[3]
Bits3(n) == <<n % 2, (n \div 2) % 2, n \div 4>>
Enc(k, b) == CASE k = 1 -> Bits3((Num(b) + 1) % 8)
               [] k = 2 -> <<b[2], b[3], b[1]>>
               [] k = 3 -> <<1 - b[1], b[2], b[3]>>
Dec(k, b) == CASE k = 1 -> Bits3((Num(b) + 7) % 8)
               [] k = 2 -> <<b[3], b[1], b[2]>>
               [] k = 3 -> <<1 - b[1], b[2], b[3]>>
DesKeys == {<<1>>, <<2>>, <<1, 2, 3>>}
Ivs == {<<0, 0, 0>>, <<1, 0, 1>>}
Datas == {<<1, 0, 1, 1, 0, 0, 1>>, <<0, 1, 1, 0>>, <<1, 1, 0, 0, 1, 1>>, <<>>}
Keys == {<<1>>, <<2, 3>>}

BI == <<"md5", "hmac">>
Texts == {<<"&", "amp;">>}

\* Theme files.
Icon(type, size) == <<[type |-> type, size |-> size]>>
Image == <<[filename |-> <<"i.png">>]>>
TextOf(format, width) ==
    <<[format |-> format, font |-> <<>>, color |-> <<"red">>, clipping |-> "truncate", width |-> width]>>
Item(type, position, offset, what) ==
    [type |-> type, position |-> position, h_offset |-> offset, v_offset |-> <<>>, shown |-> what]
Items == {Item("icon", <<"north">>, <<5, TRUE>>, Icon("file", "big")),
          Item("icon", <<"north">>, <<5, TRUE>>, Icon("file", "odd")),
          Item("image", <<"center">>, <<3, FALSE>>, Image),
          Item("image", <<>>, <<3, FALSE>>, Image),
          Item("text", <<"south">>, <<>>, TextOf(<<"%R">>, <<>>)),
          Item("text", <<"south">>, <<>>, TextOf(<<>>, <<7>>)),
          Item("text", <<"up">>, <<>>, TextOf(<<"%R">>, <<7>>)),
          Item("blink", <<"up">>, <<>>, TextOf(<<"%R">>, <<7>>))}
Note(type, use_gtk, background, width, items) ==
    [type |-> type, use_gtk |-> use_gtk, background |-> background, alias |-> <<"x">>,
     width |-> width, height |-> <<>>, items |-> items]
Notes == {Note(<<"!master">>, <<>>, <<>>, w, i) : w \in {<<>>, <<1>>}, i \in {<<>>} \cup {<<x>> : x \in Items}}
         \cup {Note(<<"a">>, <<FALSE>>, b, <<>>, <<>>) : b \in {<<>>, <<"b.png">>}}
         \cup {Note(<<>>, <<>>, <<>>, <<>>, <<>>)}
         \cup {Note(<<"a">>, <<>>, <<>>, <<>>, <<x, y>>) : x, y \in Items}
Info(name) == [f \in InfoFields |-> CASE f = "name" -> name [] f = "author" -> <<"me">> [] OTHER -> <<>>]
Ops == [f \in DOMAIN OptionDefault |-> IF f = "warning" THEN <<"none">> ELSE <<>>]
File(name, notes) == [parses |-> TRUE, apiMatches |-> TRUE, info |-> <<Info(name)>>,
                      options |-> <<Ops>>, notifications |-> notes]
Names == {<<>>, <<<<".", "a", "/", "b">>>>, <<<<"a", " ", "b">>>>}
Plain == {n \in Notes : n.items = <<>> \/ n.items[1] = Item("text", <<"south">>, <<>>, TextOf(<<"%R">>, <<>>))}
Files == {File(<<<<"a">>>>, <<x>>) : x \in Notes}
         \cup {File(n, <<x, y>>) : n \in Names, x \in Plain, y \in Plain}
         \cup {[File(<<>>, <<>>) EXCEPT !.parses = FALSE], [File(<<>>, <<>>) EXCEPT !.apiMatches = FALSE],
               [File(<<>>, <<>>) EXCEPT !.info = <<>>], [File(<<>>, <<>>) EXCEPT !.options = <<>>]}

Paths3 == <<"a", "b", "c">>
Copies == [f \in {"a"} |-> "c"]

Columns == {-2, 0, 3}
PerCent == {-50, 50}

\* Messages of the HTML widget.
Style == [fore |-> Off, back |-> Off, face |-> Off, size |-> Off, underline |-> Off, weight |-> Off]
Font == [fore |-> Off, back |-> Off, face |-> Off, size |-> Off]
Red == <<"font", [Font EXCEPT !.fore = "red", !.face = "mono"]>>
Blue == <<"font", [Font EXCEPT !.fore = "blue", !.size = <<"+", 2>>]>>
Tokens == {<<"open", "bold">>, <<"close", "bold">>, <<"open", "strike">>, <<"close", "strike">>,
           Red, Blue, <<"/font">>,
           <<"span", [Style EXCEPT !.fore = "red", !.weight = "bold"]>>,
           <<"span", [Style EXCEPT !.underline = TRUE, !.size = 5]>>, <<"/span">>,
           <<"body", "grey">>, <<"/body">>, <<"a", "url">>, <<"/a">>, <<"hr">>, <<"img">>, <<"br">>,
           <<"title">>, <<"/title">>, <<"comment">>, <<"newline">>, <<"char", "a">>}
Documents == {<<<<"open", "bold">>, <<"char", "a">>, Red, <<"close", "bold">>, <<"char", "lt">>>>,
              <<<<"a", "url">>, <<"char", "a">>, <<"/a">>, <<"hr">>>>}
AllFormats == FormatClasses
Opts == {{}, {"comments", "title", "newline"}}

\* Plugins: "ua" and "la" have one name and the first cannot be loaded, "b" needs "la", the
\* loader "ldr" is for "scr", and "home" is not in the search paths.
GoodPlugin == [base |-> "a", native |-> TRUE, opens |-> "now", symbol |-> TRUE, starts |-> TRUE, ui |-> TRUE,
               id |-> TRUE, magic |-> "right", version |-> TRUE, loader |-> FALSE, needs |-> {}]
PluginMeta == [f \in {"ua", "la", "b", "ldr", "scr", "home"} |->
    CASE f = "ua" -> [GoodPlugin EXCEPT !.opens = "lazily"]
      [] f = "la" -> GoodPlugin
      [] f = "b" -> [GoodPlugin EXCEPT !.base = "b", !.needs = {"a"}]
      [] f = "ldr" -> [GoodPlugin EXCEPT !.base = "ldr", !.loader = TRUE]
      [] f = "scr" -> [GoodPlugin EXCEPT !.base = "scr", !.native = FALSE]
      [] f = "home" -> [GoodPlugin EXCEPT !.base = "c"]]
SearchPaths == <<"ua", "b", "scr", "ldr", "la">>
PluginDisks == {{}, DOMAIN PluginMeta \ {"home"}, {"home", "b", "ua"}}
SavedPlugins == {{}, {"home", "b"}}

\* Preferences.
PrefPaths == {<<>>, <<"oul">>, <<"oul", "a">>, <<"oul", "b">>, <<"oul", "b", "c">>}
PrefChanges == {<<<<"oul", "b">>, "none", <<>>>>, <<<<"oul", "b", "c">>, "stringlist", <<"null", "not utf8", "v">>>>,
                <<<<"oul", "b", "c">>, "pathlist", <<"v", "not utf8">>>>,
                <<<<"oul", "a">>, "path", <<"null">>>>, <<<<"oul", "a">>, "path", <<"not utf8">>>>,
                <<<<"oul", "a">>, "string", <<"v">>>>,
                <<<<"oul", "a">>, "string", <<"not utf8">>>>}
PrefConnects == {<<>>, <<"oul", "a">>}

\* Pages of the queue: two SRs, and one with half a row behind it.
SrColumns == [f \in {"number", "analyst", "subject"} |-> CASE f = "number" -> 1 [] f = "analyst" -> 2 [] OTHER -> 3]
SrRow(number, analyst, subject) == <<<<"-">>, <<number>>, <<analyst>>, subject>>
Ann1 == SrRow("1", "ann", <<>>)
Bob2 == SrRow("2", "bob", <<"s", "&", "t">>)
Ann2 == SrRow("2", "ann", <<"s">>)
QueuePages == {<<>>, Ann2 \o <<<<"-">>, <<"3">>>>, Ann1 \o Bob2, Bob2 \o Ann2}
ReportTargets == {[target |-> "ctc", analyst |-> <<>>, srlist |-> <<>>],
                  [target |-> "analyst", analyst |-> <<"ann">>, srlist |-> <<>>],
                  [target |-> "analyst", analyst |-> <<>>, srlist |-> <<>>],
                  [target |-> "srlist", analyst |-> <<>>, srlist |-> <<<<"2">>, <<"1">>, <<"2">>>>]}
OtherDocuments == {<<[type |-> "text", text |-> <<"hello">>]>>, <<[type |-> "none"]>>}

-----------------------------------------------------------------------------
partVars == <<signalVars, statusVars, digestVars, encryptionVars, cipherVars, ntlmVars, xmlVars,
              markupVars, themeFileVars, themesVars, drawingVars, htmlVars, trayVars, pluginFileVars,
              prefTreeVars, reportVars>>

\* A part that does not run starts in one way.
LibraryInit ==
    /\ part \in {"signals", "statuses", "digests", "encryption", "ciphers", "ntlm", "xml",
                "markup", "theme files", "themes", "drawing", "html", "tray", "plugin files",
                "preferences tree", "reports"}
    /\ SignalsInit
    /\ StatusesInit /\ (part # "statuses" => status_xml = <<>>)
    /\ DigestsInit
    /\ EncryptionInit /\ (part # "encryption" => des3.keys = <<1>>)
    /\ CiphersInit
    /\ NtlmInit
    /\ XmlInit
    /\ MarkupInit /\ (part # "markup" => alphabet = "html")
    /\ ThemeFilesInit
    /\ ThemesInit /\ (part # "themes" => disk = [p \in Paths |-> "none"] /\ savedThemes = <<>>)
    /\ DrawingInit
    /\ HtmlInit /\ (part # "html" => ~widget.editable)
    /\ TrayInit /\ (part # "tray" => savedType = "offline")
    /\ PluginFilesInit /\ (part # "plugin files" => pluginDisk = {} /\ saved = {})
    /\ PrefTreeInit
    /\ ReportsInit

LibraryNext ==
    \/ part = "signals" /\ SignalsNext /\ UNCHANGED <<part, statusVars, digestVars, encryptionVars, cipherVars, ntlmVars, xmlVars, markupVars, themeFileVars, themesVars, drawingVars, htmlVars, trayVars, pluginFileVars, prefTreeVars, reportVars>>
    \/ part = "statuses" /\ StatusesNext /\ UNCHANGED <<part, signalVars, digestVars, encryptionVars, cipherVars, ntlmVars, xmlVars, markupVars, themeFileVars, themesVars, drawingVars, htmlVars, trayVars, pluginFileVars, prefTreeVars, reportVars>>
    \/ part = "digests" /\ DigestsNext /\ UNCHANGED <<part, signalVars, statusVars, encryptionVars, cipherVars, ntlmVars, xmlVars, markupVars, themeFileVars, themesVars, drawingVars, htmlVars, trayVars, pluginFileVars, prefTreeVars, reportVars>>
    \/ part = "encryption" /\ EncryptionNext /\ UNCHANGED <<part, signalVars, statusVars, digestVars, cipherVars, ntlmVars, xmlVars, markupVars, themeFileVars, themesVars, drawingVars, htmlVars, trayVars, pluginFileVars, prefTreeVars, reportVars>>
    \/ part = "ciphers" /\ CiphersNext /\ UNCHANGED <<part, signalVars, statusVars, digestVars, encryptionVars, ntlmVars, xmlVars, markupVars, themeFileVars, themesVars, drawingVars, htmlVars, trayVars, pluginFileVars, prefTreeVars, reportVars>>
    \/ part = "ntlm" /\ NtlmNext /\ UNCHANGED <<part, signalVars, statusVars, digestVars, encryptionVars, cipherVars, xmlVars, markupVars, themeFileVars, themesVars, drawingVars, htmlVars, trayVars, pluginFileVars, prefTreeVars, reportVars>>
    \/ part = "xml" /\ XmlNext /\ UNCHANGED <<part, signalVars, statusVars, digestVars, encryptionVars, cipherVars, ntlmVars, markupVars, themeFileVars, themesVars, drawingVars, htmlVars, trayVars, pluginFileVars, prefTreeVars, reportVars>>
    \/ part = "markup" /\ MarkupNext /\ UNCHANGED <<part, signalVars, statusVars, digestVars, encryptionVars, cipherVars, ntlmVars, xmlVars, themeFileVars, themesVars, drawingVars, htmlVars, trayVars, pluginFileVars, prefTreeVars, reportVars>>
    \/ part = "theme files" /\ ThemeFilesNext /\ UNCHANGED <<part, signalVars, statusVars, digestVars, encryptionVars, cipherVars, ntlmVars, xmlVars, markupVars, themesVars, drawingVars, htmlVars, trayVars, pluginFileVars, prefTreeVars, reportVars>>
    \/ part = "themes" /\ ThemesNext /\ UNCHANGED <<part, signalVars, statusVars, digestVars, encryptionVars, cipherVars, ntlmVars, xmlVars, markupVars, themeFileVars, drawingVars, htmlVars, trayVars, pluginFileVars, prefTreeVars, reportVars>>
    \/ part = "drawing" /\ DrawingNext /\ UNCHANGED <<part, signalVars, statusVars, digestVars, encryptionVars, cipherVars, ntlmVars, xmlVars, markupVars, themeFileVars, themesVars, htmlVars, trayVars, pluginFileVars, prefTreeVars, reportVars>>
    \/ part = "html" /\ HtmlNext /\ UNCHANGED <<part, signalVars, statusVars, digestVars, encryptionVars, cipherVars, ntlmVars, xmlVars, markupVars, themeFileVars, themesVars, drawingVars, trayVars, pluginFileVars, prefTreeVars, reportVars>>
    \/ part = "tray" /\ TrayNext /\ UNCHANGED <<part, signalVars, statusVars, digestVars, encryptionVars, cipherVars, ntlmVars, xmlVars, markupVars, themeFileVars, themesVars, drawingVars, htmlVars, pluginFileVars, prefTreeVars, reportVars>>
    \/ part = "plugin files" /\ PluginFilesNext /\ UNCHANGED <<part, signalVars, statusVars, digestVars, encryptionVars, cipherVars, ntlmVars, xmlVars, markupVars, themeFileVars, themesVars, drawingVars, htmlVars, trayVars, prefTreeVars, reportVars>>
    \/ part = "preferences tree" /\ PrefTreeNext /\ UNCHANGED <<part, signalVars, statusVars, digestVars, encryptionVars, cipherVars, ntlmVars, xmlVars, markupVars, themeFileVars, themesVars, drawingVars, htmlVars, trayVars, pluginFileVars, reportVars>>
    \/ part = "reports" /\ ReportsNext /\ UNCHANGED <<part, signalVars, statusVars, digestVars, encryptionVars, cipherVars, ntlmVars, xmlVars, markupVars, themeFileVars, themesVars, drawingVars, htmlVars, trayVars, pluginFileVars, prefTreeVars>>

LibrarySpec == LibraryInit /\ [][LibraryNext]_<<part, partVars>>

-----------------------------------------------------------------------------
\* What the program writes is what it reads again: the tree of preferences (prefs.c), and
\* a theme that was copied (gtkntf_file.c).
FilesReadBack == FileMeansTree /\ CopyIsTheSame
=============================================================================
