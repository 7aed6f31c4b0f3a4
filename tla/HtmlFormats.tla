---------------------------- MODULE HtmlFormats ----------------------------
(***************************************************************************)
(* The text of the HTML widget (beasy/gtkhtml.c) and its formats: what the *)
(* format functions do to the text, how a message is read tag by tag, and  *)
(* how the text is written back as markup.                                 *)
(*                                                                         *)
(* A widget is a record: "cells", the characters, each with the set of its *)
(* tags <<class, value>> and, as a ghost, the formats its message asked    *)
(* for; "edit", the formats the next text gets; the selection "from".."to" *)
(* (cells from+1..to; from = to is the cursor); "editable", "wbfo" (the    *)
(* whole buffer has one format).  While a message is read it also has the  *)
(* place "at" of insertion, the text "ws" not yet inserted, the counters,  *)
(* the stack "fonts", the flag "br", the options, and two ghosts: "open",  *)
(* the elements that are open, and "plain", that the message so far uses   *)
(* them in the way FormatsAreNested speaks of.  Values of tags stand for   *)
(* what the tag's name keeps of them (7 characters of a colour).           *)
(***************************************************************************)
EXTENDS Integers, SequencesExt

CONSTANTS
    Off,            \* no value; a model value
    FormatFunctions \* the classes of format the widget permits

HtmlFlags == {"bold", "italics", "underline", "strike"}
\* The order in which the tags of a place are listed.
TagOrder == <<"bold", "italics", "underline", "strike", "size", "fore", "back", "ground", "face", "link">>
FormatClasses == Range(TagOrder)

-----------------------------------------------------------------------------
(* Tags on ranges of the text.                                              *)

OfClass(tags, c) == {t \in tags : t[1] = c}

Retagged(w, from, to, without, with) ==
    [w EXCEPT !.cells = [p \in DOMAIN @ |->
        IF p \in from + 1 .. to THEN [@[p] EXCEPT !.tags = (@ \ without) \cup with] ELSE @[p]]]

AllTags(w) == UNION {w.cells[p].tags : p \in DOMAIN w.cells}

\* remove_tag_by_prefix: "homo" looks only at the tags of the first place.
RemoveByPrefix(w, from, to, c, homo) ==
    LET first == IF from < Len(w.cells) THEN w.cells[from + 1].tags ELSE {}
    IN  Retagged(w, from, to, OfClass(IF homo THEN first ELSE AllTags(w), c), {})

ApplyTag(w, from, to, t) == Retagged(w, from, to, {}, {t})

\* apply_tags_on_insert, on text that got the tags both its neighbours have.
TagsOnInsert(edit, inherited) ==
    {t \in inherited : t[1] \notin HtmlFlags /\ edit[t[1]] = Off}
        \cup {<<c, edit[c]>> : c \in {d \in FormatClasses : edit[d] # Off}}

\* gtk_text_buffer_insert with preinsert_cb and insert_cb: what is at the end
\* of the selection or beyond moves with the text.
InsertCells(w, at, new) ==
    LET n == Len(new)
        inherited == IF at \in 1 .. Len(w.cells) - 1
                     THEN w.cells[at].tags \cap w.cells[at + 1].tags ELSE {}
        tagged == [p \in 1 .. n |-> [new[p] EXCEPT !.tags = TagsOnInsert(w.edit, inherited)]]
        Moved(mark) == IF mark >= at THEN mark + n ELSE mark
    IN  IF n = 0 THEN w
        ELSE [w EXCEPT !.cells = SubSeq(@, 1, at) \o tagged \o SubSeq(@, at + 1, Len(@)),
                       !.from = Moved(@), !.to = Moved(@)]

\* The part of the text a format function works on.
WorksOn(w) ==
    CASE w.wbfo -> <<0, Len(w.cells)>>
      [] ~w.wbfo /\ w.editable /\ w.from < w.to -> <<w.from, w.to>>
      [] OTHER -> <<0, 0>>

\* html_toggle_bold, _italic, _underline and _strike, through html_toggle_format.
ToggleFlag(w, c) ==
    IF c \notin FormatFunctions THEN w
    ELSE LET on == w.edit[c] = Off
             r == WorksOn(w)
             v == [w EXCEPT !.edit[c] = IF on THEN TRUE ELSE Off]
         IN  Retagged(v, r[1], r[2], {<<c, TRUE>>}, IF on THEN {<<c, TRUE>>} ELSE {})

\* gtk_html_font_set_size.
SetFontSize(w, size) ==
    LET r == WorksOn(w)
        v == [w EXCEPT !.edit["size"] = IF size = 0 THEN Off ELSE size]
    IN  IF r[1] = r[2] THEN v
        ELSE ApplyTag(RemoveByPrefix(v, r[1], r[2], "size", w.wbfo), r[1], r[2], <<"size", size>>)

\* html_font_shrink and html_font_grow.
StepFontSize(w, limit, first, step) ==
    LET size == w.edit["size"] IN
    IF size = limit THEN w ELSE SetFontSize(w, IF size = Off THEN first ELSE size + step)

\* gtk_html_toggle_str_tag.
ToggleValued(w, c, value) ==
    LET r == WorksOn(w)
        v == [w EXCEPT !.edit[c] = value]
    IN  IF r[1] = r[2] THEN v
        ELSE IF value = Off THEN RemoveByPrefix(v, r[1], r[2], c, TRUE)
        ELSE ApplyTag(RemoveByPrefix(v, r[1], r[2], c, w.wbfo), r[1], r[2], <<c, value>>)

\* gtk_html_toggle_link: never on the whole buffer.
ToggleLink(w, url) ==
    LET v == [w EXCEPT !.edit["link"] = url] IN
    IF url = Off \/ ~w.editable \/ w.from = w.to THEN v
    ELSE ApplyTag(RemoveByPrefix(v, w.from, w.to, "link", FALSE), w.from, w.to, <<"link", url>>)

\* gtk_html_close_tags: the background stays.
CloseTags(w) ==
    LET Flag(v, c) == IF v.edit[c] # Off THEN ToggleFlag(v, c) ELSE v
        Valued(v, c) == IF v.edit[c] # Off THEN ToggleValued(v, c, Off) ELSE v
        flags == FoldLeft(Flag, w, <<"bold", "italics", "underline", "strike">>)
        valued == FoldLeft(Valued, flags, <<"fore", "back", "face">>)
        sized == [valued EXCEPT !.edit["size"] = Off]
    IN  IF sized.edit["link"] # Off THEN ToggleLink(sized, Off) ELSE sized

-----------------------------------------------------------------------------
(* Reading a message: gtk_html_insert_html_at_iter, token by token.  Tokens *)
(* are tuples: <<"open", flag>> and <<"close", flag>> (B, I, U, S and their *)
(* synonyms), <<"font", attributes>>, <<"span", style>>, <<"body", colour>>,*)
(* <<"a", url>>, <<"char", c>> and the others below.                        *)

\* A size in FONT: absolute, or relative to 3.
SizeIn(size) ==
    LET n == CASE size[1] = "+" -> size[2] + 3
               [] size[1] = "-" -> IF size[2] > 3 THEN 0 ELSE 3 - size[2]
               [] OTHER -> size[2]
    IN  IF n > 100 THEN 100 ELSE n

\* What the open elements ask for: a reference, not the code.
Asked(open, ground) ==
    LET Weighs(f, w) == CASE w = Off -> f [] w \in {"bold", "bolder"} -> TRUE [] OTHER -> Off
        Style(f, e) == [c \in FormatClasses |->
            CASE c = "bold" /\ e[1] = "span" -> Weighs(f[c], e[2].weight)
              [] c = "size" /\ e[1] = "font" /\ e[2].size # Off -> SizeIn(e[2].size)
              [] c \notin {"bold", "size"} /\ c \in DOMAIN e[2] /\ e[2][c] # Off -> e[2][c]
              [] c = "size" /\ e[1] = "span" /\ e[2].size # Off -> e[2].size
              [] OTHER -> f[c]]
        Element(f, e) ==
            CASE e[1] = "open" -> [f EXCEPT ![e[2]] = TRUE]
              [] e[1] \in {"font", "span"} -> Style(f, e)
              [] e[1] = "a" -> [f EXCEPT !["link"] = e[2]]
              [] OTHER -> f
    IN  FoldLeft(Element, [c \in FormatClasses |-> IF c = "ground" THEN ground ELSE Off], open)

Says(r, c) == [ch |-> c, tags |-> {}, asked |-> Asked(r.open, r.edit["ground"]), plain |-> r.plain]
Writes(r, c) == [r EXCEPT !.ws = Append(@, Says(r, c)), !.br = FALSE]
Flush(r) == [InsertCells(r, r.at, r.ws) EXCEPT !.at = @ + Len(r.ws), !.ws = <<>>]

NoFont == [fore |-> Off, back |-> Off, face |-> Off, size |-> 0, underline |-> FALSE, bold |-> 0]
OuterFont(r) == IF r.fonts = <<>> THEN NoFont ELSE r.fonts[1]
May(r, option, c) == option \notin r.options /\ c \in FormatFunctions

\* Case B, I, U: counted, and toggled by the first.  S takes no notice of NO_FORMATTING.
FlagOpened(r, c) ==
    IF c # "strike" /\ "formatting" \in r.options THEN r
    ELSE LET f == Flush(r)
             t == IF f.count[c] = 0 THEN ToggleFlag(f, c) ELSE f
         IN  [t EXCEPT !.count[c] = @ + 1]

\* Case /B, /I, /U: the last one toggles.  /S toggles even when no S is open.
FlagClosed(r, c) ==
    IF c # "strike" /\ "formatting" \in r.options THEN r
    ELSE LET f == Flush(r)
             n == IF f.count[c] > 0 THEN f.count[c] - 1 ELSE 0
             d == [f EXCEPT !.count[c] = n]
         IN  IF n = 0 /\ (f.count[c] > 0 \/ c = "strike") /\ ~r.wbfo THEN ToggleFlag(d, c) ELSE d

\* Case FONT with attributes: only the size comes from the font outside.
FontOpened(r, a) ==
    LET May1(c, option) == a[c] # Off /\ May(r, option, c)
        outer == OuterFont(r)
        sized == a.size # Off /\ May(r, "sizes", "size")
        font == [NoFont EXCEPT
                     !.fore = IF May1("fore", "colours") THEN a.fore ELSE Off,
                     !.back = IF May1("back", "colours") THEN a.back ELSE Off,
                     !.face = IF May1("face", "fonts") THEN a.face ELSE Off,
                     !.size = CASE sized -> SizeIn(a.size)
                                [] ~sized /\ r.fonts # <<>> -> outer.size
                                [] OTHER -> 3]
        Valued(w, c) == IF font[c] # Off THEN ToggleValued(w, c, font[c]) ELSE w
        set == FoldLeft(Valued, Flush(r), <<"fore", "back", "face">>)
    IN  IF \A c \in {"fore", "back", "face", "size"} : a[c] = Off THEN r
        ELSE [(IF "size" \in FormatFunctions THEN SetFontSize(set, font.size) ELSE set)
                 EXCEPT !.fonts = <<font>> \o @]

\* Mutant: the font outside is not set again.
FontClosed_Forgets(r) ==
    LET font == r.fonts[1]
        Ends(w, c) == IF font[c] # Off THEN ToggleValued(w, c, Off) ELSE w
        ended == FoldLeft(Ends, Flush(r), <<"face", "fore", "back">>)
    IN  IF r.fonts = <<>> \/ r.wbfo THEN r
        ELSE [(IF font.size # 3 THEN SetFontSize(ended, 3) ELSE ended) EXCEPT !.fonts = Tail(r.fonts)]

\* Case /FONT: what the font set is turned off, then the font outside set again.
FontClosed(r) ==
    LET font == r.fonts[1]
        rest == Tail(r.fonts)
        outer == rest[1]
        Ends(w, c) == IF font[c] # Off /\ c \in FormatFunctions THEN ToggleValued(w, c, Off) ELSE w
        Again(w, c) == IF outer[c] # Off /\ c \in FormatFunctions THEN ToggleValued(w, c, outer[c]) ELSE w
        Size(w, f, n) == IF f.size # 3 /\ "size" \in FormatFunctions THEN SetFontSize(w, n) ELSE w
        ended == Size(FoldLeft(Ends, Flush(r), <<"face", "fore", "back">>), font, 3)
    IN  IF r.fonts = <<>> \/ r.wbfo THEN r
        ELSE [(IF rest = <<>> THEN ended
               ELSE Size(FoldLeft(Again, ended, <<"face", "fore", "back">>), outer, outer.size))
                 EXCEPT !.fonts = rest]

SpanWeight(bold, weight) ==
    CASE weight = Off -> bold
      [] weight = "bold" -> 1
      [] weight = "bolder" -> bold + 1
      [] weight = "lighter" -> IF bold > 0 THEN bold - 1 ELSE 0
      [] OTHER -> 0

\* Case SPAN with a style: everything comes from the font outside.  The text
\* marks for direction and alignment are left out.
SpanOpened(r, a) ==
    LET outer == OuterFont(r)
        Style(c, option) == IF a[c] # Off /\ May(r, option, c) THEN a[c] ELSE outer[c]
        underlines == a.underline # Off /\ ~outer.underline /\ May(r, "formatting", "underline")
        weight == SpanWeight(outer.bold, a.weight)
        font == [fore |-> Style("fore", "colours"), back |-> Style("back", "colours"),
                 face |-> Style("face", "fonts"), size |-> Style("size", "sizes"),
                 underline |-> outer.underline \/ underlines, bold |-> weight]
        Valued(w, c) == IF a[c] # Off /\ font[c] = a[c] /\ May(r, IF c = "face" THEN "fonts" ELSE "colours", c)
                        THEN ToggleValued(w, c, a[c]) ELSE w
        set == FoldLeft(Valued, Flush(r), <<"fore", "back", "face">>)
        sized == IF a.size # Off /\ May(r, "sizes", "size") THEN SetFontSize(set, font.size) ELSE set
        lined == IF underlines THEN ToggleFlag(sized, "underline") ELSE sized
        bolded == IF a.weight # Off /\ (weight > 0) # (outer.bold > 0) /\ "formatting" \notin r.options
                  THEN ToggleFlag(lined, "bold") ELSE lined
    IN  IF \A c \in DOMAIN a : a[c] = Off THEN r ELSE [bolded EXCEPT !.fonts = <<font>> \o @]

\* Case /SPAN: what differs from the font outside is set as it was there.
SpanClosed(r) ==
    LET font == r.fonts[1]
        rest == Tail(r.fonts)
        last == rest = <<>>
        outer == IF last THEN NoFont ELSE rest[1]
        f == Flush(r)
        Size(w) == CASE last -> SetFontSize(w, 3)
                     [] ~last /\ font.size # outer.size /\ "sizes" \notin r.options -> SetFontSize(w, outer.size)
                     [] OTHER -> w
        Flag(w, c, differs) == IF differs /\ "formatting" \notin r.options THEN ToggleFlag(w, c) ELSE w
        Valued(w, c) ==
            IF (last \/ (font[c] # Off /\ font[c] # outer[c])) /\ (IF c = "face" THEN "fonts" ELSE "colours") \notin r.options
            THEN ToggleValued(w, c, outer[c]) ELSE w
        lined == Flag(Size(f), "underline", font.underline # outer.underline)
        bolded == Flag(lined, "bold", (font.bold > 0) # (outer.bold > 0))
    IN  IF r.fonts = <<>> \/ r.wbfo THEN r
        ELSE [FoldLeft(Valued, bolded, <<"face", "fore", "back">>) EXCEPT !.fonts = rest]

\* Cases BODY and /BODY, A and /A.
BodyOpened(r, colour) ==
    IF May(r, "colours", "back") /\ colour # Off THEN ToggleValued(Flush(r), "ground", colour) ELSE r
BodyClosed(r) == ToggleValued(Flush(r), "ground", Off)
LinkOpened(r, url) == IF "link" \in FormatFunctions /\ url # Off THEN ToggleLink(Flush(r), url) ELSE r
LinkClosed(r) == ToggleLink(Flush(r), Off)

\* Case HR: a rule on a line of its own.  Case IMG: an image where they are permitted.
Anchor(r, c) == [InsertCells(r, r.at, <<Says(r, c)>>) EXCEPT !.at = @ + 1]
RuleRead(r) == Writes(Anchor(Flush(Writes(r, "nl")), "hr"), "nl")
ImageRead(r) == IF "image" \in FormatFunctions THEN Anchor(Flush(r), "img") ELSE Flush(r)

\* Case /TITLE with NO_TITLE: the text that waits is dropped, the title's or not.
TitleClosed(r) ==
    IF r.count["title"] = 0 THEN r
    ELSE [r EXCEPT !.count["title"] = @ - 1, !.ws = IF "title" \in r.options THEN <<>> ELSE @]

\* A newline of the message.
NewlineRead(r) ==
    CASE "newline" \notin r.options -> Flush(Writes(r, "nl"))
      [] "newline" \in r.options /\ ~r.br -> Flush(Writes(r, "space"))
      [] OTHER -> r

CommentRead(r) == IF "comments" \in r.options THEN Flush(r) ELSE Flush(Writes(Flush(r), "comment"))

ReadToken(r, t) ==
    LET b == [r EXCEPT !.br = FALSE] IN
    CASE t[1] = "open" -> FlagOpened(b, t[2])
      [] t[1] = "close" -> FlagClosed(b, t[2])
      [] t[1] = "font" -> FontOpened(b, t[2])
      [] t[1] = "/font" -> FontClosed(b)
      [] t[1] = "span" -> SpanOpened(b, t[2])
      [] t[1] = "/span" -> SpanClosed(b)
      [] t[1] = "body" -> BodyOpened(b, t[2])
      [] t[1] = "/body" -> BodyClosed(b)
      [] t[1] = "a" -> LinkOpened(b, t[2])
      [] t[1] = "/a" -> LinkClosed(b)
      [] t[1] = "hr" -> RuleRead(b)
      [] t[1] = "img" -> ImageRead(b)
      [] t[1] = "br" -> [Writes(b, "nl") EXCEPT !.br = TRUE]
      [] t[1] = "title" -> [b EXCEPT !.count["title"] = @ + 1]
      [] t[1] = "/title" -> TitleClosed(b)
      [] t[1] = "comment" -> CommentRead(b)
      [] t[1] = "newline" -> NewlineRead(r)
      [] t[1] = "char" -> Writes(r, t[2])

\* The ghosts: elements that close as they opened, and are not of two kinds
\* that set one format.
Closes == [close |-> "open"] @@ ("/font" :> "font") @@ ("/span" :> "span")
              @@ ("/body" :> "body") @@ ("/a" :> "a")

Noted(r, t) ==
    LET Kinds == {e[1] : e \in Range(r.open)}
        depth == Cardinality({i \in DOMAIN r.open : r.open[i][1] = "font"})
        top == Last(r.open)
    IN  CASE t[1] \in DOMAIN Closes ->
               IF r.open # <<>> /\ top[1] = Closes[t[1]] /\ (t[1] = "close" => top[2] = t[2])
               THEN [r EXCEPT !.open = Front(@)] ELSE [r EXCEPT !.plain = FALSE]
          [] t[1] \in {"open", "font", "span", "a", "body"} ->
               [r EXCEPT !.open = Append(@, t),
                         !.plain = @ /\ CASE t[1] = "font" -> depth < 2 /\ "span" \notin Kinds
                                          [] t[1] = "span" -> Kinds \subseteq {"span", "a", "body"}
                                          [] t[1] = "open" -> "span" \notin Kinds
                                          [] OTHER -> t[1] \notin Kinds]
          [] OTHER -> r

\* The start and the end of gtk_html_insert_html_at_iter.
Starts(w, at, options) ==
    [w EXCEPT !.at = at, !.ws = <<>>, !.br = FALSE, !.fonts = <<>>, !.options = options,
              !.open = <<>>, !.plain = TRUE, !.count = [c \in HtmlFlags \cup {"title"} |-> 0]]
Ends(r) == LET f == [Flush(r) EXCEPT !.fonts = <<>>] IN IF r.wbfo THEN f ELSE CloseTags(f)

InsertHtml(w, tokens, at, options) ==
    Ends(FoldLeft(LAMBDA r, t : ReadToken(Noted(r, t), t), Starts(w, at, options), tokens))

-----------------------------------------------------------------------------
(* Writing the text as markup.                                              *)

\* tag_to_html_start, tag_to_html_end.
StartOf(t) ==
    CASE t[1] \in HtmlFlags -> <<"open", t[1]>>
      [] t[1] = "link" -> <<"a", t[2]>>
      [] t[1] = "ground" -> <<"body", t[2]>>
      [] OTHER -> <<"font", [c \in {"fore", "back", "face", "size"} |->
                                IF c # t[1] THEN Off ELSE IF c = "size" THEN <<"", t[2]>> ELSE t[2]]>>
EndOf(t) ==
    CASE t[1] \in HtmlFlags -> <<"close", t[1]>>
      [] t[1] = "link" -> <<"/a">>
      [] t[1] = "ground" -> <<"/body">>
      [] OTHER -> <<"/font">>

\* What stands for a character; a character of the markup itself is escaped.
CharToken(c) ==
    CASE c = "nl" -> <<"br">>
      [] c = "hr" -> <<"hr">>
      [] c = "img" -> <<"img">>
      [] OTHER -> <<"char", c>>

Listed(tags) ==
    FlattenSeq([i \in DOMAIN TagOrder |-> SetToSeq(OfClass(tags, TagOrder[i]))])
TagsAt(cells, p) == IF p \in DOMAIN cells THEN cells[p].tags ELSE {}
EndsHere(cells, p, t) == t \notin TagsAt(cells, p + 1)

\* A tag ends: the tags opened after it are closed before it, and opened again
\* unless they end here too.  o: the markup and the queue of open tags.
TagEnds(o, t, cells, p) ==
    LET place == IF \E i \in DOMAIN o.q : o.q[i] = t
                 THEN CHOOSE i \in DOMAIN o.q : o.q[i] = t /\ \A j \in i + 1 .. Len(o.q) : o.q[j] # t ELSE 0
        popped == Reverse(SubSeq(o.q, place + 1, Len(o.q)))
        again == SelectSeq(popped, LAMBDA u : ~EndsHere(cells, p, u))
    IN  [q |-> SubSeq(o.q, 1, place - 1) \o again,
         str |-> o.str \o [i \in DOMAIN popped |-> EndOf(popped[i])]
                       \o (IF place = 0 THEN <<>> ELSE <<EndOf(t)>>)
                       \o [i \in DOMAIN again |-> StartOf(again[i])]]

\* gtk_html_get_markup_range of cells from+1..to.
MarkupRange(cells, from, to) ==
    LET Begins(o, t) == [q |-> Append(o.q, t), str |-> Append(o.str, StartOf(t))]
        Place(o, p) ==
            LET here == Listed(TagsAt(cells, p))
                begin == SelectSeq(here, LAMBDA t : t \notin TagsAt(cells, p - 1))
                end == SelectSeq(Reverse(here), LAMBDA t : EndsHere(cells, p, t))
                begun == FoldLeft(Begins, o, begin)
                put == [begun EXCEPT !.str = Append(@, CharToken(cells[p].ch))]
            IN  FoldLeft(LAMBDA x, t : TagEnds(x, t, cells, p), put, end)
        inProgress == SelectSeq(Listed(TagsAt(cells, from + 1)), LAMBDA t : t \in TagsAt(cells, from))
        all == FoldLeft(Place, FoldLeft(Begins, [q |-> <<>>, str |-> <<>>], inProgress),
                        [i \in 1 .. to - from |-> from + i])
    IN  all.str \o Reverse([i \in DOMAIN all.q |-> EndOf(all.q[i])])

\* gtk_html_get_text, as what is pasted of it.
TextRange(cells, from, to) == [i \in 1 .. to - from |-> <<"char", cells[from + i].ch>>]
=============================================================================
