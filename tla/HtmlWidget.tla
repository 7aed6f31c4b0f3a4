----------------------------- MODULE HtmlWidget -----------------------------
(***************************************************************************)
(* The HTML widget (beasy/gtkhtml.c): a notification or the about box      *)
(* shows messages in one that nobody edits; the preferences of a plugin    *)
(* have one that the user edits, whose markup is saved at every change and *)
(* read back the next time.                                                *)
(*                                                                         *)
(* A message is read one token at a time, so that the text can be looked   *)
(* at in between; everything the user does is one action.  Smileys are left *)
(* out: this program never registers one.                                  *)
(***************************************************************************)
EXTENDS HtmlFormats

CONSTANTS
    MessageToken,   \* the tokens of messages
    Document,       \* what other programs offer to paste or to drop, as token sequences
    MessageOptions, \* the options messages are appended with, a set of sets
    MaxMessageTokens, MaxEdits, MaxCells    \* bounds; the last token of a message is text

VARIABLES
    widget,         \* the record of HtmlFormats
    reading,        \* a message is being appended
    clip,           \* html_clipboard and text_clipboard
    done            \* how many tokens were read, how many edits made

htmlVars == <<widget, reading, clip, done>>

PasteOptions == {"newline", "comments"}
NewWidget(editable, wbfo) ==
    [cells |-> <<>>, edit |-> [c \in FormatClasses |-> Off], from |-> 0, to |-> 0,
     editable |-> editable, wbfo |-> wbfo, at |-> 0, ws |-> <<>>, br |-> FALSE, fonts |-> <<>>,
     options |-> {}, open |-> <<>>, plain |-> FALSE, count |-> [c \in HtmlFlags \cup {"title"} |-> 0]]

HtmlInit ==
    /\ \E editable, wbfo \in BOOLEAN : (wbfo => editable) /\ widget = NewWidget(editable, wbfo)
    /\ reading = FALSE
    /\ clip = [html |-> <<>>, text |-> <<>>]
    /\ done = [tokens |-> 0, edits |-> 0]

-----------------------------------------------------------------------------
(* gtk_html_append_text: at the end of the text.  In a widget one edits it  *)
(* is called once, before the user sees it, with what was saved.            *)

AppendStarts(options) ==
    /\ ~reading /\ ~widget.editable /\ done.tokens < MaxMessageTokens
    /\ widget' = Starts(widget, Len(widget.cells), options)
    /\ reading' = TRUE
    /\ UNCHANGED <<clip, done>>

AppendReads(t) ==
    /\ reading /\ done.tokens < MaxMessageTokens
    /\ done.tokens + 1 = MaxMessageTokens => t[1] = "char"
    /\ widget' = ReadToken(Noted(widget, t), t)
    /\ done' = [done EXCEPT !.tokens = @ + 1]
    /\ UNCHANGED <<reading, clip>>

Forgotten(w) ==
    [w EXCEPT !.at = 0, !.options = {}, !.open = <<>>, !.plain = FALSE, !.br = FALSE,
              !.count = [c \in DOMAIN @ |-> 0]]

AppendEnds ==
    /\ reading
    /\ widget' = Forgotten(Ends(widget))
    /\ reading' = FALSE
    /\ UNCHANGED <<clip, done>>

AppendPreference(d) ==
    /\ widget.editable /\ done.edits = 0 /\ widget.cells = <<>>
    /\ widget' = Forgotten(InsertHtml(widget, d, 0, {}))
    /\ UNCHANGED <<reading, clip, done>>

-----------------------------------------------------------------------------
(* What the user does.                                                      *)

\* mark_set_cb: the next text gets the formats of the place, but no link at the end.
MarkSet(w, p) ==
    LET n == Len(w.cells)
        there == IF p = n THEN {t \in TagsAt(w.cells, n) : t[1] # "link"} ELSE TagsAt(w.cells, p + 1)
        Read(c) == IF OfClass(there, c) = {} THEN Off ELSE (CHOOSE t \in OfClass(there, c) : TRUE)[2]
    IN  IF n = 0 THEN w
        ELSE [w EXCEPT !.edit = [c \in FormatClasses |-> IF c = "ground" THEN @[c] ELSE Read(c)]]

\* delete_cb, then the deletion: a link deleted from the start of a word is over.
IsLetter(cells, p) == p \in DOMAIN cells /\ cells[p].ch \in {"a", "b"}
Deletes(w, from, to) ==
    LET over == IsLetter(w.cells, from + 1) /\ ~IsLetter(w.cells, from)
                /\ \E t \in OfClass(TagsAt(w.cells, from + 1), "link") :
                       t \notin TagsAt(w.cells, from) /\ t \notin TagsAt(w.cells, to + 1)
        v == IF over /\ w.edit["link"] # Off THEN ToggleLink(w, Off) ELSE w
        Moved(mark) == IF mark > to THEN mark - (to - from) ELSE IF mark > from THEN from ELSE mark
    IN  IF from = to THEN w
        ELSE [v EXCEPT !.cells = SubSeq(@, 1, from) \o SubSeq(@, to + 1, Len(@)),
                       !.from = Moved(@), !.to = Moved(@)]
DeletesSelection(w) == Deletes(w, w.from, w.to)

\* The formats of single characters are the user's from here on.
Edits(w) ==
    /\ ~reading /\ widget.editable /\ done.edits < MaxEdits
    /\ Len(w.cells) <= MaxCells
    /\ widget' = Forgotten([w EXCEPT !.cells =
                    [p \in DOMAIN @ |-> [@[p] EXCEPT !.asked = Off, !.plain = FALSE]]])
    /\ done' = [done EXCEPT !.edits = @ + 1]
    /\ UNCHANGED reading

Select(from, to, insert) ==
    /\ from <= to /\ insert \in {from, to} /\ to <= Len(widget.cells)
    /\ Edits(MarkSet([widget EXCEPT !.from = from, !.to = to], insert))
    /\ UNCHANGED clip

TypeChar(c) ==
    LET w == DeletesSelection(widget) IN
    /\ Edits(InsertCells(w, w.from, <<Says(w, c)>>))
    /\ UNCHANGED clip

\* smart_backspace_cb: a rule becomes its text.
Backspace ==
    LET p == widget.from
        w == IF p > 0 /\ widget.cells[p].ch = "hr"
             THEN InsertCells(widget, p - 1, <<Says(widget, "nl"), Says(widget, "b"), Says(widget, "nl")>>)
             ELSE widget
    IN  /\ widget.from = widget.to /\ p > 0
        /\ Edits(Deletes(w, w.from - 1, w.from))
        /\ UNCHANGED clip

ToggleFormat(c) == Edits(ToggleFlag(widget, c)) /\ UNCHANGED clip
Shrink == Edits(StepFontSize(widget, 1, 2, -1)) /\ UNCHANGED clip
Grow == Edits(StepFontSize(widget, 7, 4, 1)) /\ UNCHANGED clip

\* html_clear_formatting: the link goes from the text, not from what comes next.
ClearFormatting ==
    LET whole == widget.wbfo \/ widget.from = widget.to
        from == IF whole THEN 0 ELSE widget.from
        to == IF whole THEN Len(widget.cells) ELSE widget.to
        bare == Retagged(widget, from, to, AllTags(widget), {})
    IN  /\ Edits([bare EXCEPT !.edit = [c \in FormatClasses |-> IF c = "link" THEN @[c] ELSE Off]])
        /\ UNCHANGED clip

Clipped(w) == [html |-> MarkupRange(w.cells, w.from, w.to), text |-> TextRange(w.cells, w.from, w.to)]

CopyClipboard ==
    /\ widget.from < widget.to /\ clip # Clipped(widget)
    /\ Edits(widget) /\ clip' = Clipped(widget)

CutClipboard ==
    /\ widget.from < widget.to
    /\ Edits(DeletesSelection(widget)) /\ clip' = Clipped(widget)

\* html_paste_insert, with the cursor behind what was pasted.
ClosedUnless(w, keeps) == IF keeps THEN w ELSE CloseTags(w)
CursorBehind(w) == MarkSet(w, w.at)
InsertedAtCursor(w, tokens, plaintext) ==
    CursorBehind(InsertHtml(ClosedUnless(w, w.wbfo \/ plaintext), tokens, w.from,
                            IF plaintext THEN {} ELSE PasteOptions))
Pasted(w, tokens, plaintext) ==
    ClosedUnless(InsertedAtCursor(DeletesSelection(w), tokens, plaintext), w.wbfo \/ plaintext)

\* With the whole buffer in one format only plain text is asked for.
Paste ==
    LET markup == IF widget.wbfo THEN {} ELSE Document \cup {clip.html}
    IN  \E plaintext \in BOOLEAN : \E tokens \in IF plaintext THEN {clip.text} ELSE markup :
            /\ tokens # <<>> /\ Edits(Pasted(widget, tokens, plaintext))
            /\ UNCHANGED clip

\* gtk_html_link_drag_rcv_cb: markup at the cursor, the selection stays.
DropHtml(tokens) ==
    /\ \E insert \in {widget.from, widget.to} :
           Edits(InsertHtml(widget, tokens, insert, {}))
    /\ UNCHANGED clip

\* gtk_html_insert_link, for an address that is dropped.
DropLink(url) ==
    LET d == ToggleLink(DeletesSelection(widget), url) IN
    /\ Edits(ToggleLink(InsertCells(d, d.from, <<Says(d, "a")>>), Off))
    /\ UNCHANGED clip

HtmlNext ==
    \/ \E options \in MessageOptions : AppendStarts(options)
    \/ \E t \in MessageToken : AppendReads(t)
    \/ AppendEnds
    \/ \E d \in Document : AppendPreference(d)
    \/ \E from, to \in 0 .. MaxCells : \E insert \in {from, to} : Select(from, to, insert)
    \/ \E c \in {"a", "lt", "nl"} : TypeChar(c)
    \/ Backspace
    \/ \E c \in {"bold", "italics", "underline"} : ToggleFormat(c)
    \/ Shrink \/ Grow \/ ClearFormatting
    \/ CopyClipboard \/ CutClipboard \/ Paste
    \/ \E d \in Document : DropHtml(d)
    \/ DropLink("url")

HtmlSpec == HtmlInit /\ [][HtmlNext]_htmlVars

-----------------------------------------------------------------------------
(* Properties.  A size of 3 is the size of text without one.                *)

Shown(tags) == tags \ {<<"size", 3>>}

\* The text of a message has the formats of the elements it stands in, for
\* elements that nest and do not set one format by two kinds of element
\* (insert_html_at_iter's counters and its one stack for FONT and SPAN): the
\* formats of one element end with it, those outside come back, and nothing
\* of a message that leaves elements open reaches the next (close_tags).
FormatsAreNested ==
    ~widget.wbfo =>
        \A p \in DOMAIN widget.cells :
            LET cell == widget.cells[p] IN
            cell.plain => Shown(cell.tags) = Shown({<<c, cell.asked[c]>> :
                                                 c \in {d \in FormatClasses : cell.asked[d] # Off}})

\* What is saved comes back: the markup of any part of the text
\* (get_markup_range), read into an empty widget, is that part again with its
\* formats.  A rule brings new lines with it each time, and a size of 0 that the whole buffer may
\* get is lost: both are left aside.
Same(cells, others) ==
    /\ Len(cells) = Len(others)
    /\ \A p \in DOMAIN cells : cells[p].ch = others[p].ch /\ Shown(cells[p].tags) = Shown(others[p].tags)
MarkupComesBack ==
    ~reading /\ ~widget.wbfo /\ (\A p \in DOMAIN widget.cells : widget.cells[p].ch # "hr") =>
        \A from \in 0 .. Len(widget.cells) : \A to \in from .. Len(widget.cells) :
            Same(InsertHtml(NewWidget(FALSE, FALSE), MarkupRange(widget.cells, from, to), 0, {}).cells,
                 SubSeq(widget.cells, from + 1, to))

\* No character has two values of one class, whatever was selected, pasted
\* and dropped (remove_tag_by_prefix before every apply), and a widget whose
\* whole buffer has one format shows one.
OneOfEachClass ==
    /\ \A p \in DOMAIN widget.cells : \A t, u \in widget.cells[p].tags : t[1] = u[1] => t = u
    /\ widget.wbfo => \A p, q \in DOMAIN widget.cells :
           \A c \in HtmlFlags : OfClass(widget.cells[p].tags, c) = OfClass(widget.cells[q].tags, c)

\* The formats of a text are those its message asked for and survive editing, saving
\* and reading.
FormatsSurvive == FormatsAreNested /\ MarkupComesBack /\ OneOfEachClass
=============================================================================
