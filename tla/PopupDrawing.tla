---------------------------- MODULE PopupDrawing ----------------------------
(***************************************************************************)
(* How a popup is drawn (gtkntf_notification_render, gtkntf_item.c,         *)
(* gtkntf_item_text.c, gtkntf_gtk_utils.c): the background is tiled over    *)
(* the popup, each item is given its place by a position and two offsets,   *)
(* the text of a text item is made from its format and shortened to the     *)
(* room there is, and what is drawn is clipped to the popup.                *)
(*                                                                          *)
(* One popup is drawn per behaviour: a state is what one function was given *)
(* and what it returned.  Every third character of a text is two columns    *)
(* wide, the others and the ellipsis, which is one character, are one.      *)
(***************************************************************************)
EXTENDS Integers, Sequences, FiniteSets

CONSTANTS PopupWidth,       \* popup widths
          ItemWidth,        \* item and tile widths
          Offset,           \* item offsets, in columns
          Percent,          \* item offsets, in per cent of the popup
          FormatChar,       \* characters of a format
          MaxFormat,        \* bound: length of a format
          TokensOfEvent,    \* the tokens an event offers: sets of characters
          MaxText,          \* bound: length of a text that is shortened
          Dots              \* the ellipsis

VARIABLES drawn,            \* what was drawn: its kind, "nothing" at first
          given,            \* what the function was given
          result            \* what it returned

drawingVars == <<drawn, given, result>>

ASSUME DrawingAssumption ==
  /\ PopupWidth \subseteq Nat \ {0}
  /\ ItemWidth \subseteq Nat \ {0}
  /\ Offset \subseteq Int /\ Percent \subseteq Int
  /\ MaxFormat \in Nat /\ MaxText \in Nat
  /\ Dots # -1 /\ Dots \notin 1 .. MaxText

-----------------------------------------------------------------------------
(***************************************************************************)
(* Positions.  Both axes are alike: north and west are the low end, south   *)
(* and east the high end, and the middle is that of both halves.  C's       *)
(* division truncates towards zero.                                         *)
(***************************************************************************)
Divided(a, b) == IF a >= 0 THEN a \div b ELSE -((-a) \div b)

OffsetIn(offset, size) ==
  IF offset.percentage THEN Divided(size * offset.value, 100) ELSE offset.value

RenderPosition(end, item, size, offset) ==
  CASE end = "low"    -> OffsetIn(offset, size)
    [] end = "middle" -> size \div 2 - item \div 2 + OffsetIn(offset, size)
    [] end = "high"   -> size - item + OffsetIn(offset, size)

(***************************************************************************)
(* gtkntf_gtk_pixbuf_clip_composite, along one axis: where the part of the  *)
(* item that is drawn begins, in the item and in the popup, and how wide it *)
(* is; a width of 0 when nothing is drawn.                                  *)
(***************************************************************************)
NothingDrawn == [from |-> 0, at |-> 0, width |-> 0]

\* Mutant: an item that begins left of the popup keeps its width.
ClipComposite_KeepsWidth(x, item, size) ==
  LET from  == IF x < 0 THEN -x ELSE 0
      at    == IF x < 0 THEN 0 ELSE x
      shown == IF at + item > size THEN size - at ELSE item
  IN IF x >= size \/ x + item <= 0 \/ shown <= 0 THEN NothingDrawn
     ELSE [from |-> from, at |-> at, width |-> shown]

ClipComposite(x, item, size) ==
  LET from  == IF x < 0 THEN -x ELSE 0
      at    == IF x < 0 THEN 0 ELSE x
      width == IF x < 0 THEN item + x ELSE item
      shown == IF at + width > size THEN size - (from + at) ELSE width
  IN IF x >= size \/ x + item <= 0 \/ shown <= 0 THEN NothingDrawn
     ELSE [from |-> from, at |-> at, width |-> shown]

\* gtkntf_gtk_pixbuf_tile, along one axis: the columns each tile is copied to.
PixbufTile(size, tile) ==
  [i \in 1 .. (size + tile - 1) \div tile |->
     [at |-> (i - 1) * tile,
      width |-> IF i * tile < size THEN tile ELSE size - (i - 1) * tile]]

-----------------------------------------------------------------------------
(***************************************************************************)
(* gtkntf_item_text_parse_format: a backslash is skipped, a token the event *)
(* does not offer leaves nothing behind, and the source (S) is followed by  *)
(* the title (R), whose case it falls through to.  A token stands for its   *)
(* value, any other character for itself.                                   *)
(***************************************************************************)
Literal(c) == <<"literal", c>>
Value(token) == <<"value", token>>

Expansion(c) ==
  CASE c = "%" -> <<Literal("%")>>
    [] c = "S" -> <<Value("S"), Value("R")>>
    [] c \in {"R", "r", "T"} -> <<Value(c)>>
    [] OTHER -> <<>>

\* One character more; percent: the character before it was the % of a token.
ReadChar(c, tokens, so) ==
  IF so.percent
  THEN [text |-> IF c \in tokens THEN so.text \o Expansion(c) ELSE so.text, percent |-> FALSE]
  ELSE [text    |-> IF c \in {"backslash", "%"} THEN so.text ELSE Append(so.text, Literal(c)),
        percent |-> c = "%"]

ParseFormat(format, tokens) ==
  LET after[i \in 0 .. Len(format)] ==
        IF i = 0 THEN [text |-> <<>>, percent |-> FALSE]
                 ELSE ReadChar(format[i], tokens, after[i - 1])
  IN after[Len(format)].text

-----------------------------------------------------------------------------
(***************************************************************************)
(* Clipping.  A text that is wider than the room loses a character at a     *)
(* time until it fits beside the ellipsis and the offset; what is left is   *)
(* joined with the ellipsis.  The loop has no way out when not even the     *)
(* empty text fits: that is Stuck.                                          *)
(***************************************************************************)
CharWidth(c) == IF c # Dots /\ c % 3 = 0 THEN 2 ELSE 1

TextWidth(text) ==
  LET width[n \in 0 .. Len(text)] == IF n = 0 THEN 0 ELSE width[n - 1] + CharWidth(text[n])
  IN width[Len(text)]

Stuck == <<-1>>
FirstOf(text, n) == SubSeq(text, 1, n)
LastOf(text, n) == SubSeq(text, Len(text) - n + 1, Len(text))

\* text_ellipsis_middle's halves; of an even length the right one is the shorter.
LeftHalf(text)  == FirstOf(text, Len(text) \div 2)
RightHalf(text) ==
  IF text = <<>> THEN <<>>
  ELSE LastOf(text, IF Len(text) % 2 = 0 THEN Len(text) \div 2 - 1 ELSE Len(text) \div 2)

OneLess(clipping, text) ==
  IF text = <<>> THEN <<>>
  ELSE CASE clipping \in {"truncate", "ellipsis-end"} -> FirstOf(text, Len(text) - 1)
         [] clipping = "ellipsis-start"  -> LastOf(text, Len(text) - 1)
         [] clipping = "ellipsis-middle" -> LeftHalf(text) \o RightHalf(text)

Shortened(clipping, text, room) ==
  LET after[n \in 0 .. Len(text)] ==
        IF n = 0 THEN text ELSE OneLess(clipping, after[n - 1])
      fits == {n \in 0 .. Len(text) : TextWidth(after[n]) <= room}
  IN IF fits = {} THEN Stuck
     ELSE after[CHOOSE n \in fits : \A m \in fits : n <= m]

WithEllipsis(clipping, text) ==
  IF text = Stuck THEN Stuck
  ELSE CASE clipping = "truncate"        -> text
         [] clipping = "ellipsis-end"    -> text \o <<Dots>>
         [] clipping = "ellipsis-start"  -> <<Dots>> \o text
         [] clipping = "ellipsis-middle" -> LeftHalf(text) \o <<Dots>> \o RightHalf(text)

\* An item's own width counts without its offset.
WidthFor(itemWidth, size) == IF itemWidth = 0 THEN size ELSE itemWidth
LeftFor(itemWidth, offset, size) ==
  WidthFor(itemWidth, size) - (IF itemWidth = 0 THEN OffsetIn(offset, size) ELSE 0)
RoomFor(clipping, itemWidth, offset, size) ==
  LeftFor(itemWidth, offset, size) - (IF clipping = "truncate" THEN 0 ELSE TextWidth(<<Dots>>))

\* gtkntf_item_text_clip.
Clip(clipping, text, itemWidth, offset, size) ==
  IF TextWidth(text) <= WidthFor(itemWidth, size) THEN text
  ELSE WithEllipsis(clipping, Shortened(clipping, text, RoomFor(clipping, itemWidth, offset, size)))

TextOfLength(length) == [i \in 1 .. length |-> i]

-----------------------------------------------------------------------------
Offsets == [value : Offset, percentage : {FALSE}] \cup [value : Percent, percentage : {TRUE}]
Clippings == {"truncate", "ellipsis-start", "ellipsis-middle", "ellipsis-end"}

DrawingInit ==
  /\ drawn = "nothing"
  /\ given = <<>>
  /\ result = <<>>

\* gtkntf_item_icon_render, gtkntf_item_image_render and the end of
\* gtkntf_item_text_render.
DrawItem(end, item, size, offset) ==
  LET x == RenderPosition(end, item, size, offset)
  IN /\ drawn' = "item"
     /\ given' = <<end, item, size, offset, x>>
     /\ result' = ClipComposite(x, item, size)

DrawBackground(size, tile) ==
  /\ drawn' = "background"
  /\ given' = <<size, tile>>
  /\ result' = PixbufTile(size, tile)

MakeText(format, tokens) ==
  /\ drawn' = "format"
  /\ given' = <<format, tokens>>
  /\ result' = ParseFormat(format, tokens)

ClipText(clipping, length, itemWidth, offset, size) ==
  /\ drawn' = "text"
  /\ given' = <<clipping, length, itemWidth, offset, size>>
  /\ result' = Clip(clipping, TextOfLength(length), itemWidth, offset, size)

DrawingNext ==
  /\ drawn = "nothing"
  /\ \/ \E end \in {"low", "middle", "high"}, item \in ItemWidth, size \in PopupWidth,
           offset \in Offsets : DrawItem(end, item, size, offset)
     \/ \E size \in PopupWidth, tile \in ItemWidth : DrawBackground(size, tile)
     \/ \E n \in 0 .. MaxFormat, tokens \in TokensOfEvent :
          \E format \in [1 .. n -> FormatChar] : MakeText(format, tokens)
     \/ \E clipping \in Clippings, length \in 0 .. MaxText, size \in PopupWidth,
           offset \in Offsets, itemWidth \in {0} \cup ItemWidth :
          ClipText(clipping, length, itemWidth, offset, size)

DrawingSpec == DrawingInit /\ [][DrawingNext]_drawingVars

-----------------------------------------------------------------------------
(***************************************************************************)
(* Nothing is drawn outside the popup or read outside the item: each column *)
(* that is drawn shows the item's column that lies there, an item that fits *)
(* and has no offset is drawn whole, one that reaches over one edge loses   *)
(* only what is beyond it, and the tiles cover the popup once.              *)
(***************************************************************************)
PaintedInside ==
  /\ drawn = "item" =>
       LET item == given[2]  size == given[3]  x == given[5]
       IN result # NothingDrawn \/ (x + item > 0 /\ x < size) =>
            /\ result.at >= 0 /\ result.at + result.width <= size
            /\ result.from >= 0 /\ result.from + result.width <= item
            /\ result.width > 0 => result.at = x + result.from
            /\ given[4].value = 0 /\ item <= size => result.width = item
            /\ ~(x < 0 /\ x + item > size) /\ x + item > 0 /\ x < size =>
                 \A column \in 0 .. size - 1 :
                   (column \in x .. x + item - 1) <=>
                   (column \in result.at .. result.at + result.width - 1)
  /\ drawn = "background" =>
       \A column \in 0 .. given[1] - 1 :
         Cardinality({i \in DOMAIN result :
            column \in result[i].at .. result[i].at + result[i].width - 1}) = 1

(***************************************************************************)
(* A text that is not too wide stays as it is.  One that is shortened fits, *)
(* beside its offset and its ellipsis, keeps the ends its kind of clipping  *)
(* keeps, and has lost no more characters than it had to, or one more in    *)
(* the middle; a text is never shortened only when not even the ellipsis    *)
(* has room.  And a token the event does not offer leaves no trace.         *)
(***************************************************************************)
Kept(clipping, text, n) ==
  CASE clipping \in {"truncate", "ellipsis-end"} -> FirstOf(text, n)
    [] clipping = "ellipsis-start"  -> LastOf(text, n)
    [] clipping = "ellipsis-middle" -> FirstOf(text, (n + 1) \div 2) \o LastOf(text, n \div 2)

KeptWithEllipsis(clipping, text, n) ==
  CASE clipping = "truncate"        -> FirstOf(text, n)
    [] clipping = "ellipsis-end"    -> FirstOf(text, n) \o <<Dots>>
    [] clipping = "ellipsis-start"  -> <<Dots>> \o LastOf(text, n)
    [] clipping = "ellipsis-middle" ->
         FirstOf(text, (n + 1) \div 2) \o <<Dots>> \o LastOf(text, n \div 2)

ShortenedToFit(clipping, text, shown, left, room) ==
  \E n \in 0 .. Len(text) :
    LET more == n + (IF clipping = "ellipsis-middle" THEN 2 ELSE 1)
    IN /\ shown = KeptWithEllipsis(clipping, text, n)
       /\ TextWidth(shown) <= left
       /\ more <= Len(text) => TextWidth(Kept(clipping, text, more)) > room

TextFits ==
  drawn = "text" =>
    LET clipping == given[1]  text == TextOfLength(given[2])
        itemWidth == given[3]  offset == given[4]  size == given[5]
        room == RoomFor(clipping, itemWidth, offset, size)
    IN IF TextWidth(text) <= WidthFor(itemWidth, size) THEN result = text
       ELSE IF result = Stuck THEN room < 0
       ELSE ShortenedToFit(clipping, text, result, LeftFor(itemWidth, offset, size), room)

NoTraceLeft ==
  drawn = "format" =>
    LET format == given[1]  tokens == given[2]
    IN \A i \in 1 .. Len(format) - 1 :
         /\ format[i] = "%" /\ format[i + 1] \notin tokens
         /\ i > 1 => format[i - 1] # "%"
         => result = ParseFormat(FirstOf(format, i - 1) \o LastOf(format, Len(format) - i - 1), tokens)

\* What is drawn of an item, a background or a text fits in where it goes.
DrawnInside == PaintedInside /\ TextFits /\ NoTraceLeft
=============================================================================
