----------------------------- MODULE ThemeFiles -----------------------------
(***************************************************************************)
(* The popup theme editor's files (gtkntf_theme.c, gtkntf_notification.c,   *)
(* gtkntf_item*.c): a theme.xml is read into a theme, a copy of the theme   *)
(* is renamed, given a directory and written to a theme.xml of its own,     *)
(* and that file is read again when the list of themes is refreshed.        *)
(*                                                                          *)
(* An attribute or a child that may be missing is <<>> or <<value>>; what a *)
(* reader returns is <<>> for NULL and <<object>> otherwise.  A name is a   *)
(* sequence of kinds of characters.                                         *)
(***************************************************************************)
EXTENDS Integers, Sequences, SequencesExt

CONSTANTS ThemeFile,        \* the theme files there are to read
          MinimumSize       \* GTKNTF_NOTIFICATION_MIN

VARIABLES original,         \* the file a copy is asked for
          theme,            \* what it was read into
          copyDir,          \* the directory of the copy, a name
          copyFile,         \* the theme.xml written there
          copied            \* what that was read into, at the refresh

themeFileVars == <<original, theme, copyDir, copyFile, copied>>

-----------------------------------------------------------------------------
Missing == <<>>
ValueOr(attribute, default) ==
  IF attribute = Missing THEN default ELSE attribute[1]

ItemTypes == {"icon", "image", "text"}
Positions == {"north-west", "north", "north-east", "west", "center", "east",
              "south-west", "south", "south-east"}
IconTypes == {"system", "file"}
IconSizes == {"tiny", "small", "little", "normal", "big", "large", "huge"}

(***************************************************************************)
(* Offsets.  An element's value is <<n, percent sign>>; an item that has no *)
(* offset element, or one without a value, gets an offset of 0.             *)
(***************************************************************************)
ReadOffset(value) ==
  IF value = Missing THEN [value |-> 0, percentage |-> FALSE]
  ELSE [value |-> value[1], percentage |-> value[2]]

\* Mutant: the percent sign is forgotten when an offset is written.
WrittenOffset_Plain(offset) == <<offset.value, FALSE>>

WrittenOffset(offset) == <<offset.value, offset.percentage>>

(***************************************************************************)
(* What an item shows.  An icon of type "file" is called after the type of  *)
(* its notification; a text has no default for its format, and a width of 0 *)
(* stands for the width of the popup.                                       *)
(***************************************************************************)
ReadIcon(element, noteType) ==
  IF element.type \in IconTypes /\ element.size \in IconSizes
    THEN <<[type |-> element.type, size |-> element.size,
            filename |-> IF element.type = "file" THEN <<noteType>> ELSE Missing]>>
    ELSE <<>>

WrittenIcon(icon) == [type |-> icon.type, size |-> icon.size]

ReadImage(element) == <<[filename |-> element.filename]>>
WrittenImage(image) == [filename |-> image.filename]

ReadText(element) ==
  IF element.format = Missing THEN <<>>
  ELSE <<[format |-> element.format, font |-> element.font, color |-> element.color,
          clipping |-> element.clipping, width |-> ValueOr(element.width, 0)]>>

WrittenText(text) ==
  [format |-> text.format, font |-> text.font, color |-> text.color,
   clipping |-> text.clipping,
   width |-> IF text.width >= 0 THEN <<text.width>> ELSE Missing]

ReadShown(element, noteType) ==
  IF element.shown = Missing THEN <<>>
  ELSE CASE element.type = "icon"  -> ReadIcon(element.shown[1], noteType)
         [] element.type = "image" -> ReadImage(element.shown[1])
         [] element.type = "text"  -> ReadText(element.shown[1])

WrittenShown(item) ==
  CASE item.type = "icon"  -> <<WrittenIcon(item.shown)>>
    [] item.type = "image" -> <<WrittenImage(item.shown)>>
    [] item.type = "text"  -> <<WrittenText(item.shown)>>

ReadItem(element, noteType) ==
  LET shown == ReadShown(element, noteType)
  IN IF \/ element.type \notin ItemTypes
        \/ ValueOr(element.position, "none") \notin Positions
        \/ shown = <<>>
       THEN <<>>
       ELSE <<[type |-> element.type, position |-> element.position[1],
               h_offset |-> ReadOffset(element.h_offset),
               v_offset |-> ReadOffset(element.v_offset),
               shown |-> shown[1]]>>

WrittenItem(item) ==
  [type |-> item.type, position |-> <<item.position>>,
   h_offset |-> WrittenOffset(item.h_offset),
   v_offset |-> WrittenOffset(item.v_offset),
   shown |-> WrittenShown(item)]

(***************************************************************************)
(* Notifications.  One that is drawn on the GTK background has a minimum    *)
(* size, another one needs a background image; an item that cannot be read  *)
(* is left out of its notification, and such a notification of its theme.   *)
(***************************************************************************)
ReadNotification(element) ==
  LET gtk    == ValueOr(element.use_gtk, TRUE)
      width  == ValueOr(element.width, 120)
      height == ValueOr(element.height, 140)
  IN IF \/ element.type = Missing
        \/ gtk /\ (width < MinimumSize \/ height < MinimumSize)
        \/ ~gtk /\ element.background = Missing
       THEN <<>>
       ELSE <<[n_type |-> element.type[1], use_gtk |-> gtk,
               background |-> element.background, alias |-> element.alias,
               width |-> width, height |-> height,
               items |-> FlattenSeq([i \in DOMAIN element.items |->
                                       ReadItem(element.items[i], element.type[1])])]>>

WrittenNotification(note) ==
  [type |-> <<note.n_type>>, use_gtk |-> <<note.use_gtk>>,
   background |-> note.background, alias |-> note.alias,
   width |-> <<note.width>>, height |-> <<note.height>>,
   items |-> [i \in DOMAIN note.items |-> WrittenItem(note.items[i])]]

(***************************************************************************)
(* Themes.  The master is the last notification of that type the file has,  *)
(* noted before its other attributes are looked at: when it is then left    *)
(* out, the theme keeps the address of a notification that was freed.       *)
(***************************************************************************)
LeftOut == -1

MasterOf(elements) ==
  LET isMaster(i) == elements[i].type = <<"!master">>
      masters == {i \in DOMAIN elements : isMaster(i)}
      last    == CHOOSE i \in masters : \A j \in masters : j <= i
      before  == FlattenSeq([i \in 1 .. last |-> ReadNotification(elements[i])])
  IN IF masters = {} THEN 0
     ELSE IF ReadNotification(elements[last]) = <<>> THEN LeftOut
     ELSE Len(before)

InfoFields == {"name", "version", "summary", "description", "author", "website"}
OptionDefault ==
  [date_format |-> "%x", time_format |-> "%X", warning |-> "N/A", ellipsis |-> "..."]

ReadInfo(element) == [field \in InfoFields |-> element[field]]

ReadOptions(element) ==
  [field \in DOMAIN OptionDefault |-> ValueOr(element[field], OptionDefault[field])]

WrittenOptions(options) == [field \in DOMAIN options |-> <<options[field]>>]

NewFromFile(file) ==
  IF \/ ~file.parses \/ ~file.apiMatches
     \/ file.info = Missing \/ file.options = Missing
    THEN <<>>
    ELSE <<[info          |-> ReadInfo(file.info[1]),
            ops           |-> ReadOptions(file.options[1]),
            notifications |-> FlattenSeq([i \in DOMAIN file.notifications |->
                                            ReadNotification(file.notifications[i])]),
            master        |-> MasterOf(file.notifications)]>>

SaveToFile(t) ==
  [parses |-> TRUE, apiMatches |-> TRUE,
   info |-> <<t.info>>, options |-> <<WrittenOptions(t.ops)>>,
   notifications |-> [i \in DOMAIN t.notifications |->
                        WrittenNotification(t.notifications[i])]]

-----------------------------------------------------------------------------
(***************************************************************************)
(* The copy's name, and the directory it is written to: a leading dot goes, *)
(* as do the characters a file name may not have; a blank becomes "_".      *)
(***************************************************************************)
CopyName(t) ==
  IF t.info.name = Missing THEN <<"untitled", " ", "(copy)">>
  ELSE t.info.name[1] \o <<" ", "(copy)">>

StripName(name) ==
  LET from == IF name[1] = "." /\ Len(name) > 1 THEN Tail(name) ELSE name
      kept == SelectSeq(from, LAMBDA c : c # "/")
  IN [i \in DOMAIN kept |-> IF kept[i] = " " THEN "_" ELSE kept[i]]

-----------------------------------------------------------------------------
ThemeFilesInit ==
  /\ original = Missing
  /\ theme = <<>>
  /\ copyDir = <<>>
  /\ copyFile = Missing
  /\ copied = Missing

\* theme_list_copy_cb up to the return it leaves by when nothing was read.
OpenTheme(file) ==
  /\ original = Missing
  /\ original' = <<file>>
  /\ theme' = NewFromFile(file)
  /\ UNCHANGED <<copyDir, copyFile, copied>>

\* The rest of theme_list_copy_cb.
WriteCopy ==
  /\ theme # <<>>
  /\ copyFile = Missing
  /\ LET name    == CopyName(theme[1])
         renamed == [theme[1] EXCEPT !.info.name = <<name>>]
     IN /\ copyDir' = StripName(name)
        /\ copyFile' = <<SaveToFile(renamed)>>
  /\ UNCHANGED <<original, theme, copied>>

\* create_theme_store reads the copy as it reads every theme it lists.
RefreshList ==
  /\ copyFile # Missing
  /\ copied = Missing
  /\ copied' = <<NewFromFile(copyFile[1])>>
  /\ UNCHANGED <<original, theme, copyDir, copyFile>>

ThemeFilesNext ==
  \/ \E file \in ThemeFile : OpenTheme(file)
  \/ WriteCopy
  \/ RefreshList

ThemeFilesSpec == ThemeFilesInit /\ [][ThemeFilesNext]_themeFileVars

-----------------------------------------------------------------------------
(***************************************************************************)
(* A copy is the theme it was made from: reading the file that was written  *)
(* drops no notification and no item, gives every one the attributes the    *)
(* original had, and changes the name only; its master is one of its        *)
(* notifications even when the original's was left out; and it lies in one  *)
(* directory below the themes, whatever its name is.                        *)
(***************************************************************************)
CopyIsTheSame ==
  /\ copyFile # Missing => \A i \in DOMAIN copyDir : copyDir[i] \notin {"/", " "}
  /\ copied # Missing =>
       /\ copied[1] # <<>>
       /\ LET is  == copied[1][1]
              was == theme[1]
          IN /\ is.notifications = was.notifications
             /\ is.ops = was.ops
             /\ \A field \in InfoFields \ {"name"} : is.info[field] = was.info[field]
             /\ is.master \in 0 .. Len(is.notifications)
             /\ was.master # LeftOut => is.master = was.master
=============================================================================
