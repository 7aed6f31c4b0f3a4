------------------------------ MODULE TrayIcon ------------------------------
(***************************************************************************)
(* The icon in the system tray: beasy/gtkdocklet.c, which knows whether    *)
(* there is an icon and what it should show, and beasy/gtkdocklet-x11.c,   *)
(* which makes it.  The tray is another process: it takes the icon in late *)
(* or never, resizes it, and when it dies the icon dies with it and is     *)
(* made again when the program is next idle.                               *)
(*                                                                         *)
(* No message is ever pending (get_pending_list returns none), so the icon *)
(* does not blink and the tooltip is the title of the status.              *)
(***************************************************************************)
EXTENDS Integers

CONSTANTS
    StatusType,     \* the types of status
    TrayHeight      \* the sizes the tray gives the icon

VARIABLES
    docklet,        \* "none", "made" or "embedded" in the tray
    shown,          \* the image: nothing, or an icon and its size
    height,         \* docklet_height
    embedTimer,     \* "none", "running", or "over": it ended and its id was kept
    recreating,     \* docklet_x11_recreate_cb waits for the main loop to be idle
    tray,           \* gtkdocklet.c: visible, and the status it told the icon
    savedType,      \* the type of the current saved status
    program         \* "starting", "running" or "over"

trayVars == <<docklet, shown, height, embedTimer, recreating, tray, savedType, program>>

Nothing == [icon |-> "none", size |-> 0]
NoTray == [visible |-> FALSE, status |-> "offline"]

TrayInit ==
    /\ docklet = "none" /\ shown = Nothing /\ height = 0
    /\ embedTimer = "none" /\ recreating = FALSE
    /\ tray = NoTray
    /\ savedType \in StatusType
    /\ program = "starting"

\* docklet_x11_update_icon: the icon and its size, by the height.
IconOf(status) == IF status \in {"online", "busy", "unread"} THEN status ELSE "offline"
IconSize(h) == CASE h < 16 -> 1 [] 16 <= h /\ h < 32 -> 2 [] 32 <= h /\ h < 48 -> 3 [] OTHER -> 4
IconFor(status, h) == [icon |-> IconOf(status), size |-> IconSize(h)]

\* beasy_docklet_embedded: the icon is visible and gets the current status.
TrayEmbedded ==
    /\ tray' = [visible |-> TRUE, status |-> savedType]
    /\ shown' = IconFor(savedType, height)

\* beasy_docklet_remove.
TrayRemoved == tray' = IF tray.visible THEN NoTray ELSE tray

\* beasy_docklet_init: the icon counts as embedded from the start, for a while.
TrayStart ==
    /\ program = "starting" /\ program' = "running"
    /\ docklet' = "made"
    /\ TrayEmbedded
    /\ embedTimer' = "running"
    /\ UNCHANGED <<height, recreating, savedType>>

\* docklet_x11_embedded_cb.
TrayTakesIn ==
    /\ program = "running" /\ docklet = "made" /\ docklet' = "embedded"
    /\ embedTimer' = "none"
    /\ TrayEmbedded
    /\ UNCHANGED <<height, recreating, savedType, program>>

\* docklet_x11_embed_timeout_cb: the id is kept.
EmbedTimeout ==
    /\ program = "running" /\ embedTimer = "running" /\ embedTimer' = "over"
    /\ TrayRemoved
    /\ UNCHANGED <<docklet, shown, height, recreating, savedType, program>>

\* docklet_x11_destroyed_cb; the timer runs on.
TrayDies ==
    /\ program = "running" /\ docklet # "none" /\ docklet' = "none"
    /\ TrayRemoved
    /\ shown' = Nothing
    /\ recreating' = TRUE
    /\ UNCHANGED <<height, embedTimer, savedType, program>>

\* docklet_x11_recreate_cb: no timer this time, and nothing shown yet.
Recreate ==
    /\ program = "running" /\ recreating /\ recreating' = FALSE
    /\ docklet' = "made" /\ shown' = Nothing
    /\ UNCHANGED <<height, embedTimer, tray, savedType, program>>

\* Mutant: the image keeps the size it had.
TrayResizes_KeepsImage(h) ==
    /\ program = "running" /\ docklet # "none" /\ h # height
    /\ height' = h
    /\ UNCHANGED <<docklet, shown, embedTimer, recreating, tray, savedType, program>>

\* docklet_x11_resize_icon: nothing to do for the height it had.
TrayResizes(h) ==
    /\ program = "running" /\ docklet # "none" /\ h # height
    /\ height' = h
    /\ shown' = IconFor(tray.status, h)
    /\ UNCHANGED <<docklet, embedTimer, recreating, tray, savedType, program>>

\* The status changes; nobody calls docklet_update_status for it.
StatusChanges(type) ==
    /\ type # savedType /\ savedType' = type
    /\ UNCHANGED <<docklet, shown, height, embedTimer, recreating, tray, program>>

\* beasy_docklet_uninit and docklet_x11_destroy; the main loop ends after it.
TrayQuit ==
    /\ program = "running" /\ program' = "over"
    /\ IF tray.visible
       THEN /\ docklet' = "none" /\ shown' = Nothing
            /\ embedTimer' = IF embedTimer = "running" THEN "over" ELSE embedTimer
            /\ TrayRemoved
       ELSE UNCHANGED <<docklet, shown, embedTimer, tray>>
    /\ UNCHANGED <<height, recreating, savedType>>

TrayNext ==
    \/ TrayStart \/ TrayTakesIn \/ EmbedTimeout \/ TrayDies \/ Recreate \/ TrayQuit
    \/ \E h \in TrayHeight : TrayResizes(h)
    \/ \E type \in StatusType : StatusChanges(type)

TraySpec == TrayInit /\ [][TrayNext]_trayVars

\* An icon that is in the tray is one gtkdocklet.c counts as visible, it shows
\* the status gtkdocklet.c last heard of in the size of the tray, and the timer
\* of its start cannot take it down (embedded_cb removes it; a timer that a
\* dead icon left running is removed by the next one).  Without an icon
\* nothing counts as visible, so that quitting destroys only what there is.
TrayIconIsTrue ==
    /\ docklet = "embedded" => /\ tray.visible
                               /\ shown = IconFor(tray.status, height)
                               /\ embedTimer # "running"
    /\ docklet = "none" => ~tray.visible
=============================================================================
