------------------------------ MODULE Notices ------------------------------
(***************************************************************************)
(* What the user sees of a notify-* signal: beasy/gtkntf_event.c,          *)
(* gtkntf_event_info.c, gtkntf_display.c and gtkntf_action.c with the      *)
(* windows of liboul/notify.c and beasy/gtkntf.c.                          *)
(*                                                                         *)
(* A popup grows into the screen, stands there, shrinks and goes, driven   *)
(* by one timer after the other; popups are stacked along an edge of the   *)
(* screen, and a new one may push the oldest out.  A click closes a popup  *)
(* or opens a window with the details its plugin left behind.  Windows are *)
(* listed in notify.c with the handle they were opened for, so that the    *)
(* windows of a plugin go when it is unloaded.                             *)
(*                                                                         *)
(* Events the user does not want to see, and those that arrive while the   *)
(* screen saver runs, change nothing.  The preferences only a new popup    *)
(* reads are chosen when it is made.                                       *)
(***************************************************************************)
EXTENDS Naturals, FiniteSets, SequencesExt

CONSTANTS
    Popup,          \* addresses of GtkNtfDisplay
    Sizes,          \* sizes <<width, height>> of rendered popups
    Throttles,      \* values of the throttle preference, 0 for no limit
    Rounds,         \* frames of growing, and of shrinking
    Plugin,         \* plugins that emit notify-* and open windows
    Window,         \* addresses of windows
    MaxEntries      \* bound on the list of windows, which keeps closed ones

ASSUME NoticesAssumption ==
    /\ Sizes \subseteq (Nat \ {0}) \X (Nat \ {0})
    /\ Throttles \subseteq Nat /\ Throttles # {}
    /\ Rounds \in Nat \ {0}
    /\ MaxEntries \in Nat
    /\ Plugin \cap {"other", "none"} = {}

VARIABLES
    displays,       \* popups in order of arrival
    popup,          \* GtkNtfDisplay and its GtkNtfEventInfo
    timers,         \* pending timers: <<popup, callback>>
    vertical,       \* popups are stacked along a vertical edge
    loaded,         \* plugins loaded
    extra,          \* plugin->extra: there are details of its last report
    handles,        \* notify.c: list of [handle, ui]
    window          \* for whom the window at an address was opened, or "none"

popups == <<displays, popup, timers>>
windows == <<handles, window>>
vars == <<popups, vertical, loaded, extra, windows>>

Unused == [state |-> "unused", timer |-> "none", round |-> 0, size |-> <<0, 0>>,
           part |-> <<0, 0>>, at |-> 0, source |-> "none"]
Other == "other"    \* the handle of windows that belong to no plugin

-----------------------------------------------------------------------------
(* Layout.  s is what a handler works on: list, pop and timers; v says      *)
(* whether the stack is vertical.                                           *)

Extent(size, v) == IF v THEN size[2] ELSE size[1]

\* What the sizes of the first n popups of a list add up to.
Span(list, size, n, v) ==
    LET sum[i \in 0..n] == IF i = 0 THEN 0 ELSE sum[i - 1] + Extent(size[list[i]], v)
    IN sum[n]

\* How many popups are before p: all when it is not in the list yet.
Before(list, p) ==
    IF Contains(list, p) THEN (CHOOSE i \in DOMAIN list : list[i] = p) - 1 ELSE Len(list)

\* Where gtkntf_display_position puts a popup: behind those before it.
Total(s, p, v) == Span(s.list, [q \in Popup |-> s.pop[q].size], Before(s.list, p), v)

\* gtkntf_displays_position
Positioned(s, v) ==
    [s EXCEPT !.pop = [p \in Popup |->
        IF Contains(s.list, p) THEN [@[p] EXCEPT !.at = Total(s, p, v)] ELSE @[p]]]

\* gtkntf_display_calculate_change: the sides grow by DELTA_SIZE (4/3) from frame
\* to frame and are rounded, to no less than 1.
Change(total, round) ==
    LET k == Rounds - round
        c == (2 * total * 3^k + 4^k) \div (2 * 4^k)
    IN IF c \in Nat \ {0} THEN c ELSE 1

\* What a frame draws.
Partial(size, round, v) ==
    IF v THEN <<size[1], Change(size[2], round)>> ELSE <<Change(size[1], round), size[2]>>

-----------------------------------------------------------------------------
(* Popups *)

Now == [list |-> displays, pop |-> popup, timers |-> timers]
Becomes(s) == displays' = s.list /\ popup' = s.pop /\ timers' = s.timers

\* gtkntf_event_info_destroy removes the timer the info knows of.
Removed(s, p) ==
    [list |-> RemoveAt(s.list, Before(s.list, p) + 1), pop |-> [s.pop EXCEPT ![p] = Unused],
     timers |-> s.timers \ {<<p, s.pop[p].timer>>}]

\* Mutant: the popups behind the destroyed one stay where they are
Destroyed_NotMoved(p) == Becomes(Removed(Now, p))

\* gtkntf_display_destroy
Destroyed(p) == \E s \in {Removed(Now, p)} : Becomes(Positioned(s, vertical))

\* gtkntf_display_condense: the oldest popup makes room.
Condensed(s, throttle, v) ==
    IF throttle > 0 /\ Len(s.list) + 1 > throttle THEN Positioned(Removed(s, Head(s.list)), v) ELSE s

\* gtkntf_display_show_event, a popup that is rendered
Shown(s, p, source, size, animate, v) ==
    LET timer == IF animate THEN "grow" ELSE "destroy"
        new == [state |-> IF animate THEN "showing" ELSE "shown", timer |-> timer,
                round |-> 0, size |-> size, part |-> IF animate THEN <<0, 0>> ELSE size,
                at |-> Total(s, p, v), source |-> source]
    IN [list |-> Append(s.list, p), pop |-> [s.pop EXCEPT ![p] = new],
        timers |-> s.timers \cup {<<p, timer>>}]

\* A plugin emits a signal that is to be shown: gtkntf_event_common.  Room has
\* been made before it turns out that the popup cannot be rendered.  The new
\* popup never has the address of the one that made room, to tell them apart.
ShowEvent(source) ==
    \E throttle \in Throttles :
       LET s == Condensed(Now, throttle, vertical)
       IN \/ Becomes(Positioned(s, vertical))
          \/ \E p \in Popup : /\ popup[p] = Unused
                              /\ \A q \in Popup : popup[q] = Unused => p <= q
                              /\ \E size \in Sizes, animate \in BOOLEAN :
                                    Becomes(Shown(s, p, source, size, animate, vertical))

\* gtkntf_display_animate: draw, and destroy the popup if that fails; then the
\* next round, and at the end the next timer.
Frame(p) ==
    LET d == popup[p]
        drawn == [d EXCEPT !.part = Partial(d.size, d.round, vertical),
                           !.at = Total(Now, p, vertical)]
    IN /\ <<p, d.timer>> \in timers /\ d.timer \in {"grow", "shrink"}
       /\ \/ Destroyed(p)
          \/ /\ d.state = "showing" /\ d.round + 1 <= Rounds
             /\ popup' = [popup EXCEPT ![p] = [drawn EXCEPT !.round = @ + 1]]
             /\ UNCHANGED <<displays, timers>>
          \/ /\ d.state = "showing" /\ d.round + 1 > Rounds
             /\ popup' = [popup EXCEPT ![p] = [drawn EXCEPT !.round = Rounds - 1,
                             !.state = "shown", !.timer = "shown"]]
             /\ timers' = (timers \ {<<p, "grow">>}) \cup {<<p, "shown">>}
             /\ UNCHANGED displays
          \/ /\ d.state = "hiding" /\ d.round - 1 > 0
             /\ popup' = [popup EXCEPT ![p] = [drawn EXCEPT !.round = @ - 1]]
             /\ UNCHANGED <<displays, timers>>
          \/ /\ d.state = "hiding" /\ d.round - 1 <= 0
             /\ Destroyed(p)
    /\ UNCHANGED <<vertical, loaded, extra, windows>>

\* Mutant: the popup is to be hidden, but no timer does it
ShownCb_NoTimer(p) ==
    /\ <<p, "shown">> \in timers
    /\ popup' = [popup EXCEPT ![p].state = "hiding", ![p].timer = "none"]
    /\ timers' = timers \ {<<p, "shown">>}
    /\ UNCHANGED <<displays, vertical, loaded, extra, windows>>

\* gtkntf_display_shown_cb
ShownCb(p) ==
    /\ <<p, "shown">> \in timers
    /\ popup' = [popup EXCEPT ![p].state = "hiding", ![p].timer = "shrink"]
    /\ timers' = (timers \ {<<p, "shown">>}) \cup {<<p, "shrink">>}
    /\ UNCHANGED <<displays, vertical, loaded, extra, windows>>

\* gtkntf_display_destroy_cb, of a popup without animation
DestroyCb(p) ==
    /\ <<p, "destroy">> \in timers
    /\ Destroyed(p)
    /\ UNCHANGED <<vertical, loaded, extra, windows>>

\* gtkntf_action_execute_close, the action of one mouse button
ClickClose(p) ==
    /\ Contains(displays, p)
    /\ Destroyed(p)
    /\ UNCHANGED <<vertical, loaded, extra, windows>>

\* gtkntf_display_position_changed_cb
Turn ==
    /\ vertical' = ~vertical
    /\ Becomes(Positioned(Now, vertical'))
    /\ UNCHANGED <<loaded, extra, windows>>

-----------------------------------------------------------------------------
(* Windows *)

\* oul_notify_message, oul_notify_formatted, oul_notify_table
Opens(handle, w) ==
    /\ window[w] = "none"
    /\ window' = [window EXCEPT ![w] = handle]
    /\ handles' = Append(handles, [handle |-> handle, ui |-> w])

\* gtkntf_action_execute_info, the action of the other mouse button: the details
\* the plugin left behind are shown once.  The popup stays.
ClickInfo(p) ==
    /\ Contains(displays, p) /\ extra[popup[p].source]
    /\ Len(handles) < MaxEntries
    /\ \E w \in Window : Opens(Other, w)
    /\ extra' = [extra EXCEPT ![popup[p].source] = FALSE]
    /\ UNCHANGED <<popups, vertical, loaded>>

\* A plugin opens a window of its own.
OpenWindow(p) ==
    /\ p \in loaded
    /\ Len(handles) < MaxEntries
    /\ \E w \in Window : Opens(p, w)
    /\ UNCHANGED <<popups, vertical, loaded, extra>>

\* oul_notify_close, for Escape, the title bar, and the buttons of messages: the
\* first entry for that address.
Close(w) ==
    /\ window[w] # "none" /\ \E i \in DOMAIN handles : handles[i].ui = w
    /\ handles' = RemoveFirstMatch(handles, LAMBDA e : e.ui = w)
    /\ window' = [window EXCEPT ![w] = "none"]
    /\ UNCHANGED <<popups, vertical, loaded, extra>>

\* The Close button of beasy_notify_formatted and beasy_notify_table destroys the
\* window, and notify.c does not hear of it.
CloseButton(w) ==
    /\ window[w] # "none"
    /\ window' = [window EXCEPT ![w] = "none"]
    /\ UNCHANGED <<popups, vertical, loaded, extra, handles>>

\* The enumeration of some positions in their order.
InOrder(S) == {f \in [1..Cardinality(S) -> S] : \A i, j \in DOMAIN f : i < j => f[i] < f[j]}

\* Mutant: the entry behind a closed one is skipped
ClosedFor_Skips(h) ==
    {i \in DOMAIN handles : handles[i].handle = h /\ (i = 1 \/ handles[i - 1].handle # h)}

\* oul_notify_close_with_handle: the entries it finds.
ClosedFor(h) == {i \in DOMAIN handles : handles[i].handle = h}

-----------------------------------------------------------------------------
(* Plugins *)

\* A plugin reports, and leaves details or not.
Report(p) ==
    /\ p \in loaded
    /\ ShowEvent(p)
    /\ \E details \in BOOLEAN : extra' = [extra EXCEPT ![p] = @ \/ details]
    /\ UNCHANGED <<vertical, loaded, windows>>

Load(p) ==
    /\ p \notin loaded
    /\ loaded' = loaded \cup {p}
    /\ UNCHANGED <<popups, vertical, extra, windows>>

\* oul_plugin_unload: every entry with its handle goes, and with it whatever
\* window is at that address.
Unload(p) ==
    /\ p \in loaded
    /\ loaded' = loaded \ {p}
    /\ LET gone == ClosedFor(p)
       IN /\ window' = [w \in Window |-> IF \E i \in gone : handles[i].ui = w THEN "none"
                                         ELSE window[w]]
          /\ \E kept \in InOrder(DOMAIN handles \ gone) :
                handles' = [k \in DOMAIN kept |-> handles[kept[k]]]
    /\ UNCHANGED <<popups, vertical, extra>>

-----------------------------------------------------------------------------
Init ==
    /\ displays = <<>>
    /\ popup = [p \in Popup |-> Unused]
    /\ timers = {}
    /\ vertical \in BOOLEAN
    /\ loaded = {}
    /\ extra = [p \in Plugin |-> FALSE]
    /\ handles = <<>>
    /\ window = [w \in Window |-> "none"]

Timer(p) == Frame(p) \/ ShownCb(p) \/ DestroyCb(p)

Next ==
    \/ \E p \in Popup : Timer(p) \/ ClickClose(p) \/ ClickInfo(p)
    \/ Turn
    \/ \E w \in Window : Close(w) \/ CloseButton(w)
    \/ \E p \in Plugin : Report(p) \/ OpenWindow(p) \/ Load(p) \/ Unload(p)

Spec == Init /\ [][Next]_vars

\* The main loop dispatches every timer that is due.
FairSpec == Spec /\ \A p \in Popup : WF_vars(Timer(p))

-----------------------------------------------------------------------------
(* Properties *)

PopupState == {"unused", "showing", "shown", "hiding"}
TimerNames == {"grow", "shown", "shrink", "destroy"}
Displays == [state : PopupState, timer : TimerNames \cup {"none"}, round : Nat,
             size : Nat \X Nat, part : Nat \X Nat, at : Nat, source : Plugin \cup {"none"}]
Entries == [handle : Plugin \cup {Other}, ui : Window]

\* gtkntf_display.c, notify.c: every variable has its type, and exactly the
\* listed popups are in use.
TypeOK ==
    /\ displays \in Seq(Popup) /\ IsInjective(displays)
    /\ popup \in [Popup -> Displays]
    /\ timers \subseteq Popup \X TimerNames
    /\ vertical \in BOOLEAN
    /\ loaded \subseteq Plugin
    /\ extra \in [Plugin -> BOOLEAN]
    /\ handles \in Seq(Entries)
    /\ window \in [Window -> Plugin \cup {Other, "none"}]
    /\ \A p \in Popup : popup[p] # Unused <=> Contains(displays, p)

\* gtkntf_event_info_set_timeout_id: the timers pending are exactly those the
\* popups on the screen know of.  None fires for a popup that was destroyed, and
\* no popup is forgotten by its timer, whatever destroys it in whatever state.
TimersAreOwned ==
    timers = {<<p, popup[p].timer>> : p \in ToSet(displays)}

\* gtkntf_display_position: popups never overlap and leave no gap, although they
\* come, go and are turned while others are half drawn.
Stacked ==
    \A i \in DOMAIN displays :
       popup[displays[i]].at =
          Span(displays, [p \in Popup |-> popup[p].size], i - 1, vertical)

\* gtkntf_display_condense: the highest limit ever set is kept to, although a
\* new popup removes only one old popup.
AtMostThrottle ==
    0 \notin Throttles => \E t \in Throttles : Len(displays) <= t

\* The popups on the screen are owned by their timers, in their places and not
\* too many.
PopupsAreSound == TypeOK /\ TimersAreOwned /\ Stacked /\ AtMostThrottle

\* oul_notify_close_with_handle: a plugin that is not loaded has no window left
\* and no entry that could close somebody else's, although closed windows stay
\* listed and their addresses are used again.
UnloadedHasNoWindow ==
    \A p \in Plugin \ loaded :
       /\ \A w \in Window : window[w] # p
       /\ \A i \in DOMAIN handles : handles[i].handle # p

\* gtkntf_display.c: every popup leaves the screen without being clicked.
PopupsGo == \A p \in Popup : Contains(displays, p) ~> ~Contains(displays, p)
=============================================================================
