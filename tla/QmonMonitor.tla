---------------------------- MODULE QmonMonitor ----------------------------
(***************************************************************************)
(* The work queue monitor, plugins/qmon: log in, poll the queue with a     *)
(* thread for each poll, and report what the answer says.                  *)
(*                                                                         *)
(* A poll starts a detached thread that appends the answer to              *)
(* monitor->httpbody, piece by piece, and sets monitor->httpdone at its    *)
(* end; a timer of the main loop looks at httpdone every two seconds,      *)
(* reports and frees the body.  There are no locks, so the handler of that *)
(* timer is cut where a thread's step in between makes a difference.       *)
(* A memory error is recorded in fault, and nothing is said of what the    *)
(* program does after one.                                                 *)
(***************************************************************************)
EXTENDS Naturals, Sequences, SequencesExt, FiniteSets

CONSTANTS
    MaxPolls,       \* bound: polls, and so threads
    Pieces,         \* calls of monitor_httpbody_cb for one answer
    Answers,        \* kinds of answer the server may give
    ByAnalyst       \* TRUE: the report selects by the analyst's name

ASSUME QmonAssumption ==
    /\ MaxPolls \in Nat /\ Pieces \in Nat \ {0}
    /\ Answers \subseteq {"rows", "norows", "notable", "blank"}
    /\ ByAnalyst \in BOOLEAN

VARIABLES
    monitor,        \* the static pointer of qmonplugin.c: "null", "live", "freed"
    status,         \* monitor->status
    polling,        \* the poll timer is installed
    checking,       \* http_check_timer # 0: the check timer is installed
    valid,          \* the preferences pass qmon_options_validate
    stale,          \* the options point to strings the preferences have freed
    lost,           \* strings the preferences still hold were freed with the options
    thread,         \* thread[t]: the transfer t
    body,           \* monitor->httpbody: whose pieces it holds, <<>> is NULL
    httpdone,       \* monitor->httpdone
    main,           \* where the main loop is in monitor_http_check; "down": crashed
    notices,        \* the bodies for which "notify-info" was emitted
    happened,       \* circumstances the properties refer to
    fault           \* the memory error that happened, or "none"

vars == <<monitor, status, polling, checking, valid, stale, lost, thread,
          body, httpdone, main, notices, happened, fault>>
client == <<monitor, status, polling, checking, valid, stale, lost>>
shared == <<body, httpdone>>
history == <<notices, happened, fault>>

Transfer == 1..MaxPolls
Size(kind) == IF kind = "blank" THEN 0 ELSE Pieces
Under_way == { t \in Transfer : thread[t].st \in {"created", "running"} }

Fails(what) ==
    /\ fault' = what
    /\ main' = "down"
    /\ UNCHANGED <<client, thread, shared, notices, happened>>

Up == main # "down"

-----------------------------------------------------------------------------
(* The thread of a poll: monitor_query and curl's calls *)

\* The request is built from the session and the options.
Begin(t) ==
    /\ Up /\ thread[t].st = "created"
    /\ \/ monitor = "freed" /\ Fails("freed_monitor")
       \/ monitor # "freed" /\ stale /\ Fails("freed_option")
       \/ /\ monitor # "freed" /\ ~stale
          /\ thread' = [thread EXCEPT ![t].st = "running"]
          /\ UNCHANGED <<client, shared, main, history>>

\* Mutant: httpdone is set before the body is complete
Receive_Done(t) ==
    /\ Up /\ thread[t].st = "running" /\ thread[t].left > 0
    /\ \/ main \in {"report", "free"} /\ Fails("race")
       \/ /\ main \notin {"report", "free"}
          /\ body' = Append(body, t)
          /\ httpdone' = TRUE
          /\ thread' = [thread EXCEPT ![t].left = @ - 1]
          /\ UNCHANGED <<client, main, history>>

\* A piece is appended to the string that the main loop may be reading or freeing.
Receive(t) ==
    /\ Up /\ thread[t].st = "running" /\ thread[t].left > 0
    /\ \/ monitor = "freed" /\ Fails("freed_monitor")
       \/ monitor # "freed" /\ main \in {"report", "free"} /\ Fails("race")
       \/ /\ monitor # "freed" /\ main \notin {"report", "free"}
          /\ body' = Append(body, t)
          /\ thread' = [thread EXCEPT ![t].left = @ - 1]
          /\ UNCHANGED <<client, httpdone, main, history>>

Finish(t) ==
    /\ Up /\ thread[t].st = "running" /\ thread[t].left = 0
    /\ \/ monitor = "freed" /\ Fails("freed_monitor")
       \/ /\ monitor # "freed"
          /\ httpdone' = TRUE
          /\ thread' = [thread EXCEPT ![t].st = "ok"]
          /\ UNCHANGED <<client, body, main, history>>

\* The transfer breaks off: what was received stays in the body.
BreakOff(t) ==
    /\ Up /\ thread[t].st = "running"
    /\ thread' = [thread EXCEPT ![t].st = "failed"]
    /\ happened' = happened \cup
         (IF thread[t].left < Size(thread[t].kind) THEN {"failed", "partial"} ELSE {"failed"})
    /\ UNCHANGED <<client, shared, main, notices, fault>>

-----------------------------------------------------------------------------
(* The check timer: monitor_http_check, qmon_report, monitor_http_cleanup *)

CheckHttp ==
    /\ checking /\ main = "idle"
    /\ \/ monitor = "freed" /\ Fails("freed_monitor")
       \/ /\ monitor # "freed" /\ httpdone
          /\ checking' = FALSE
          /\ main' = "report"
          /\ UNCHANGED <<monitor, status, polling, valid, stale, lost, thread, shared, history>>

\* What a body says; of a mixture nothing is known.
Says(b) == IF b = [i \in 1..Pieces |-> b[1]] THEN {thread[b[1]].kind}
           ELSE {"rows", "norows", "notable"}

\* qmon_report: without a table nothing happens; the table is freed twice when
\* it has no rows; the rows are selected with the analyst's name.
Report ==
    /\ main = "report"
    /\ \/ body = <<>> /\ Fails("null_body")
       \/ body # <<>> /\ "norows" \in Says(body) /\ Fails("double_free")
       \/ body # <<>> /\ "rows" \in Says(body) /\ ByAnalyst /\ stale /\ Fails("freed_option")
       \/ /\ body # <<>>
          /\ \/ "notable" \in Says(body) /\ UNCHANGED notices
             \/ /\ "rows" \in Says(body) /\ ~(ByAnalyst /\ stale)
                /\ notices' = Append(notices, body)
          /\ main' = "cleanup"
          /\ UNCHANGED <<client, thread, shared, happened, fault>>

Cleanup ==
    /\ main = "cleanup"
    /\ httpdone' = FALSE
    /\ main' = "free"
    /\ UNCHANGED <<client, thread, body, history>>

\* Mutant: the body is left for the next answer
Freed_Not == body

Freed == <<>>

Free ==
    /\ main = "free"
    /\ body' = Freed
    /\ main' = "idle"
    /\ UNCHANGED <<client, thread, httpdone, history>>

-----------------------------------------------------------------------------
(* The client: the plugin's menu, its timer, its preferences *)

\* Mutant: nobody looks for the answer
Poll_Unchecked(t, kind) ==
    /\ thread' = [thread EXCEPT ![t] = [st |-> "created", kind |-> kind, left |-> Size(kind)]]
    /\ stale' = FALSE
    /\ happened' = happened \cup
         (IF Under_way # {} \/ httpdone THEN {"crowded"} ELSE {})
           \cup ({kind} \cap {"norows", "blank"})
    /\ UNCHANGED <<status, polling, checking, valid, shared, main, notices, fault>>

\* qmon_monitor_poll with valid options: a thread, and the check timer if none is
\* installed.
Poll(t, kind) ==
    /\ thread' = [thread EXCEPT ![t] = [st |-> "created", kind |-> kind, left |-> Size(kind)]]
    /\ checking' = TRUE
    /\ stale' = FALSE
    /\ happened' = happened \cup
         (IF Under_way # {} \/ httpdone THEN {"crowded"} ELSE {})
           \cup ({kind} \cap {"norows", "blank"})
    /\ UNCHANGED <<status, polling, valid, shared, main, notices, fault>>

Unused(t) == thread[t].st = "unused"

Polls == valid /\ \E t \in Transfer, kind \in Answers :
                      Unused(t) /\ (\A u \in 1..(t - 1) : ~Unused(u)) /\ Poll(t, kind)

\* The timer polls; it goes away when the options are not valid.
TimerPoll ==
    /\ main = "idle" /\ polling
    /\ \/ Polls
       \/ /\ ~valid
          /\ polling' = FALSE
          /\ stale' = FALSE
          /\ happened' = happened \cup {"invalid"}
          /\ UNCHANGED <<status, checking, valid, thread, shared, main, notices, fault>>
    /\ UNCHANGED <<monitor, lost>>

\* qmon_monitor_new succeeds: valid options, and a login.
MonitorNew ==
    /\ monitor = "null" /\ valid /\ ~lost
    /\ monitor' = "live"
    /\ UNCHANGED lost

\* It does not: the options are destroyed, with strings that belong to the preferences.
LoginFails ==
    /\ monitor = "null" /\ valid /\ ~lost
    /\ lost' = TRUE
    /\ happened' = happened \cup {"nologin"}
    /\ UNCHANGED <<monitor, status, polling, checking, valid, stale, thread, shared, main, notices, fault>>

\* The next login reads those strings.  (It would also free the session's header again,
\* which a login without the expected cookies has left behind.)
LoginTwice == monitor = "null" /\ lost /\ Fails("freed_option")

\* The menu item "QMon Monitor Check"; with invalid options it only refreshes them.
\* Without a monitor, which a refused login leaves, the pointer is used as it is.
MenuCheck ==
    /\ main = "idle"
    /\ \/ monitor = "freed" /\ Fails("freed_monitor")
       \/ LoginTwice
       \/ monitor = "null" /\ ~lost /\ Fails("null_monitor")
       \/ MonitorNew /\ Polls
       \/ monitor = "live" /\ Polls /\ UNCHANGED <<monitor, lost>>
       \/ /\ monitor = "live" /\ ~valid
          /\ stale' = FALSE
          /\ UNCHANGED <<monitor, status, polling, checking, valid, lost, thread, shared, main, history>>

\* The menu item "QMon Monitor Start"
MenuStart ==
    /\ main = "idle"
    /\ \/ monitor = "freed" /\ Fails("freed_monitor")
       \/ LoginTwice
       \/ LoginFails
       \/ /\ \/ MonitorNew
             \/ monitor = "live" /\ status = "stoped" /\ UNCHANGED <<monitor, lost>>
          /\ status' = "started"
          /\ polling' = TRUE
          /\ UNCHANGED <<checking, valid, stale, thread, shared, main, history>>

\* The menu item "QMon Monitor Stop": threads and the check timer go on.
MenuStop ==
    /\ main = "idle"
    /\ \/ monitor = "freed" /\ Fails("freed_monitor")
       \/ /\ monitor = "live" /\ status = "started"
          /\ status' = "stoped"
          /\ polling' = FALSE
          /\ UNCHANGED <<monitor, checking, valid, stale, lost, thread, shared, main, history>>

\* plugin_unload: the pointer to the monitor, the check timer and the threads stay.
\* The options are destroyed with the selection and whose SRs to look for, strings of the
\* preferences, which may have freed them, or other ones, when they were edited.
PluginUnload ==
    /\ main = "idle"
    /\ \/ monitor = "freed" /\ Fails("freed_monitor")
       \/ monitor = "live" /\ stale /\ Fails("freed_option")
       \/ /\ monitor = "live"
          /\ monitor' = "freed"
          /\ polling' = FALSE
          /\ body' = <<>>
          /\ httpdone' = FALSE
          /\ lost' = TRUE
          /\ happened' = happened \cup {"unloaded"}
          /\ UNCHANGED <<status, checking, valid, stale, thread, main, notices, fault>>

\* The user edits the preferences: strings that the options point to are freed.
EditPreferences ==
    /\ main = "idle"
    /\ \/ lost /\ Fails("freed_option")
       \/ /\ valid' \in BOOLEAN
          /\ stale' = (monitor = "live")
          /\ happened' = happened \cup {"edited"}
          /\ UNCHANGED <<monitor, status, polling, checking, lost, thread, shared, main, notices, fault>>

-----------------------------------------------------------------------------
Init ==
    /\ monitor = "null" /\ status = "stoped" /\ polling = FALSE /\ checking = FALSE
    /\ valid \in BOOLEAN /\ stale = FALSE /\ lost = FALSE
    /\ thread = [t \in Transfer |-> [st |-> "unused", kind |-> "blank", left |-> 0]]
    /\ body = <<>> /\ httpdone = FALSE /\ main = "idle"
    /\ notices = <<>> /\ happened = {} /\ fault = "none"

Running(t) == Begin(t) \/ Receive(t) \/ Finish(t)

Main == CheckHttp \/ Report \/ Cleanup \/ Free

Client == TimerPoll \/ MenuCheck \/ MenuStart \/ MenuStop \/ PluginUnload \/ EditPreferences

Next == (\E t \in Transfer : Running(t) \/ BreakOff(t)) \/ Main \/ Client

Spec == Init /\ [][Next]_vars

\* Threads run, servers answer or break off, and the main loop dispatches the
\* check timer; nobody has to poll.
FairSpec ==
    /\ Spec
    /\ \A t \in Transfer : WF_vars(Running(t))
    /\ WF_vars(Main)

-----------------------------------------------------------------------------
(* Properties. *)

Faults == {"none", "freed_monitor", "freed_option", "race", "null_body",
           "double_free", "null_monitor"}

\* The body holds pieces of transfers, every field has its type.
TypeOK ==
    /\ monitor \in {"null", "live", "freed"} /\ status \in {"started", "stoped"}
    /\ \A x \in {polling, checking, valid, stale, lost, httpdone} : x \in BOOLEAN
    /\ \A t \in Transfer :
          /\ thread[t].st \in {"unused", "created", "running", "ok", "failed"}
          /\ thread[t].left \in 0..Pieces
    /\ ToSet(body) \subseteq Transfer
    /\ main \in {"idle", "report", "cleanup", "free", "down"}
    /\ fault \in Faults

\* Each memory error needs its own circumstance: with one poll at a time, a login
\* that works, preferences nobody edits, a plugin that stays loaded and answers
\* with rows, threads and main loop share the monitor without a lock and never
\* collide, although the body is read and freed while threads exist.
FaultsHaveACause ==
    CASE fault = "none"          -> TRUE
      [] fault = "freed_monitor" -> "unloaded" \in happened
      [] fault = "freed_option"  -> happened \cap {"edited", "unloaded", "nologin"} # {}
      [] fault = "race"          -> "crowded" \in happened
      [] fault = "null_body"     -> happened \cap {"crowded", "blank"} # {}
      [] fault = "double_free"   -> happened \cap {"crowded", "partial", "norows"} # {}
      [] fault = "null_monitor"  -> monitor = "null"

Whole(t) == [i \in 1..Pieces |-> t]

\* Without overlapping polls and broken transfers the user is notified of exactly
\* one whole answer at a time and of none twice: nothing of an earlier answer is
\* left in the body when the next one arrives (monitor_http_cleanup).
NoticeOfOneAnswer ==
    happened \cap {"crowded", "partial"} = {} =>
        /\ \A i \in DOMAIN notices : \E t \in Transfer : notices[i] = Whole(t)
        /\ \A i, j \in DOMAIN notices : notices[i] = notices[j] => i = j

\* The poll timer is there exactly while the monitor is started, as long as its
\* options stay valid, and a stopped or destroyed monitor never polls.  The check
\* timer does not outlive what it waits for: unless a transfer failed or its answer
\* was taken together with another one, a transfer is under way or an answer is
\* ready while the timer runs, and the timer runs while an answer is.
TimersFollowMonitor ==
    /\ monitor = "live" /\ "invalid" \notin happened => (polling <=> status = "started")
    /\ monitor # "live" \/ status = "stoped" => ~polling
    /\ monitor = "live" /\ main = "idle" /\ happened \cap {"crowded", "failed"} = {} =>
           (checking <=> (Under_way # {} \/ httpdone))

\* The monitor is sound: its fields and timers fit together, and memory errors
\* happen only where their circumstance was met.
MonitorIsSound == TypeOK /\ FaultsHaveACause /\ TimersFollowMonitor

\* Every answer with rows is eventually notified, when polls do not overlap, no
\* part of a broken transfer precedes it and the monitor is not destroyed meanwhile.
EveryUpdateNoticed ==
    \A t \in Transfer :
        (thread[t].st = "ok" /\ thread[t].kind = "rows") ~>
            (\/ \E i \in DOMAIN notices : t \in ToSet(notices[i])
             \/ fault # "none"
             \/ happened \cap {"crowded", "partial", "unloaded"} # {})
=============================================================================
