------------------------- MODULE QmonMonitor_proofs -------------------------
(***************************************************************************)
(* Proofs about QmonMonitor: threads and main loop share the monitor       *)
(* without a lock, and each memory error still needs its own circumstance; *)
(* without overlapping polls and broken transfers the user is told of one  *)
(* whole answer at a time.                                                 *)
(*                                                                         *)
(* What makes it true is that without overlapping polls the thread and the *)
(* handler take turns (OneAtATime), so that the body is that of one        *)
(* transfer (BodyOfOne).                                                   *)
(***************************************************************************)
EXTENDS QmonMonitor, TLAPS

ThreadStates == {"unused", "created", "running", "ok", "failed"}
Kinds == Answers \cup {"blank"}
Circumstances == {"failed", "partial", "crowded", "norows", "blank", "invalid",
                  "nologin", "unloaded", "edited"}
Threads == [st : ThreadStates, kind : Kinds, left : 0..Pieces]
Bodies == Seq(Transfer)

-----------------------------------------------------------------------------
(* The inductive invariant. *)

Typed ==
    /\ monitor \in {"null", "live", "freed"} /\ status \in {"started", "stoped"}
    /\ polling \in BOOLEAN /\ checking \in BOOLEAN /\ valid \in BOOLEAN
    /\ stale \in BOOLEAN /\ httpdone \in BOOLEAN
    /\ lost \in BOOLEAN
    /\ thread \in [Transfer -> Threads]
    /\ body \in Bodies
    /\ main \in {"idle", "report", "cleanup", "free", "down"}
    /\ notices \in Seq(Bodies)
    /\ happened \in SUBSET Circumstances
    /\ fault \in Faults

Busy == main \in {"report", "cleanup", "free"}

\* An answer is there and was not reported.
Ready == main = "report" \/ (main = "idle" /\ httpdone)

Calm == "crowded" \notin happened
Clean == Calm /\ "partial" \notin happened

\* What is past leaves its traces.
Traces ==
    /\ monitor = "freed" => "unloaded" \in happened
    /\ stale => "edited" \in happened
    /\ lost => happened \cap {"nologin", "unloaded"} # {}
    /\ \A t \in Transfer : thread[t].st # "unused" =>
          {thread[t].kind} \cap {"norows", "blank"} \subseteq happened
    /\ \A t \in Transfer : thread[t].left <= Size(thread[t].kind)
    /\ main # "down" => fault = "none"

\* Before there is a monitor nothing has happened.
Nascent ==
    monitor = "null" =>
        /\ \A t \in Transfer : thread[t].st = "unused"
        /\ ~checking /\ ~httpdone /\ body = <<>> /\ ~Busy
        /\ status = "stoped" /\ ~polling /\ notices = <<>>

\* The poll timer runs while the monitor is started, the check timer not while its
\* handler runs, and a handler runs only for a monitor that is there; one that was
\* destroyed has no answer.
Timers ==
    /\ (monitor = "live" /\ "invalid" \notin happened) => (polling <=> status = "started")
    /\ (monitor # "live" \/ status = "stoped") => ~polling
    /\ Busy => ~checking /\ monitor = "live"
    /\ monitor = "freed" => ~httpdone /\ body = <<>>

\* Without overlapping polls thread and handler take turns.
OneAtATime ==
    Calm => /\ \A t, u \in Under_way : t = u
            /\ httpdone \/ Busy => Under_way = {}
            /\ main = "free" => ~httpdone
            /\ monitor = "live" /\ main = "idle" /\ "failed" \notin happened =>
                  (checking <=> (Under_way # {} \/ httpdone))

\* Then an answer that is ready is not empty, unless a server sent an empty one.
SomeBody ==
    Calm => /\ \A t \in Under_way : monitor = "live" =>
                  Len(body) + thread[t].left >= Size(thread[t].kind)
            /\ Ready /\ "blank" \notin happened => body # <<>>

Part(t, n) == [i \in 1..n |-> t]

\* Without broken transfers either, the body is what one transfer has received, and
\* what is ready was not reported before.
BodyOfOne ==
    Clean => /\ \A t \in Under_way : monitor = "live" =>
                   body = Part(t, Size(thread[t].kind) - thread[t].left)
             /\ Ready => \E t \in Transfer :
                            /\ thread[t].st = "ok" /\ body = Part(t, Size(thread[t].kind))
                            /\ \A i \in DOMAIN notices : notices[i] # Whole(t)
             /\ main = "idle" /\ ~httpdone /\ Under_way = {} => body = <<>>

Told ==
    Clean => /\ \A i \in DOMAIN notices : \E t \in Transfer :
                    thread[t].st = "ok" /\ notices[i] = Whole(t)
             /\ \A i, j \in DOMAIN notices : notices[i] = notices[j] => i = j

\* What MonitorIsSound says of faults.
Caused == FaultsHaveACause

QInv == Typed /\ Traces /\ Nascent /\ Timers /\ OneAtATime /\ SomeBody /\ BodyOfOne
        /\ Told /\ Caused

-----------------------------------------------------------------------------
(* Facts about the pieces. *)

LEMMA SizeType ==
    ASSUME NEW kind
    PROVE  Size(kind) \in 0..Pieces /\ Pieces \in Nat /\ Pieces >= 1
           /\ (kind # "blank" => Size(kind) = Pieces)
BY QmonAssumption DEF Size

LEMMA TransferType == Transfer \subseteq Nat \ {0}
BY QmonAssumption DEF Transfer

LEMMA PartType ==
    ASSUME NEW t \in Transfer, NEW n \in Nat
    PROVE  Part(t, n) \in Bodies /\ Len(Part(t, n)) = n
BY DEF Part, Bodies

LEMMA PartGrows ==
    ASSUME NEW t \in Transfer, NEW n \in Nat
    PROVE  Append(Part(t, n), t) = Part(t, n + 1)
<1>1. Part(t, n) \in Seq(Transfer) /\ Part(t, n + 1) \in Seq(Transfer)
  BY PartType DEF Bodies
<1>2. Len(Part(t, n)) = n /\ Len(Part(t, n + 1)) = n + 1
  BY PartType
<1>3. ASSUME NEW i \in 1..(n + 1)
      PROVE  Append(Part(t, n), t)[i] = Part(t, n + 1)[i]
  BY <1>1, <1>2 DEF Part
<1> QED
  BY <1>1, <1>2, <1>3

LEMMA PartEmpty ==
    ASSUME NEW t
    PROVE  Part(t, 0) = <<>>
BY DEF Part

LEMMA WholeIsPart ==
    ASSUME NEW t \in Transfer
    PROVE  Whole(t) = Part(t, Pieces) /\ Whole(t)[1] = t /\ Whole(t) # <<>> /\ Whole(t) \in Bodies
<1>1. Pieces \in Nat /\ Pieces >= 1
  BY SizeType
<1>2. Whole(t) = Part(t, Pieces)
  BY DEF Whole, Part
<1>3. Whole(t)[1] = t
  BY <1>1 DEF Whole
<1>4. Len(Whole(t)) # 0 /\ Whole(t) \in Bodies
  BY <1>1, <1>2, PartType
<1> QED
  BY <1>2, <1>3, <1>4

-----------------------------------------------------------------------------
(* Threads. *)

\* Thread t becomes r.
LEMMA ThreadStep ==
    ASSUME Typed, NEW t \in Transfer, NEW r \in Threads, thread' = [thread EXCEPT ![t] = r]
    PROVE  /\ thread' \in [Transfer -> Threads] /\ thread'[t] = r
           /\ \A u \in Transfer \ {t} : thread'[u] = thread[u]
           /\ \A u \in Transfer : u # t => (u \in Under_way' <=> u \in Under_way)
           /\ t \in Under_way' <=> r.st \in {"created", "running"}
           /\ Under_way' \subseteq Transfer
BY DEF Typed, Under_way

LEMMA UnderWay ==
    /\ Under_way \subseteq Transfer
    /\ \A t \in Transfer : t \in Under_way <=> thread[t].st \in {"created", "running"}
BY DEF Under_way

LEMMA ThreadType ==
    ASSUME Typed, NEW t \in Transfer
    PROVE  /\ thread[t] \in Threads /\ thread[t].st \in ThreadStates /\ thread[t].kind \in Kinds
           /\ thread[t].left \in 0..Pieces /\ thread[t].left \in Nat
           /\ Pieces \in Nat
BY QmonAssumption DEF Typed, Threads

\* What was the cause of a fault stays its cause.
LEMMA CausedMore ==
    ASSUME Typed, Caused, happened \subseteq happened', fault' = fault,
           monitor' = monitor \/ fault = "none"
    PROVE  Caused'
<1>1. fault \in Faults /\ \A x \in happened : x \in happened'
  BY DEF Typed
<1>2. CASE fault = "none"
  BY <1>2 DEF Caused, FaultsHaveACause
<1>3. CASE fault # "none"
  <2>1. monitor' = monitor
    BY <1>3
  <2>2. \A S \in SUBSET Circumstances : happened \cap S # {} => happened' \cap S # {}
    BY <1>1
  <2>3. /\ {"edited", "unloaded"} \in SUBSET Circumstances
        /\ {"crowded", "blank"} \in SUBSET Circumstances
        /\ {"crowded", "partial", "norows"} \in SUBSET Circumstances
    BY DEF Circumstances
  <2> QED
    BY <1>1, <1>3, <2>1, <2>2, <2>3 DEF Caused, FaultsHaveACause, Faults
<1> QED
  BY <1>2, <1>3

\* A memory error stops everything: only its cause is new.
LEMMA FailsInv ==
    ASSUME QInv, NEW what \in Faults, what # "none", Fails(what), main # "down",
           \/ what = "freed_monitor" /\ "unloaded" \in happened
           \/ what = "freed_option" /\ happened \cap {"edited", "unloaded", "nologin"} # {}
           \/ what = "race" /\ ~Calm
           \/ what = "null_body" /\ (~Calm \/ "blank" \in happened)
           \/ what = "double_free" /\ (~Clean \/ "norows" \in happened)
           \/ what = "null_monitor" /\ monitor = "null"
    PROVE  QInv'
<1>1. /\ UNCHANGED client /\ UNCHANGED thread /\ UNCHANGED shared
      /\ notices' = notices /\ happened' = happened /\ fault' = what /\ main' = "down"
  BY DEF Fails
<1> USE <1>1 DEF client, shared
<1>2. Typed'
  BY DEF QInv, Typed
<1>3. Traces'
  BY DEF QInv, Traces
<1>4. Nascent' /\ Timers'
  BY DEF QInv, Nascent, Timers, Busy
<1>5. OneAtATime'
  BY DEF QInv, OneAtATime, Busy, Calm, Under_way
<1>6. SomeBody'
  BY DEF QInv, SomeBody, Ready, Calm, Under_way
<1>7. BodyOfOne'
  BY DEF QInv, BodyOfOne, Ready, Clean, Calm, Under_way
<1>8. Told'
  BY DEF QInv, Told, Clean, Calm
<1>9. Caused'
  BY DEF QInv, Caused, FaultsHaveACause, Faults, Clean, Calm
<1> QED
  BY <1>2, <1>3, <1>4, <1>5, <1>6, <1>7, <1>8, <1>9 DEF QInv

LEMMA BeginInv ==
    ASSUME QInv, NEW t \in Transfer, Begin(t)
    PROVE  QInv'
<1>1. CASE monitor = "freed" /\ Fails("freed_monitor")
  BY <1>1, FailsInv DEF Begin, Up, QInv, Traces, Faults
<1>2. CASE monitor # "freed" /\ stale /\ Fails("freed_option")
  BY <1>2, FailsInv DEF Begin, Up, QInv, Traces, Faults
<1>3. CASE /\ monitor # "freed" /\ ~stale
           /\ thread' = [thread EXCEPT ![t].st = "running"]
           /\ UNCHANGED <<client, shared, main, history>>
  <2> DEFINE r == [thread[t] EXCEPT !.st = "running"]
  <2>1. thread[t].st = "created"
    BY DEF Begin
  <2>2. r \in Threads /\ r.st = "running" /\ r.kind = thread[t].kind /\ r.left = thread[t].left
    BY ThreadType DEF QInv, Threads, ThreadStates
  <2>3. thread' = [thread EXCEPT ![t] = r]
    BY <1>3
  <2> HIDE DEF r
  <2>4. /\ thread' \in [Transfer -> Threads] /\ thread'[t] = r
        /\ \A u \in Transfer \ {t} : thread'[u] = thread[u]
    BY <2>2, <2>3, ThreadStep DEF QInv
  <2>5. Under_way' = Under_way
    BY <2>1, <2>2, <2>4 DEF Under_way
  <2>6. \A u \in Transfer : /\ thread'[u].kind = thread[u].kind
                            /\ thread'[u].left = thread[u].left
                            /\ thread'[u].st = "unused" <=> thread[u].st = "unused"
                            /\ thread'[u].st = "ok" <=> thread[u].st = "ok"
    BY <2>1, <2>2, <2>4
  <2> USE <1>3 DEF client, shared, history
  <2>7. Typed'
    BY <2>4 DEF QInv, Typed
  <2>8. Traces' /\ Nascent' /\ Timers'
    BY <2>6 DEF QInv, Traces, Nascent, Timers, Busy
  <2>9. OneAtATime'
    BY <2>5 DEF QInv, OneAtATime, Busy, Calm
  <2>10. SomeBody'
    BY <2>5, <2>6, UnderWay DEF QInv, SomeBody, Ready, Calm
  <2>11. BodyOfOne' /\ Told'
    BY <2>5, <2>6, UnderWay DEF QInv, BodyOfOne, Told, Ready, Clean, Calm
  <2>12. Caused'
    BY DEF QInv, Caused, FaultsHaveACause
  <2> QED
    BY <2>7, <2>8, <2>9, <2>10, <2>11, <2>12 DEF QInv
<1> QED
  BY <1>1, <1>2, <1>3 DEF Begin

LEMMA ReceiveInv ==
    ASSUME QInv, NEW t \in Transfer, Receive(t)
    PROVE  QInv'
<1>1. t \in Under_way /\ thread[t].left > 0 /\ thread[t].st = "running"
  BY UnderWay DEF Receive
<1>2. CASE monitor = "freed" /\ Fails("freed_monitor")
  BY <1>2, FailsInv DEF Receive, Up, QInv, Traces, Faults
<1>3. CASE monitor # "freed" /\ main \in {"report", "free"} /\ Fails("race")
  <2>1. ~Calm
    BY <1>1, <1>3 DEF QInv, OneAtATime, Busy
  <2> QED
    BY <1>3, <2>1, FailsInv DEF Receive, Up, Faults
<1>4. CASE /\ monitor # "freed" /\ main \notin {"report", "free"}
           /\ body' = Append(body, t)
           /\ thread' = [thread EXCEPT ![t].left = @ - 1]
           /\ UNCHANGED <<client, httpdone, main, history>>
  <2> DEFINE left == thread[t].left - 1
             r == [thread[t] EXCEPT !.left = left]
  <2>1. left \in 0..Pieces /\ left \in Nat /\ thread[t] \in Threads
    BY <1>1, ThreadType DEF QInv
  <2>2. thread' = [thread EXCEPT ![t] = r]
    BY <1>4
  <2> HIDE DEF left
  <2>3. r \in Threads /\ r.st = thread[t].st /\ r.kind = thread[t].kind /\ r.left = left
    BY <2>1 DEF Threads
  <2> HIDE DEF r
  <2>4. /\ thread' \in [Transfer -> Threads] /\ thread'[t] = r
        /\ \A u \in Transfer \ {t} : thread'[u] = thread[u]
    BY <2>2, <2>3, ThreadStep DEF QInv
  <2>5. Under_way' = Under_way
    BY <2>3, <2>4 DEF Under_way
  <2>6. \A u \in Transfer : /\ thread'[u].kind = thread[u].kind
                            /\ thread'[u].st = thread[u].st
    BY <2>3, <2>4
  <2>7. thread[t].left \in Nat /\ left = thread[t].left - 1 /\ left \in Nat
    BY <1>1, <2>1, ThreadType DEF QInv, left
  <2>8. body \in Bodies /\ body' \in Bodies /\ body' # <<>> /\ Len(body') = Len(body) + 1
        /\ Len(body) \in Nat
    BY <1>4 DEF QInv, Typed, Bodies
  <2>9. Len(body') + left = Len(body) + thread[t].left
    <3> HIDE <1>4
    <3> QED
      BY <2>8, <2>7
  <2> USE <1>4 DEF client, history
  <2>10. Typed'
    BY <2>4, <2>8 DEF QInv, Typed
  <2>11. Traces' /\ Nascent' /\ Timers'
    <3>1. \A u \in Transfer : thread'[u].left <= Size(thread'[u].kind)
      BY <2>3, <2>4, <2>7, SizeType DEF QInv, Traces
    <3> QED
      BY <1>1, <2>6, <3>1 DEF QInv, Traces, Nascent, Timers, Busy
  <2>12. OneAtATime'
    BY <2>5 DEF QInv, OneAtATime, Busy, Calm
  <2>13. SomeBody'
    <3> SUFFICES ASSUME Calm
                 PROVE  \A u \in Under_way : monitor = "live" =>
                           Len(body') + thread'[u].left >= Size(thread'[u].kind)
      BY <2>5, <2>8 DEF SomeBody, Calm
    <3>1. \A u \in Under_way : u = t
      BY <1>1 DEF QInv, OneAtATime
    <3>2. monitor = "live" => Len(body) + thread[t].left >= Size(thread[t].kind)
      BY <1>1 DEF QInv, SomeBody
    <3> QED
      BY <2>3, <2>4, <2>9, <3>1, <3>2
  <2>14. BodyOfOne' /\ Told'
    <3>1. Told'
      BY <2>6 DEF QInv, Told, Clean, Calm
    <3>2. SUFFICES ASSUME Clean
                   PROVE  /\ \A u \in Under_way : monitor = "live" =>
                                body' = Part(u, Size(thread'[u].kind) - thread'[u].left)
                          /\ ~Ready
      BY <1>1, <2>5, <3>1 DEF BodyOfOne, Clean, Calm, Ready
    <3>3. ~Ready /\ \A u \in Under_way : u = t
      BY <1>1, <3>2 DEF QInv, OneAtATime, Clean, Ready, Busy
    <3>4. ASSUME monitor = "live"
          PROVE  body' = Part(t, Size(thread[t].kind) - left)
      <4> DEFINE n == Size(thread[t].kind) - thread[t].left
      <4>1. body = Part(t, n) /\ Len(body) + thread[t].left >= Size(thread[t].kind)
        BY <1>1, <3>2, <3>4 DEF QInv, BodyOfOne, SomeBody, Clean
      <4>2. n \in Nat
        BY SizeType, ThreadType DEF QInv, Traces
      <4>3. n + 1 = Size(thread[t].kind) - left
        BY <2>7, SizeType
      <4> HIDE DEF n
      <4> QED
        BY <4>1, <4>2, <4>3, PartGrows
    <3> QED
      BY <2>3, <2>4, <3>3, <3>4
  <2>15. Caused'
    BY DEF QInv, Caused, FaultsHaveACause
  <2> QED
    BY <2>10, <2>11, <2>12, <2>13, <2>14, <2>15 DEF QInv
<1> QED
  BY <1>2, <1>3, <1>4 DEF Receive

LEMMA FinishInv ==
    ASSUME QInv, NEW t \in Transfer, Finish(t)
    PROVE  QInv'
<1>1. t \in Under_way /\ thread[t].left = 0 /\ thread[t].st = "running"
  BY UnderWay DEF Finish
<1>2. CASE monitor = "freed" /\ Fails("freed_monitor")
  BY <1>2, FailsInv DEF Finish, Up, QInv, Traces, Faults
<1>3. CASE /\ monitor # "freed"
           /\ httpdone' = TRUE
           /\ thread' = [thread EXCEPT ![t].st = "ok"]
           /\ UNCHANGED <<client, body, main, history>>
  <2> DEFINE r == [thread[t] EXCEPT !.st = "ok"]
  <2>1. r \in Threads /\ r.st = "ok" /\ r.kind = thread[t].kind /\ r.left = thread[t].left
    BY ThreadType DEF QInv, Threads, ThreadStates
  <2>2. thread' = [thread EXCEPT ![t] = r]
    BY <1>3
  <2> HIDE DEF r
  <2>3. /\ thread' \in [Transfer -> Threads] /\ thread'[t] = r
        /\ \A u \in Transfer \ {t} : thread'[u] = thread[u]
    BY <2>1, <2>2, ThreadStep DEF QInv
  <2>4. Under_way' = Under_way \ {t}
    BY <2>1, <2>3 DEF Under_way
  <2>5. \A u \in Transfer : /\ thread'[u].kind = thread[u].kind
                            /\ thread'[u].left = thread[u].left
                            /\ thread'[u].st = "unused" <=> thread[u].st = "unused"
                            /\ thread[u].st = "ok" => thread'[u].st = "ok"
    BY <1>1, <2>1, <2>3
  <2>6. monitor = "live"
    BY <1>1, <1>3 DEF QInv, Nascent, Typed
  <2>7. Calm => Under_way' = {} /\ ~Busy /\ ~httpdone
    BY <1>1, <2>4 DEF QInv, OneAtATime
  <2>8. main # "down" /\ thread[t].kind \in Kinds
    BY ThreadType DEF Finish, Up, QInv
  <2> USE <1>3 DEF client, history
  <2>9. Typed'
    BY <2>3 DEF QInv, Typed
  <2>10. Traces' /\ Nascent' /\ Timers'
    BY <2>5, <2>6 DEF QInv, Traces, Nascent, Timers, Busy
  <2>11. OneAtATime'
    <3>1. Calm => (monitor = "live" /\ main = "idle" /\ "failed" \notin happened => checking)
      BY <1>1 DEF QInv, OneAtATime
    <3> QED
      BY <2>7, <3>1 DEF QInv, OneAtATime, Busy, Calm
  <2>12. SomeBody'
    <3> SUFFICES ASSUME Calm, "blank" \notin happened
                 PROVE  body # <<>>
      BY <2>7 DEF SomeBody, Calm
    <3>1. thread[t].kind # "blank"
      BY <1>1 DEF QInv, Traces
    <3>2. Size(thread[t].kind) >= 1 /\ Len(body) + 0 >= Size(thread[t].kind)
      BY <1>1, <2>6, <3>1, SizeType DEF QInv, SomeBody
    <3> QED
      BY <3>2, SizeType DEF QInv, Typed, Bodies
  <2>13. Told'
    BY <2>5 DEF QInv, Told, Clean, Calm
  <2>14. BodyOfOne'
    <3> SUFFICES ASSUME Clean
                 PROVE  /\ body = Part(t, Size(thread[t].kind))
                        /\ \A i \in DOMAIN notices : notices[i] # Whole(t)
      BY <2>1, <2>3, <2>7 DEF BodyOfOne, Clean, Calm, Ready
    <3>1. body = Part(t, Size(thread[t].kind) - 0)
      BY <1>1, <2>6 DEF QInv, BodyOfOne
    <3>2. Size(thread[t].kind) - 0 = Size(thread[t].kind)
      BY SizeType
    <3>3. ASSUME NEW i \in DOMAIN notices, notices[i] = Whole(t)
          PROVE  FALSE
      <4>1. PICK u \in Transfer : thread[u].st = "ok" /\ notices[i] = Whole(u)
        BY DEF QInv, Told
      <4>2. Whole(t)[1] = t /\ Whole(u)[1] = u
        BY WholeIsPart
      <4> QED
        BY <1>1, <3>3, <4>1, <4>2
    <3> QED
      BY <3>1, <3>2, <3>3
  <2>15. Caused'
    BY DEF QInv, Caused, FaultsHaveACause
  <2> QED
    BY <2>9, <2>10, <2>11, <2>12, <2>13, <2>14, <2>15 DEF QInv
<1> QED
  BY <1>2, <1>3 DEF Finish

LEMMA BreakOffInv ==
    ASSUME QInv, NEW t \in Transfer, BreakOff(t)
    PROVE  QInv'
<1> DEFINE r == [thread[t] EXCEPT !.st = "failed"]
<1>1. /\ t \in Under_way /\ thread[t].st = "running" /\ main # "down"
      /\ thread' = [thread EXCEPT ![t] = r]
      /\ happened' = happened \cup
           (IF thread[t].left < Size(thread[t].kind) THEN {"failed", "partial"} ELSE {"failed"})
      /\ UNCHANGED client /\ UNCHANGED shared /\ main' = main /\ notices' = notices
      /\ fault' = fault
  BY UnderWay DEF BreakOff, Up
<1>2. r \in Threads /\ r.st = "failed" /\ r.kind = thread[t].kind /\ r.left = thread[t].left
  BY ThreadType DEF QInv, Threads, ThreadStates
<1> HIDE DEF r
<1>3. /\ thread' \in [Transfer -> Threads] /\ thread'[t] = r
      /\ \A u \in Transfer \ {t} : thread'[u] = thread[u]
  BY <1>1, <1>2, ThreadStep DEF QInv
<1>4. Under_way' = Under_way \ {t}
  BY <1>2, <1>3 DEF Under_way
<1>5. \A u \in Transfer : /\ thread'[u].kind = thread[u].kind
                          /\ thread'[u].left = thread[u].left
                          /\ thread'[u].st = "unused" <=> thread[u].st = "unused"
                          /\ thread'[u].st = "ok" <=> thread[u].st = "ok"
  BY <1>1, <1>2, <1>3
<1>6. /\ happened' \in SUBSET Circumstances /\ happened \subseteq happened'
      /\ "failed" \in happened' /\ (Calm' <=> Calm) /\ (Clean' => Clean)
      /\ Clean' => thread[t].left = Size(thread[t].kind)
      /\ \A x \in Circumstances \ {"failed", "partial"} : x \in happened' <=> x \in happened
  <2>1. thread[t].left <= Size(thread[t].kind) /\ thread[t].left \in Nat
        /\ Size(thread[t].kind) \in Nat
    BY ThreadType, SizeType DEF QInv, Traces
  <2>2. happened \in SUBSET Circumstances
    BY DEF QInv, Typed
  <2>3. CASE thread[t].left < Size(thread[t].kind)
    BY <1>1, <2>2, <2>3 DEF Circumstances, Calm, Clean
  <2>4. CASE ~(thread[t].left < Size(thread[t].kind))
    BY <1>1, <2>1, <2>2, <2>4 DEF Circumstances, Calm, Clean
  <2> QED
    BY <2>3, <2>4
<1>7. "invalid" \in happened' <=> "invalid" \in happened
  BY <1>6 DEF Circumstances
<1>8. "blank" \in happened' <=> "blank" \in happened
  BY <1>6 DEF Circumstances
<1>9. monitor # "null"
  BY <1>1 DEF QInv, Nascent
<1> USE <1>1 DEF client, shared
<1>10. Typed'
  BY <1>3, <1>6 DEF QInv, Typed
<1>11. Traces' /\ Nascent' /\ Timers'
  BY <1>5, <1>6, <1>7, <1>9 DEF QInv, Traces, Nascent, Timers, Busy
<1>12. OneAtATime'
  BY <1>4, <1>6 DEF QInv, OneAtATime, Busy
<1>13. SomeBody'
  BY <1>4, <1>5, <1>6, <1>8, UnderWay DEF QInv, SomeBody, Ready
<1>14. Told'
  BY <1>5, <1>6 DEF QInv, Told
<1>15. BodyOfOne'
  <2> SUFFICES ASSUME Clean, thread[t].left = Size(thread[t].kind)
               PROVE  /\ \A u \in Under_way \ {t} : monitor = "live" =>
                            body = Part(u, Size(thread[u].kind) - thread[u].left)
                      /\ Ready => \E u \in Transfer :
                            /\ thread[u].st = "ok" /\ body = Part(u, Size(thread[u].kind))
                            /\ \A i \in DOMAIN notices : notices[i] # Whole(u)
                      /\ main = "idle" /\ ~httpdone => body = <<>>
    BY <1>4, <1>5, <1>6, UnderWay DEF BodyOfOne, Ready
  <2>1. monitor = "live" => body = Part(t, Size(thread[t].kind) - thread[t].left)
    BY <1>1 DEF QInv, BodyOfOne
  <2>2. Size(thread[t].kind) - thread[t].left = 0
    BY SizeType
  <2>3. monitor = "freed" => body = <<>>
    BY DEF QInv, Timers
  <2>4. body = <<>>
    BY <1>9, <2>1, <2>2, <2>3, PartEmpty DEF QInv, Typed
  <2> QED
    BY <2>4 DEF QInv, BodyOfOne
<1>16. Caused'
  BY <1>1, <1>6, CausedMore DEF QInv
<1> QED
  BY <1>10, <1>11, <1>12, <1>13, <1>14, <1>15, <1>16 DEF QInv

-----------------------------------------------------------------------------
(* The check timer. *)

LEMMA CheckHttpInv ==
    ASSUME QInv, CheckHttp
    PROVE  QInv'
<1>1. CASE monitor = "freed" /\ Fails("freed_monitor")
  BY <1>1, FailsInv DEF CheckHttp, QInv, Traces, Faults
<1>2. CASE /\ monitor # "freed" /\ httpdone
           /\ checking' = FALSE
           /\ main' = "report"
           /\ UNCHANGED <<monitor, status, polling, valid, stale, lost, thread, shared, history>>
  <2>1. monitor = "live" /\ main = "idle"
    BY <1>2 DEF CheckHttp, QInv, Typed, Nascent
  <2>2. Calm => Under_way = {}
    BY <1>2 DEF QInv, OneAtATime
  <2> USE <1>2, <2>1 DEF shared, history
  <2>3. Typed'
    BY DEF QInv, Typed
  <2>4. Traces' /\ Nascent' /\ Timers'
    BY DEF QInv, Traces, Nascent, Timers, Busy
  <2>5. OneAtATime'
    BY <2>2 DEF OneAtATime, Calm, Under_way, Busy
  <2>6. SomeBody'
    BY DEF QInv, SomeBody, Ready, Calm, Under_way
  <2>7. BodyOfOne' /\ Told'
    BY DEF QInv, BodyOfOne, Told, Ready, Clean, Calm, Under_way
  <2>8. Caused'
    BY DEF QInv, Caused, FaultsHaveACause
  <2> QED
    BY <2>3, <2>4, <2>5, <2>6, <2>7, <2>8 DEF QInv
<1> QED
  BY <1>1, <1>2 DEF CheckHttp

\* What is reported is the whole answer of one transfer, and was not reported before.
LEMMA ReportedWhole ==
    ASSUME QInv, main = "report", Clean, body # <<>>
    PROVE  \E t \in Transfer :
              /\ thread[t].st = "ok" /\ body = Whole(t) /\ Says(body) = {thread[t].kind}
              /\ \A i \in DOMAIN notices : notices[i] # Whole(t)
<1>1. PICK t \in Transfer :
         /\ thread[t].st = "ok" /\ body = Part(t, Size(thread[t].kind))
         /\ \A i \in DOMAIN notices : notices[i] # Whole(t)
  BY DEF QInv, BodyOfOne, Ready
<1>2. Size(thread[t].kind) = Pieces
  <2>1. CASE thread[t].kind = "blank"
    BY <1>1, <2>1, PartEmpty DEF Size
  <2> QED
    BY <2>1, SizeType
<1>3. body = Whole(t) /\ body[1] = t
  BY <1>1, <1>2, WholeIsPart
<1>4. Says(body) = {thread[t].kind}
  BY <1>3 DEF Says, Whole
<1> QED
  BY <1>1, <1>3, <1>4

\* A notice of the body joins the earlier ones.
LEMMA ToldMore ==
    ASSUME QInv, main = "report", body # <<>>, notices' = Append(notices, body),
           thread' = thread, happened' = happened
    PROVE  Told'
<1>1. notices \in Seq(Bodies) /\ body \in Bodies
  BY DEF QInv, Typed
<1>2. /\ DOMAIN notices' = 1..(Len(notices) + 1) /\ DOMAIN notices = 1..Len(notices)
      /\ notices'[Len(notices) + 1] = body /\ Len(notices) \in Nat
      /\ \A i \in 1..Len(notices) : notices'[i] = notices[i]
  BY <1>1
<1> SUFFICES ASSUME Clean
             PROVE  /\ \A i \in DOMAIN notices' : \E t \in Transfer :
                          thread[t].st = "ok" /\ notices'[i] = Whole(t)
                    /\ \A i, j \in DOMAIN notices' : notices'[i] = notices'[j] => i = j
  BY DEF Told, Clean, Calm
<1>3. PICK t \in Transfer :
         /\ thread[t].st = "ok" /\ body = Whole(t)
         /\ \A i \in DOMAIN notices : notices[i] # Whole(t)
  BY ReportedWhole
<1>4. \A i \in DOMAIN notices : \E u \in Transfer :
         thread[u].st = "ok" /\ notices[i] = Whole(u)
  BY DEF QInv, Told
<1>5. \A i, j \in DOMAIN notices : notices[i] = notices[j] => i = j
  BY DEF QInv, Told
<1>6. \A i \in DOMAIN notices' : i \in DOMAIN notices \/ i = Len(notices) + 1
  BY <1>2
<1>7. \A i \in DOMAIN notices : notices'[i] = notices[i]
  BY <1>2
<1>8. \A i \in DOMAIN notices' : \E u \in Transfer :
         thread[u].st = "ok" /\ notices'[i] = Whole(u)
  BY <1>2, <1>3, <1>4, <1>6, <1>7
<1>9. \A i, j \in DOMAIN notices' : notices'[i] = notices'[j] => i = j
  BY <1>2, <1>3, <1>5, <1>6, <1>7
<1> QED
  BY <1>8, <1>9

LEMMA ReportInv ==
    ASSUME QInv, Report
    PROVE  QInv'
<1>1. CASE body = <<>> /\ Fails("null_body")
  BY <1>1, FailsInv DEF Report, QInv, SomeBody, Ready, Faults
<1>2. CASE body # <<>> /\ "norows" \in Says(body) /\ Fails("double_free")
  <2>1. Clean => "norows" \in happened
    BY <1>2, ReportedWhole DEF Report, QInv, Traces
  <2> QED
    BY <1>2, <2>1, FailsInv DEF Report, Faults
<1>3. CASE body # <<>> /\ "rows" \in Says(body) /\ ByAnalyst /\ stale /\ Fails("freed_option")
  BY <1>3, FailsInv DEF Report, QInv, Traces, Faults
<1>4. CASE /\ body # <<>>
           /\ \/ "notable" \in Says(body) /\ UNCHANGED notices
              \/ /\ "rows" \in Says(body) /\ ~(ByAnalyst /\ stale)
                 /\ notices' = Append(notices, body)
           /\ main' = "cleanup"
           /\ UNCHANGED <<client, thread, shared, happened, fault>>
  <2>1. main = "report" /\ notices' \in {notices, Append(notices, body)} /\ monitor = "live"
        /\ ~checking
    BY <1>4 DEF Report, QInv, Timers, Busy
  <2>2. Calm => Under_way = {}
    BY <2>1 DEF QInv, OneAtATime, Busy
  <2>3. Told'
    <3>1. CASE notices' = notices
      BY <1>4, <3>1 DEF QInv, Told, Clean, Calm
    <3> QED
      BY <1>4, <2>1, <3>1, ToldMore
  <2>4. notices' \in Seq(Bodies)
    BY <2>1 DEF QInv, Typed
  <2>5. monitor' = monitor /\ happened' = happened /\ thread' = thread /\ Under_way' = Under_way
        /\ fault' = fault /\ checking' = checking
    BY <1>4 DEF client, Under_way
  <2>6. Typed'
    BY <1>4, <2>4 DEF QInv, Typed, client, shared
  <2>7. Traces' /\ Nascent' /\ Timers'
    BY <1>4, <2>1 DEF QInv, Traces, Nascent, Timers, Busy, client, shared
  <2>8. OneAtATime'
    BY <1>4, <2>2, <2>5 DEF OneAtATime, Calm, Busy
  <2>9. SomeBody' /\ BodyOfOne'
    BY <1>4, <2>2, <2>5 DEF SomeBody, BodyOfOne, Clean, Calm, Ready
  <2>10. Caused'
    BY <2>5 DEF QInv, Caused, FaultsHaveACause
  <2> QED
    BY <2>3, <2>6, <2>7, <2>8, <2>9, <2>10 DEF QInv
<1> QED
  BY <1>1, <1>2, <1>3, <1>4 DEF Report

LEMMA CleanupInv ==
    ASSUME QInv, Cleanup
    PROVE  QInv'
<1>1. /\ main = "cleanup" /\ httpdone' = FALSE /\ main' = "free" /\ UNCHANGED client
      /\ UNCHANGED <<thread, body, notices, happened, fault>> /\ Under_way' = Under_way
  BY DEF Cleanup, history, Under_way
<1>2. Calm => Under_way = {}
  BY <1>1 DEF QInv, OneAtATime, Busy
<1> USE <1>1 DEF client
<1>3. Typed'
  BY DEF QInv, Typed
<1>4. Traces' /\ Nascent' /\ Timers'
  BY DEF QInv, Traces, Nascent, Timers, Busy
<1>5. OneAtATime'
  BY <1>2 DEF OneAtATime, Calm, Busy
<1>6. SomeBody' /\ BodyOfOne'
  BY <1>2 DEF SomeBody, BodyOfOne, Clean, Calm, Ready
<1>7. Told'
  BY DEF QInv, Told, Clean, Calm
<1>8. Caused'
  BY DEF QInv, Caused, FaultsHaveACause
<1> QED
  BY <1>3, <1>4, <1>5, <1>6, <1>7, <1>8 DEF QInv

LEMMA FreeInv ==
    ASSUME QInv, Free
    PROVE  QInv'
<1>1. /\ main = "free" /\ body' = <<>> /\ main' = "idle" /\ UNCHANGED client
      /\ UNCHANGED <<thread, httpdone, notices, happened, fault>> /\ Under_way' = Under_way
  BY DEF Free, Freed, history, Under_way
<1>2. Calm => Under_way = {} /\ ~httpdone
  BY <1>1 DEF QInv, OneAtATime, Busy
<1>3. ~checking
  BY <1>1 DEF QInv, Timers, Busy
<1> USE <1>1 DEF client
<1>4. Typed'
  BY DEF QInv, Typed, Bodies
<1>5. Traces' /\ Nascent' /\ Timers'
  BY DEF QInv, Traces, Nascent, Timers, Busy
<1>6. OneAtATime'
  BY <1>2, <1>3 DEF OneAtATime, Calm, Busy
<1>7. SomeBody' /\ BodyOfOne'
  BY <1>2 DEF SomeBody, BodyOfOne, Clean, Calm, Ready
<1>8. Told'
  BY DEF QInv, Told, Clean, Calm
<1>9. Caused'
  BY DEF QInv, Caused, FaultsHaveACause
<1> QED
  BY <1>4, <1>5, <1>6, <1>7, <1>8, <1>9 DEF QInv

-----------------------------------------------------------------------------
(* The client. *)

\* A poll, for a monitor that is there or just created.
LEMMA PollInv ==
    ASSUME QInv, NEW t \in Transfer, NEW kind \in Answers, Unused(t), Poll(t, kind),
           main = "idle", monitor \in {"null", "live"}, monitor' = "live",
           lost' = lost
    PROVE  QInv'
<1> DEFINE r == [st |-> "created", kind |-> kind, left |-> Size(kind)]
<1>1. /\ thread' = [thread EXCEPT ![t] = r]
      /\ checking' = TRUE /\ stale' = FALSE
      /\ happened' = happened \cup
           (IF Under_way # {} \/ httpdone THEN {"crowded"} ELSE {})
             \cup ({kind} \cap {"norows", "blank"})
      /\ UNCHANGED <<status, polling, valid, main, notices, fault>> /\ UNCHANGED shared
  BY DEF Poll
<1>2. r \in Threads /\ r.st = "created" /\ r.kind = kind /\ r.left = Size(kind)
  BY SizeType DEF Threads, ThreadStates, Kinds
<1> HIDE DEF r
<1>3. /\ thread' \in [Transfer -> Threads] /\ thread'[t] = r
      /\ \A u \in Transfer \ {t} : thread'[u] = thread[u]
  BY <1>1, <1>2, ThreadStep DEF QInv
<1>4. Under_way' = Under_way \cup {t}
  BY <1>2, <1>3 DEF Under_way
<1>5. \A u \in Transfer : thread[u].st = "ok" => u # t /\ thread'[u] = thread[u]
  BY <1>3 DEF Unused
<1>6. /\ happened' \in SUBSET Circumstances /\ happened \subseteq happened'
      /\ Calm' => Calm /\ Under_way = {} /\ ~httpdone
      /\ Clean' => Clean
      /\ "invalid" \in happened' <=> "invalid" \in happened
      /\ {kind} \cap {"norows", "blank"} \subseteq happened'
  <2>1. {kind} \cap {"norows", "blank"} \subseteq Circumstances
        /\ "crowded" \in Circumstances
    BY DEF Circumstances
  <2>2. happened \in SUBSET Circumstances
    BY DEF QInv, Typed
  <2> QED
    BY <1>1, <2>1, <2>2 DEF Calm, Clean
<1>7. fault = "none"
  BY DEF QInv, Traces
<1> USE <1>1 DEF shared
<1>8. Typed'
  BY <1>3, <1>6 DEF QInv, Typed
<1>9. Traces'
  <2>1. \A u \in Transfer : thread'[u].st # "unused" =>
           {thread'[u].kind} \cap {"norows", "blank"} \subseteq happened'
    BY <1>2, <1>3, <1>6 DEF QInv, Traces
  <2>2. \A u \in Transfer : thread'[u].left <= Size(thread'[u].kind)
    BY <1>2, <1>3, SizeType DEF QInv, Traces
  <2> QED
    BY <1>6, <2>1, <2>2 DEF QInv, Traces
<1>10. Nascent' /\ Timers'
  BY <1>6 DEF QInv, Nascent, Timers, Busy
<1>11. OneAtATime'
  BY <1>4, <1>6 DEF OneAtATime, Busy
<1>12. SomeBody'
  <2>1. Len(body) \in Nat /\ Size(kind) \in Nat
    BY SizeType DEF QInv, Typed, Bodies
  <2> QED
    BY <1>2, <1>3, <1>4, <1>6, <2>1 DEF SomeBody, Ready
<1>13. BodyOfOne'
  <2>1. Clean' => body = <<>> /\ Under_way' = {t} /\ ~httpdone
    BY <1>4, <1>6 DEF QInv, BodyOfOne, Clean
  <2>2. Part(t, Size(kind) - Size(kind)) = <<>>
    BY SizeType, PartEmpty
  <2> QED
    BY <1>2, <1>3, <2>1, <2>2 DEF BodyOfOne, Ready
<1>14. Told'
  BY <1>5, <1>6 DEF QInv, Told
<1>15. Caused'
  BY <1>6, <1>7, CausedMore DEF QInv
<1> QED
  BY <1>8, <1>9, <1>10, <1>11, <1>12, <1>13, <1>14, <1>15 DEF QInv

LEMMA PollsInv ==
    ASSUME QInv, Polls, main = "idle", monitor \in {"null", "live"}, monitor' = "live",
           lost' = lost
    PROVE  QInv'
BY PollInv DEF Polls

\* Only what no part of the invariant but Timers is about changes.
LEMMA ClientInv ==
    ASSUME QInv, main = "idle", monitor' = monitor \/ (monitor = "null" /\ monitor' = "live"),
           status' \in {"started", "stoped"}, polling' \in BOOLEAN, valid' \in BOOLEAN,
           stale' \in BOOLEAN, lost' \in BOOLEAN,
           happened \subseteq happened', happened' \subseteq Circumstances,
           happened' \ happened \subseteq {"invalid", "nologin", "edited"},
           stale' => "edited" \in happened', lost' => happened' \cap {"nologin", "unloaded"} # {},
           (monitor' = "live" /\ "invalid" \notin happened') => (polling' <=> status' = "started"),
           (monitor' # "live" \/ status' = "stoped") => ~polling',
           monitor' = "null" => status' = "stoped",
           UNCHANGED <<checking, thread, body, httpdone, main, notices, fault>>
    PROVE  QInv'
<1>1. \A x \in {"crowded", "partial", "failed", "blank"} : x \in happened' <=> x \in happened
  OBVIOUS
<1>2. Under_way' = Under_way /\ fault = "none" /\ (Calm' <=> Calm) /\ (Clean' <=> Clean)
  BY <1>1 DEF Under_way, QInv, Traces, Calm, Clean
<1>3. monitor = "null" => /\ Under_way = {} /\ ~checking /\ ~httpdone /\ body = <<>>
  BY DEF QInv, Nascent, Under_way
<1>4. Typed'
  BY DEF QInv, Typed
<1>5. Traces'
  BY DEF QInv, Traces
<1>6. Nascent' /\ Timers'
  BY DEF QInv, Nascent, Timers, Busy
<1>7. OneAtATime'
  BY <1>1, <1>2, <1>3 DEF QInv, OneAtATime, Busy
<1>8. SomeBody'
  BY <1>1, <1>2, <1>3 DEF QInv, SomeBody, Ready
<1>9. BodyOfOne'
  BY <1>2, <1>3 DEF QInv, BodyOfOne, Ready
<1>10. Told'
  BY <1>2 DEF QInv, Told
<1>11. Caused'
  BY <1>2, CausedMore DEF QInv
<1> QED
  BY <1>4, <1>5, <1>6, <1>7, <1>8, <1>9, <1>10, <1>11 DEF QInv

LEMMA TimerPollInv ==
    ASSUME QInv, TimerPoll
    PROVE  QInv'
<1>1. main = "idle" /\ polling /\ monitor = "live" /\ UNCHANGED <<monitor, lost>>
  BY DEF TimerPoll, QInv, Timers
<1>2. CASE Polls
  BY <1>1, <1>2, PollsInv
<1>3. CASE /\ ~valid
           /\ polling' = FALSE
           /\ stale' = FALSE
           /\ happened' = happened \cup {"invalid"}
           /\ UNCHANGED <<status, checking, valid, thread, shared, main, notices, fault>>
  BY <1>1, <1>3, ClientInv DEF QInv, Typed, Traces, Circumstances, shared
<1> QED
  BY <1>2, <1>3 DEF TimerPoll

LEMMA LoginTwiceInv ==
    ASSUME QInv, main = "idle", LoginTwice
    PROVE  QInv'
BY FailsInv DEF LoginTwice, QInv, Traces, Faults

LEMMA LoginFailsInv ==
    ASSUME QInv, main = "idle", LoginFails
    PROVE  QInv'
BY ClientInv DEF LoginFails, QInv, Typed, Traces, Nascent, Timers, Circumstances, shared

LEMMA MenuCheckInv ==
    ASSUME QInv, MenuCheck
    PROVE  QInv'
<1>1. main = "idle"
  BY DEF MenuCheck
<1>2. CASE monitor = "freed" /\ Fails("freed_monitor")
  BY <1>1, <1>2, FailsInv DEF QInv, Traces, Faults
<1>3. CASE monitor = "null" /\ ~lost /\ Fails("null_monitor")
  BY <1>1, <1>3, FailsInv DEF Faults
<1>4. CASE MonitorNew /\ Polls
  BY <1>1, <1>4, PollsInv DEF MonitorNew
<1>5. CASE monitor = "live" /\ Polls /\ UNCHANGED <<monitor, lost>>
  BY <1>1, <1>5, PollsInv
<1>6. CASE /\ monitor = "live" /\ ~valid
           /\ stale' = FALSE
           /\ UNCHANGED <<monitor, status, polling, checking, valid, lost, thread, shared, main, history>>
  BY <1>1, <1>6, ClientInv DEF QInv, Typed, Traces, Timers, shared, history
<1> QED
  BY <1>1, <1>2, <1>3, <1>4, <1>5, <1>6, LoginTwiceInv DEF MenuCheck

LEMMA MenuStartInv ==
    ASSUME QInv, MenuStart
    PROVE  QInv'
<1>1. main = "idle"
  BY DEF MenuStart
<1>2. CASE monitor = "freed" /\ Fails("freed_monitor")
  BY <1>1, <1>2, FailsInv DEF QInv, Traces, Faults
<1>3. CASE /\ \/ MonitorNew
              \/ monitor = "live" /\ status = "stoped" /\ UNCHANGED <<monitor, lost>>
           /\ status' = "started"
           /\ polling' = TRUE
           /\ UNCHANGED <<checking, valid, stale, thread, shared, main, history>>
  <2>1. monitor \in {"null", "live"} /\ monitor' = "live" /\ lost' = lost
    BY <1>3 DEF MonitorNew
  <2> QED
    BY <1>1, <1>3, <2>1, ClientInv DEF QInv, Typed, Traces, shared, history
<1> QED
  BY <1>1, <1>2, <1>3, LoginTwiceInv, LoginFailsInv DEF MenuStart

LEMMA MenuStopInv ==
    ASSUME QInv, MenuStop
    PROVE  QInv'
<1>1. main = "idle"
  BY DEF MenuStop
<1>2. CASE monitor = "freed" /\ Fails("freed_monitor")
  BY <1>1, <1>2, FailsInv DEF QInv, Traces, Faults
<1>3. CASE /\ monitor = "live" /\ status = "started"
           /\ status' = "stoped"
           /\ polling' = FALSE
           /\ UNCHANGED <<monitor, checking, valid, stale, lost, thread, shared, main, history>>
  BY <1>1, <1>3, ClientInv DEF QInv, Typed, Traces, shared, history
<1> QED
  BY <1>2, <1>3 DEF MenuStop

LEMMA PluginUnloadInv ==
    ASSUME QInv, PluginUnload
    PROVE  QInv'
<1>1. main = "idle"
  BY DEF PluginUnload
<1>2. CASE monitor = "freed" /\ Fails("freed_monitor")
  BY <1>1, <1>2, FailsInv DEF QInv, Traces, Faults
<1>3. CASE /\ monitor = "live"
           /\ monitor' = "freed"
           /\ polling' = FALSE
           /\ body' = <<>>
           /\ httpdone' = FALSE
           /\ lost' = TRUE
           /\ happened' = happened \cup {"unloaded"}
           /\ UNCHANGED <<status, checking, valid, stale, thread, main, notices, fault>>
  <2>1. happened' \in SUBSET Circumstances /\ Under_way' = Under_way /\ fault = "none"
        /\ (Calm' <=> Calm) /\ (Clean' <=> Clean)
    BY <1>1, <1>3 DEF QInv, Typed, Traces, Circumstances, Under_way, Calm, Clean
  <2>2. Typed'
    <3>1. body' \in Bodies
      BY <1>3 DEF Bodies
    <3> QED
      BY <1>1, <1>3, <2>1, <3>1 DEF QInv, Typed
  <2> USE <1>1, <1>3
  <2>3. Traces'
    BY DEF QInv, Traces
  <2>4. Nascent' /\ Timers'
    BY DEF Nascent, Timers, Busy
  <2>5. OneAtATime'
    BY <2>1 DEF QInv, OneAtATime, Busy
  <2>6. SomeBody' /\ BodyOfOne'
    BY <2>1 DEF SomeBody, BodyOfOne, Ready
  <2>7. Told'
    BY <2>1 DEF QInv, Told
  <2>8. Caused'
    BY <2>1, CausedMore DEF QInv
  <2> QED
    BY <2>2, <2>3, <2>4, <2>5, <2>6, <2>7, <2>8 DEF QInv
<1>4. CASE monitor = "live" /\ stale /\ Fails("freed_option")
  BY <1>1, <1>4, FailsInv DEF QInv, Traces, Faults
<1> QED
  BY <1>2, <1>3, <1>4 DEF PluginUnload

LEMMA EditPreferencesInv ==
    ASSUME QInv, EditPreferences
    PROVE  QInv'
<1>1. main = "idle"
  BY DEF EditPreferences
<1>2. CASE lost /\ Fails("freed_option")
  BY <1>1, <1>2, FailsInv DEF QInv, Traces, Faults
<1>3. CASE /\ valid' \in BOOLEAN
           /\ stale' = (monitor = "live")
           /\ happened' = happened \cup {"edited"}
           /\ UNCHANGED <<monitor, status, polling, checking, lost, thread, shared, main, notices, fault>>
  BY <1>1, <1>3, ClientInv DEF QInv, Typed, Traces, Nascent, Timers, Circumstances, shared
<1> QED
  BY <1>2, <1>3 DEF EditPreferences

-----------------------------------------------------------------------------
(* The specification. *)

LEMMA InitInv == Init => QInv
<1> SUFFICES ASSUME Init
             PROVE  QInv
  OBVIOUS
<1> USE DEF Init
<1>1. Under_way = {}
  BY DEF Under_way
<1>2. Typed
  <2>1. Pieces \in Nat
    BY QmonAssumption
  <2>2. [st |-> "unused", kind |-> "blank", left |-> 0] \in Threads
    BY <2>1 DEF Threads, ThreadStates, Kinds
  <2>3. body \in Bodies /\ notices \in Seq(Bodies)
    BY DEF Bodies
  <2>4. thread \in [Transfer -> Threads]
    BY <2>2
  <2> QED
    BY <2>3, <2>4 DEF Typed, Faults
<1>3. Traces
  BY SizeType DEF Traces
<1>4. Nascent /\ Timers /\ OneAtATime
  BY <1>1 DEF Nascent, Timers, OneAtATime, Busy
<1>5. SomeBody /\ BodyOfOne /\ Told /\ Caused
  BY <1>1 DEF SomeBody, BodyOfOne, Told, Caused, FaultsHaveACause, Ready
<1> QED
  BY <1>2, <1>3, <1>4, <1>5 DEF QInv

LEMMA IdleInv ==
    ASSUME QInv, UNCHANGED vars
    PROVE  QInv'
<1> USE DEF vars
<1>1. Typed' /\ Traces' /\ Nascent' /\ Timers'
  BY DEF QInv, Typed, Traces, Nascent, Timers, Busy
<1>2. OneAtATime' /\ SomeBody'
  BY DEF QInv, OneAtATime, SomeBody, Ready, Busy, Calm, Under_way
<1>3. BodyOfOne' /\ Told' /\ Caused'
  BY DEF QInv, BodyOfOne, Told, Caused, FaultsHaveACause, Ready, Clean, Calm, Under_way
<1> QED
  BY <1>1, <1>2, <1>3 DEF QInv

LEMMA NextInv == QInv /\ [Next]_vars => QInv'
<1> SUFFICES ASSUME QInv, [Next]_vars
             PROVE  QInv'
  OBVIOUS
<1>1. ASSUME NEW t \in Transfer, Running(t) \/ BreakOff(t)
      PROVE  QInv'
  BY <1>1, BeginInv, ReceiveInv, FinishInv, BreakOffInv DEF Running
<1>2. CASE Main
  BY <1>2, CheckHttpInv, ReportInv, CleanupInv, FreeInv DEF Main
<1>3. CASE Client
  BY <1>3, TimerPollInv, MenuCheckInv, MenuStartInv, MenuStopInv, PluginUnloadInv,
     EditPreferencesInv DEF Client
<1> QED
  BY <1>1, <1>2, <1>3, IdleInv DEF Next

LEMMA Invariance == Spec => []QInv
BY InitInv, NextInv, PTL DEF Spec

-----------------------------------------------------------------------------
(* What follows from it. *)

LEMMA InvSound == QInv => MonitorIsSound
<1> SUFFICES ASSUME QInv
             PROVE  MonitorIsSound
  OBVIOUS
<1>1. TypeOK
  <2>1. \A t \in Transfer : /\ thread[t].st \in {"unused", "created", "running", "ok", "failed"}
                            /\ thread[t].left \in 0..Pieces
    BY ThreadType DEF QInv, ThreadStates
  <2>2. ToSet(body) \subseteq Transfer
    BY DEF QInv, Typed, Bodies, ToSet
  <2> QED
    BY <2>1, <2>2 DEF QInv, Typed, TypeOK
<1>2. FaultsHaveACause
  BY DEF QInv, Caused
<1>3. TimersFollowMonitor
  <2>1. "crowded" \notin happened => Calm
    BY DEF Calm
  <2>2. happened \cap {"crowded", "failed"} = {} =>
           "crowded" \notin happened /\ "failed" \notin happened
    OBVIOUS
  <2> QED
    BY <2>1, <2>2 DEF QInv, Timers, OneAtATime, TimersFollowMonitor
<1> QED
  BY <1>1, <1>2, <1>3 DEF MonitorIsSound

LEMMA InvNotice == QInv => NoticeOfOneAnswer
<1>1. happened \cap {"crowded", "partial"} = {} => Clean
  BY DEF Clean, Calm
<1> QED
  BY <1>1 DEF QInv, Told, NoticeOfOneAnswer

\* The monitor of the work queue: whatever threads, timers and the user do, the poll
\* timer follows the monitor, the check timer what it waits for, and a freed monitor,
\* freed options, a race on the body, an empty body or a table freed twice are met
\* only after the circumstance that causes each of them (qmon.c, qmonplugin.c).
THEOREM SoundMonitor == Spec => []MonitorIsSound
BY Invariance, InvSound, PTL

\* As long as polls do not overlap and no transfer breaks off, every notice is one
\* whole answer and no answer is notified twice (monitor_http_check and
\* monitor_http_cleanup).
THEOREM OneNoticeOneAnswer == Spec => []NoticeOfOneAnswer
BY Invariance, InvNotice, PTL

==============================================================================
