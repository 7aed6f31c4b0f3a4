------------------------- MODULE PublicAddress_proofs -------------------------
(***************************************************************************)
(* Proofs about PublicAddress and PortMapping: whoever waits for an        *)
(* address, a router or a mapping waits for something that goes on, and    *)
(* what is passed on is an address the configured server has given, unless *)
(* its name was edited during the SRV lookup.                              *)
(*                                                                         *)
(* The handlers of upnp.c are operators on a state s, and each has a lemma *)
(* that says what it leaves behind: Sound(u) for every u it may lead to,   *)
(* and where the listener is then.                                         *)
(***************************************************************************)
EXTENDS PublicAddress, FiniteSetTheorems, TLAPS

-----------------------------------------------------------------------------
(* The state of upnp.c and of the listener. *)

Statuses == {"undiscovered", "unable", "discovering", "discovered"}
Infos == [status : Statuses, internal : BOOLEAN, fresh : BOOLEAN]
Data == [live : BOOLEAN, fd : {"zero", "open", "closed"}, inpa : BOOLEAN, tima : BOOLEAN,
         late : BOOLEAN, fetch : BOOLEAN, retry : 0..NUM_UDP_ATTEMPTS]
Waits == {"soon", "waiting", "timer", "fetch"}
Listens == [ar : Waits \cup {"none", "refused", "done"}, retry : BOOLEAN, adding : BOOLEAN,
            touched : BOOLEAN, spoilt : BOOLEAN]
States == [info : Infos, dd : [Discovery -> Data], asking : SUBSET Discovery, listen : Listens]

\* GoesOn, without counting.
Goes(r) ==
    /\ r.live <=> r.tima \/ r.late \/ r.fetch
    /\ ~(r.tima /\ r.late) /\ ~(r.tima /\ r.fetch) /\ ~(r.late /\ r.fetch)
    /\ r.inpa => r.tima /\ r.fd = "open"

Alive(s) == \E d \in Discovery : s.dd[d].live

\* Whoever waits for a discovery waits for one that goes on; while those who wait are
\* being told this holds of the discoveries only (Under).
Under(s) ==
    /\ s \in States
    /\ \A d \in Discovery : Goes(s.dd[d])
    /\ s.info.status = "discovering" => Alive(s)

Sound(s) == Under(s) /\ (s.listen.ar = "waiting" => Alive(s))

\* The listener's structure is written after it was freed only if its request was.
NoWorse(s, u) ==
    /\ u.listen.touched => s.listen.touched \/ u.listen.spoilt
    /\ s.listen.spoilt => u.listen.spoilt

-----------------------------------------------------------------------------
(* Records and counting. *)

LEMMA StateType ==
    ASSUME NEW s \in States
    PROVE  /\ s.info \in Infos /\ s.dd \in [Discovery -> Data] /\ s.asking \in SUBSET Discovery
           /\ s.listen \in Listens
BY DEF States

LEMMA GoesCounted ==
    ASSUME NEW r \in Data, Goes(r)
    PROVE  GoesOn(r)
<1> DEFINE S == { x \in {"tima", "late", "fetch"} : r[x] }
<1>1. r.live \in BOOLEAN /\ r.tima \in BOOLEAN /\ r.late \in BOOLEAN /\ r.fetch \in BOOLEAN
  BY DEF Data
<1>2. CASE ~r.live
  <2>1. S = {}
    BY <1>2 DEF Goes
  <2> QED
    BY <1>2, <2>1, FS_EmptySet DEF Goes, GoesOn
<1>3. CASE r.live
  <2>1. S = {"tima"} \/ S = {"late"} \/ S = {"fetch"}
    BY <1>1, <1>3 DEF Goes
  <2>2. Cardinality(S) = 1
    BY <2>1, FS_Singleton
  <2> QED
    BY <1>3, <2>2 DEF Goes, GoesOn
<1> QED
  BY <1>1, <1>2, <1>3

\* Discovery d becomes r.
WithData(s, d, r) == [s EXCEPT !.dd[d] = r]

LEMMA DataStep ==
    ASSUME NEW s \in States, NEW d \in Discovery, NEW r \in Data
    PROVE  /\ WithData(s, d, r) \in States /\ WithData(s, d, r).dd[d] = r
           /\ \A e \in Discovery \ {d} : WithData(s, d, r).dd[e] = s.dd[e]
           /\ WithData(s, d, r).info = s.info /\ WithData(s, d, r).asking = s.asking
           /\ WithData(s, d, r).listen = s.listen
<1> DEFINE u == WithData(s, d, r)
<1>1. u = [info |-> s.info, dd |-> [s.dd EXCEPT ![d] = r], asking |-> s.asking,
           listen |-> s.listen]
  BY DEF States, WithData
<1>2. [s.dd EXCEPT ![d] = r] \in [Discovery -> Data]
  BY StateType
<1> HIDE DEF u
<1>3. u \in States
  BY <1>1, <1>2, StateType DEF States
<1>4. /\ u.dd[d] = r /\ \A e \in Discovery \ {d} : u.dd[e] = s.dd[e]
      /\ u.info = s.info /\ u.asking = s.asking /\ u.listen = s.listen
  BY <1>1, StateType
<1> QED
  BY <1>3, <1>4 DEF u

\* The listener waits for something else.
WithAr(s, ar) == [s EXCEPT !.listen.ar = ar]

LEMMA ArStep ==
    ASSUME NEW s \in States, NEW ar \in Waits \cup {"none", "refused", "done"}
    PROVE  /\ WithAr(s, ar) \in States /\ WithAr(s, ar).listen.ar = ar
           /\ WithAr(s, ar).info = s.info /\ WithAr(s, ar).dd = s.dd
           /\ WithAr(s, ar).asking = s.asking
           /\ WithAr(s, ar).listen.retry = s.listen.retry
           /\ WithAr(s, ar).listen.adding = s.listen.adding
           /\ WithAr(s, ar).listen.touched = s.listen.touched
           /\ WithAr(s, ar).listen.spoilt = s.listen.spoilt
<1> DEFINE u == WithAr(s, ar)
           l == [s.listen EXCEPT !.ar = ar]
<1>1. l \in Listens /\ l.ar = ar /\ l.retry = s.listen.retry /\ l.adding = s.listen.adding
      /\ l.touched = s.listen.touched /\ l.spoilt = s.listen.spoilt
  BY StateType DEF Listens
<1>2. u = [info |-> s.info, dd |-> s.dd, asking |-> s.asking, listen |-> l]
  BY DEF States, WithAr
<1> HIDE DEF l, u
<1>3. u \in States
  BY <1>1, <1>2, StateType DEF States
<1> QED
  BY <1>1, <1>2, <1>3 DEF u

-----------------------------------------------------------------------------
(* Discovery. *)

\* After a broadcast the discovery d has its timer.
LEMMA BroadcastSound ==
    ASSUME NEW s \in States, NEW d \in Discovery, NEW u \in Broadcast(s, d),
           s.dd[d].live, ~s.dd[d].inpa, ~s.dd[d].tima, ~s.dd[d].late, ~s.dd[d].fetch
    PROVE  /\ u \in States /\ u.dd[d].live /\ Goes(u.dd[d])
           /\ \A e \in Discovery \ {d} : u.dd[e] = s.dd[e]
           /\ u.info = s.info /\ u.asking = s.asking /\ u.listen = s.listen
<1> DEFINE D == s.dd[d]
<1>1. D \in Data
  BY StateType
<1>2. ASSUME NEW k \in D.retry .. NUM_UDP_ATTEMPTS, D.fd = "open",
             u = [s EXCEPT !.dd[d].retry = k, !.dd[d].tima = TRUE, !.dd[d].inpa = TRUE]
      PROVE  \E r \in Data : u = WithData(s, d, r) /\ r.live /\ Goes(r)
  <2> DEFINE r == [D EXCEPT !.retry = k, !.tima = TRUE, !.inpa = TRUE]
  <2>1. k \in 0..NUM_UDP_ATTEMPTS
    BY <1>1, PortMappingAssumption DEF Data
  <2>2. r \in Data /\ r.live /\ Goes(r)
    BY <1>1, <1>2, <2>1 DEF Data, Goes
  <2>3. u = WithData(s, d, r)
    BY <1>1, <1>2, StateType DEF States, Data, WithData
  <2> QED
    BY <2>2, <2>3
<1>3. ASSUME u = [s EXCEPT !.dd[d].retry = NUM_UDP_ATTEMPTS, !.dd[d].late = TRUE]
      PROVE  \E r \in Data : u = WithData(s, d, r) /\ r.live /\ Goes(r)
  <2> DEFINE r == [D EXCEPT !.retry = NUM_UDP_ATTEMPTS, !.late = TRUE]
  <2>1. NUM_UDP_ATTEMPTS \in 0..NUM_UDP_ATTEMPTS
    BY PortMappingAssumption
  <2>2. r \in Data /\ r.live /\ Goes(r)
    BY <1>1, <2>1 DEF Data, Goes
  <2>3. u = WithData(s, d, r)
    BY <1>1, <1>3, StateType DEF States, Data, WithData
  <2> QED
    BY <2>2, <2>3
<1>4. PICK r \in Data : u = WithData(s, d, r) /\ r.live /\ Goes(r)
  BY <1>2, <1>3 DEF Broadcast
<1> QED
  BY <1>4, DataStep

\* The status of upnp.c changes.
LEMMA StatusStep ==
    ASSUME NEW s \in States, NEW st \in Statuses
    PROVE  /\ Status(s, st) \in States /\ Status(s, st).info.status = st
           /\ Status(s, st).info.internal = s.info.internal
           /\ Status(s, st).info.fresh = (st = "unable")
           /\ Status(s, st).dd = s.dd /\ Status(s, st).asking = s.asking
           /\ Status(s, st).listen = s.listen
<1> DEFINE u == Status(s, st)
           i == [s.info EXCEPT !.status = st, !.fresh = (st = "unable")]
<1>1. i \in Infos /\ i.status = st /\ i.internal = s.info.internal
      /\ i.fresh = (st = "unable")
  BY StateType DEF Infos
<1>2. u = [info |-> i, dd |-> s.dd, asking |-> s.asking, listen |-> s.listen]
  <2>1. ASSUME NEW fresh
        PROVE  [s EXCEPT !.info.status = st, !.info.fresh = fresh]
                  = [info |-> [s.info EXCEPT !.status = st, !.fresh = fresh], dd |-> s.dd,
                     asking |-> s.asking, listen |-> s.listen]
    <3> DEFINE i1 == [s.info EXCEPT !.status = st]
               s1 == [s EXCEPT !.info.status = st]
    <3>1. s1 = [info |-> i1, dd |-> s.dd, asking |-> s.asking, listen |-> s.listen]
      BY DEF States
    <3> HIDE DEF i1, s1
    <3>2. [s1 EXCEPT !.info.fresh = fresh]
             = [info |-> [i1 EXCEPT !.fresh = fresh], dd |-> s.dd, asking |-> s.asking,
                listen |-> s.listen]
      BY <3>1
    <3> QED
      BY <3>2 DEF i1, s1
  <2> QED
    BY <2>1, Zenon DEF Status
<1> HIDE DEF i, u
<1>3. u \in States
  BY <1>1, <1>2, StateType DEF States
<1> QED
  BY <1>1, <1>2, <1>3 DEF u

\* A discovery that starts goes on: whoever is told to wait does not wait in vain.
LEMMA DiscoverSound ==
    ASSUME NEW s, Under(s), NEW waits \in BOOLEAN, NEW u \in Discover(s, waits)
    PROVE  /\ Sound(u)
           /\ u.listen.ar = IF waits THEN "waiting" ELSE s.listen.ar
           /\ u.listen.touched = s.listen.touched /\ u.listen.retry = s.listen.retry
           /\ u.listen.spoilt = s.listen.spoilt
<1> DEFINE w == IF waits THEN WithAr(s, "waiting") ELSE s
           new(fd) == [NoDiscovery EXCEPT !.live = TRUE, !.fd = fd]
           begun(d, fd) == WithData(w, d, new(fd))
           d == CHOOSE d \in Idle(s) : TRUE
<1>1. /\ w \in States /\ w.dd = s.dd /\ w.info = s.info /\ w.asking = s.asking
      /\ w.listen.ar = (IF waits THEN "waiting" ELSE s.listen.ar)
      /\ w.listen.touched = s.listen.touched /\ w.listen.retry = s.listen.retry
      /\ w.listen.spoilt = s.listen.spoilt
  BY ArStep DEF Under, Waits
<1>2. \/ s.info.status = "discovering" /\ u = w
      \/ /\ Idle(s) # {}
         /\ \/ \E fd \in {"zero", "open"} :
                  u = [begun(d, fd) EXCEPT !.dd[d].retry = NUM_UDP_ATTEMPTS, !.dd[d].late = TRUE]
            \/ u \in Broadcast([begun(d, "open") EXCEPT !.info.status = "discovering"], d)
  BY Zenon DEF Discover, WithAr, WithData
<1> HIDE DEF w
<1>3. CASE s.info.status = "discovering" /\ u = w
  BY <1>1, <1>3 DEF Under, Sound, Alive
<1>4. ASSUME Idle(s) # {}, NEW fd \in {"zero", "open"},
             u = [begun(d, fd) EXCEPT !.dd[d].retry = NUM_UDP_ATTEMPTS, !.dd[d].late = TRUE]
      PROVE  \E e \in Discovery, v \in States :
                /\ v.listen = w.listen /\ u = v /\ v.dd[e].live /\ Goes(v.dd[e])
                /\ \A f \in Discovery \ {e} : v.dd[f] = w.dd[f]
  <2> DEFINE r == [new(fd) EXCEPT !.retry = NUM_UDP_ATTEMPTS, !.late = TRUE]
  <2>1. d \in Discovery
    BY <1>4 DEF Idle
  <2> HIDE DEF d
  <2>2. NUM_UDP_ATTEMPTS \in 0..NUM_UDP_ATTEMPTS
    BY PortMappingAssumption
  <2>3. r \in Data /\ r.live /\ Goes(r)
    BY <2>2 DEF NoDiscovery, Data, Goes
  <2>4. u = WithData(w, d, r)
    BY <1>1, <1>4, <2>1, StateType DEF States, WithData, NoDiscovery
  <2> HIDE DEF r
  <2> QED
    BY <1>1, <2>1, <2>3, <2>4, DataStep
<1>5. ASSUME Idle(s) # {},
             u \in Broadcast([begun(d, "open") EXCEPT !.info.status = "discovering"], d)
      PROVE  \E e \in Discovery, v \in States :
                /\ v.listen = w.listen /\ u = v /\ v.dd[e].live /\ Goes(v.dd[e])
                /\ \A f \in Discovery \ {e} : v.dd[f] = w.dd[f]
  <2> DEFINE b == begun(d, "open")
             c == [b EXCEPT !.info.status = "discovering"]
             r == new("open")
  <2>1. d \in Discovery
    BY <1>5 DEF Idle
  <2> HIDE DEF d
  <2>2. 0 \in 0..NUM_UDP_ATTEMPTS
    BY PortMappingAssumption
  <2>3. r \in Data /\ r.live /\ ~r.inpa /\ ~r.tima /\ ~r.late /\ ~r.fetch
    BY <2>2 DEF NoDiscovery, Data
  <2> HIDE DEF r
  <2>4. /\ b \in States /\ b.dd[d] = r /\ \A f \in Discovery \ {d} : b.dd[f] = w.dd[f]
        /\ b.listen = w.listen
    BY <1>1, <2>1, <2>3, DataStep DEF r
  <2> HIDE DEF b
  <2>5. /\ c \in States /\ c.dd = b.dd /\ c.listen = b.listen
    <3> DEFINE i == [b.info EXCEPT !.status = "discovering"]
    <3>1. i \in Infos
      BY <2>4, StateType DEF Infos, Statuses
    <3>2. c = [info |-> i, dd |-> b.dd, asking |-> b.asking, listen |-> b.listen]
      BY <2>4 DEF States
    <3> HIDE DEF i, c
    <3>3. c \in States
      BY <2>4, <3>1, <3>2, StateType DEF States
    <3> QED
      BY <3>2, <3>3
  <2>6. u \in Broadcast(c, d)
    BY <1>5 DEF b
  <2> HIDE DEF c
  <2>7. /\ u \in States /\ u.dd[d].live /\ Goes(u.dd[d])
        /\ \A e \in Discovery \ {d} : u.dd[e] = c.dd[e]
        /\ u.listen = c.listen
    BY <2>1, <2>3, <2>4, <2>5, <2>6, BroadcastSound
  <2> QED
    BY <2>1, <2>4, <2>5, <2>7
<1>6. ASSUME NEW e \in Discovery, u \in States, u.listen = w.listen, u.dd[e].live, Goes(u.dd[e]),
             \A f \in Discovery \ {e} : u.dd[f] = w.dd[f]
      PROVE  Sound(u) /\ u.listen = w.listen
  BY <1>1, <1>6 DEF Sound, Under, Alive
<1>7. CASE \E e \in Discovery, v \in States :
              /\ v.listen = w.listen /\ u = v /\ v.dd[e].live /\ Goes(v.dd[e])
              /\ \A f \in Discovery \ {e} : v.dd[f] = w.dd[f]
  <2>1. Sound(u) /\ u.listen = w.listen
    BY <1>6, <1>7
  <2> QED
    BY <1>1, <2>1
<1> QED
  BY <1>2, <1>3, <1>4, <1>5, <1>7

-----------------------------------------------------------------------------
(* Mapping. *)

\* Of the listener nothing but what it waits for bears on the discoveries.
LEMMA UnderSame ==
    ASSUME NEW s, Under(s), NEW u \in States, u.info = s.info, u.dd = s.dd
    PROVE  Under(u)
BY DEF Under, Alive

LEMMA FinishedSound ==
    ASSUME NEW s, Under(s)
    PROVE  /\ Sound(Finished(s)) /\ Finished(s).listen.ar = "done"
           /\ Finished(s).listen.touched = s.listen.touched
           /\ Finished(s).listen.spoilt = s.listen.spoilt
<1> DEFINE u == WithAr(s, "done")
<1>1. /\ u \in States /\ u.listen.ar = "done" /\ u.info = s.info /\ u.dd = s.dd
      /\ u.listen.touched = s.listen.touched /\ u.listen.spoilt = s.listen.spoilt
  BY ArStep DEF Under
<1>2. Finished(s) = u
  BY DEF Finished, WithAr
<1> HIDE DEF u
<1>3. Under(u)
  BY <1>1, UnderSame
<1> QED
  BY <1>1, <1>2, <1>3 DEF Sound

LEMMA ListenFields ==
    ASSUME NEW s \in States, NEW v
    PROVE  /\ [s EXCEPT !.listen.retry = v]
                 = [info |-> s.info, dd |-> s.dd, asking |-> s.asking,
                    listen |-> [s.listen EXCEPT !.retry = v]]
           /\ [s EXCEPT !.listen.adding = v]
                 = [info |-> s.info, dd |-> s.dd, asking |-> s.asking,
                    listen |-> [s.listen EXCEPT !.adding = v]]
           /\ [s EXCEPT !.listen.touched = v]
                 = [info |-> s.info, dd |-> s.dd, asking |-> s.asking,
                    listen |-> [s.listen EXCEPT !.touched = v]]
           /\ [s EXCEPT !.listen.spoilt = v]
                 = [info |-> s.info, dd |-> s.dd, asking |-> s.asking,
                    listen |-> [s.listen EXCEPT !.spoilt = v]]
BY DEF States

\* A request that could not be sent is used after it was freed.
LEMMA UnsentSound ==
    ASSUME NEW s, Under(s)
    PROVE  /\ Sound(Unsent(s)) /\ Unsent(s).listen.ar = "refused"
           /\ Unsent(s).listen.spoilt = TRUE
           /\ Unsent(s).listen.touched = s.listen.touched
           /\ Unsent(s).listen.retry = s.listen.retry
<1> DEFINE t == WithAr(s, "refused")
           l == [t.listen EXCEPT !.spoilt = TRUE]
           u == [t EXCEPT !.listen.spoilt = TRUE]
<1>1. /\ t \in States /\ t.listen.ar = "refused" /\ t.info = s.info /\ t.dd = s.dd
      /\ t.listen.touched = s.listen.touched /\ t.listen.retry = s.listen.retry
  BY ArStep DEF Under
<1>2. Unsent(s) = u
  BY Zenon DEF Unsent, WithAr
<1> HIDE DEF t
<1>3. /\ l \in Listens /\ l.ar = "refused" /\ l.spoilt = TRUE
      /\ l.touched = s.listen.touched /\ l.retry = s.listen.retry
  BY <1>1, StateType DEF Listens
<1>4. u = [info |-> t.info, dd |-> t.dd, asking |-> t.asking, listen |-> l]
  BY <1>1, ListenFields, Zenon
<1> HIDE DEF l, u
<1>5. u \in States
  BY <1>1, <1>3, <1>4, StateType DEF States
<1>6. Under(u) /\ u.listen = l
  BY <1>1, <1>4, <1>5, UnderSame
<1> QED
  BY <1>2, <1>3, <1>6 DEF Sound

\* A request waits for a discovery that goes on, or is refused because the internal
\* address is not known, or it could not be sent.
LEMMA AskSound ==
    ASSUME NEW s, Under(s), NEW u \in Ask(s)
    PROVE  /\ Sound(u)
           /\ u.listen.ar \in {"waiting", "timer", "refused", "fetch"}
           /\ u.listen.touched = s.listen.touched /\ u.listen.retry = s.listen.retry
           /\ s.listen.spoilt => u.listen.spoilt
           /\ u.listen.ar = "refused" =>
                 u.listen.spoilt \/ (s.listen.adding /\ ~InternalKnown(s))
<1> DEFINE Asked(ar) == u = WithAr(s, ar)
<1>1. s.info.status \in Statuses /\ s.info.fresh \in BOOLEAN
  BY StateType DEF Under, Infos
<1>2. \/ s.info.status = "discovering" /\ Asked("waiting")
      \/ u \in Discover(s, TRUE)
      \/ Asked("timer")
      \/ s.listen.adding /\ ~InternalKnown(s) /\ Asked("refused")
      \/ Asked("fetch")
      \/ u = Unsent(s)
  BY <1>1 DEF Ask, Statuses, WithAr
<1>3. ASSUME NEW ar \in {"waiting", "timer", "refused", "fetch"}, Asked(ar),
             ar = "waiting" => s.info.status = "discovering"
      PROVE  Sound(u) /\ u.listen.ar = ar /\ u.listen.touched = s.listen.touched
             /\ u.listen.retry = s.listen.retry /\ u.listen.spoilt = s.listen.spoilt
  <2>1. /\ u \in States /\ u.listen.ar = ar /\ u.info = s.info /\ u.dd = s.dd
        /\ u.listen.touched = s.listen.touched /\ u.listen.retry = s.listen.retry
        /\ u.listen.spoilt = s.listen.spoilt
    BY <1>3, ArStep DEF Under, Waits
  <2>2. Under(u)
    BY <2>1, UnderSame
  <2> QED
    BY <1>3, <2>1, <2>2 DEF Sound, Under
<1>4. CASE s.info.status = "discovering" /\ Asked("waiting")
  BY <1>3, <1>4
<1>5. CASE u \in Discover(s, TRUE)
  BY <1>5, DiscoverSound
<1>6. CASE Asked("timer")
  BY <1>3, <1>6
<1>7. CASE s.listen.adding /\ ~InternalKnown(s) /\ Asked("refused")
  BY <1>3, <1>7
<1>8. CASE Asked("fetch")
  BY <1>3, <1>8
<1>9. CASE u = Unsent(s)
  BY <1>9, UnsentSound
<1> QED
  BY <1>2, <1>4, <1>5, <1>6, <1>7, <1>8, <1>9

\* What a request that was made is stored in.
LEMMA StoredSound ==
    ASSUME NEW s, Sound(s), s.listen.ar \in {"waiting", "timer", "refused", "fetch"}
    PROVE  /\ Sound(Stored(s)) /\ Stored(s).listen.ar \in {"waiting", "timer", "fetch", "done"}
           /\ s.listen.ar # "refused" => Stored(s) = s
           /\ Stored(s).listen.spoilt = s.listen.spoilt
<1>1. CASE s.listen.ar # "refused"
  BY <1>1 DEF Stored
<1>2. CASE s.listen.ar = "refused"
  <2> DEFINE t == Finished(s)
             l == [t.listen EXCEPT !.touched = TRUE]
             u == [t EXCEPT !.listen.touched = TRUE]
  <2>1. Sound(t) /\ t.listen.ar = "done" /\ t \in States /\ t.listen.spoilt = s.listen.spoilt
    BY FinishedSound DEF Sound, Under
  <2> HIDE DEF t
  <2>2. l \in Listens /\ l.ar = "done" /\ l.spoilt = s.listen.spoilt
    BY <2>1, StateType DEF Listens
  <2>3. u = [info |-> t.info, dd |-> t.dd, asking |-> t.asking, listen |-> l]
    BY <2>1, ListenFields, Zenon
  <2>4. Stored(s) = u
    BY <1>2 DEF Stored, t
  <2> HIDE DEF l, u
  <2>5. u \in States
    BY <2>1, <2>2, <2>3, StateType DEF States
  <2>6. Under(u) /\ u.listen.ar = "done" /\ u.listen.spoilt = s.listen.spoilt
    BY <2>1, <2>2, <2>3, <2>5, UnderSame DEF Sound
  <2> QED
    BY <1>2, <2>4, <2>6 DEF Sound
<1> QED
  BY <1>1, <1>2

\* The router has answered.  The structure is written after it was freed only when a
\* mapping was removed before the internal address was known, or a request could not be
\* sent.
LEMMA MappedSound ==
    ASSUME NEW s, Under(s), NEW success \in BOOLEAN, NEW u \in Mapped(s, success)
    PROVE  /\ Sound(u) /\ u.listen.ar \in {"waiting", "timer", "fetch", "done"}
           /\ u.listen.touched => \/ s.listen.touched \/ u.listen.spoilt
                                  \/ success /\ ~s.listen.adding /\ ~InternalKnown(s)
           /\ s.listen.spoilt => u.listen.spoilt
<1>1. s \in States /\ s.listen \in Listens
  BY StateType DEF Under
<1>2. CASE ~success /\ s.listen.retry
  <2> DEFINE l == [s.listen EXCEPT !.retry = FALSE, !.adding = FALSE]
             t == [s EXCEPT !.listen.retry = FALSE, !.listen.adding = FALSE]
  <2>1. l \in Listens /\ l.adding = FALSE /\ l.touched = s.listen.touched
        /\ l.spoilt = s.listen.spoilt
    BY <1>1 DEF Listens
  <2>2. t = [info |-> s.info, dd |-> s.dd, asking |-> s.asking, listen |-> l]
    <3> DEFINE l1 == [s.listen EXCEPT !.retry = FALSE]
               t1 == [s EXCEPT !.listen.retry = FALSE]
    <3>1. t1 = [info |-> s.info, dd |-> s.dd, asking |-> s.asking, listen |-> l1]
      BY <1>1, ListenFields, Zenon
    <3>2. l1 \in Listens
      BY <1>1 DEF Listens
    <3> HIDE DEF l1, t1
    <3>3. t1 \in States /\ t1.info = s.info /\ t1.dd = s.dd /\ t1.asking = s.asking
          /\ t1.listen = l1
      BY <1>1, <3>1, <3>2, StateType DEF States
    <3>4. [t1 EXCEPT !.listen.adding = FALSE]
             = [info |-> s.info, dd |-> s.dd, asking |-> s.asking,
                listen |-> [l1 EXCEPT !.adding = FALSE]]
      <4>1. t1 \in States
        BY <3>3
      <4>2. [t1 EXCEPT !.listen.adding = FALSE]
               = [info |-> t1.info, dd |-> t1.dd, asking |-> t1.asking,
                  listen |-> [t1.listen EXCEPT !.adding = FALSE]]
        BY <4>1, ListenFields
      <4> QED
        BY <3>3, <4>2
    <3>5. t = [t1 EXCEPT !.listen.adding = FALSE] /\ l = [l1 EXCEPT !.adding = FALSE]
      BY Zenon DEF t, l, t1, l1
    <3> QED
      BY <3>4, <3>5, Zenon
  <2>3. \E v \in Ask(t) : u = Stored(v)
    BY <1>2 DEF Mapped
  <2> HIDE DEF l, t
  <2>4. t \in States
    BY <1>1, <2>1, <2>2, StateType DEF States
  <2>5. Under(t) /\ t.listen.adding = FALSE /\ t.listen.touched = s.listen.touched
        /\ t.listen.spoilt = s.listen.spoilt
    BY <2>1, <2>2, <2>4, UnderSame
  <2>6. PICK v \in Ask(t) : u = Stored(v)
    BY <2>3
  <2>7. /\ Sound(v) /\ v.listen.ar \in {"waiting", "timer", "refused", "fetch"}
        /\ v.listen.touched = s.listen.touched
        /\ s.listen.spoilt => v.listen.spoilt
        /\ v.listen.ar = "refused" => v.listen.spoilt
    BY <2>5, <2>6, AskSound
  <2>8. /\ Sound(u) /\ u.listen.ar \in {"waiting", "timer", "fetch", "done"}
        /\ v.listen.ar # "refused" => u = v
        /\ u.listen.spoilt = v.listen.spoilt
    BY <2>6, <2>7, StoredSound
  <2> QED
    BY <2>7, <2>8
<1>3. CASE success /\ ~s.listen.adding
  <2> DEFINE l == [s.listen EXCEPT !.adding = TRUE]
             t == [s EXCEPT !.listen.adding = TRUE]
  <2>1. l \in Listens /\ l.touched = s.listen.touched /\ l.spoilt = s.listen.spoilt
    BY <1>1 DEF Listens
  <2>2. t = [info |-> s.info, dd |-> s.dd, asking |-> s.asking, listen |-> l]
    BY <1>1, ListenFields, Zenon
  <2>3. \E v \in Ask(t) : u = Stored(v)
    BY <1>3 DEF Mapped
  <2> HIDE DEF l, t
  <2>4. t \in States
    BY <1>1, <2>1, <2>2, StateType DEF States
  <2>5. Under(t) /\ t.listen.touched = s.listen.touched /\ t.info = s.info
        /\ t.listen.spoilt = s.listen.spoilt
    BY <2>1, <2>2, <2>4, UnderSame
  <2>6. PICK v \in Ask(t) : u = Stored(v)
    BY <2>3
  <2>7. /\ Sound(v) /\ v.listen.ar \in {"waiting", "timer", "refused", "fetch"}
        /\ v.listen.touched = s.listen.touched
        /\ s.listen.spoilt => v.listen.spoilt
        /\ v.listen.ar = "refused" => v.listen.spoilt \/ ~InternalKnown(s)
    BY <2>5, <2>6, AskSound DEF InternalKnown
  <2>8. /\ Sound(u) /\ u.listen.ar \in {"waiting", "timer", "fetch", "done"}
        /\ v.listen.ar # "refused" => u = v
        /\ u.listen.spoilt = v.listen.spoilt
    BY <2>6, <2>7, StoredSound
  <2> QED
    BY <1>3, <2>7, <2>8
<1>4. CASE ~(~success /\ s.listen.retry) /\ ~(success /\ ~s.listen.adding)
  <2>1. u = Finished(s)
    BY <1>4 DEF Mapped
  <2> QED
    BY <1>4, <2>1, FinishedSound
<1> QED
  BY <1>2, <1>3, <1>4

LEMMA DoMappingSound ==
    ASSUME NEW s, Under(s), NEW found \in BOOLEAN, NEW u \in DoMapping(s, found)
    PROVE  /\ Sound(u) /\ u.listen.ar \in {"waiting", "timer", "fetch", "done"}
           /\ NoWorse(s, u)
<1>1. CASE u = WithAr(s, "fetch")
  <2>1. /\ u \in States /\ u.listen.ar = "fetch" /\ u.info = s.info /\ u.dd = s.dd
        /\ u.listen.touched = s.listen.touched /\ u.listen.spoilt = s.listen.spoilt
    BY <1>1, ArStep DEF Under, Waits
  <2>2. Under(u)
    BY <2>1, UnderSame
  <2> QED
    BY <2>1, <2>2 DEF Sound, NoWorse
<1>2. CASE u \in Mapped(s, FALSE)
  BY <1>2, MappedSound DEF NoWorse
<1>3. CASE u \in Mapped(Unsent(s), FALSE)
  <2>1. Under(Unsent(s)) /\ Unsent(s).listen.spoilt
    BY UnsentSound DEF Sound
  <2>2. /\ Sound(u) /\ u.listen.ar \in {"waiting", "timer", "fetch", "done"}
        /\ u.listen.spoilt
    BY <1>3, <2>1, MappedSound
  <2> QED
    BY <2>2 DEF NoWorse
<1> QED
  BY <1>1, <1>2, <1>3 DEF DoMapping, WithAr

\* Whoever waits is told, and has something else to wait for, or is finished.
LEMMA FireCallbacksSound ==
    ASSUME NEW s, Under(s), NEW success \in BOOLEAN, NEW u \in FireCallbacks(s, success)
    PROVE  /\ Sound(u)
           /\ s.listen.ar # "waiting" => u.listen.ar = s.listen.ar
           /\ s.listen.ar = "waiting" => u.listen.ar \in {"waiting", "timer", "fetch", "done"}
           /\ NoWorse(s, u)
<1>1. CASE s.listen.ar = "waiting"
  BY <1>1, DoMappingSound DEF FireCallbacks
<1>2. CASE s.listen.ar # "waiting"
  BY <1>2 DEF FireCallbacks, Sound, NoWorse
<1> QED
  BY <1>1, <1>2

\* A listener starts to wait, and for something that goes on, or is told at once.
LEMMA ListenSound ==
    ASSUME NEW s, Under(s), NEW external \in BOOLEAN, NEW pmp \in BOOLEAN,
           NEW u \in Listen(s, external, pmp)
    PROVE  Sound(u) /\ u.listen.ar \in Waits \cup {"done"} /\ NoWorse(s, u)
<1> DEFINE l == [NoListen EXCEPT !.retry = TRUE, !.adding = TRUE,
                                 !.touched = s.listen.touched, !.spoilt = s.listen.spoilt]
           b == [s EXCEPT !.listen = l]
<1>1. s \in States /\ s.listen \in Listens
  BY StateType DEF Under
<1>2. l \in Listens /\ l.touched = s.listen.touched /\ l.spoilt = s.listen.spoilt
  BY <1>1 DEF Listens, NoListen
<1>3. b = [info |-> s.info, dd |-> s.dd, asking |-> s.asking, listen |-> l]
  BY <1>1 DEF States
<1>4. \/ u = WithAr(b, "soon")
      \/ \E t \in Ask(b) : u \in IF t.listen.ar = "refused" THEN Mapped(t, FALSE) ELSE {t}
  BY DEF Listen, WithAr
<1> HIDE DEF l, b
<1>5. b \in States
  BY <1>1, <1>2, <1>3, StateType DEF States
<1>6. /\ Under(b) /\ b.listen.touched = s.listen.touched
      /\ b.listen.spoilt = s.listen.spoilt
  BY <1>2, <1>3, <1>5, UnderSame
<1>7. CASE u = WithAr(b, "soon")
  <2>1. /\ u \in States /\ u.listen.ar = "soon" /\ u.info = b.info /\ u.dd = b.dd
        /\ u.listen.touched = b.listen.touched /\ u.listen.spoilt = b.listen.spoilt
    BY <1>5, <1>7, ArStep DEF Waits
  <2>2. Under(u)
    BY <1>6, <2>1, UnderSame
  <2> QED
    BY <1>6, <2>1, <2>2 DEF Sound, Waits, NoWorse
<1>8. CASE \E t \in Ask(b) : u \in IF t.listen.ar = "refused" THEN Mapped(t, FALSE) ELSE {t}
  <2>1. PICK t \in Ask(b) : u \in IF t.listen.ar = "refused" THEN Mapped(t, FALSE) ELSE {t}
    BY <1>8
  <2>2. /\ Sound(t) /\ t.listen.ar \in {"waiting", "timer", "refused", "fetch"}
        /\ t.listen.touched = s.listen.touched /\ (s.listen.spoilt => t.listen.spoilt)
    BY <1>6, AskSound
  <2>3. CASE t.listen.ar # "refused"
    BY <2>1, <2>2, <2>3 DEF Waits, NoWorse
  <2>4. CASE t.listen.ar = "refused"
    <3>1. u \in Mapped(t, FALSE) /\ Under(t)
      BY <2>1, <2>2, <2>4 DEF Sound
    <3> QED
      BY <2>2, <3>1, MappedSound DEF Waits, NoWorse
  <2> QED
    BY <2>3, <2>4
<1> QED
  BY <1>4, <1>7, <1>8

-----------------------------------------------------------------------------
(* The handlers. *)

\* A handler that finds the listener in one of these stages leaves it in one of them,
\* or finished.
Stage(s) == s.listen.ar \in Waits \cup {"none"}

Leaves(s, u) ==
    /\ Sound(u) /\ u.listen.ar \in Waits \cup {"none", "done"}
    /\ u.listen.ar = "none" <=> s.listen.ar = "none"

\* Whoever else is told of the end of a discovery.
LEMMA FireCallbacksLeaves ==
    ASSUME NEW s, Under(s), Stage(s), NEW success \in BOOLEAN,
           NEW u \in FireCallbacks(s, success)
    PROVE  Leaves(s, u) /\ NoWorse(s, u)
<1>1. Sound(u) /\ NoWorse(s, u)
  BY FireCallbacksSound
<1>2. CASE s.listen.ar = "waiting"
  <2>1. u.listen.ar \in {"waiting", "timer", "fetch", "done"}
    BY <1>2, FireCallbacksSound
  <2> QED
    BY <1>1, <1>2, <2>1 DEF Leaves, Waits
<1>3. CASE s.listen.ar # "waiting"
  <2>1. u.listen.ar = s.listen.ar
    BY <1>3, FireCallbacksSound
  <2> QED
    BY <1>1, <2>1 DEF Leaves, Stage
<1> QED
  BY <1>2, <1>3

\* One discovery changes and lives on.
LEMMA LivesOn ==
    ASSUME NEW s, Sound(s), NEW d \in Discovery, NEW r \in Data, Goes(r), r.live
    PROVE  Sound(WithData(s, d, r))
<1> DEFINE u == WithData(s, d, r)
<1>1. /\ u \in States /\ u.dd[d] = r /\ \A e \in Discovery \ {d} : u.dd[e] = s.dd[e]
      /\ u.listen = s.listen
  BY DataStep DEF Sound, Under
<1> HIDE DEF u
<1>2. Sound(u)
  BY <1>1 DEF Sound, Under, Alive
<1> QED
  BY <1>2 DEF u

\* One discovery is over, and its outcome is known.
LEMMA IsOver ==
    ASSUME NEW s \in States, NEW d \in Discovery, \A e \in Discovery \ {d} : Goes(s.dd[e]),
           NEW st \in Statuses \ {"discovering"}
    PROVE  LET u == Status(WithData(s, d, NoDiscovery), st)
           IN  Under(u) /\ u.listen = s.listen
<1> DEFINE v == WithData(s, d, NoDiscovery)
           u == Status(v, st)
<1>1. NoDiscovery \in Data /\ Goes(NoDiscovery)
  BY PortMappingAssumption DEF NoDiscovery, Data, Goes
<1>2. /\ v \in States /\ v.dd[d] = NoDiscovery
      /\ \A e \in Discovery \ {d} : v.dd[e] = s.dd[e]
      /\ v.listen = s.listen
  BY <1>1, DataStep
<1> HIDE DEF v
<1>3. u \in States /\ u.info.status = st /\ u.dd = v.dd /\ u.listen = v.listen
  BY <1>2, StatusStep
<1> HIDE DEF u
<1>4. Under(u) /\ u.listen = s.listen
  BY <1>1, <1>2, <1>3 DEF Under
<1> QED
  BY <1>4 DEF u, v

LEMMA TimeoutLeaves ==
    ASSUME NEW s, Sound(s), Stage(s), NEW d \in Discovery, NEW u \in DiscoverTimeout(s, d)
    PROVE  Leaves(s, u) /\ NoWorse(s, u)
<1> DEFINE D == s.dd[d]
           r == [D EXCEPT !.inpa = FALSE, !.tima = FALSE, !.late = FALSE]
           r1 == [r EXCEPT !.retry = r.retry + 1]
           t == [s EXCEPT !.dd[d].inpa = FALSE, !.dd[d].tima = FALSE, !.dd[d].late = FALSE]
<1>1. D \in Data /\ s \in States /\ Goes(D) /\ NUM_UDP_ATTEMPTS \in Nat
  BY StateType, PortMappingAssumption DEF Sound, Under
<1>2. D.tima \/ D.late
  BY DEF DiscoverTimeout
<1>3. /\ r \in Data /\ r.live /\ ~r.inpa /\ ~r.tima /\ ~r.late /\ ~r.fetch /\ r.retry = D.retry
  BY <1>1, <1>2 DEF Data, Goes
<1>4. t = WithData(s, d, r)
  BY <1>1, StateType DEF States, Data, WithData
<1>5. /\ t \in States /\ t.dd[d] = r /\ \A e \in Discovery \ {d} : t.dd[e] = s.dd[e]
      /\ t.listen = s.listen
  <2> HIDE DEF r, t
  <2> QED
    BY <1>1, <1>3, <1>4, DataStep
<1>6. CASE D.retry < NUM_UDP_ATTEMPTS
  <2>1. u \in Broadcast([t EXCEPT !.dd[d].retry = @ + 1], d)
    BY <1>2, <1>6 DEF DiscoverTimeout
  <2>2. [t EXCEPT !.dd[d].retry = @ + 1] = WithData(t, d, r1)
    BY <1>5 DEF WithData
  <2>3. r1 \in Data /\ r1.live /\ ~r1.inpa /\ ~r1.tima /\ ~r1.late /\ ~r1.fetch
    <3>1. D.retry + 1 \in 0..NUM_UDP_ATTEMPTS
      BY <1>1, <1>6 DEF Data
    <3> HIDE DEF r
    <3> QED
      BY <1>3, <3>1 DEF Data
  <2> DEFINE v == WithData(t, d, r1)
  <2> HIDE DEF r, r1, t
  <2>4. /\ v \in States /\ v.dd[d] = r1 /\ \A e \in Discovery \ {d} : v.dd[e] = s.dd[e]
        /\ v.listen = s.listen
    BY <1>5, <2>3, DataStep
  <2>5. u \in Broadcast(v, d)
    BY <2>1, <2>2
  <2> HIDE DEF v
  <2>6. /\ u \in States /\ u.dd[d].live /\ Goes(u.dd[d])
        /\ \A e \in Discovery \ {d} : u.dd[e] = s.dd[e]
        /\ u.listen = s.listen
    BY <2>3, <2>4, <2>5, BroadcastSound
  <2>7. Sound(u)
    BY <2>6 DEF Sound, Under, Alive
  <2> QED
    BY <2>6, <2>7 DEF Leaves, Stage, NoWorse
<1>7. CASE ~(D.retry < NUM_UDP_ATTEMPTS)
  <2> DEFINE v == Status(WithData(t, d, NoDiscovery), "unable")
  <2>1. u \in FireCallbacks(Status([t EXCEPT !.dd[d] = NoDiscovery], "unable"), FALSE)
    BY <1>2, <1>7 DEF DiscoverTimeout
  <2> HIDE DEF t, r
  <2>2. [t EXCEPT !.dd[d] = NoDiscovery] = WithData(t, d, NoDiscovery)
    BY DEF WithData
  <2>3. u \in FireCallbacks(v, FALSE)
    BY <2>1, <2>2
  <2>4. Under(v) /\ v.listen = s.listen
    BY <1>5, IsOver DEF Statuses, Sound, Under
  <2> HIDE DEF v
  <2>5. Leaves(v, u) /\ NoWorse(v, u)
    BY <2>3, <2>4, FireCallbacksLeaves DEF Stage
  <2> QED
    BY <2>4, <2>5 DEF Leaves, NoWorse
<1> QED
  BY <1>6, <1>7

\* A discovery without a description is over.
LEMMA OverLeaves ==
    ASSUME NEW s, Sound(s), Stage(s), NEW d \in Discovery,
           NEW st \in Statuses \ {"discovering"}, NEW success \in BOOLEAN,
           NEW w \in FireCallbacks(Status(WithData(s, d, NoDiscovery), st), success)
    PROVE  Leaves(s, w) /\ NoWorse(s, w)
<1> DEFINE x == Status(WithData(s, d, NoDiscovery), st)
<1>1. Under(x) /\ x.listen = s.listen
  BY IsOver DEF Sound, Under
<1> HIDE DEF x
<1>2. w \in FireCallbacks(x, success)
  BY DEF x
<1>3. Leaves(x, w) /\ NoWorse(x, w)
  BY <1>1, <1>2, FireCallbacksLeaves DEF Stage
<1> QED
  BY <1>1, <1>3 DEF Leaves, NoWorse

LEMMA UndescribedLeaves ==
    ASSUME NEW s, Sound(s), Stage(s), NEW d \in Discovery, NEW u \in Undescribed(s, d)
    PROVE  Leaves(s, u) /\ NoWorse(s, u)
<1>1. u \in FireCallbacks(Status(WithData(s, d, NoDiscovery), "unable"), FALSE)
  BY DEF Undescribed, WithData
<1> QED
  BY <1>1, OverLeaves DEF Statuses

LEMMA UdpReadLeaves ==
    ASSUME NEW s, Sound(s), Stage(s), NEW d \in Discovery, NEW u \in UdpRead(s, d)
    PROVE  Leaves(s, u) /\ NoWorse(s, u)
<1> DEFINE D == s.dd[d]
<1>1. D \in Data /\ s \in States /\ Goes(D)
  BY StateType DEF Sound, Under
<1>2. D.inpa /\ D.tima /\ D.live
  BY <1>1 DEF UdpRead, Goes
<1>3. u \in Undescribed(s, d) \/ \E usable \in BOOLEAN :
         u = [s EXCEPT !.dd[d].inpa = FALSE, !.dd[d].fd = "closed", !.dd[d].tima = ~usable,
                       !.dd[d].fetch = usable]
  BY DEF UdpRead
<1>4. ASSUME NEW usable \in BOOLEAN,
             u = [s EXCEPT !.dd[d].inpa = FALSE, !.dd[d].fd = "closed", !.dd[d].tima = ~usable,
                           !.dd[d].fetch = usable]
      PROVE  \E r \in Data : u = WithData(s, d, r) /\ Goes(r) /\ r.live
  <2>1. CASE usable
    <3> DEFINE r == [D EXCEPT !.inpa = FALSE, !.fd = "closed", !.tima = FALSE, !.fetch = TRUE]
    <3>1. u = [s EXCEPT !.dd[d].inpa = FALSE, !.dd[d].fd = "closed", !.dd[d].tima = FALSE,
                        !.dd[d].fetch = TRUE]
      BY <1>4, <2>1
    <3>2. u = WithData(s, d, r)
      BY <1>1, <3>1, StateType, ZenonT(60) DEF States, Data, WithData
    <3>3. r \in Data /\ Goes(r) /\ r.live
      BY <1>1, <1>2 DEF Data, Goes
    <3> QED
      BY <3>2, <3>3
  <2>2. CASE ~usable
    <3> DEFINE r == [D EXCEPT !.inpa = FALSE, !.fd = "closed", !.tima = TRUE, !.fetch = FALSE]
    <3>1. u = [s EXCEPT !.dd[d].inpa = FALSE, !.dd[d].fd = "closed", !.dd[d].tima = TRUE,
                        !.dd[d].fetch = FALSE]
      BY <1>4, <2>2
    <3>2. u = WithData(s, d, r)
      BY <1>1, <3>1, StateType, ZenonT(60) DEF States, Data, WithData
    <3>3. r \in Data /\ Goes(r) /\ r.live
      BY <1>1, <1>2 DEF Data, Goes
    <3> QED
      BY <3>2, <3>3
  <2> QED
    BY <2>1, <2>2
<1>5. ASSUME NEW r \in Data, u = WithData(s, d, r), Goes(r), r.live
      PROVE  Leaves(s, u) /\ NoWorse(s, u)
  <2>1. Sound(u) /\ u.listen = s.listen
    BY <1>1, <1>5, LivesOn, DataStep
  <2> QED
    BY <2>1 DEF Leaves, Stage, NoWorse
<1> QED
  BY <1>3, <1>4, <1>5, UndescribedLeaves

LEMMA DescribedLeaves ==
    ASSUME NEW s, Sound(s), Stage(s), NEW d \in Discovery, NEW u \in Described(s, d)
    PROVE  Leaves(s, u) /\ NoWorse(s, u)
<1> DEFINE v == Status(WithData(s, d, NoDiscovery), "discovered")
<1>1. \/ u \in Undescribed(s, d)
      \/ u \in FireCallbacks(v, TRUE)
      \/ \E w \in FireCallbacks(v, TRUE) : u = [w EXCEPT !.asking = @ \cup {d}]
  BY DEF Described, WithData
<1>2. ASSUME NEW w \in FireCallbacks(v, TRUE)
      PROVE  Leaves(s, w) /\ NoWorse(s, w)
  BY <1>2, OverLeaves DEF Statuses
<1> HIDE DEF v
<1>3. CASE u \in Undescribed(s, d)
  BY <1>3, UndescribedLeaves
<1>4. CASE u \in FireCallbacks(v, TRUE)
  BY <1>2, <1>4
<1>5. CASE \E w \in FireCallbacks(v, TRUE) : u = [w EXCEPT !.asking = @ \cup {d}]
  <2>1. PICK w \in FireCallbacks(v, TRUE) : u = [w EXCEPT !.asking = @ \cup {d}]
    BY <1>5
  <2>2. Leaves(s, w) /\ NoWorse(s, w)
    BY <1>2
  <2>3. w \in States
    BY <2>2 DEF Leaves, Sound, Under
  <2>4. u = [info |-> w.info, dd |-> w.dd, asking |-> w.asking \cup {d}, listen |-> w.listen]
    BY <2>1, <2>3 DEF States
  <2>5. u \in States
    BY <2>3, <2>4, StateType DEF States
  <2>6. Sound(u)
    BY <2>2, <2>4, <2>5, UnderSame DEF Leaves, Sound, Alive
  <2> QED
    BY <2>2, <2>4, <2>6 DEF Leaves, NoWorse
<1> QED
  BY <1>1, <1>3, <1>4, <1>5

LEMMA LookedUpLeaves ==
    ASSUME NEW s, Sound(s), Stage(s), NEW d \in Discovery, NEW u \in LookedUp(s, d)
    PROVE  Leaves(s, u) /\ NoWorse(s, u)
<1> DEFINE i == [s.info EXCEPT !.internal = TRUE]
<1>1. s \in States
  BY DEF Sound, Under
<1>2. i \in Infos /\ i.status = s.info.status
  BY <1>1, StateType DEF Infos
<1>3. u = [info |-> i, dd |-> s.dd, asking |-> s.asking \ {d}, listen |-> s.listen]
  BY <1>1 DEF LookedUp, States
<1> HIDE DEF i
<1>4. u \in States
  BY <1>1, <1>2, <1>3, StateType DEF States
<1>5. Sound(u)
  BY <1>2, <1>3, <1>4 DEF Sound, Under, Alive
<1> QED
  BY <1>3, <1>5 DEF Leaves, Stage, NoWorse

LEMMA MapFailedLeaves ==
    ASSUME NEW s, Sound(s), Stage(s), NEW u \in MapFailed(s)
    PROVE  Leaves(s, u) /\ NoWorse(s, u)
<1>1. s.listen.ar = "timer" /\ u \in DoMapping(s, FALSE)
  BY DEF MapFailed
<1> QED
  BY <1>1, DoMappingSound DEF Leaves, Sound, Waits

LEMMA MapAnsweredLeaves ==
    ASSUME NEW s, Sound(s), Stage(s), NEW success \in BOOLEAN, NEW u \in MapAnswered(s, success)
    PROVE  Leaves(s, u)
           /\ (u.listen.touched => \/ s.listen.touched \/ u.listen.spoilt
                                   \/ success /\ ~s.listen.adding /\ ~InternalKnown(s))
           /\ (s.listen.spoilt => u.listen.spoilt)
<1>1. s.listen.ar = "fetch" /\ u \in Mapped(s, success)
  BY DEF MapAnswered
<1> QED
  BY <1>1, MappedSound DEF Leaves, Sound, Waits

LEMMA MapNotNeededLeaves ==
    ASSUME NEW s, Sound(s), Stage(s), NEW u \in MapNotNeeded(s)
    PROVE  Leaves(s, u) /\ NoWorse(s, u)
<1>1. s.listen.ar = "soon" /\ u = Finished(s)
  BY DEF MapNotNeeded
<1> QED
  BY <1>1, FinishedSound DEF Leaves, Sound, NoWorse

-----------------------------------------------------------------------------
(* STUN. *)

Nats == [status : {"undiscovered", "unknown", "discovering", "discovered"},
         server : Server \cup {"null"}, asked : Server \cup {"null"}, ip : BOOLEAN,
         fresh : BOOLEAN,
         stage : {"idle", "srv", "dns", "listen", "conn"}, retry : 0..2,
         odd : SUBSET {"edited", "no_port", "no_address"}]

Lost(n) == n.server = "blank" \/ n.odd \cap {"edited", "no_port"} # {}

\* Whoever waits for STUN waits for an answer; the server asked is the one the result is
\* kept for, unless its name was edited too early; what is known is an address.
Fine(n) ==
    /\ n \in Nats
    /\ n.stage # "idle" => n.status = "discovering" /\ n.server \in Server
    /\ n.status = "discovering" => n.stage # "idle" \/ Lost(n)
    /\ n.asked = n.server \/ "edited" \in n.odd
    /\ n.status = "discovered" => n.ip \/ "no_address" \in n.odd

LEMMA VerdictType ==
    ASSUME NEW n \in Nats, NEW st \in {"undiscovered", "unknown", "discovered"}
    PROVE  /\ Verdict(n, st) \in Nats /\ Verdict(n, st).status = st
           /\ Verdict(n, st).stage = "idle" /\ Verdict(n, st).odd = n.odd
           /\ Verdict(n, st).server = n.server /\ Verdict(n, st).asked = n.asked
<1> DEFINE V(fresh) == [n EXCEPT !.status = st, !.fresh = fresh, !.stage = "idle", !.retry = 0]
           Same(v) == v.odd = n.odd /\ v.server = n.server /\ v.asked = n.asked
<1>1. ASSUME NEW fresh \in {TRUE, FALSE}
      PROVE  /\ V(fresh) \in Nats /\ V(fresh).status = st
             /\ V(fresh).stage = "idle" /\ Same(V(fresh))
  <2> DEFINE w == [n EXCEPT !.status = st, !.fresh = fresh, !.stage = "idle"]
             v == V(fresh)
  <2>1. w \in Nats
    BY DEF Nats
  <2>2. v = [w EXCEPT !.retry = 0]
    BY DEF Nats
  <2>3. w.status = st /\ w.stage = "idle"
    BY DEF Nats
  <2>4. Same(w)
    BY DEF Nats
  <2> HIDE DEF v, w
  <2>5. /\ v \in Nats /\ v.status = w.status /\ v.stage = w.stage /\ v.odd = w.odd
        /\ v.server = w.server /\ v.asked = w.asked
    BY <2>1, <2>2 DEF Nats
  <2>6. v \in Nats /\ v.status = st /\ v.stage = "idle" /\ Same(v)
    BY <2>3, <2>4, <2>5
  <2> QED
    BY <2>6 DEF v
<1>2. (st = "unknown") \in {TRUE, FALSE}
  OBVIOUS
<1>3. Verdict(n, st) = V(st = "unknown")
  BY Zenon DEF Verdict
<1> HIDE DEF V
<1>4. /\ Verdict(n, st) \in Nats /\ Verdict(n, st).status = st
      /\ Verdict(n, st).stage = "idle" /\ Same(Verdict(n, st))
  BY <1>1, <1>2, <1>3, Zenon
<1> QED
  BY <1>4

LEMMA VerdictFine ==
    ASSUME NEW n, Fine(n), NEW st \in {"undiscovered", "unknown"}
    PROVE  Fine(Verdict(n, st)) /\ Verdict(n, st).stage = "idle"
BY VerdictType DEF Fine

LEMMA QueriedFine ==
    ASSUME NEW n, Fine(n), n.stage # "idle",
           NEW result \in {"srv", "no_port", "lost"} \cup Server,
           result \in {"srv", "no_port", n.server} \/ "edited" \in n.odd
    PROVE  /\ Fine(Queried(n, result)) /\ Queried(n, result).stage \in {"dns", "idle"}
           /\ Queried(n, result).status = "discovering"
<1> DEFINE q == Queried(n, result)
           odd == n.odd \cup ({result} \cap {"no_port"})
           asked == IF result \in Server THEN result ELSE n.asked
           stage == IF result \in {"no_port", "lost", "blank"} THEN "idle" ELSE "dns"
<1>1. n \in Nats /\ n.status = "discovering" /\ (n.asked = n.server \/ "edited" \in n.odd)
  BY DEF Fine
<1>2. odd \in SUBSET {"edited", "no_port", "no_address"}
  BY <1>1 DEF Nats
<1>3. stage \in {"dns", "idle"}
  OBVIOUS
<1>4. stage = "idle" => n.server = "blank" \/ odd \cap {"edited", "no_port"} # {}
  <2>1. n.server \in Server
    BY DEF Fine
  <2>2. CASE "edited" \in n.odd
    BY <2>2
  <2>3. CASE result = "no_port"
    BY <2>3
  <2>4. CASE result \in {"lost", "blank"} /\ "edited" \notin n.odd
    <3>1. result = n.server
      BY <2>4
    <3> QED
      BY <2>1, <2>4, <3>1, PublicAddressAssumption
  <2> QED
    BY <2>2, <2>3, <2>4
<1>5. asked \in Server \cup {"null"}
  BY <1>1 DEF Nats
<1>6. asked = n.server \/ "edited" \in odd
  BY <1>1, PublicAddressAssumption
<1>7. q = [n EXCEPT !.stage = stage, !.asked = asked, !.odd = odd]
  <2>1. ASSUME NEW a, NEW b, NEW c
        PROVE  [n EXCEPT !.stage = a, !.asked = IF result \in Server THEN b ELSE @,
                         !.odd = @ \cup c]
                  = [n EXCEPT !.stage = a, !.asked = IF result \in Server THEN b ELSE n.asked,
                              !.odd = n.odd \cup c]
    BY <1>1 DEF Nats
  <2> QED
    BY <2>1, Zenon DEF Queried
<1> HIDE DEF stage, odd, asked
<1>8. /\ q \in Nats /\ q.status = "discovering" /\ q.stage = stage /\ q.odd = odd
      /\ q.server = n.server /\ q.asked = asked
  <2> DEFINE a == [n EXCEPT !.stage = stage, !.asked = asked]
  <2>1. /\ a \in Nats /\ a.status = "discovering" /\ a.stage = stage
        /\ a.server = n.server /\ a.asked = asked
    BY <1>1, <1>3, <1>5 DEF Nats
  <2>2. q = [a EXCEPT !.odd = odd]
    BY <1>7
  <2> HIDE DEF a, q
  <2> QED
    BY <1>2, <2>1, <2>2 DEF Nats
<1> HIDE DEF q
<1>9. Fine(q) /\ q.stage \in {"dns", "idle"}
  BY <1>3, <1>4, <1>6, <1>8 DEF Fine, Lost
<1> QED
  BY <1>8, <1>9 DEF q

\* What asking STUN for the address leaves behind: nothing new unless nothing is under
\* way.
LEMMA StunDiscoverFine ==
    ASSUME NEW n, Fine(n), server \in Server, NEW m \in StunDiscover(n)
    PROVE  /\ Fine(m)
           /\ m.stage = "listen" <=> n.stage = "listen"
           /\ m.status = "discovered" => m = n /\ Cached(n)
<1> DEFINE b == [NoNat EXCEPT !.status = "discovering", !.server = server, !.asked = server,
                           !.stage = "srv"]
<1>1. n \in Nats
  BY DEF Fine
<1>2. CASE m = n /\ (n.status = "discovering" \/ Cached(n))
  BY <1>2
<1>3. CASE m = Verdict(n, "unknown") /\ n.status # "discovering"
  <2>1. Fine(m) /\ m.stage = "idle"
    BY <1>1, <1>3, VerdictFine
  <2>2. m.status = "unknown"
    BY <1>1, <1>3 DEF Verdict, Nats
  <2>3. n.stage = "idle"
    BY <1>3 DEF Fine
  <2> QED
    BY <2>1, <2>2, <2>3
<1>4. CASE m \in {b, Queried(b, server)} /\ n.status # "discovering"
  <2>1. /\ b \in Nats /\ b.status = "discovering" /\ b.stage = "srv" /\ b.asked = b.server
        /\ b.server = server
    <3>1. NoNat \in Nats
      BY DEF NoNat, Nats
    <3> QED
      BY <3>1 DEF Nats
  <2> HIDE DEF b
  <2>2. Fine(b)
    BY <2>1 DEF Fine
  <2>3. n.stage = "idle"
    BY <1>4 DEF Fine
  <2>4. Fine(m) /\ m.stage # "listen"
    BY <1>4, <2>1, <2>2, QueriedFine
  <2>5. m.status # "discovered"
    BY <1>4, <2>1, <2>2, QueriedFine
  <2> QED
    BY <2>3, <2>4, <2>5
<1> QED
  BY <1>2, <1>3, <1>4 DEF StunDiscover

-----------------------------------------------------------------------------
(* The inductive invariant. *)

NetInv == Sound(Net) /\ Stage(Net) /\ StoredInTime /\ slow \in BOOLEAN

NatInv == Fine(nat) /\ server \in Server

\* A port is being mapped exactly while STUN waits for it.
Linked == nat.stage = "listen" <=> listen.ar # "none"

PInv == NetInv /\ NatInv /\ Linked

LEMMA NetFields ==
    /\ Net.info = info /\ Net.dd = dd /\ Net.asking = asking /\ Net.listen = listen
    /\ Net'.info = info' /\ Net'.dd = dd' /\ Net'.asking = asking' /\ Net'.listen = listen'
BY DEF Net

LEMMA BecomesNet ==
    ASSUME NEW u \in States, Becomes(u)
    PROVE  Net' = u /\ listen' = u.listen
BY DEF Becomes, Net, States

LEMMA HeardFine ==
    ASSUME NEW n, Fine(n), n.stage = "listen", NEW m \in Heard(n)
    PROVE  Fine(m) /\ m.stage # "listen"
<1>1. n \in Nats /\ n.status = "discovering"
  BY DEF Fine
<1>2. CASE m = [n EXCEPT !.stage = "conn"]
  BY <1>1, <1>2 DEF Fine, Nats
<1>3. CASE m = Verdict(n, "unknown")
  BY <1>1, <1>3, VerdictFine
<1> QED
  BY <1>2, <1>3 DEF Heard

\* What a handler leaves behind, with the listener's callback when it is due.
LEMMA SettledInv ==
    ASSUME NEW n, Fine(n), NEW S, Settled(n, S), server' \in Server, slow' \in BOOLEAN,
           \A u \in S : /\ Sound(u) /\ u.listen.ar \in Waits \cup {"none", "done"}
                        /\ u.listen.ar = "none" <=> n.stage # "listen"
                        /\ u.listen.touched => slow' \/ u.listen.spoilt
    PROVE  PInv'
<1>1. PICK u \in S :
         \/ u.listen.ar # "done" /\ Becomes(u) /\ nat' = n
         \/ /\ u.listen.ar = "done"
            /\ Becomes([u EXCEPT !.listen = [NoListen EXCEPT !.touched = u.listen.touched,
                                                             !.spoilt = u.listen.spoilt]])
            /\ nat' \in Heard(n)
  BY DEF Settled
<1>2. /\ Sound(u) /\ u \in States /\ u.listen.ar \in Waits \cup {"none", "done"}
      /\ u.listen.ar = "none" <=> n.stage # "listen"
      /\ u.listen.touched => slow' \/ u.listen.spoilt
  BY <1>1 DEF Sound, Under
<1>3. CASE u.listen.ar # "done" /\ Becomes(u) /\ nat' = n
  <2>1. Net' = u /\ listen' = u.listen
    BY <1>2, <1>3, BecomesNet
  <2>2. NetInv'
    BY <1>2, <1>3, <2>1 DEF NetInv, Stage, StoredInTime
  <2>3. NatInv' /\ Linked'
    BY <1>2, <1>3, <2>1 DEF NatInv, Linked
  <2> QED
    BY <2>2, <2>3 DEF PInv
<1>4. CASE /\ u.listen.ar = "done"
           /\ Becomes([u EXCEPT !.listen = [NoListen EXCEPT !.touched = u.listen.touched,
                                                            !.spoilt = u.listen.spoilt]])
           /\ nat' \in Heard(n)
  <2> DEFINE l == [NoListen EXCEPT !.touched = u.listen.touched, !.spoilt = u.listen.spoilt]
             v == [u EXCEPT !.listen = l]
  <2>1. /\ l \in Listens /\ l.ar = "none" /\ l.touched = u.listen.touched
        /\ l.spoilt = u.listen.spoilt
    BY <1>2, StateType DEF Listens, NoListen
  <2>2. v = [info |-> u.info, dd |-> u.dd, asking |-> u.asking, listen |-> l]
    BY <1>2 DEF States
  <2>3. Becomes(v)
    BY <1>4
  <2> HIDE DEF l, v
  <2>4. v \in States
    BY <1>2, <2>1, <2>2, StateType DEF States
  <2>5. Net' = v /\ listen' = l
    BY <2>2, <2>3, <2>4, BecomesNet
  <2>6. Under(v)
    BY <1>2, <2>2, <2>4, UnderSame DEF Sound
  <2>7. Sound(v) /\ Stage(v)
    BY <2>1, <2>2, <2>6 DEF Sound, Stage
  <2>8. NetInv'
    BY <1>2, <2>1, <2>5, <2>7 DEF NetInv, StoredInTime
  <2>9. n.stage = "listen"
    BY <1>2, <1>4
  <2>10. Fine(nat') /\ nat'.stage # "listen"
    BY <1>4, <2>9, HeardFine
  <2>11. NatInv' /\ Linked'
    BY <2>1, <2>5, <2>10 DEF NatInv, Linked
  <2> QED
    BY <2>8, <2>11 DEF PInv
<1> QED
  BY <1>1, <1>3, <1>4

\* A step of a handler.
LEMMA NetStepInv ==
    ASSUME PInv, NEW S, NetStep(S), \A u \in S : Leaves(Net, u),
           \A u \in S : u.listen.touched => slow' \/ u.listen.spoilt, slow' \in BOOLEAN
    PROVE  PInv'
<1>1. Fine(nat) /\ server' \in Server /\ (nat.stage = "listen" <=> listen.ar # "none")
  BY DEF PInv, NatInv, Linked, NetStep
<1>2. \A u \in S : /\ Sound(u) /\ u.listen.ar \in Waits \cup {"none", "done"}
                   /\ u.listen.ar = "none" <=> nat.stage # "listen"
  BY <1>1, NetFields DEF Leaves
<1> QED
  BY <1>1, <1>2, SettledInv DEF NetStep

\* A step that only STUN makes.
LEMMA NatStepInv ==
    ASSUME PInv, UNCHANGED <<net, slow>>, server' \in Server, Fine(nat'),
           nat'.stage = "listen" <=> nat.stage = "listen"
    PROVE  PInv'
<1>1. Net' = Net /\ listen' = listen /\ slow' = slow
  BY DEF net, Net
<1>2. NetInv'
  BY <1>1 DEF PInv, NetInv, StoredInTime
<1>3. NatInv' /\ Linked'
  BY <1>1 DEF PInv, NatInv, Linked
<1> QED
  BY <1>2, <1>3 DEF PInv

-----------------------------------------------------------------------------
(* The steps. *)

LEMMA SrvAnswerInv ==
    ASSUME PInv, SrvAnswer
    PROVE  PInv'
<1>1. PICK result \in SrvResults(nat) : nat' = Queried(nat, result)
  BY DEF SrvAnswer
<1>2. Fine(nat) /\ nat.stage = "srv"
  BY DEF SrvAnswer, PInv, NatInv
<1>3. /\ result \in {"srv", "no_port", "lost"} \cup Server
      /\ result \in {"srv", "no_port", nat.server} \/ "edited" \in nat.odd
  BY <1>1, <1>2 DEF SrvResults, Fine
<1>4. Fine(nat') /\ nat'.stage # "listen"
  BY <1>1, <1>2, <1>3, QueriedFine
<1> QED
  BY <1>2, <1>4, NatStepInv DEF SrvAnswer, PInv, NatInv

LEMMA DnsAnswerInv ==
    ASSUME PInv, DnsAnswer
    PROVE  PInv'
<1>1. Fine(nat) /\ nat \in Nats /\ nat.stage = "dns" /\ server' = server /\ server \in Server
      /\ slow' = slow
  BY DEF DnsAnswer, PInv, NatInv, Fine
<1>2. ASSUME NEW st \in {"undiscovered", "unknown"}, nat' = Verdict(nat, st), UNCHANGED net
      PROVE  PInv'
  <2>1. Fine(nat') /\ nat'.stage # "listen"
    BY <1>1, <1>2, VerdictFine
  <2> QED
    BY <1>1, <1>2, <2>1, NatStepInv
<1>3. ASSUME NEW external \in BOOLEAN, NEW mapped \in BOOLEAN,
             Settled([nat EXCEPT !.stage = "listen"], Listen(Net, external, mapped))
      PROVE  PInv'
  <2> DEFINE n == [nat EXCEPT !.stage = "listen"]
             S == Listen(Net, external, mapped)
  <2>1. Fine(n) /\ n.stage = "listen"
    BY <1>1 DEF Fine, Nats
  <2>2. Under(Net) /\ (Net.listen.touched => slow \/ Net.listen.spoilt) /\ slow \in BOOLEAN
    BY NetFields DEF PInv, NetInv, Sound, StoredInTime
  <2>3. \A u \in S : Sound(u) /\ u.listen.ar \in Waits \cup {"done"} /\ NoWorse(Net, u)
    BY <2>2, ListenSound
  <2>4. \A u \in S : /\ Sound(u) /\ u.listen.ar \in Waits \cup {"none", "done"}
                     /\ u.listen.ar = "none" <=> n.stage # "listen"
                     /\ u.listen.touched => slow' \/ u.listen.spoilt
    BY <1>1, <2>1, <2>2, <2>3 DEF Waits, NoWorse
  <2>5. Settled(n, S)
    BY <1>3
  <2> HIDE DEF n, S
  <2> QED
    BY <1>1, <2>1, <2>2, <2>4, <2>5, SettledInv
<1> QED
  BY <1>2, <1>3 DEF DnsAnswer

LEMMA ReplyInv ==
    ASSUME PInv, Reply
    PROVE  PInv'
<1>1. Fine(nat) /\ nat \in Nats /\ nat.stage = "conn" /\ server' = server /\ server \in Server
  BY DEF Reply, PInv, NatInv, Fine
<1> DEFINE w == Verdict(nat, "discovered")
           R(ip, odd) == [w EXCEPT !.ip = ip, !.odd = odd]
<1>2. PICK found \in BOOLEAN :
         nat' = [w EXCEPT !.ip = found \/ nat.ip,
                          !.odd = IF found THEN @ ELSE @ \cup {"no_address"}]
  BY DEF Reply
<1>3. /\ w \in Nats /\ w.status = "discovered" /\ w.stage = "idle"
      /\ w.asked = w.server \/ "edited" \in w.odd
  BY <1>1, VerdictType DEF Fine
<1> HIDE DEF w
<1>4. ASSUME NEW ip \in {TRUE, FALSE}, NEW odd \in SUBSET {"edited", "no_port", "no_address"},
             ip = TRUE \/ "no_address" \in odd, w.odd \subseteq odd
      PROVE  Fine(R(ip, odd)) /\ R(ip, odd).stage = "idle"
  BY <1>3, <1>4 DEF Fine, Nats
<1>5. ASSUME NEW a, NEW b
      PROVE  [w EXCEPT !.ip = a, !.odd = IF found THEN @ ELSE @ \cup b]
                = R(a, IF found THEN w.odd ELSE w.odd \cup b)
  BY <1>3 DEF Nats
<1> DEFINE odd == IF found THEN w.odd ELSE w.odd \cup {"no_address"}
<1>6. /\ odd \in SUBSET {"edited", "no_port", "no_address"}
      /\ (found \/ nat.ip) \in {TRUE, FALSE}
      /\ (found \/ nat.ip) = TRUE \/ "no_address" \in odd
      /\ w.odd \subseteq odd
  BY <1>3 DEF Nats
<1>7. nat' = R(found \/ nat.ip, odd)
  BY <1>2, <1>5, Zenon
<1> HIDE DEF R, odd
<1>8. Fine(nat') /\ nat'.stage = "idle"
  BY <1>4, <1>6, <1>7, Zenon
<1> QED
  BY <1>1, <1>8, NatStepInv DEF Reply

LEMMA TimeoutInv ==
    ASSUME PInv, Timeout
    PROVE  PInv'
<1>1. Fine(nat) /\ nat \in Nats /\ nat.stage = "conn" /\ server' = server /\ server \in Server
  BY DEF Timeout, PInv, NatInv, Fine
<1>2. CASE nat.retry >= 2
  BY <1>1, <1>2, VerdictFine, NatStepInv DEF Timeout
<1>3. CASE ~(nat.retry >= 2)
  <2>1. nat.retry + 1 \in 0..2
    BY <1>1, <1>3 DEF Nats
  <2>2. nat' = [nat EXCEPT !.retry = nat.retry + 1]
    BY <1>3 DEF Timeout
  <2>3. /\ nat' \in Nats /\ nat'.status = nat.status /\ nat'.stage = nat.stage
        /\ nat'.odd = nat.odd /\ nat'.server = nat.server /\ nat'.asked = nat.asked
    BY <1>1, <2>1, <2>2 DEF Nats
  <2>4. Fine(nat')
    BY <1>1, <2>3 DEF Fine, Lost
  <2> QED
    BY <1>1, <2>3, <2>4, NatStepInv DEF Timeout
<1> QED
  BY <1>2, <1>3

LEMMA GetMyIpInv ==
    ASSUME PInv, GetMyIp
    PROVE  PInv'
<1>1. /\ Fine(nat') /\ (nat'.stage = "listen" <=> nat.stage = "listen")
      /\ server' = server /\ server \in Server /\ slow' = slow
  BY StunDiscoverFine DEF GetMyIp, PInv, NatInv
<1>2. CASE UNCHANGED net
  BY <1>1, <1>2, NatStepInv
<1>3. ASSUME NEW u \in UpnpAsked(Net), Becomes(u)
      PROVE  PInv'
  <2>1. Sound(Net) /\ Under(Net)
    BY DEF PInv, NetInv, Sound
  <2>2. /\ Sound(u) /\ u.listen.ar = listen.ar /\ u.listen.touched = listen.touched
        /\ u.listen.spoilt = listen.spoilt
    BY <2>1, DiscoverSound, NetFields DEF UpnpAsked
  <2>3. Net' = u /\ listen' = u.listen
    BY <1>3, <2>2, BecomesNet DEF Sound, Under
  <2>4. Stage(u)
    BY <2>2, NetFields DEF PInv, NetInv, Stage
  <2>5. NetInv'
    BY <1>1, <2>2, <2>3, <2>4 DEF PInv, NetInv, StoredInTime
  <2>6. NatInv' /\ Linked'
    BY <1>1, <2>2, <2>3 DEF PInv, NatInv, Linked
  <2> QED
    BY <2>5, <2>6 DEF PInv
<1> QED
  BY <1>2, <1>3 DEF GetMyIp

LEMMA EditServerInv ==
    ASSUME PInv, EditServer
    PROVE  PInv'
<1>1. Fine(nat) /\ nat \in Nats
  BY DEF PInv, NatInv, Fine
<1>2. CASE nat.stage = "srv"
  <2>1. nat' = [nat EXCEPT !.odd = nat.odd \cup {"edited"}]
    BY <1>2 DEF EditServer
  <2>2. /\ nat' \in Nats /\ nat'.status = nat.status /\ nat'.stage = nat.stage
        /\ "edited" \in nat'.odd /\ nat'.server = nat.server
    BY <1>1, <2>1 DEF Nats
  <2>3. Fine(nat')
    BY <1>1, <1>2, <2>2 DEF Fine
  <2> QED
    BY <2>2, <2>3, NatStepInv DEF EditServer
<1>3. CASE nat.stage # "srv"
  BY <1>1, <1>3, NatStepInv DEF EditServer
<1> QED
  BY <1>2, <1>3

LEMMA TimePassesInv ==
    ASSUME PInv, TimePasses
    PROVE  PInv'
<1>1. /\ Sound(Net) /\ Net \in States /\ info \in Infos /\ Fine(nat) /\ nat \in Nats
  BY StateType, NetFields DEF PInv, NetInv, NatInv, Sound, Under, Fine
<1>2. info' \in Infos /\ info'.status = info.status
  BY <1>1 DEF TimePasses, Infos
<1>3. UNCHANGED <<dd, asking, listen, server, slow>> /\ nat' = [nat EXCEPT !.fresh = FALSE]
  BY DEF TimePasses
<1>4. Net' \in States
  BY <1>1, <1>2, <1>3, StateType DEF Net, States
<1>5. Sound(Net')
  BY <1>1, <1>2, <1>3, <1>4, NetFields DEF Sound, Under, Alive
<1>6. NetInv'
  BY <1>3, <1>5, NetFields DEF PInv, NetInv, Stage, StoredInTime
<1>7. /\ nat' \in Nats /\ nat'.status = nat.status /\ nat'.stage = nat.stage
      /\ nat'.odd = nat.odd /\ nat'.server = nat.server /\ nat'.asked = nat.asked
  BY <1>1, <1>3 DEF Nats
<1>8. nat'.ip <=> nat.ip
  BY <1>1, <1>3 DEF Nats
<1>9. Fine(nat')
  BY <1>1, <1>7, <1>8 DEF Fine, Lost
<1>10. NatInv' /\ Linked'
  BY <1>3, <1>7, <1>9 DEF PInv, NatInv, Linked
<1> QED
  BY <1>6, <1>10 DEF PInv

LEMMA HandlersInv ==
    ASSUME PInv
    PROVE  /\ \A d \in Discovery : TimeoutStep(d) \/ ReadStep(d) \/ DescribedStep(d)
                                      \/ LookedUpStep(d) => PInv'
           /\ MapFailedStep \/ MapAnsweredStep \/ MapNotNeededStep => PInv'
<1>1. /\ Sound(Net) /\ Stage(Net) /\ slow \in BOOLEAN
      /\ Net.listen.touched => slow \/ Net.listen.spoilt
  BY NetFields DEF PInv, NetInv, StoredInTime
<1>2. ASSUME NEW S, NetStep(S), slow' = slow,
             \A u \in S : Leaves(Net, u) /\ NoWorse(Net, u)
      PROVE  PInv'
  BY <1>1, <1>2, NetStepInv DEF NoWorse
<1>3. ASSUME NEW d \in Discovery, TimeoutStep(d)
      PROVE  PInv'
  BY <1>1, <1>2, <1>3, TimeoutLeaves DEF TimeoutStep
<1>4. ASSUME NEW d \in Discovery, ReadStep(d)
      PROVE  PInv'
  BY <1>1, <1>2, <1>4, UdpReadLeaves DEF ReadStep
<1>5. ASSUME NEW d \in Discovery, DescribedStep(d)
      PROVE  PInv'
  BY <1>1, <1>2, <1>5, DescribedLeaves DEF DescribedStep
<1>6. ASSUME NEW d \in Discovery, LookedUpStep(d)
      PROVE  PInv'
  BY <1>1, <1>2, <1>6, LookedUpLeaves DEF LookedUpStep
<1>7. CASE MapFailedStep
  BY <1>1, <1>2, <1>7, MapFailedLeaves DEF MapFailedStep
<1>8. CASE MapNotNeededStep
  BY <1>1, <1>2, <1>8, MapNotNeededLeaves DEF MapNotNeededStep
<1>9. CASE MapAnsweredStep
  <2>1. PICK success \in BOOLEAN :
           /\ NetStep(MapAnswered(Net, success))
           /\ slow' = (slow \/ (success /\ ~listen.adding /\ ~InternalKnown(Net)))
    BY <1>9 DEF MapAnsweredStep
  <2>2. slow' \in BOOLEAN
    BY <2>1
  <2>3. \A u \in MapAnswered(Net, success) :
           /\ Leaves(Net, u)
           /\ u.listen.touched => slow' \/ u.listen.spoilt
    BY <1>1, <2>1, MapAnsweredLeaves, NetFields
  <2> QED
    BY <2>1, <2>2, <2>3, NetStepInv
<1> QED
  BY <1>3, <1>4, <1>5, <1>6, <1>7, <1>8, <1>9

-----------------------------------------------------------------------------
(* The specification. *)

LEMMA InitInv == Init => PInv
<1> SUFFICES ASSUME Init
             PROVE  PInv
  OBVIOUS
<1> DEFINE none == [info |-> [status |-> "undiscovered", internal |-> FALSE, fresh |-> FALSE],
                    dd |-> [d \in Discovery |-> NoDiscovery], asking |-> {},
                    listen |-> NoListen]
<1>1. PICK u \in {none} \cup Discover(none, FALSE) :
         info = u.info /\ dd = u.dd /\ asking = u.asking /\ listen = u.listen
  BY DEF Init
<1>2. none \in States
  <2>1. NoDiscovery \in Data /\ NoListen \in Listens
    BY PortMappingAssumption DEF NoDiscovery, Data, NoListen, Listens
  <2>2. [status |-> "undiscovered", internal |-> FALSE, fresh |-> FALSE] \in Infos
    BY DEF Infos, Statuses
  <2> QED
    BY <2>1, <2>2 DEF States
<1>3. Sound(none) /\ none.listen = NoListen
  BY <1>2 DEF Sound, Under, Goes, NoDiscovery, NoListen
<1> HIDE DEF none
<1>4. NoListen.ar = "none" /\ ~NoListen.touched
  BY DEF NoListen
<1>5. Sound(u) /\ u.listen.ar = "none" /\ ~u.listen.touched
  <2>1. CASE u = none
    BY <1>3, <1>4, <2>1
  <2>2. CASE u \in Discover(none, FALSE)
    BY <1>3, <1>4, <2>2, DiscoverSound DEF Sound
  <2> QED
    BY <1>1, <2>1, <2>2
<1>6. Net = u
  BY <1>1, <1>5 DEF Net, Sound, Under, States
<1>7. NetInv
  BY <1>5, <1>6, NetFields DEF NetInv, Stage, StoredInTime, Init
<1>8. NoNat \in Nats
  BY DEF NoNat, Nats
<1>9. Fine(nat) /\ nat.stage = "idle"
  BY <1>8 DEF Init, Fine, NoNat
<1>10. NatInv /\ Linked
  BY <1>5, <1>6, <1>9, NetFields DEF NatInv, Linked, Init
<1> QED
  BY <1>7, <1>10 DEF PInv

LEMMA NextInv == PInv /\ [Next]_vars => PInv'
<1> SUFFICES ASSUME PInv, [Next]_vars
             PROVE  PInv'
  OBVIOUS
<1>1. CASE UNCHANGED vars
  BY <1>1, NatStepInv DEF vars, PInv, NatInv
<1>2. CASE Next
  BY <1>2, GetMyIpInv, EditServerInv, TimePassesInv, SrvAnswerInv, DnsAnswerInv, ReplyInv,
     TimeoutInv, HandlersInv DEF Next
<1> QED
  BY <1>1, <1>2

LEMMA Invariance == Spec => []PInv
BY InitInv, NextInv, PTL DEF Spec

-----------------------------------------------------------------------------
(* What follows from it. *)

LEMMA InvSound == PInv => LookupsAreSound
<1> SUFFICES ASSUME PInv
             PROVE  LookupsAreSound
  OBVIOUS
<1>1. /\ info \in Infos /\ dd \in [Discovery -> Data] /\ asking \in SUBSET Discovery
      /\ listen \in Listens /\ listen.ar \in Waits \cup {"none"}
  BY StateType, NetFields DEF PInv, NetInv, Sound, Under, Stage
<1>2. nat \in Nats /\ server \in Server /\ slow \in BOOLEAN
  BY DEF PInv, NatInv, NetInv, Fine
<1>3. TypeOK
  <2>1. listen \in [ar : {"none", "soon", "waiting", "timer", "fetch"}, retry : BOOLEAN,
                    adding : BOOLEAN, touched : BOOLEAN, spoilt : BOOLEAN]
    BY <1>1 DEF Listens, Waits
  <2> QED
    BY <1>1, <1>2, <2>1 DEF TypeOK, Infos, Statuses, Data, Nats
<1>4. \A d \in Discovery : GoesOn(dd[d])
  BY <1>1, GoesCounted, NetFields DEF PInv, NetInv, Sound, Under
<1>5. info.status = "discovering" \/ listen.ar = "waiting" => \E d \in Discovery : dd[d].live
  BY NetFields DEF PInv, NetInv, Sound, Under, Alive
<1>6. /\ nat.status = "discovering" => nat.stage # "idle" \/ NameLost
      /\ (nat.stage = "listen") = (listen.ar # "none")
  BY DEF PInv, NatInv, Fine, Lost, NameLost, Linked
<1>7. SomebodyAnswers
  BY <1>4, <1>5, <1>6 DEF SomebodyAnswers
<1> QED
  BY <1>3, <1>7 DEF LookupsAreSound, PInv, NetInv

LEMMA InvAddress == PInv => AddressOfServer
<1> SUFFICES ASSUME PInv, NEW n \in StunDiscover(nat), n.status = "discovered"
             PROVE  /\ Named(server) => n.server = server /\ (n.asked = server \/ "edited" \in n.odd)
                    /\ n.ip \/ "no_address" \in n.odd
  BY DEF AddressOfServer
<1>1. n = nat /\ Cached(nat)
  BY StunDiscoverFine DEF PInv, NatInv
<1> QED
  BY <1>1 DEF Cached, PInv, NatInv, Fine

\* Whoever waits for an address, a router or a mapping waits for something that goes on,
\* and is still there to be told: upnp.c, stun.c and the listeners of network.c, for any
\* number of discoveries, attempts and servers.
THEOREM SoundLookups == Spec => []LookupsAreSound
BY Invariance, InvSound, PTL

\* What oul_network_get_my_ip passes on is an address, and the one that the configured
\* STUN server gave, however often the server is edited meanwhile (use_cached_result), but
\* for edits while the SRV lookup holds the preference's string (stun.c:412).
THEOREM RightServer == Spec => []AddressOfServer
BY Invariance, InvAddress, PTL

==============================================================================
