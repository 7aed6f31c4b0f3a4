------------------------ MODULE ProxyConnect_proofs -------------------------
(***************************************************************************)
(* For every number of attempts, addresses and authentication rounds and   *)
(* every combination of proxy types: an attempt of ProxyConnect never      *)
(* leaks or shares a socket or a watcher, the list of handles is the set   *)
(* of live attempts, and, when connect() never completes at once, the      *)
(* originator is told exactly once.                                        *)
(*                                                                         *)
(* The argument is local to one attempt.  Sound(r) is the inductive        *)
(* property of one record; one lemma per operator of ProxyConnect shows    *)
(* that it keeps Sound, and the invariant of the specification is Sound of *)
(* every attempt together with the exactness of the list.                  *)
(***************************************************************************)
EXTENDS ProxyConnect, TLAPS

Told(r) ==
    ~Immediate => /\ ~r.clean
                  /\ Len(r.calls) = IF r.st = "freed" THEN 1 ELSE 0

\* What holds of a record whose socket may have been given away already
Loose(r) ==
    /\ r \in Records
    /\ r.open = {r.fd} \ {NoFd}
    /\ r.watches = {r.inpa} \ {NoWatch}

Sound(r) ==
    /\ Loose(r)
    /\ r.inpa # NoWatch => r.fd # NoFd /\ r.inpa[3] = r.fd
    /\ r.inpa[2] = "proxy_do_write" => r.read_cb \in Readers /\ r.msg \in Messages
    /\ r.st # "live" => r.fd = NoFd /\ r.inpa = NoWatch /\ r.query = "none"
    /\ Told(r)

\* A live attempt between two stages: no watcher
Idle(r) == Sound(r) /\ r.st = "live" /\ r.inpa = NoWatch

\* What an operation on a live attempt may leave
Result(r) == Sound(r) /\ r.st \in {"live", "freed"}

LEMMA Members ==
    /\ NoFd \in Indices /\ 0 \in Indices /\ Sockets \subseteq Indices
    /\ "none" \in OptMsg /\ Messages \subseteq OptMsg
    /\ "none" \in OptReader /\ Readers \subseteq OptReader
    /\ "none" \in Queries /\ "timer" \in Queries /\ "ui" \in Queries
    /\ 0 \in Pieces /\ 0 \in Rounds
    /\ NoWatch \in OptWatch /\ Watches \subseteq OptWatch
    /\ {"live", "freed", "cancelled", "refused", "unused"} \subseteq Stages
    /\ {"dest", "proxy"} \subseteq Targets
    /\ "none" \in Owners /\ Handles \subseteq Owners
    /\ <<>> \in Calls
    /\ 0 \in Nat
    /\ NoWatch[2] = "none"
BY ConstantsAssumption DEF NoFd, Indices, Sockets, OptMsg, OptReader, Queries,
   Pieces, Rounds, OptWatch, Stages, Targets, Owners, Calls, NoWatch

\* A watcher is never the absent one, and polls a socket.
LEMMA WatchFacts ==
    ASSUME NEW w \in Watches
    PROVE  w # NoWatch /\ w[3] \in Sockets
BY DEF Watches, NoWatch, Writers, Readers, Sockets, NoFd

\* Told looks at three fields only.
LEMMA ToldSame ==
    ASSUME NEW r, NEW s, Told(r), s.clean = r.clean, s.calls = r.calls, s.st = r.st
    PROVE  Told(s)
BY DEF Told

LEMMA RemoveWatchLoose ==
    ASSUME NEW r, Loose(r)
    PROVE  LET s == RemoveWatch(r)
           IN  /\ Loose(s) /\ s.inpa = NoWatch
               /\ s.st = r.st /\ s.fd = r.fd /\ s.hosts = r.hosts /\ s.query = r.query
               /\ s.calls = r.calls /\ s.clean = r.clean
<1>1. r.watches \ {r.inpa} = {NoWatch} \ {NoWatch}
  BY DEF Loose
<1>2. {NoWatch} \ {NoWatch} \in SUBSET Watches
  OBVIOUS
<1> QED
  BY <1>1, <1>2, Members DEF Loose, RemoveWatch, Records

LEMMA RemoveWatchIdle ==
    ASSUME NEW r, Sound(r), r.st = "live"
    PROVE  Idle(RemoveWatch(r)) /\ RemoveWatch(r).fd = r.fd
BY RemoveWatchLoose, ToldSame, Members DEF Sound, Idle

LEMMA AddWatchSound ==
    ASSUME NEW r, Idle(r), r.fd # NoFd, NEW cond, NEW cb,
           \/ cond = "W" /\ cb \in Writers
           \/ cond = "R" /\ cb \in Readers,
           cb = "proxy_do_write" => r.read_cb \in Readers /\ r.msg \in Messages
    PROVE  LET s == AddWatch(r, cond, cb)
           IN  Result(s) /\ s.st = "live" /\ s.inpa = <<cond, cb, r.fd>>
                 /\ s.msg = r.msg /\ s.fd = r.fd
<1> DEFINE w == <<cond, cb, r.fd>>
           s == AddWatch(r, cond, cb)
<1>1. r \in Records /\ r.open = {r.fd} \ {NoFd} /\ r.watches = {NoWatch} \ {NoWatch} /\ r.st = "live"
  BY DEF Idle, Sound, Loose
<1>2. r.fd \in Sockets
  BY <1>1, ConstantsAssumption DEF Records, Indices, Sockets, NoFd
<1>3. w \in Watches /\ w[3] = r.fd /\ w[2] = cb
  BY <1>2 DEF Watches
<1>4. s = [r EXCEPT !.inpa = w, !.watches = {w} \ {NoWatch}]
  BY <1>1, <1>3, WatchFacts DEF AddWatch, Watch
<1>5. {w} \ {NoWatch} \in SUBSET Watches
  BY <1>3
<1> HIDE DEF w, s
<1>6. s \in Records /\ s.inpa = w /\ s.watches = {w} \ {NoWatch} /\ s.open = r.open
        /\ s.fd = r.fd /\ s.st = r.st /\ s.clean = r.clean /\ s.calls = r.calls
        /\ s.read_cb = r.read_cb /\ s.msg = r.msg
  BY <1>1, <1>3, <1>4, <1>5, Members DEF Records
<1>7. Told(s)
  BY <1>6, ToldSame DEF Idle, Sound
<1>8. Sound(s)
  BY <1>1, <1>3, <1>6, <1>7 DEF Sound, Loose
<1> QED
  BY <1>1, <1>6, <1>8 DEF Result, w, s

-----------------------------------------------------------------------------
(* Ending an attempt. *)

LEMMA DisconnectedSound ==
    ASSUME NEW r, Loose(r), Told(r), r.st # "live" => r.query = "none"
    PROVE  LET d == Disconnected(r)
           IN  /\ Sound(d) /\ d.inpa = NoWatch /\ d.fd = NoFd /\ d.st = r.st
               /\ d.hosts = r.hosts /\ d.query = r.query /\ d.calls = r.calls
               /\ d.clean = r.clean
<1> DEFINE w == RemoveWatch(r)
           d == Disconnected(r)
<1>1. /\ Loose(w) /\ w.inpa = NoWatch /\ w.st = r.st /\ w.fd = r.fd
      /\ w.hosts = r.hosts /\ w.query = r.query /\ w.calls = r.calls /\ w.clean = r.clean
  BY RemoveWatchLoose
<1>2. w.open \ {r.fd} = {NoFd} \ {NoFd} /\ {NoFd} \ {NoFd} \in SUBSET Sockets
  BY <1>1 DEF Loose
<1>3. d = [w EXCEPT !.open = {NoFd} \ {NoFd}, !.fd = NoFd, !.msg = "none",
                    !.got = 0, !.lost = FALSE, !.owes = FALSE]
  BY <1>2 DEF Disconnected
<1> HIDE DEF w, d
<1>4. /\ d \in Records /\ d.open = {NoFd} \ {NoFd} /\ d.fd = NoFd
      /\ d.watches = w.watches /\ d.inpa = w.inpa /\ d.st = w.st
      /\ d.query = w.query /\ d.hosts = w.hosts /\ d.calls = w.calls /\ d.clean = w.clean
  BY <1>1, <1>2, <1>3, Members DEF Records, Loose
<1>5. Told(d)
  BY <1>1, <1>4, ToldSame
<1>6. Sound(d)
  BY <1>1, <1>4, <1>5, Members DEF Sound, Loose
<1> QED
  BY <1>1, <1>4, <1>6 DEF d

LEMMA ConnectedSound ==
    ASSUME NEW r, Sound(r), r.st = "live"
    PROVE  Result(Connected(r))
<1> DEFINE told  == [r EXCEPT !.calls = Append(@, <<"ok", r.fd>>)]
           given == [told EXCEPT !.open = @ \ {r.fd}, !.fd = NoFd]
           d     == Disconnected(given)
           s     == Destroyed(d, "freed")
<1>1. r \in Records /\ r.open = {r.fd} \ {NoFd} /\ r.watches = {r.inpa} \ {NoWatch} /\ Told(r)
  BY DEF Sound, Loose
<1>2. Append(r.calls, <<"ok", r.fd>>) \in Calls
        /\ Len(Append(r.calls, <<"ok", r.fd>>)) = Len(r.calls) + 1
  <2>1. <<"ok", r.fd>> \in {"ok", "fail"} \X Indices /\ r.calls \in Seq({"ok", "fail"} \X Indices)
    BY <1>1 DEF Records, Calls
  <2> QED
    BY <2>1 DEF Calls
<1>3. r.open \ {r.fd} = {NoFd} \ {NoFd} /\ {NoFd} \ {NoFd} \in SUBSET Sockets
  BY <1>1
<1>4. told \in Records /\ told.open = r.open
  BY <1>1, <1>2 DEF Records
<1>5. /\ given \in Records /\ given.open = {NoFd} \ {NoFd} /\ given.fd = NoFd
      /\ given.watches = r.watches /\ given.inpa = r.inpa /\ given.st = "live"
      /\ given.calls = Append(r.calls, <<"ok", r.fd>>) /\ given.clean = r.clean
  <2>1. given = [told EXCEPT !.open = {NoFd} \ {NoFd}, !.fd = NoFd]
    BY <1>3, <1>4
  <2>2. told.watches = r.watches /\ told.inpa = r.inpa /\ told.st = "live"
          /\ told.calls = Append(r.calls, <<"ok", r.fd>>) /\ told.clean = r.clean
    BY <1>1 DEF Records
  <2> HIDE DEF told
  <2> QED
    BY <1>3, <1>4, <2>1, <2>2, Members DEF Records
<1> HIDE DEF given
<1>6. /\ Loose(d) /\ d.inpa = NoWatch /\ d.fd = NoFd /\ d.clean = r.clean
      /\ d.calls = given.calls
  \* Told does not hold of given: one call more than its stage allows
  <2> DEFINE w == RemoveWatch(given)
  <2>1. /\ Loose(w) /\ w.inpa = NoWatch /\ w.fd = NoFd
        /\ w.calls = given.calls /\ w.clean = r.clean
    BY <1>1, <1>5, RemoveWatchLoose DEF Loose
  <2>2. w.open \ {NoFd} = {NoFd} \ {NoFd}
    BY <2>1 DEF Loose
  <2>3. d = [w EXCEPT !.open = {NoFd} \ {NoFd}, !.fd = NoFd, !.msg = "none",
                      !.got = 0, !.lost = FALSE, !.owes = FALSE]
    BY <1>5, <2>2 DEF Disconnected
  <2> HIDE DEF w, d
  <2> QED
    BY <1>3, <2>1, <2>3, Members DEF Records, Loose
<1> HIDE DEF d
<1>7. /\ s \in Records /\ s.st = "freed" /\ s.query = "none" /\ s.open = d.open
      /\ s.fd = NoFd /\ s.inpa = NoWatch /\ s.watches = d.watches
      /\ s.calls = d.calls /\ s.clean = d.clean
  BY <1>6, Members DEF Destroyed, Records, Loose
<1> HIDE DEF s
<1>8. Told(s)
  <2>1. s.calls = Append(r.calls, <<"ok", r.fd>>) /\ s.clean = r.clean
    BY <1>5, <1>6, <1>7
  <2> QED
    BY <1>1, <1>2, <1>7, <2>1 DEF Told
<1>9. Sound(s)
  BY <1>6, <1>7, <1>8, Members DEF Sound, Loose
<1> QED
  BY <1>7, <1>9 DEF Result, Connected, s, d, given

LEMMA GaveUpSound ==
    ASSUME NEW r, Idle(r), r.fd = NoFd
    PROVE  Result(GaveUp(r))
<1> DEFINE t == [r EXCEPT !.calls = Append(@, <<"fail", NoFd>>)]
           s == GaveUp(r)
<1>1. r \in Records /\ r.open = {r.fd} \ {NoFd} /\ r.watches = {NoWatch} \ {NoWatch} /\ Told(r) /\ r.st = "live"
  BY DEF Idle, Sound, Loose
<1>2. Append(r.calls, <<"fail", NoFd>>) \in Calls
        /\ Len(Append(r.calls, <<"fail", NoFd>>)) = Len(r.calls) + 1
  <2>1. <<"fail", NoFd>> \in {"ok", "fail"} \X Indices /\ r.calls \in Seq({"ok", "fail"} \X Indices)
    BY <1>1, Members DEF Records, Calls
  <2> QED
    BY <2>1 DEF Calls
<1>3. s = [r EXCEPT !.calls = Append(r.calls, <<"fail", NoFd>>), !.st = "freed",
                    !.query = "none", !.hosts = 0]
  BY DEF GaveUp, Destroyed
<1>4. /\ s \in Records /\ s.st = "freed" /\ s.query = "none" /\ s.open = r.open
      /\ s.fd = r.fd /\ s.inpa = r.inpa /\ s.watches = r.watches
      /\ s.calls = Append(r.calls, <<"fail", NoFd>>) /\ s.clean = r.clean
  <2> HIDE DEF s
  <2> DEFINE cs == Append(r.calls, <<"fail", NoFd>>)
  <2>1. cs \in Calls /\ s = [r EXCEPT !.calls = cs, !.st = "freed", !.query = "none", !.hosts = 0]
    BY <1>2, <1>3
  <2> HIDE DEF cs
  <2>2. /\ s \in Records /\ s.st = "freed" /\ s.query = "none" /\ s.open = r.open
        /\ s.fd = r.fd /\ s.inpa = r.inpa /\ s.watches = r.watches
        /\ s.calls = cs /\ s.clean = r.clean
    BY <1>1, <2>1, Members DEF Records
  <2> QED
    BY <2>2 DEF cs
<1> HIDE DEF s
<1>5. Told(s)
  BY <1>1, <1>2, <1>4 DEF Told
<1> QED
  BY <1>1, <1>4, <1>5, Members DEF Result, Sound, Loose, Idle, s

LEMMA CancelledSound ==
    ASSUME NEW c \in Attempts, Sound(conn[c]), conn[c].st = "live"
    PROVE  Sound(Cancelled(c)) /\ Cancelled(c).st = "cancelled"
<1> DEFINE d == Disconnected(conn[c])
           s == Cancelled(c)
<1>1. Sound(d) /\ d.inpa = NoWatch /\ d.fd = NoFd /\ d.st = "live"
  BY DisconnectedSound DEF Sound
<1>2. s = [d EXCEPT !.st = "cancelled", !.query = "none", !.hosts = 0]
  BY DEF Cancelled, Destroyed
<1> HIDE DEF d, s
<1>3. /\ s \in Records /\ s.st = "cancelled" /\ s.query = "none" /\ s.open = d.open
      /\ s.fd = NoFd /\ s.inpa = NoWatch /\ s.watches = d.watches
      /\ s.calls = d.calls /\ s.clean = d.clean
  BY <1>1, <1>2, Members DEF Records, Sound, Loose
<1>4. Told(s)
  BY <1>1, <1>3 DEF Told, Sound
<1> QED
  BY <1>1, <1>3, <1>4, Members DEF Sound, Loose, s

-----------------------------------------------------------------------------
(* Requests. *)

LEMMA SentSound ==
    ASSUME NEW r, Sound(r), r.st = "live", r.inpa[2] = "proxy_do_write"
    PROVE  Result(Sent(r))
<1> DEFINE done == [r EXCEPT !.msg = "none",
                             !.owes = (r.skipped = 0 /\ r.msg # "auth407")]
           w    == [r EXCEPT !.msg = "none", !.owes = (r.skipped = 0 /\ r.msg # "auth407"),
                             !.watches = {}, !.inpa = NoWatch]
<1>1. /\ r \in Records /\ r.open = {r.fd} \ {NoFd} /\ r.watches = {r.inpa} \ {NoWatch}
      /\ r.inpa # NoWatch /\ r.fd # NoFd /\ r.read_cb \in Readers /\ Told(r)
  BY Members DEF Sound, Loose
<1>2. (r.skipped = 0 /\ r.msg # "auth407") \in BOOLEAN
  OBVIOUS
<1>3. r.watches \ {r.inpa} = {} /\ {} \in SUBSET Watches
  BY <1>1
<1>4. /\ w \in Records /\ w.st = "live" /\ w.inpa = NoWatch /\ w.watches = {}
      /\ w.open = r.open /\ w.fd = r.fd /\ w.read_cb = r.read_cb
      /\ w.clean = r.clean /\ w.calls = r.calls
  BY <1>1, <1>2, <1>3, Members DEF Records
<1>5. RemoveWatch(done) = w
  BY <1>1, <1>3 DEF RemoveWatch, Records
<1>6. Sent(r) = AddWatch(w, "R", r.read_cb)
  BY <1>5 DEF Sent
<1> HIDE DEF w, done
<1>7. Idle(w) /\ w.fd # NoFd
  BY <1>1, <1>4, ToldSame, Members DEF Idle, Sound, Loose
<1>8. "proxy_do_write" \notin Readers
  BY DEF Readers
<1> QED
  BY <1>1, <1>6, <1>7, <1>8, AddWatchSound

LEMMA WrittenSound ==
    ASSUME NEW r, Sound(r), r.st = "live", r.inpa[2] = "proxy_do_write",
           NEW s \in Written(r)
    PROVE  Result(s)
<1> DEFINE rest == Length(r.msg) - r.written
<1>1. CASE s = r
  BY <1>1 DEF Result
<1>2. CASE s = Sent(r)
  BY <1>2, SentSound
<1>3. ASSUME NEW n \in 1..(rest - 1), s = [r EXCEPT !.written = @ + n]
      PROVE  Result(s)
  <2>1. r \in Records /\ r.written \in Nat /\ n \in Nat /\ r.written + n \in Nat
    <3>1. r \in Records /\ r.written \in Nat
      BY DEF Sound, Loose, Records
    <3>2. Length(r.msg) \in Nat
      BY DEF Length
    <3> QED
      BY <3>1, <3>2, <1>3
  <2>2. /\ s \in Records /\ s.st = r.st /\ s.query = r.query /\ s.open = r.open
        /\ s.fd = r.fd /\ s.inpa = r.inpa /\ s.watches = r.watches
        /\ s.calls = r.calls /\ s.clean = r.clean
        /\ s.read_cb = r.read_cb /\ s.msg = r.msg
    BY <1>3, <2>1 DEF Records
  <2> QED
    BY <2>2, ToldSame DEF Sound, Loose, Result
<1> QED
  BY <1>1, <1>2, <1>3 DEF Written

LEMMA RequestSound ==
    ASSUME NEW r, Sound(r), r.st = "live", r.fd # NoFd,
           NEW m \in Messages, NEW cb \in Readers
    PROVE  LET q == Request(r, m, cb)
           IN  Sound(q) /\ q.st = "live" /\ q.inpa[2] = "proxy_do_write"
<1> DEFINE w    == RemoveWatch(r)
           from == IF m = "greeting" THEN r.written ELSE 0
           q    == [w EXCEPT !.msg = m, !.written = from, !.skipped = from,
                             !.read_cb = cb, !.got = 0, !.owes = FALSE]
<1>1. Idle(w) /\ w.fd = r.fd
  BY RemoveWatchIdle
<1>2. from \in Nat
  BY DEF Sound, Loose, Records
<1>3. Request(r, m, cb) = AddWatch(q, "W", "proxy_do_write")
  BY DEF Request
<1> HIDE DEF w, from
<1>4. /\ q \in Records /\ q.st = w.st /\ q.query = w.query /\ q.open = w.open
      /\ q.fd = w.fd /\ q.inpa = w.inpa /\ q.watches = w.watches
      /\ q.calls = w.calls /\ q.clean = w.clean /\ q.read_cb = cb /\ q.msg = m
  BY <1>1, <1>2, Members DEF Records, Idle, Sound, Loose
<1> HIDE DEF q
<1>5. Idle(q)
  BY <1>1, <1>4, ToldSame DEF Idle, Sound, Loose
<1>6. "proxy_do_write" \in Writers
  BY DEF Writers
<1>7. /\ Result(AddWatch(q, "W", "proxy_do_write"))
      /\ AddWatch(q, "W", "proxy_do_write").st = "live"
      /\ AddWatch(q, "W", "proxy_do_write").inpa = <<"W", "proxy_do_write", q.fd>>
  BY <1>1, <1>4, <1>5, <1>6, AddWatchSound
<1> QED
  BY <1>3, <1>7 DEF Result

LEMMA StartRequestSound ==
    ASSUME NEW r, Sound(r), r.st = "live", r.fd # NoFd,
           NEW m \in Messages, NEW cb \in Readers,
           NEW s \in StartRequest(r, m, cb)
    PROVE  Result(s)
BY RequestSound, WrittenSound DEF StartRequest

-----------------------------------------------------------------------------
(* Sockets, failures and replies. *)

LEMMA OpenedSound ==
    ASSUME NEW r, Sound(r), r.st = "live", r.fd # NoFd, NEW type,
           type \notin {"http", "socks4", "socks5"} => Immediate,
           NEW s \in Opened(r, type)
    PROVE  Result(s)
<1>1. /\ {"connect", "s4request", "greeting"} \subseteq Messages
      /\ {"http_canread", "s4_canread", "s5_canread"} \subseteq Readers
  BY DEF Messages, Readers
<1>2. CASE type = "http"
  <2>1. CASE Port80
    <3>1. s = Connected(RemoveWatch(r))
      BY <1>2, <2>1 DEF Opened
    <3> QED
      BY <3>1, RemoveWatchIdle, ConnectedSound DEF Idle
  <2>2. CASE ~Port80
    <3>1. s \in StartRequest(r, "connect", "http_canread")
      BY <1>2, <2>2 DEF Opened
    <3> QED
      BY <1>1, <3>1, StartRequestSound
  <2> QED
    BY <2>1, <2>2
<1>3. CASE type = "socks4"
  <2>1. s \in StartRequest(r, "s4request", "s4_canread")
    BY <1>3 DEF Opened
  <2> QED
    BY <1>1, <2>1, StartRequestSound
<1>4. CASE type = "socks5"
  <2>1. s \in StartRequest(r, "greeting", "s5_canread")
    BY <1>4 DEF Opened
  <2> QED
    BY <1>1, <2>1, StartRequestSound
<1>5. CASE type \notin {"http", "socks4", "socks5"}
  <2>1. s = [r EXCEPT !.clean = TRUE]
    BY <1>5 DEF Opened
  <2>2. /\ s \in Records /\ s.st = r.st /\ s.query = r.query /\ s.open = r.open
        /\ s.fd = r.fd /\ s.inpa = r.inpa /\ s.watches = r.watches
        /\ s.read_cb = r.read_cb /\ s.msg = r.msg
    BY <2>1 DEF Sound, Loose, Records
  <2>3. Told(s)
    BY <1>5 DEF Told
  <2> QED
    BY <2>2, <2>3 DEF Result, Sound, Loose
<1> QED
  BY <1>2, <1>3, <1>4, <1>5

LEMMA StartedSound ==
    ASSUME NEW r, Idle(r), r.fd = NoFd, NEW h \in 1..r.hosts, NEW type,
           NEW s \in Started(r, h, type)
    PROVE  Result(s)
<1> DEFINE t == [r EXCEPT !.hosts = h - 1, !.fd = h, !.open = @ \cup {h}]
<1>1. /\ r \in Records /\ r.open = {NoFd} \ {NoFd} /\ r.watches = {NoWatch} \ {NoWatch}
      /\ Told(r) /\ r.st = "live" /\ r.inpa = NoWatch
  BY DEF Idle, Sound, Loose
<1>2. h \in Sockets /\ h # NoFd /\ h - 1 \in Indices /\ h \in Indices
  BY <1>1, ConstantsAssumption DEF Records, Indices, Sockets, NoFd
<1>3. r.open \cup {h} = {h} \ {NoFd} /\ {h} \ {NoFd} \in SUBSET Sockets
  BY <1>1, <1>2
<1>4. t = [r EXCEPT !.hosts = h - 1, !.fd = h, !.open = {h} \ {NoFd}]
  BY <1>3
<1>5. s \in {AddWatch(t, "W", ReadyCallback(type))}
              \cup (IF Immediate THEN Opened(t, type) ELSE {})
  BY DEF Started
<1> HIDE DEF t
<1>6. /\ t \in Records /\ t.st = "live" /\ t.query = r.query /\ t.fd = h
      /\ t.open = {h} \ {NoFd} /\ t.inpa = r.inpa /\ t.watches = r.watches
      /\ t.calls = r.calls /\ t.clean = r.clean
  BY <1>1, <1>2, <1>3, <1>4 DEF Records
<1>7. Idle(t) /\ t.fd # NoFd
  BY <1>1, <1>2, <1>6, ToldSame, Members DEF Idle, Sound, Loose
<1>8. ReadyCallback(type) \in Writers /\ ReadyCallback(type) # "proxy_do_write"
  BY DEF ReadyCallback, Writers
<1>9. CASE s = AddWatch(t, "W", ReadyCallback(type))
  BY <1>7, <1>8, <1>9, AddWatchSound
<1>10. CASE Immediate /\ s \in Opened(t, type)
  BY <1>7, <1>10, OpenedSound DEF Idle
<1> QED
  BY <1>5, <1>9, <1>10

LEMMA FailedSound ==
    ASSUME NEW r, Sound(r), r.st = "live", NEW type, NEW s \in Failed(r, type)
    PROVE  Result(s)
<1> DEFINE d == Disconnected(r)
           e == [d EXCEPT !.hosts = 0]
<1>1. Idle(d) /\ d.fd = NoFd
  BY DisconnectedSound DEF Sound, Idle
<1>2. s = GaveUp(e) \/ \E h \in 1..d.hosts : s \in Started(d, h, type)
  <2> DEFINE U == UNION { Started(d, h, type) : h \in 1..d.hosts }
             g == GaveUp(e)
  <2>1. s \in U \cup {g}
    BY DEF Failed
  <2>2. ASSUME s \in U
        PROVE  \E h \in 1..d.hosts : s \in Started(d, h, type)
    <3>1. PICK S \in { Started(d, h, type) : h \in 1..d.hosts } : s \in S
      BY <2>2
    <3>2. PICK h \in 1..d.hosts : S = Started(d, h, type)
      BY <3>1
    <3> QED
      BY <3>1, <3>2
  <2> HIDE DEF U, g
  <2>3. s \in U \/ s = g
    BY <2>1
  <2> QED
    BY <2>2, <2>3 DEF g
<1> HIDE DEF d
<1>3. /\ e \in Records /\ e.st = d.st /\ e.query = d.query /\ e.open = d.open
      /\ e.fd = d.fd /\ e.inpa = d.inpa /\ e.watches = d.watches
      /\ e.calls = d.calls /\ e.clean = d.clean /\ e.read_cb = d.read_cb /\ e.msg = d.msg
  BY <1>1, Members DEF Idle, Sound, Loose, Records
<1> HIDE DEF e
<1>4. Idle(e) /\ e.fd = NoFd
  BY <1>1, <1>3, ToldSame DEF Idle, Sound, Loose
<1> QED
  BY <1>1, <1>2, <1>4, GaveUpSound, StartedSound

\* Reading a verdict keeps all that Sound looks at.
LEMMA HeardSound ==
    ASSUME NEW r, Sound(r), r.st = "live", r.inpa # NoWatch, NEW v \in Verdicts
    PROVE  Sound(Heard(r, v)) /\ Heard(r, v).st = "live" /\ Heard(r, v).fd # NoFd
             /\ Heard(r, v).inpa = r.inpa /\ Heard(r, v).rounds = r.rounds
<1> DEFINE h == Heard(r, v)
<1>1. /\ h \in Records /\ h.st = r.st /\ h.query = r.query /\ h.open = r.open
      /\ h.fd = r.fd /\ h.inpa = r.inpa /\ h.watches = r.watches /\ h.rounds = r.rounds
      /\ h.calls = r.calls /\ h.clean = r.clean /\ h.read_cb = r.read_cb /\ h.msg = r.msg
  BY Members DEF Heard, Sound, Loose, Records
<1> HIDE DEF h
<1>2. Sound(h) /\ h.st = "live" /\ h.fd # NoFd /\ h.inpa = r.inpa
  BY <1>1, ToldSame DEF Sound, Loose
<1> QED
  BY <1>1, <1>2 DEF h

\* ... and so does counting a round, or waiting for more of the same.
LEMMA RoundSound ==
    ASSUME NEW r, Sound(r), r.st = "live", r.fd # NoFd, r.rounds < MaxRounds,
           NEW o \in BOOLEAN
    PROVE  LET a == [r EXCEPT !.rounds = @ + 1]
               b == [r EXCEPT !.rounds = @ + 1, !.owes = o]
           IN  Sound(a) /\ a.st = "live" /\ a.fd # NoFd /\ Result(b)
<1> DEFINE a == [r EXCEPT !.rounds = @ + 1]
           b == [r EXCEPT !.rounds = @ + 1, !.owes = o]
<1>1. r \in Records /\ r.rounds + 1 \in Rounds
  BY ConstantsAssumption DEF Sound, Loose, Records, Rounds
<1>2. /\ a \in Records /\ a.st = r.st /\ a.query = r.query /\ a.open = r.open
      /\ a.fd = r.fd /\ a.inpa = r.inpa /\ a.watches = r.watches
      /\ a.calls = r.calls /\ a.clean = r.clean /\ a.read_cb = r.read_cb /\ a.msg = r.msg
  BY <1>1 DEF Records
<1>3. /\ b \in Records /\ b.st = r.st /\ b.query = r.query /\ b.open = r.open
      /\ b.fd = r.fd /\ b.inpa = r.inpa /\ b.watches = r.watches
      /\ b.calls = r.calls /\ b.clean = r.clean /\ b.read_cb = r.read_cb /\ b.msg = r.msg
  BY <1>1 DEF Records
<1> HIDE DEF a, b
<1>4. Sound(a)
  BY <1>2, ToldSame DEF Sound, Loose
<1>5. Sound(b)
  BY <1>3, ToldSame DEF Sound, Loose
<1>6. Sound(a) /\ a.st = "live" /\ a.fd # NoFd /\ Result(b)
  BY <1>2, <1>3, <1>4, <1>5 DEF Result
<1> QED
  BY <1>6 DEF a, b

LEMMA ReplySound ==
    ASSUME NEW r, Sound(r), r.st = "live", r.inpa # NoWatch,
           NEW v \in Verdicts, NEW type, NEW s \in Reply(r, v, type)
    PROVE  Result(s)
<1> DEFINE h == Heard(r, v)
           a == [h EXCEPT !.rounds = @ + 1]
           b == [h EXCEPT !.rounds = @ + 1, !.owes = TRUE]
<1>0. /\ {"connect", "auth407", "userpass", "chap", "s5connect"} \subseteq Messages
      /\ Readers = {"http_canread", "s4_canread", "s5_canread", "s5_readauth",
                    "s5_readchap", "s5_canread_again"}
  BY DEF Messages, Readers
<1>1. Sound(h) /\ h.st = "live" /\ h.fd # NoFd /\ h.rounds = r.rounds
  BY HeardSound
<1>2. Result(Connected(h))
  BY <1>1, ConnectedSound
<1>3. Idle(RemoveWatch(h)) /\ RemoveWatch(h).fd # NoFd
  BY <1>1, RemoveWatchIdle
<1>4. Result(Connected(RemoveWatch(h)))
  BY <1>3, ConnectedSound DEF Idle
<1>5. \A x \in Failed(h, type) \cup Failed(RemoveWatch(h), type) : Result(x)
  BY <1>1, <1>3, FailedSound DEF Idle
<1>6. \A m \in Messages, cb \in Readers :
        \A x \in StartRequest(h, m, cb) \cup StartRequest(RemoveWatch(h), m, cb) : Result(x)
  BY <1>1, <1>3, StartRequestSound DEF Idle
<1>7. r.rounds < MaxRounds =>
        \A m \in Messages, cb \in Readers : \A x \in StartRequest(a, m, cb) : Result(x)
  <2>1. r.rounds < MaxRounds => Sound(a) /\ a.st = "live" /\ a.fd # NoFd
    BY <1>1, RoundSound
  <2> HIDE DEF a
  <2> QED
    BY <2>1, StartRequestSound
<1>8. r.rounds < MaxRounds => Result(b)
  BY <1>1, RoundSound
<1>9. \A x \in s5_sendconnect(h) \cup s5_sendconnect(RemoveWatch(h)) : Result(x)
  BY <1>0, <1>6 DEF s5_sendconnect
<1> HIDE DEF h
<1>10. CASE s \in http_canread(r, v, type)
  <2>1. \/ s = Connected(RemoveWatch(h))
        \/ r.rounds < MaxRounds /\ s \in AuthRequest(a, v)
        \/ s \in Failed(h, type)
    BY <1>10 DEF http_canread, h
  <2>2. ASSUME r.rounds < MaxRounds, s \in AuthRequest(a, v)
        PROVE  Result(s)
    BY <1>0, <1>7, <2>2 DEF AuthRequest
  <2> QED
    BY <1>4, <1>5, <2>1, <2>2
<1>11. CASE s \in s4_canread(r, v, type)
  <2>1. s = Connected(h) \/ s \in Failed(h, type)
    BY <1>11 DEF s4_canread, h
  <2> QED
    BY <1>2, <1>5, <2>1
<1>12. CASE s \in s5_canread(r, v, type)
  <2>1. \/ s \in s5_sendconnect(h)
        \/ s \in StartRequest(h, "userpass", "s5_readauth")
        \/ s \in StartRequest(h, "chap", "s5_readchap")
        \/ s \in Failed(RemoveWatch(h), type)
    BY <1>12 DEF s5_canread, h
  <2> QED
    BY <1>0, <1>5, <1>6, <1>9, <2>1
<1>13. CASE s \in s5_readauth(r, v, type)
  <2>1. s \in s5_sendconnect(RemoveWatch(h)) \/ s \in Failed(RemoveWatch(h), type)
    BY <1>13 DEF s5_readauth, h
  <2> QED
    BY <1>5, <1>9, <2>1
<1>14. CASE s \in s5_readchap(r, v, type)
  <2>1. \/ s \in s5_sendconnect(h)
        \/ s \in Failed(h, type)
        \/ r.rounds < MaxRounds /\ s \in StartRequest(a, "chap", "s5_readchap")
        \/ r.rounds < MaxRounds /\ s = b
    BY <1>14 DEF s5_readchap, h
  <2> QED
    BY <1>0, <1>5, <1>7, <1>8, <1>9, <2>1
<1>15. CASE s \in s5_canread_again(r, v, type)
  <2>1. s = Connected(h) \/ s \in Failed(h, type)
    BY <1>15 DEF s5_canread_again, h
  <2> QED
    BY <1>2, <1>5, <2>1
<1> QED
  BY <1>10, <1>11, <1>12, <1>13, <1>14, <1>15 DEF Reply

-----------------------------------------------------------------------------
(* The invariant of the specification. *)

\* The list of handles names the attempts that are not freed: proxy.c writes it
\* where an attempt is asked for and where it is destroyed, nowhere else.
HandlesAreLive == handles = {c \in Attempts : conn[c].st = "live"}

Inv ==
    /\ conn \in [Attempts -> Records]
    /\ \A c \in Attempts : Sound(conn[c])
    /\ HandlesAreLive
    /\ gpi \in Types

LEMMA UnusedSound ==
    /\ Sound(Unused)
    /\ \A h \in Handles, t \in Targets, o \in BOOLEAN :
          Sound([Unused EXCEPT !.own = o, !.to = t, !.st = "live", !.handle = h,
                               !.query = "timer"])
<1>1. {} \in SUBSET Sockets /\ {} \in SUBSET Watches /\ "none" \in Verdicts /\ Len(<<>>) = 0
  BY DEF Verdicts
<1>2. Unused \in Records
  BY <1>1, Members DEF Unused, Records
<1>3. Told(Unused)
  BY <1>1 DEF Told, Unused
<1>4. /\ Unused.open = {} /\ Unused.fd = NoFd /\ Unused.watches = {} /\ Unused.clean = FALSE
      /\ Unused.inpa = NoWatch /\ Unused.query = "none" /\ Unused.calls = <<>>
  BY DEF Unused
<1>5. Sound(Unused)
  BY <1>2, <1>3, <1>4, Members DEF Sound, Loose
<1>6. ASSUME NEW h \in Handles, NEW t \in Targets, NEW o \in BOOLEAN
      PROVE  Sound([Unused EXCEPT !.own = o, !.to = t, !.st = "live", !.handle = h,
                                  !.query = "timer"])
  <2> DEFINE r == [Unused EXCEPT !.own = o, !.to = t, !.st = "live", !.handle = h,
                                 !.query = "timer"]
  <2>1. /\ r \in Records /\ r.st = "live" /\ r.open = {} /\ r.fd = NoFd /\ r.watches = {}
        /\ r.inpa = NoWatch /\ r.clean = FALSE /\ r.calls = <<>>
    BY <1>2, <1>4, <1>6, Members DEF Records
  <2> HIDE DEF r
  <2>2. Told(r)
    BY <1>1, <2>1 DEF Told
  <2>3. Sound(r)
    BY <2>1, <2>2, Members DEF Sound, Loose
  <2> QED
    BY <2>3 DEF r
<1> QED
  BY <1>5, <1>6

\* s is r after a piece of a reply: only got and lost differ.
ShortOf(r, s) ==
    /\ s \in Records
    /\ s.st = r.st /\ s.own = r.own /\ s.to = r.to /\ s.query = r.query
    /\ s.hosts = r.hosts /\ s.fd = r.fd /\ s.open = r.open /\ s.inpa = r.inpa
    /\ s.watches = r.watches /\ s.read_cb = r.read_cb /\ s.msg = r.msg
    /\ s.written = r.written /\ s.skipped = r.skipped /\ s.said = r.said
    /\ s.clean = r.clean /\ s.calls = r.calls

LEMMA Shorter ==
    ASSUME Inv, NEW c \in Attempts, ReadShort(c)
    PROVE  /\ conn[c].inpa[1] = "R"
           /\ \E s : ShortOf(conn[c], s) /\ Becomes(c, {s})
<1> DEFINE r == conn[c]
           a == [r EXCEPT !.lost = TRUE]
           b == [r EXCEPT !.got = @ + 1]
<1>1. /\ r.inpa[1] = "R"
      /\ Becomes(c, {a}) \/ (r.got + 1 < MaxPieces /\ Becomes(c, {b}))
  BY DEF ReadShort
<1>2. r \in Records
  BY DEF Inv
<1> HIDE DEF r
<1>3. ShortOf(r, a)
  BY <1>2 DEF ShortOf, Records
<1>4. r.got + 1 < MaxPieces => ShortOf(r, b)
  <2>1. r.got + 1 < MaxPieces => r.got + 1 \in Pieces
    BY <1>2, ConstantsAssumption DEF Records, Pieces
  <2> QED
    BY <1>2, <2>1 DEF ShortOf, Records
<1> HIDE DEF a, b
<1> QED
  BY <1>1, <1>3, <1>4 DEF r

\* Attempt c, and no other, moves from a stage to one of S.
Moves(c, from, S) ==
    /\ conn[c].st = from
    /\ conn'[c].st \in S
    /\ \A d \in Attempts \ {c} : conn'[d] = conn[d]

Stepping == {"live", "freed", "cancelled"}

\* One attempt moves on, and leaves the list when it is freed.
LEMMA BecomesInv ==
    ASSUME Inv, NEW c \in Attempts, NEW rs, Becomes(c, rs), conn[c].st = "live",
           \A r \in rs : Sound(r) /\ r.st \in Stepping
    PROVE  Inv' /\ Moves(c, "live", Stepping)
<1>1. PICK r \in rs : /\ conn' = [conn EXCEPT ![c] = r]
                      /\ handles' = IF r.st = "live" THEN handles ELSE handles \ {c}
  BY DEF Becomes
<1>2. Sound(r) /\ r \in Records
  BY <1>1 DEF Sound, Loose
<1>3. conn' \in [Attempts -> Records]
  BY <1>1, <1>2 DEF Inv
<1>4. \A d \in Attempts : conn'[d] = IF d = c THEN r ELSE conn[d]
  BY <1>1 DEF Inv
<1>5. \A d \in Attempts : Sound(conn'[d])
  BY <1>2, <1>4 DEF Inv
<1>6. handles' = {d \in Attempts : conn'[d].st = "live"}
  BY <1>1, <1>4 DEF Inv, HandlesAreLive
<1>7. gpi' = gpi
  BY DEF Becomes
<1> QED
  BY <1>1, <1>3, <1>4, <1>5, <1>6, <1>7 DEF Inv, HandlesAreLive, Moves

LEMMA AskingInv ==
    ASSUME Inv, NEW c \in Attempts, NEW h \in Handles, NEW t \in Targets,
           NEW o \in BOOLEAN, gpi' \in Types,
           Asking(c, h, [Unused EXCEPT !.own = o, !.to = t])
    PROVE  Inv' /\ Moves(c, "unused", {"live"})
<1> DEFINE r == [Unused EXCEPT !.own = o, !.to = t, !.st = "live", !.handle = h,
                               !.query = "timer"]
<1>1. conn' = [conn EXCEPT ![c] = r] /\ handles' = handles \cup {c}
  BY DEF Asking
<1>2. Sound(r) /\ r \in Records /\ r.st = "live"
  <2>1. Sound(r)
    BY UnusedSound
  <2>2. r.st = "live"
    BY DEF Unused
  <2> QED
    BY <2>1, <2>2 DEF Sound, Loose
<1> HIDE DEF r
<1>3. conn' \in [Attempts -> Records]
  BY <1>1, <1>2 DEF Inv
<1>4. \A d \in Attempts : conn'[d] = IF d = c THEN r ELSE conn[d]
  BY <1>1 DEF Inv
<1>5. \A d \in Attempts : Sound(conn'[d])
  BY <1>2, <1>4 DEF Inv
<1>6. handles' = {d \in Attempts : conn'[d].st = "live"}
  BY <1>1, <1>2, <1>4 DEF Inv, HandlesAreLive
<1> QED
  BY <1>2, <1>3, <1>4, <1>5, <1>6 DEF Inv, HandlesAreLive, Moves, Asking

LEMMA CancelAllInv ==
    ASSUME Inv, NEW S, S \subseteq handles, CancelAll(S)
    PROVE  Inv'
<1>1. \A c \in Attempts : conn'[c] = IF c \in S THEN Cancelled(c) ELSE conn[c]
  BY DEF CancelAll
<1>2. \A c \in S : c \in Attempts /\ Sound(Cancelled(c)) /\ Cancelled(c).st = "cancelled"
  BY CancelledSound DEF Inv, HandlesAreLive
<1>3. \A c \in Attempts : Sound(conn'[c])
  BY <1>1, <1>2 DEF Inv
<1>4. conn' \in [Attempts -> Records]
  <2>1. \A c \in Attempts : conn'[c] \in Records
    BY <1>3 DEF Sound, Loose
  <2> QED
    BY <1>1, <2>1 DEF CancelAll
<1>5. handles' = {d \in Attempts : conn'[d].st = "live"}
  BY <1>1, <1>2 DEF Inv, HandlesAreLive, CancelAll
<1> QED
  BY <1>3, <1>4, <1>5 DEF Inv, HandlesAreLive, CancelAll

LEMMA QuerySound ==
    ASSUME NEW r, Sound(r), r.st = "live",
           NEW q \in Queries, NEW n \in Indices
    PROVE  LET a == [r EXCEPT !.query = q]
               b == [r EXCEPT !.query = q, !.hosts = n]
           IN  Sound(a) /\ a.st = "live" /\ Sound(b) /\ b.st = "live"
<1> DEFINE a == [r EXCEPT !.query = q]
           b == [r EXCEPT !.query = q, !.hosts = n]
<1>1. /\ a \in Records /\ a.st = r.st /\ a.open = r.open
      /\ a.fd = r.fd /\ a.inpa = r.inpa /\ a.watches = r.watches
      /\ a.calls = r.calls /\ a.clean = r.clean /\ a.read_cb = r.read_cb /\ a.msg = r.msg
  BY DEF Sound, Loose, Records
<1>2. /\ b \in Records /\ b.st = r.st /\ b.open = r.open
      /\ b.fd = r.fd /\ b.inpa = r.inpa /\ b.watches = r.watches
      /\ b.calls = r.calls /\ b.clean = r.clean /\ b.read_cb = r.read_cb /\ b.msg = r.msg
  BY DEF Sound, Loose, Records
<1> HIDE DEF a, b
<1>3. Sound(a) /\ a.st = "live" /\ Sound(b) /\ b.st = "live"
  BY <1>1, <1>2, ToldSame DEF Sound, Loose
<1> QED
  BY <1>3 DEF a, b

LEMMA RefuseInv ==
    ASSUME Inv, NEW c \in Attempts, NEW type \in Types, Refuse(c, type)
    PROVE  Inv' /\ Moves(c, "unused", {"refused"})
<1> DEFINE r == [conn[c] EXCEPT !.st = "refused"]
<1>1. /\ conn[c].st = "unused" /\ conn' = [conn EXCEPT ![c] = r]
      /\ handles' = handles /\ gpi' = type
  BY DEF Refuse, Settings
<1>2. Sound(conn[c]) /\ conn[c] \in Records
  BY DEF Inv
<1>3. /\ r \in Records /\ r.st = "refused" /\ r.query = conn[c].query /\ r.open = conn[c].open
      /\ r.fd = conn[c].fd /\ r.inpa = conn[c].inpa /\ r.watches = conn[c].watches
      /\ r.calls = conn[c].calls /\ r.clean = conn[c].clean
      /\ r.read_cb = conn[c].read_cb /\ r.msg = conn[c].msg
  BY <1>2, Members DEF Records
<1> HIDE DEF r
<1>4. Told(r)
  BY <1>1, <1>2, <1>3 DEF Told, Sound
<1>5. Sound(r)
  BY <1>1, <1>2, <1>3, <1>4 DEF Sound, Loose
<1>6. \A d \in Attempts : conn'[d] = IF d = c THEN r ELSE conn[d]
  BY <1>1 DEF Inv
<1>7. conn' \in [Attempts -> Records]
  BY <1>1, <1>3 DEF Inv
<1>8. handles' = {d \in Attempts : conn'[d].st = "live"}
  BY <1>1, <1>3, <1>6 DEF Inv, HandlesAreLive
<1> QED
  BY <1>1, <1>3, <1>5, <1>6, <1>7, <1>8 DEF Inv, HandlesAreLive, Moves

LEMMA ProgressInv ==
    ASSUME Inv, NEW c \in Attempts, Progress(c)
    PROVE  Inv' /\ (~Immediate => Moves(c, "live", Stepping))
<1> DEFINE r    == conn[c]
           type == TypeOf(r, gpi)
<1>1. Sound(r) /\ Told(r) /\ r.inpa \in Watches \cup {NoWatch}
  BY DEF Inv, Sound, Loose, Records, OptWatch
<1>2. \A rs : Becomes(c, rs) /\ r.st = "live" /\ (\A x \in rs : Result(x)) =>
          Inv' /\ Moves(c, "live", Stepping)
  BY BecomesInv DEF Result, Stepping, r
<1> HIDE DEF r, type
<1>3. r.inpa # NoWatch => r.st = "live" /\ r.fd # NoFd
  BY <1>1 DEF Sound
<1>4. CASE ResolveHost(c)
  <2> DEFINE done == [r EXCEPT !.query = "none"]
             one  == [done EXCEPT !.hosts = 1]
             ui   == [r EXCEPT !.query = "ui"]
             rs   == Failed(done, type) \cup Failed(one, type)
                       \cup (IF UiResolver THEN {ui} ELSE {})
  <2>1. r.query = "timer" /\ Becomes(c, rs)
    BY <1>4 DEF ResolveHost, r, type
  <2>2. r.st = "live"
    BY <1>1, <2>1 DEF Sound
  <2>3. 1 \in Indices
    BY ConstantsAssumption DEF Indices
  <2>4. Sound(done) /\ done.st = "live"
    BY <1>1, <2>2, <2>3, QuerySound, Members
  <2>5. one = [r EXCEPT !.query = "none", !.hosts = 1]
    OBVIOUS
  <2>6. Sound(one) /\ one.st = "live"
    <3>1. \A q \in Queries, n \in Indices :
            LET b == [r EXCEPT !.query = q, !.hosts = n]
            IN  Sound(b) /\ b.st = "live"
      BY <1>1, <2>2, QuerySound, Zenon
    <3>2. LET b == [r EXCEPT !.query = "none", !.hosts = 1]
          IN  Sound(b) /\ b.st = "live"
      BY <2>3, <3>1, Members
    <3> HIDE DEF one
    <3> QED
      BY <2>5, <3>2
  <2>7. Result(ui)
    BY <1>1, <2>2, <2>3, QuerySound, Members DEF Result
  <2> HIDE DEF done, one, ui
  <2>8. \A x \in rs : Result(x)
    BY <2>4, <2>6, <2>7, FailedSound
  <2> QED
    BY <1>2, <2>1, <2>2, <2>8
<1>5. ASSUME NEW n \in 0..MaxHosts, UiResolved(c, n)
      PROVE  Inv' /\ Moves(c, "live", Stepping)
  <2> DEFINE b == [r EXCEPT !.query = "none", !.hosts = n]
  <2>1. r.query = "ui" /\ Becomes(c, Failed(b, type))
    BY <1>5 DEF UiResolved, r, type
  <2>2. r.st = "live"
    BY <1>1, <2>1 DEF Sound
  <2>3. n \in Indices
    BY <1>5 DEF Indices
  <2>4. Sound(b) /\ b.st = "live"
    BY <1>1, <2>2, <2>3, QuerySound, Members
  <2> HIDE DEF b
  <2>5. \A x \in Failed(b, type) : Result(x)
    BY <2>4, FailedSound
  <2> QED
    BY <1>2, <2>1, <2>2, <2>5
<1>6. CASE SocketReady(c)
  <2> DEFINE ok == CASE r.inpa[2] = "socket_ready_cb" -> {IF c \in handles THEN Connected(r) ELSE r}
                     [] r.inpa[2] = "http_canwrite" -> Opened(r, "http")
                     [] r.inpa[2] = "s4_canwrite"   -> Opened(r, "socks4")
                     [] OTHER                       -> Opened(r, "socks5")
  <2>1. r.inpa[2] \in Writers \ {"proxy_do_write"} /\ Becomes(c, ok \cup Failed(r, type))
    BY <1>6 DEF SocketReady, r, type
  <2>2. r.inpa # NoWatch
    BY <2>1, Members DEF Writers
  <2>3. r.st = "live" /\ r.fd # NoFd
    BY <1>3, <2>2
  <2>4. Result(r) /\ Result(Connected(r)) /\ (\A x \in Failed(r, type) : Result(x))
    BY <1>1, <2>3, ConnectedSound, FailedSound DEF Result
  <2>5. \A x \in Opened(r, "http") \cup Opened(r, "socks4") \cup Opened(r, "socks5") : Result(x)
    BY <1>1, <2>3, OpenedSound
  <2>6. \A x \in ok : Result(x)
    BY <2>4, <2>5
  <2> HIDE DEF ok
  <2> QED
    BY <1>2, <2>1, <2>3, <2>4, <2>6
<1>7. CASE CleanConnect(c)
  <2> DEFINE s == [r EXCEPT !.clean = FALSE]
             late == [s EXCEPT !.calls = Append(@, <<"ok", NoFd>>)]
  <2>1. r.clean /\ Becomes(c, {IF s.st = "live" THEN Connected(s) ELSE late})
    BY <1>7 DEF CleanConnect, r
  <2>2. /\ s \in Records /\ s.st = r.st /\ s.query = r.query /\ s.open = r.open
        /\ s.fd = r.fd /\ s.inpa = r.inpa /\ s.watches = r.watches
        /\ s.calls = r.calls /\ s.clean = FALSE /\ s.read_cb = r.read_cb /\ s.msg = r.msg
    BY <1>1 DEF Sound, Loose, Records
  <2>3. Immediate
    BY <1>1, <2>1 DEF Told
  <2> HIDE DEF s
  <2>4. Sound(s)
    BY <1>1, <2>2, <2>3 DEF Sound, Loose, Told
  <2>5. CASE r.st = "live"
    <3>1. Result(Connected(s))
      BY <2>2, <2>4, <2>5, ConnectedSound
    <3>2. Becomes(c, {Connected(s)})
      BY <2>1, <2>2, <2>5
    <3> HIDE DEF late
    <3> QED
      BY <1>2, <2>5, <3>1, <3>2
  <2>6. CASE r.st # "live"
    <3>1. Append(s.calls, <<"ok", NoFd>>) \in Calls
      <4>1. <<"ok", NoFd>> \in {"ok", "fail"} \X Indices /\ s.calls \in Seq({"ok", "fail"} \X Indices)
        BY <2>2, Members DEF Records, Calls
      <4> QED
        BY <4>1 DEF Calls
    <3>2. /\ late \in Records /\ late.st = s.st /\ late.query = s.query /\ late.open = s.open
          /\ late.fd = s.fd /\ late.inpa = s.inpa /\ late.watches = s.watches
          /\ late.read_cb = s.read_cb /\ late.msg = s.msg
      <4> DEFINE cs == Append(s.calls, <<"ok", NoFd>>)
      <4>1. cs \in Calls /\ late = [s EXCEPT !.calls = cs]
        BY <3>1
      <4> HIDE DEF cs, late
      <4> QED
        BY <2>2, <4>1 DEF Records
    <3> HIDE DEF late
    <3>3. Told(late)
      BY <2>3 DEF Told
    <3>4. Sound(late)
      BY <2>4, <3>2, <3>3 DEF Sound, Loose
    <3>5. Becomes(c, {late})
      BY <2>1, <2>2, <2>6
    <3>6. conn' = [conn EXCEPT ![c] = late] /\ handles' = handles \ {c} /\ gpi' = gpi
      BY <2>2, <2>6, <3>2, <3>5 DEF Becomes
    <3>7. \A d \in Attempts : conn'[d] = IF d = c THEN late ELSE conn[d]
      BY <3>6 DEF Inv
    <3>8. handles' = {d \in Attempts : conn'[d].st = "live"}
      BY <2>2, <2>6, <3>2, <3>6, <3>7 DEF Inv, HandlesAreLive, r
    <3> QED
      BY <2>3, <3>2, <3>4, <3>6, <3>7, <3>8 DEF Inv, HandlesAreLive
  <2> QED
    BY <2>5, <2>6
<1>8. CASE DoWrite(c)
  <2>1. r.inpa[2] = "proxy_do_write" /\ Becomes(c, Written(r))
    BY <1>8 DEF DoWrite, r
  <2>2. r.st = "live"
    BY <1>3, <2>1, Members
  <2>3. \A x \in Written(r) : Result(x)
    BY <1>1, <2>1, <2>2, WrittenSound
  <2> QED
    BY <1>2, <2>1, <2>2, <2>3
<1>9. ASSUME NEW v \in Verdicts, ReadReply(c, v)
      PROVE  Inv' /\ Moves(c, "live", Stepping)
  <2>1. r.inpa[1] = "R" /\ Becomes(c, Reply(r, v, type))
    BY <1>9 DEF ReadReply, r, type
  <2>2. r.inpa # NoWatch /\ r.st = "live"
    BY <1>3, <2>1 DEF NoWatch
  <2>3. \A x \in Reply(r, v, type) : Result(x)
    BY <1>1, <2>2, ReplySound
  <2> QED
    BY <1>2, <2>1, <2>2, <2>3
<1> QED
  BY <1>4, <1>5, <1>6, <1>7, <1>8, <1>9 DEF Progress

\* What a step may do to the stages of the attempts.
StagesMove ==
    \/ \E c \in Attempts : Moves(c, "live", Stepping)
    \/ \E c \in Attempts : Moves(c, "unused", {"live", "refused"})
    \/ \E S \in SUBSET handles : CancelAll(S)
    \/ UNCHANGED conn

LEMMA NextInv ==
    ASSUME Inv, [Next]_vars
    PROVE  Inv' /\ (~Immediate => StagesMove)
<1>1. ASSUME NEW c \in Attempts, Progress(c)
      PROVE  Inv' /\ (~Immediate => StagesMove)
  BY <1>1, ProgressInv DEF StagesMove
<1>2. ASSUME NEW c \in Attempts, Client(c)
      PROVE  Inv' /\ (~Immediate => StagesMove)
  <2>1. ASSUME NEW h \in Handles, NEW t \in Types, Connect(c, h, t)
        PROVE  Inv' /\ (~Immediate => StagesMove)
    <3> DEFINE to == IF t = "none" THEN "dest" ELSE "proxy"
    <3>1. gpi' \in Types /\ Asking(c, h, [Unused EXCEPT !.own = FALSE, !.to = to])
      BY <2>1 DEF Connect, Settings
    <3>2. to \in Targets
      BY DEF Targets
    <3> HIDE DEF to
    <3> QED
      BY <3>1, <3>2, AskingInv DEF StagesMove, Moves
  <2>2. ASSUME NEW h \in Handles, ConnectSocks5(c, h)
        PROVE  Inv' /\ (~Immediate => StagesMove)
    <3>1. gpi' \in Types /\ Asking(c, h, [Unused EXCEPT !.own = TRUE, !.to = "proxy"])
      BY <2>2 DEF ConnectSocks5, Inv
    <3> QED
      BY <3>1, AskingInv, Members DEF StagesMove, Moves
  <2>3. ASSUME NEW t \in Types, Refuse(c, t)
        PROVE  Inv' /\ (~Immediate => StagesMove)
    BY <2>3, RefuseInv DEF StagesMove, Moves
  <2>4. CASE Cancel(c)
    <3>1. conn[c].st = "live" /\ Becomes(c, {Cancelled(c)})
      BY <2>4 DEF Cancel
    <3>2. Sound(Cancelled(c)) /\ Cancelled(c).st = "cancelled"
      BY <3>1, CancelledSound DEF Inv
    <3> QED
      BY <3>1, <3>2, BecomesInv DEF StagesMove, Stepping
  <2> QED
    BY <1>2, <2>1, <2>2, <2>3, <2>4 DEF Client
<1>3. ASSUME NEW c \in Attempts, ReadShort(c)
      PROVE  Inv' /\ (~Immediate => StagesMove)
  <2> DEFINE r == conn[c]
  <2>1. r.inpa[1] = "R" /\ \E s : ShortOf(r, s) /\ Becomes(c, {s})
    BY <1>3, Shorter
  <2>2. PICK s : ShortOf(r, s) /\ Becomes(c, {s})
    BY <2>1
  <2>3. Sound(r) /\ r.inpa # NoWatch
    BY <2>1 DEF Inv, NoWatch
  <2> HIDE DEF r
  <2>4. Sound(s) /\ s.st = "live" /\ r.st = "live"
    BY <2>2, <2>3, ToldSame DEF ShortOf, Sound, Loose
  <2> QED
    BY <2>2, <2>4, BecomesInv DEF r, StagesMove, Stepping
<1>4. ASSUME NEW c \in Attempts, Drop(c)
      PROVE  Inv' /\ (~Immediate => StagesMove)
  <2>1. conn[c].inpa # NoWatch /\ Becomes(c, Failed(conn[c], TypeOf(conn[c], gpi)))
    BY <1>4 DEF Drop, NoWatch
  <2>2. Sound(conn[c]) /\ conn[c].st = "live"
    BY <2>1 DEF Inv, Sound
  <2>3. \A x \in Failed(conn[c], TypeOf(conn[c], gpi)) : Result(x)
    BY <2>2, FailedSound
  <2> QED
    BY <2>1, <2>2, <2>3, BecomesInv DEF Result, StagesMove, Stepping
<1>5. ASSUME NEW h \in Handles, CancelWithHandle(h)
      PROVE  Inv' /\ (~Immediate => StagesMove)
  <2> DEFINE S == {c \in handles : conn[c].handle = h}
  <2>1. CancelAll(S) /\ S \in SUBSET handles
    BY <1>5 DEF CancelWithHandle
  <2> HIDE DEF S
  <2> QED
    BY <2>1, CancelAllInv DEF StagesMove
<1>6. CASE Uninit
  BY <1>6, CancelAllInv DEF Uninit, StagesMove
<1>7. CASE UNCHANGED vars
  BY <1>7 DEF vars, Inv, HandlesAreLive, StagesMove
<1> QED
  BY <1>1, <1>2, <1>3, <1>4, <1>5, <1>6, <1>7 DEF Next

LEMMA InitInv == Init => Inv
<1> SUFFICES ASSUME Init PROVE Inv
  OBVIOUS
<1>1. Sound(Unused) /\ Unused \in Records /\ Unused.st = "unused"
  BY UnusedSound DEF Unused, Sound, Loose
<1>2. \A c \in Attempts : conn[c] = Unused
  BY DEF Init
<1> QED
  BY <1>1, <1>2 DEF Init, Inv, HandlesAreLive

LEMMA Invariant == Spec => []Inv
<1>1. Inv /\ [Next]_vars => Inv'
  BY NextInv
<1> QED
  BY <1>1, InitInv, PTL DEF Spec

\* Types, for every instance of the constants.
THEOREM TypeCorrect == Spec => []TypeOK
<1>1. Inv => TypeOK
  BY DEF Inv, TypeOK, HandlesAreLive
<1> QED
  BY <1>1, Invariant, PTL

\* Whatever order addresses fail in and handshake stages follow each other,
\* the kernel and the main loop hold for an attempt what its fd and inpa name,
\* and nothing once it is gone (proxy.c:337-443).
THEOREM NoLeak == Spec => []NothingLeaks
<1>1. Inv => NothingLeaks
  BY DEF Inv, NothingLeaks, Sound, Loose
<1> QED
  BY <1>1, Invariant, PTL

\* No watcher outlives its socket: disconnect and connected never leave the
\* main loop polling a descriptor that is closed or belongs to a client.
THEOREM NoStaleWatch == Spec => []WatchesOpenSocket
<1>1. Inv => WatchesOpenSocket
  BY DEF Inv, WatchesOpenSocket, Sound, Loose
<1> QED
  BY <1>1, Invariant, PTL

\* When connect() never completes at once, so that the clean_connect timer is
\* never set, the originator of every attempt hears exactly once, and never
\* after it cancelled.
THEOREM ToldOnceIfPrompt == ASSUME ~Immediate PROVE Spec => []ToldOnce
<1>1. Inv => ToldOnce
  BY DEF Inv, ToldOnce, Sound, Told
<1> QED
  BY <1>1, Invariant, PTL

-----------------------------------------------------------------------------
(* The contract of proxy.h: what the originator has seen follows the stage. *)

\* When no clean_connect timer is ever set, the stage of an attempt says what
\* its originator has seen.
LEMMA OutcomeOfStage ==
    ASSUME ~Immediate, NEW r, Sound(r)
    PROVE  /\ r.st = "unused"    => Outcome(r) = "idle"
           /\ r.st = "refused"   => Outcome(r) = "refused"
           /\ r.st = "live"      => Outcome(r) = "pending"
           /\ r.st = "cancelled" => Outcome(r) = "cancelled"
           /\ r.st = "freed"     => Outcome(r) \in {"connected", "failed"}
<1>1. Len(r.calls) = IF r.st = "freed" THEN 1 ELSE 0
  BY DEF Sound, Told
<1>2. r.calls \in Seq({"ok", "fail"} \X Indices)
  BY DEF Sound, Loose, Records, Calls
<1>3. r.st # "freed" => r.calls = <<>>
  BY <1>1, <1>2
<1> QED
  BY <1>1, <1>3 DEF Outcome

LEMMA InitPromise ==
    ASSUME Init
    PROVE  Promise!Init
BY DEF Init, Promise!Init, Outcome, Unused

LEMMA NextPromise ==
    ASSUME Inv, Inv', ~Immediate, StagesMove
    PROVE  [Promise!Next]_([c \in Attempts |-> Outcome(conn[c])])
<1> DEFINE o == [c \in Attempts |-> Outcome(conn[c])]
           n == [c \in Attempts |-> Outcome(conn'[c])]
<1>1. o' = n
  OBVIOUS
<1>2. \A c \in Attempts : Sound(conn[c]) /\ Sound(conn'[c])
  BY DEF Inv
<1>3. ASSUME NEW c \in Attempts, Moves(c, "live", Stepping)
      PROVE  [Promise!Next]_o
  <2>1. o[c] = "pending" /\ n[c] \in {"pending", "connected", "failed", "cancelled"}
    BY <1>2, <1>3, OutcomeOfStage DEF Moves, Stepping
  <2>2. \A d \in Attempts \ {c} : n[d] = o[d]
    BY <1>3 DEF Moves
  <2>3. n = [o EXCEPT ![c] = n[c]]
    BY <2>2
  <2> HIDE DEF n
  <2>4. CASE n[c] = "pending"
    BY <1>1, <2>1, <2>3, <2>4
  <2>5. CASE n[c] \in {"connected", "failed"}
    BY <1>1, <2>1, <2>3, <2>5 DEF Promise!Next, Promise!Tell
  <2>6. CASE n[c] = "cancelled"
    <3> DEFINE S == {c}
    <3>1. S \in SUBSET Attempts /\ \A d \in S : o[d] = "pending"
      BY <2>1
    <3>2. n = [d \in Attempts |-> IF d \in S THEN "cancelled" ELSE o[d]]
      BY <2>3, <2>6
    <3> HIDE DEF S, o
    <3>3. Promise!Cancel(S)
      BY <1>1, <3>1, <3>2 DEF Promise!Cancel, o
    <3> QED
      BY <3>1, <3>3 DEF Promise!Next
  <2> QED
    BY <2>1, <2>4, <2>5, <2>6
<1>4. ASSUME NEW c \in Attempts, Moves(c, "unused", {"live", "refused"})
      PROVE  [Promise!Next]_o
  <2>1. o[c] = "idle" /\ n[c] \in {"pending", "refused"}
    BY <1>2, <1>4, OutcomeOfStage DEF Moves
  <2>2. \A d \in Attempts \ {c} : n[d] = o[d]
    BY <1>4 DEF Moves
  <2>3. n = [o EXCEPT ![c] = n[c]]
    BY <2>2
  <2> HIDE DEF n
  <2> QED
    BY <1>1, <2>1, <2>3 DEF Promise!Next, Promise!Answer
<1>5. ASSUME NEW S \in SUBSET handles, CancelAll(S)
      PROVE  [Promise!Next]_o
  <2>1. S \in SUBSET Attempts /\ \A c \in S : conn[c].st = "live" /\ conn'[c].st = "cancelled"
    BY <1>2, <1>5, CancelledSound DEF CancelAll, Inv, HandlesAreLive
  <2>2. \A c \in S : o[c] = "pending" /\ n[c] = "cancelled"
    BY <1>2, <2>1, OutcomeOfStage
  <2>3. \A c \in Attempts \ S : n[c] = o[c]
    BY <1>5 DEF CancelAll
  <2>4. n = [c \in Attempts |-> IF c \in S THEN "cancelled" ELSE o[c]]
    BY <2>2, <2>3
  <2> HIDE DEF n, o
  <2> QED
    BY <1>1, <2>1, <2>2, <2>4 DEF Promise!Next, Promise!Cancel, o
<1>6. CASE UNCHANGED conn
  BY <1>6
<1> QED
  BY <1>3, <1>4, <1>5, <1>6 DEF StagesMove

\* proxy.c implements the contract of proxy.h when connect() never completes at
\* once: whatever addresses, handshakes and cancellations an attempt goes
\* through, its originator sees one answer, then one outcome or its own
\* cancellation, and nothing behind it.
THEOREM KeepsPromise == ASSUME ~Immediate PROVE Spec => PromiseKept
<1>1. Init => Promise!Init
  BY InitPromise
<1>2. Inv /\ Inv' /\ [Next]_vars => [Promise!Next]_([c \in Attempts |-> Outcome(conn[c])])
  BY NextInv, NextPromise
<1> QED
  BY <1>1, <1>2, Invariant, PTL DEF Spec, PromiseKept, Promise!Spec

-----------------------------------------------------------------------------
(***************************************************************************)
(* Where an attempt goes and what it asks on the way.                      *)
(*                                                                         *)
(* When the settings do not change under it, an attempt speaks to the      *)
(* proxy it looked up, or to the destination it looked up, never to one as *)
(* to the other.  When a lookup gives one address and the proxy is not a   *)
(* SOCKS4 one, every request is sent from its first byte and a socket is   *)
(* handed over only after it was granted.  The README says what breaks     *)
(* each of them otherwise.                                                 *)
(*                                                                         *)
(* A frame lemma per operator of ProxyConnect says which fields it leaves  *)
(* alone; Route and Asked are the inductive properties of one record.      *)
(***************************************************************************)

\* One address per lookup, as the built-in resolver gives, and no SOCKS4 proxy
Narrow == MaxHosts = 1 /\ "socks4" \notin Types

OnDest(r) == r.to = "dest" /\ r.read_cb = "none" /\ r.inpa[2] \in {"none", "socket_ready_cb"}

OnProxy(r) == r.to = "proxy" /\ r.inpa[2] # "socket_ready_cb" /\ ~r.clean

\* The attempt r goes where its lookup went, with the settings g.
Route(r, g) ==
    /\ OnDest(r) \/ OnProxy(r)
    /\ r.st = "live" => (r.to = "dest" <=> TypeOf(r, g) = "none")

\* Nothing was asked on behalf of r yet.
Fresh(r) == r.read_cb = "none" /\ r.written = 0

Whole(r) == r.msg # "none" => r.skipped = 0 /\ r.written < Length(r.msg)

Granted(r) ==
    \A i \in 1..Len(r.calls) : r.calls[i][1] = "ok" /\ r.read_cb # "none" => r.said = "grant"

NoSocks4(r) == r.read_cb # "s4_canread" /\ r.inpa[2] \notin {"s4_canwrite", "s4_canread"}

Asked(r) ==
    /\ r.hosts = 0
    /\ r.query # "none" => r.inpa = NoWatch /\ ~r.clean
    /\ r.clean => r.inpa = NoWatch /\ r.st # "unused"
    /\ (r.query # "none" \/ r.clean \/ r.inpa[2] \in Writers \ {"proxy_do_write"}) => Fresh(r)
    /\ r.st \in {"unused", "live"} => r.calls = <<>>
    /\ Whole(r)
    /\ Granted(r)
    /\ NoSocks4(r)

Fit(r, g) == (~Volatile => Route(r, g)) /\ (Narrow => Asked(r))

-----------------------------------------------------------------------------
(* Frames: what the operators leave alone. *)

\* Nothing but the request and the watcher of r changed in s.
Kindred(s, r) ==
    /\ s.st = r.st /\ s.own = r.own /\ s.to = r.to /\ s.query = r.query
    /\ s.hosts = r.hosts /\ s.said = r.said /\ s.clean = r.clean /\ s.calls = r.calls

Steady(s, r) == Kindred(s, r) /\ s.read_cb = r.read_cb /\ s.written = r.written

LEMMA RemoveWatchFrame ==
    ASSUME NEW r \in Records
    PROVE  LET s == RemoveWatch(r)
           IN  /\ s \in Records /\ Steady(s, r) /\ s.inpa = NoWatch
               /\ s.msg = r.msg /\ s.skipped = r.skipped /\ s.fd = r.fd
<1>1. r.watches \ {r.inpa} \in SUBSET Watches
  BY DEF Records
<1> QED
  BY <1>1, Members DEF RemoveWatch, Steady, Kindred, Records

LEMMA AddWatchFrame ==
    ASSUME NEW r \in Records, NEW cond, NEW cb
    PROVE  LET s == AddWatch(r, cond, cb)
           IN  /\ Steady(s, r) /\ s.inpa = <<cond, cb, r.fd>>
               /\ s.msg = r.msg /\ s.skipped = r.skipped
BY DEF AddWatch, Watch, Steady, Kindred, Records

LEMMA DisconnectedFrame ==
    ASSUME NEW r \in Records
    PROVE  LET s == Disconnected(r)
           IN  s \in Records /\ Steady(s, r) /\ s.inpa = NoWatch /\ s.msg = "none"
<1> DEFINE w == RemoveWatch(r)
<1>1. w \in Records /\ Steady(w, r) /\ w.inpa = NoWatch
  BY RemoveWatchFrame
<1>2. w.open \ {w.fd} \in SUBSET Sockets /\ w.open \ {r.fd} \in SUBSET Sockets
  BY <1>1 DEF Records
<1> DEFINE open == w.open \ {r.fd}
           s == [w EXCEPT !.open = open, !.fd = NoFd, !.msg = "none",
                          !.got = 0, !.lost = FALSE, !.owes = FALSE]
<1>3. Disconnected(r) = s
  BY DEF Disconnected
<1> HIDE DEF w
<1>4. open \in SUBSET Sockets
  BY <1>2
<1> HIDE DEF open
<1>5. s \in Records
  BY <1>1, <1>4, Members DEF Records
<1>6. Steady(s, w) /\ s.inpa = w.inpa /\ s.msg = "none"
  BY <1>1 DEF Steady, Kindred, Records
<1> HIDE DEF s
<1>7. Steady(s, r)
  BY <1>1, <1>6, Zenon DEF Steady, Kindred
<1> QED
  BY <1>1, <1>3, <1>5, <1>6, <1>7

LEMMA DestroyedFrame ==
    ASSUME NEW r \in Records, NEW how
    PROVE  LET s == Destroyed(r, how)
           IN  /\ s.st = how /\ s.query = "none" /\ s.hosts = 0
               /\ s.own = r.own /\ s.to = r.to /\ s.said = r.said /\ s.clean = r.clean
               /\ s.calls = r.calls /\ s.read_cb = r.read_cb /\ s.written = r.written
               /\ s.inpa = r.inpa /\ s.msg = r.msg /\ s.skipped = r.skipped
BY DEF Destroyed, Records

\* The end of an attempt that was told o.
LEMMA TellingType ==
    ASSUME NEW r \in Records, NEW o \in {"ok", "fail"}, NEW k \in Indices
    PROVE  /\ Append(r.calls, <<o, k>>) \in Calls
           /\ [r EXCEPT !.calls = Append(@, <<o, k>>)] \in Records
<1>1. <<o, k>> \in {"ok", "fail"} \X Indices /\ r.calls \in Seq({"ok", "fail"} \X Indices)
  BY DEF Records, Calls
<1>2. Append(r.calls, <<o, k>>) \in Calls
  BY <1>1 DEF Calls
<1> DEFINE cs == Append(r.calls, <<o, k>>)
<1>3. cs \in Calls /\ [r EXCEPT !.calls = Append(@, <<o, k>>)] = [r EXCEPT !.calls = cs]
  BY <1>2
<1> HIDE DEF cs
<1>4. [r EXCEPT !.calls = cs] \in Records
  BY <1>3 DEF Records
<1> QED
  BY <1>2, <1>3, <1>4

LEMMA ConnectedFrame ==
    ASSUME NEW r \in Records
    PROVE  LET s == Connected(r)
           IN  /\ s.st = "freed" /\ s.query = "none" /\ s.hosts = 0 /\ s.inpa = NoWatch
               /\ s.own = r.own /\ s.to = r.to /\ s.said = r.said /\ s.clean = r.clean
               /\ s.read_cb = r.read_cb /\ s.msg = "none"
               /\ s.calls = Append(r.calls, <<"ok", r.fd>>)
<1> DEFINE cs    == Append(r.calls, <<"ok", r.fd>>)
           told  == [r EXCEPT !.calls = Append(@, <<"ok", r.fd>>)]
           given == [told EXCEPT !.open = @ \ {r.fd}, !.fd = NoFd]
           d     == Disconnected(given)
<1>1. r.fd \in Indices
  BY DEF Records
<1>2. told \in Records /\ cs \in Calls /\ told = [r EXCEPT !.calls = cs]
  BY <1>1, TellingType
<1>3. Connected(r) = Destroyed(d, "freed")
  BY DEF Connected
<1> HIDE DEF cs
<1>4. /\ told.calls = cs /\ told.own = r.own /\ told.to = r.to /\ told.said = r.said
      /\ told.clean = r.clean /\ told.read_cb = r.read_cb
  BY <1>2 DEF Records
<1> HIDE DEF told
<1>5. told.open \ {r.fd} \in SUBSET Sockets
  BY <1>2 DEF Records
<1>6. /\ given \in Records /\ given.calls = cs /\ given.own = r.own /\ given.to = r.to
      /\ given.said = r.said /\ given.clean = r.clean /\ given.read_cb = r.read_cb
  BY <1>2, <1>4, <1>5, Members DEF Records
<1> HIDE DEF given
<1>7. d \in Records /\ Steady(d, given) /\ d.inpa = NoWatch /\ d.msg = "none"
  BY <1>6, DisconnectedFrame
<1> HIDE DEF d
<1> QED
  BY <1>3, <1>6, <1>7, DestroyedFrame DEF Steady, Kindred, cs

LEMMA GaveUpFrame ==
    ASSUME NEW r \in Records
    PROVE  LET s == GaveUp(r)
           IN  /\ s.st = "freed" /\ s.query = "none" /\ s.hosts = 0 /\ s.inpa = r.inpa
               /\ s.own = r.own /\ s.to = r.to /\ s.said = r.said /\ s.clean = r.clean
               /\ s.read_cb = r.read_cb /\ s.written = r.written /\ s.skipped = r.skipped
               /\ s.msg = r.msg /\ s.calls = Append(r.calls, <<"fail", NoFd>>)
<1> DEFINE cs   == Append(r.calls, <<"fail", NoFd>>)
           told == [r EXCEPT !.calls = Append(@, <<"fail", NoFd>>)]
           g    == GaveUp(r)
<1>1. told \in Records /\ told = [r EXCEPT !.calls = cs]
  BY TellingType, Members
<1>2. GaveUp(r) = Destroyed(told, "freed")
  BY DEF GaveUp
<1> HIDE DEF cs
<1>3. /\ told.calls = cs /\ told.own = r.own /\ told.to = r.to /\ told.said = r.said
      /\ told.clean = r.clean /\ told.read_cb = r.read_cb /\ told.written = r.written
      /\ told.skipped = r.skipped /\ told.msg = r.msg /\ told.inpa = r.inpa
  BY <1>1 DEF Records
<1> HIDE DEF told
<1>4. /\ g.st = "freed" /\ g.query = "none" /\ g.hosts = 0 /\ g.inpa = r.inpa
      /\ g.own = r.own /\ g.to = r.to /\ g.said = r.said /\ g.clean = r.clean
      /\ g.read_cb = r.read_cb /\ g.written = r.written /\ g.skipped = r.skipped
      /\ g.msg = r.msg /\ g.calls = cs
  <2>1. told \in Records
    BY <1>1
  <2> QED
    BY <1>2, <1>3, <2>1, DestroyedFrame
<1> QED
  BY <1>4 DEF cs

\* A request: what it is, and from where it is sent.
LEMMA RequestFrame ==
    ASSUME NEW r \in Records, NEW m \in Messages, NEW cb \in Readers
    PROVE  LET s == Request(r, m, cb)
           IN  /\ Kindred(s, r) /\ s.read_cb = cb /\ s.msg = m
               /\ s.inpa = <<"W", "proxy_do_write", r.fd>>
               /\ s.skipped = (IF m = "greeting" THEN r.written ELSE 0)
               /\ s.written = s.skipped
<1> DEFINE w    == RemoveWatch(r)
           from == IF m = "greeting" THEN r.written ELSE 0
           q    == [w EXCEPT !.msg = m, !.written = from, !.skipped = from,
                             !.read_cb = cb, !.got = 0, !.owes = FALSE]
<1>1. w \in Records /\ Steady(w, r) /\ w.fd = r.fd
  BY RemoveWatchFrame
<1>2. from \in Nat
  BY DEF Records
<1>3. Request(r, m, cb) = AddWatch(q, "W", "proxy_do_write")
  BY DEF Request
<1> HIDE DEF w, from
<1>4. /\ q \in Records /\ Kindred(q, w) /\ q.fd = w.fd
      /\ q.read_cb = cb /\ q.msg = m /\ q.written = from /\ q.skipped = from
  BY <1>1, <1>2, Members DEF Records, Kindred
<1> HIDE DEF q
<1>5. LET s == AddWatch(q, "W", "proxy_do_write")
      IN  Steady(s, q) /\ s.inpa = <<"W", "proxy_do_write", q.fd>>
            /\ s.msg = q.msg /\ s.skipped = q.skipped
  BY <1>4, AddWatchFrame
<1> QED
  BY <1>1, <1>3, <1>4, <1>5 DEF Steady, Kindred, from

LEMMA SentFrame ==
    ASSUME NEW r \in Records
    PROVE  LET s == Sent(r)
           IN  /\ Steady(s, r) /\ s.inpa = <<"R", r.read_cb, r.fd>> /\ s.msg = "none"
<1> DEFINE o    == (r.skipped = 0 /\ r.msg # "auth407")
           done == [r EXCEPT !.msg = "none", !.owes = o]
           w    == RemoveWatch(done)
<1>1. o \in BOOLEAN
  OBVIOUS
<1>2. Sent(r) = AddWatch(w, "R", r.read_cb)
  BY DEF Sent
<1> HIDE DEF o
<1>3. done \in Records /\ Steady(done, r) /\ done.fd = r.fd /\ done.msg = "none"
  BY <1>1, Members DEF Records, Steady, Kindred
<1> HIDE DEF done
<1>4. w \in Records /\ Steady(w, done) /\ w.fd = done.fd /\ w.msg = "none"
  BY <1>3, RemoveWatchFrame
<1> HIDE DEF w
<1>5. LET s == AddWatch(w, "R", r.read_cb)
      IN  Steady(s, w) /\ s.inpa = <<"R", r.read_cb, w.fd>> /\ s.msg = w.msg
  BY <1>4, AddWatchFrame
<1> QED
  BY <1>2, <1>3, <1>4, <1>5 DEF Steady, Kindred

\* proxy_do_write: nothing, a part that is not all of it, or all was written.
LEMMA WrittenFrame ==
    ASSUME NEW r \in Records, NEW s \in Written(r)
    PROVE  /\ Kindred(s, r) /\ s.read_cb = r.read_cb
           /\ \/ s = r
              \/ s.inpa = r.inpa /\ s.msg = r.msg /\ s.skipped = r.skipped
                   /\ s.written < Length(r.msg)
              \/ s.inpa = <<"R", r.read_cb, r.fd>> /\ s.msg = "none"
<1> DEFINE rest == Length(r.msg) - r.written
<1>1. CASE s = r
  BY <1>1 DEF Kindred
<1>2. CASE s = Sent(r)
  BY <1>2, SentFrame DEF Steady, Kindred
<1>3. ASSUME NEW n \in 1..(rest - 1), s = [r EXCEPT !.written = @ + n]
      PROVE  /\ Kindred(s, r) /\ s.read_cb = r.read_cb /\ s.inpa = r.inpa
             /\ s.msg = r.msg /\ s.skipped = r.skipped /\ s.written < Length(r.msg)
  <2>1. r.written \in Nat
    BY DEF Records
  <2>2. Length(r.msg) \in Nat
    BY DEF Length
  <2>3. r.written + n < Length(r.msg)
    BY <2>1, <2>2
  <2> QED
    BY <1>3, <2>3 DEF Records, Kindred
<1> QED
  BY <1>1, <1>2, <1>3 DEF Written

LEMMA StartRequestFrame ==
    ASSUME NEW r, Sound(r), r.st = "live", r.fd # NoFd,
           NEW m \in Messages, NEW cb \in Readers,
           NEW s \in StartRequest(r, m, cb)
    PROVE  /\ Kindred(s, r) /\ s.read_cb = cb /\ s.inpa[2] \in {"proxy_do_write", cb}
           /\ m # "greeting" \/ r.written = 0 => Whole(s)
<1> DEFINE q == Request(r, m, cb)
<1>1. r \in Records
  BY DEF Sound, Loose
<1>2. q \in Records
  BY RequestSound DEF Sound, Loose
<1>3. /\ Kindred(q, r) /\ q.read_cb = cb /\ q.msg = m
      /\ q.inpa = <<"W", "proxy_do_write", r.fd>>
      /\ q.skipped = (IF m = "greeting" THEN r.written ELSE 0)
      /\ q.written = q.skipped
  BY <1>1, RequestFrame
<1>4. m # "none" /\ Length(m) \in Nat \ {0}
  BY DEF Messages, Length
<1>5. s \in Written(q)
  BY DEF StartRequest
<1> HIDE DEF q
<1>6. /\ Kindred(s, q) /\ s.read_cb = q.read_cb
      /\ \/ s = q
         \/ s.inpa = q.inpa /\ s.msg = q.msg /\ s.skipped = q.skipped
              /\ s.written < Length(q.msg)
         \/ s.inpa = <<"R", q.read_cb, q.fd>> /\ s.msg = "none"
  BY <1>2, <1>5, WrittenFrame
<1>7. Kindred(s, r)
  BY <1>3, <1>6 DEF Kindred
<1>8. m # "greeting" \/ r.written = 0 => Whole(s)
  BY <1>3, <1>4, <1>6 DEF Whole
<1> QED
  BY <1>3, <1>6, <1>7, <1>8

-----------------------------------------------------------------------------
(* The way of an attempt. *)

\* s is still on the way r was on.
Way(s, r) ==
    /\ s.to = r.to /\ s.own = r.own
    /\ OnDest(r) => OnDest(s)
    /\ OnProxy(r) => OnProxy(s)

LEMMA WayRoute ==
    ASSUME NEW r, NEW s, NEW g, Route(r, g), r.st = "live", Way(s, r)
    PROVE  Route(s, g)
BY DEF Route, Way, TypeOf, OnDest, OnProxy

LEMMA WayTrans ==
    ASSUME NEW r, NEW s, NEW t, Way(s, r), Way(t, s)
    PROVE  Way(t, r)
BY DEF Way

\* Enough for a record that changed little.
LEMMA SameWay ==
    ASSUME NEW r, NEW s, s.to = r.to, s.own = r.own, s.read_cb = r.read_cb,
           s.clean = r.clean, s.inpa = r.inpa \/ s.inpa = NoWatch
    PROVE  Way(s, r)
BY Members DEF Way, OnDest, OnProxy

LEMMA RemoveWatchWay ==
    ASSUME NEW r \in Records
    PROVE  Way(RemoveWatch(r), r)
BY RemoveWatchFrame, SameWay DEF Steady, Kindred

LEMMA ConnectedWay ==
    ASSUME NEW r \in Records
    PROVE  Way(Connected(r), r)
BY ConnectedFrame, SameWay

LEMMA CancelledWay ==
    ASSUME NEW c \in Attempts, conn[c] \in Records
    PROVE  Way(Cancelled(c), conn[c])
BY DisconnectedFrame, DestroyedFrame, SameWay DEF Cancelled, Steady, Kindred

LEMMA StartRequestWay ==
    ASSUME NEW r, Sound(r), r.st = "live", r.fd # NoFd, r.to # "dest",
           NEW m \in Messages, NEW cb \in Readers,
           NEW s \in StartRequest(r, m, cb)
    PROVE  Way(s, r)
<1>1. cb # "socket_ready_cb"
  BY DEF Readers
<1> QED
  BY <1>1, StartRequestFrame DEF Way, OnDest, OnProxy, Kindred

LEMMA OpenedWay ==
    ASSUME NEW r, Sound(r), r.st = "live", r.fd # NoFd, NEW type,
           type \notin {"http", "socks4", "socks5"} <=> r.to = "dest",
           NEW s \in Opened(r, type)
    PROVE  Way(s, r)
<1>1. /\ {"connect", "s4request", "greeting"} \subseteq Messages
      /\ {"http_canread", "s4_canread", "s5_canread"} \subseteq Readers
  BY DEF Messages, Readers
<1>2. CASE r.to = "dest"
  <2>1. s = [r EXCEPT !.clean = TRUE]
    BY <1>2 DEF Opened
  <2>2. /\ s.to = r.to /\ s.own = r.own /\ s.read_cb = r.read_cb /\ s.inpa = r.inpa
    BY <2>1 DEF Sound, Loose, Records
  <2> QED
    BY <1>2, <2>2 DEF Way, OnDest, OnProxy
<1>3. CASE r.to # "dest"
  <2>1. \A m \in Messages, cb \in Readers : s \in StartRequest(r, m, cb) => Way(s, r)
    BY <1>3, StartRequestWay
  <2>2. CASE s = Connected(RemoveWatch(r))
    <3>1. r \in Records /\ RemoveWatch(r) \in Records
      BY RemoveWatchFrame DEF Sound, Loose
    <3> QED
      BY <2>2, <3>1, RemoveWatchWay, ConnectedWay, WayTrans
  <2>3. \/ s = Connected(RemoveWatch(r))
        \/ s \in StartRequest(r, "connect", "http_canread")
        \/ s \in StartRequest(r, "s4request", "s4_canread")
        \/ s \in StartRequest(r, "greeting", "s5_canread")
    BY <1>3 DEF Opened
  <2> QED
    BY <1>1, <2>1, <2>2, <2>3
<1> QED
  BY <1>2, <1>3

\* The record on its way to the h-th address
OnSocket(r, h) == [r EXCEPT !.hosts = h - 1, !.fd = h, !.open = @ \cup {h}]

LEMMA OnSocketFrame ==
    ASSUME NEW r, Idle(r), r.fd = NoFd, NEW h \in 1..r.hosts
    PROVE  LET t == OnSocket(r, h)
           IN  /\ Sound(t) /\ t \in Records /\ t.st = "live" /\ t.fd = h /\ h # NoFd
               /\ t.hosts = h - 1 /\ t.inpa = NoWatch
               /\ t.own = r.own /\ t.to = r.to /\ t.query = r.query /\ t.said = r.said
               /\ t.clean = r.clean /\ t.calls = r.calls /\ t.read_cb = r.read_cb
               /\ t.written = r.written /\ t.msg = r.msg /\ t.skipped = r.skipped
<1> DEFINE t == OnSocket(r, h)
<1>1. /\ r \in Records /\ r.open = {NoFd} \ {NoFd} /\ r.watches = {NoWatch} \ {NoWatch}
      /\ Told(r) /\ r.st = "live" /\ r.inpa = NoWatch
  BY DEF Idle, Sound, Loose
<1>2. h \in Sockets /\ h # NoFd /\ h - 1 \in Indices /\ h \in Indices
  BY <1>1, ConstantsAssumption DEF Records, Indices, Sockets, NoFd
<1>3. r.open \cup {h} = {h} \ {NoFd} /\ {h} \ {NoFd} \in SUBSET Sockets
  BY <1>1, <1>2
<1>4. t = [r EXCEPT !.hosts = h - 1, !.fd = h, !.open = {h} \ {NoFd}]
  BY <1>3 DEF OnSocket
<1> HIDE DEF t
<1>5. /\ t \in Records /\ t.st = "live" /\ t.fd = h /\ t.hosts = h - 1
      /\ t.open = {h} \ {NoFd} /\ t.inpa = r.inpa /\ t.watches = r.watches
  BY <1>1, <1>2, <1>3, <1>4 DEF Records
<1>6. /\ t.own = r.own /\ t.to = r.to /\ t.query = r.query /\ t.said = r.said
      /\ t.clean = r.clean /\ t.calls = r.calls /\ t.read_cb = r.read_cb
      /\ t.written = r.written /\ t.msg = r.msg /\ t.skipped = r.skipped
  BY <1>1, <1>4 DEF Records
<1>7. Told(t)
  BY <1>1, <1>5, <1>6, ToldSame
<1>8. Sound(t)
  BY <1>1, <1>2, <1>5, <1>6, <1>7, Members DEF Sound, Loose
<1> QED
  BY <1>1, <1>2, <1>5, <1>6, <1>8 DEF t

LEMMA StartedWay ==
    ASSUME NEW r, Idle(r), r.fd = NoFd, NEW h \in 1..r.hosts, NEW type,
           type \notin {"http", "socks4", "socks5"} <=> r.to = "dest",
           NEW s \in Started(r, h, type)
    PROVE  Way(s, r)
<1> DEFINE t == OnSocket(r, h)
<1>1. /\ Sound(t) /\ t \in Records /\ t.st = "live" /\ t.fd # NoFd /\ t.inpa = NoWatch
      /\ t.own = r.own /\ t.to = r.to /\ t.clean = r.clean /\ t.read_cb = r.read_cb
  BY OnSocketFrame
<1>2. s = AddWatch(t, "W", ReadyCallback(type)) \/ s \in Opened(t, type)
  BY DEF Started, OnSocket
<1> HIDE DEF t
<1>3. Way(t, r)
  BY <1>1, SameWay
<1>4. CASE s = AddWatch(t, "W", ReadyCallback(type))
  <2>1. Steady(s, t) /\ s.inpa[2] = ReadyCallback(type)
    BY <1>1, <1>4, AddWatchFrame
  <2>2. ReadyCallback(type) = "socket_ready_cb" <=> r.to = "dest"
    BY DEF ReadyCallback
  <2> QED
    BY <1>1, <2>1, <2>2 DEF Steady, Kindred, Way, OnDest, OnProxy
<1>5. CASE s \in Opened(t, type)
  BY <1>1, <1>3, <1>5, OpenedWay, WayTrans
<1> QED
  BY <1>2, <1>4, <1>5

\* What trying the next addresses comes down to.
LEMMA FailedCases ==
    ASSUME NEW r, Sound(r), r.st = "live", NEW type, NEW s \in Failed(r, type)
    PROVE  LET d == Disconnected(r)
               e == [d EXCEPT !.hosts = 0]
           IN  /\ Idle(d) /\ d.fd = NoFd /\ Steady(d, r) /\ d.msg = "none" /\ d.inpa = NoWatch
               /\ e \in Records /\ e.inpa = NoWatch /\ e.to = r.to /\ e.own = r.own
               /\ e.clean = r.clean /\ e.calls = r.calls /\ e.read_cb = r.read_cb
               /\ e.msg = "none" /\ e.said = r.said
               /\ s = GaveUp(e) \/ \E h \in 1..d.hosts : s \in Started(d, h, type)
<1> DEFINE d == Disconnected(r)
           e == [d EXCEPT !.hosts = 0]
           U == UNION { Started(d, h, type) : h \in 1..d.hosts }
           g == GaveUp(e)
<1>1. Idle(d) /\ d.fd = NoFd
  BY DisconnectedSound DEF Sound, Idle
<1>2. d \in Records /\ Steady(d, r) /\ d.inpa = NoWatch /\ d.msg = "none"
  BY DisconnectedFrame DEF Sound, Loose
<1>3. s \in U \cup {g}
  BY DEF Failed
<1>4. ASSUME s \in U
      PROVE  \E h \in 1..d.hosts : s \in Started(d, h, type)
  <2>1. PICK S \in { Started(d, h, type) : h \in 1..d.hosts } : s \in S
    BY <1>4
  <2>2. PICK h \in 1..d.hosts : S = Started(d, h, type)
    BY <2>1
  <2> QED
    BY <2>1, <2>2
<1> HIDE DEF U, g
<1>5. s = g \/ \E h \in 1..d.hosts : s \in Started(d, h, type)
  BY <1>3, <1>4
<1> HIDE DEF d
<1>6. /\ e \in Records /\ e.inpa = NoWatch /\ e.to = r.to /\ e.own = r.own
      /\ e.clean = r.clean /\ e.calls = r.calls /\ e.read_cb = r.read_cb
      /\ e.msg = "none" /\ e.said = r.said
  BY <1>2, Members DEF Records, Steady, Kindred
<1> HIDE DEF e
<1> QED
  BY <1>1, <1>2, <1>5, <1>6 DEF d, e, g

LEMMA FailedWay ==
    ASSUME NEW r, Sound(r), r.st = "live", NEW type,
           type \notin {"http", "socks4", "socks5"} <=> r.to = "dest",
           NEW s \in Failed(r, type)
    PROVE  Way(s, r)
<1> DEFINE d == Disconnected(r)
           e == [d EXCEPT !.hosts = 0]
<1>1. /\ Idle(d) /\ d.fd = NoFd /\ Steady(d, r) /\ d.inpa = NoWatch
      /\ e \in Records /\ e.inpa = NoWatch /\ e.to = r.to /\ e.own = r.own
      /\ e.clean = r.clean /\ e.read_cb = r.read_cb
      /\ s = GaveUp(e) \/ \E h \in 1..d.hosts : s \in Started(d, h, type)
  BY FailedCases
<1> HIDE DEF d, e
<1>2. Way(d, r) /\ Way(e, r)
  BY <1>1, SameWay DEF Steady, Kindred
<1>3. CASE s = GaveUp(e)
  <2>1. Way(s, e)
    BY <1>1, <1>3, GaveUpFrame, SameWay
  <2> QED
    BY <1>2, <2>1, WayTrans
<1>4. ASSUME NEW h \in 1..d.hosts, s \in Started(d, h, type)
      PROVE  Way(s, r)
  <2>1. Way(s, d)
    BY <1>1, <1>4, StartedWay DEF Steady, Kindred
  <2> QED
    BY <1>2, <2>1, WayTrans
<1> QED
  BY <1>1, <1>3, <1>4

\* Reading a reply: only attempts on their way to a proxy do.
LEMMA ReplyCases ==
    ASSUME NEW r, Sound(r), r.st = "live", r.inpa # NoWatch,
           NEW v \in Verdicts, NEW type, NEW s \in Reply(r, v, type)
    PROVE  LET h == Heard(r, v)
               a == [h EXCEPT !.rounds = @ + 1]
               b == [h EXCEPT !.rounds = @ + 1, !.owes = TRUE]
           IN  \/ v = "grant" /\ s \in {Connected(h), Connected(RemoveWatch(h))}
               \/ r.inpa[2] = "s4_canread" /\ s = Connected(h)
               \/ s \in Failed(h, type) \cup Failed(RemoveWatch(h), type)
               \/ \E m \in Messages \ {"greeting"}, cb \in Readers \ {"s4_canread"} :
                     \/ s \in StartRequest(h, m, cb) \cup StartRequest(RemoveWatch(h), m, cb)
                     \/ r.rounds < MaxRounds /\ s \in StartRequest(a, m, cb)
               \/ r.rounds < MaxRounds /\ s = b
<1> DEFINE h == Heard(r, v)
           a == [h EXCEPT !.rounds = @ + 1]
           b == [h EXCEPT !.rounds = @ + 1, !.owes = TRUE]
           M == Messages \ {"greeting"}
           C == Readers \ {"s4_canread"}
<1>0. /\ {"connect", "auth407", "userpass", "chap", "s5connect"} \subseteq M
      /\ {"http_canread", "s5_canread", "s5_readauth", "s5_readchap",
          "s5_canread_again"} \subseteq C
  BY DEF Messages, Readers
<1> HIDE DEF h, a, b, M, C
<1> DEFINE Cases == \/ v = "grant" /\ s \in {Connected(h), Connected(RemoveWatch(h))}
                    \/ r.inpa[2] = "s4_canread" /\ s = Connected(h)
                    \/ s \in Failed(h, type) \cup Failed(RemoveWatch(h), type)
                    \/ \E m \in M, cb \in C :
                          \/ s \in StartRequest(h, m, cb) \cup StartRequest(RemoveWatch(h), m, cb)
                          \/ r.rounds < MaxRounds /\ s \in StartRequest(a, m, cb)
                    \/ r.rounds < MaxRounds /\ s = b
<1>a. /\ v = "grant" /\ s \in {Connected(h), Connected(RemoveWatch(h))} => Cases
      /\ r.inpa[2] = "s4_canread" /\ s = Connected(h) => Cases
      /\ s \in Failed(h, type) \/ s \in Failed(RemoveWatch(h), type) => Cases
      /\ r.rounds < MaxRounds /\ s = b => Cases
  OBVIOUS
<1>b. \A m \in M, cb \in C :
        /\ s \in StartRequest(h, m, cb) => Cases
        /\ s \in StartRequest(RemoveWatch(h), m, cb) => Cases
        /\ r.rounds < MaxRounds /\ s \in StartRequest(a, m, cb) => Cases
  OBVIOUS
<1>c. /\ s \in s5_sendconnect(h) => Cases
      /\ s \in s5_sendconnect(RemoveWatch(h)) => Cases
  BY <1>0, <1>b DEF s5_sendconnect
<1> HIDE DEF Cases
<1> SUFFICES Cases
  BY DEF h, a, b, M, C, Cases
<1>1. CASE r.inpa[2] = "http_canread" /\ s \in http_canread(r, v, type)
  <2>1. \/ v = "grant" /\ s = Connected(RemoveWatch(h))
        \/ r.rounds < MaxRounds /\ s \in AuthRequest(a, v)
        \/ s \in Failed(h, type)
    BY <1>1 DEF http_canread, h, a
  <2>2. ASSUME r.rounds < MaxRounds, s \in AuthRequest(a, v)
        PROVE  Cases
    <3>1. \/ s \in StartRequest(a, "auth407", "http_canread")
          \/ s \in StartRequest(a, "connect", "http_canread")
      BY <2>2 DEF AuthRequest
    <3> QED
      BY <1>0, <1>b, <2>2, <3>1
  <2> QED
    BY <1>a, <2>1, <2>2
<1>2. CASE r.inpa[2] = "s4_canread" /\ s \in s4_canread(r, v, type)
  <2>1. s = Connected(h) \/ s \in Failed(h, type)
    BY <1>2 DEF s4_canread, h
  <2> QED
    BY <1>a, <1>2, <2>1
<1>3. CASE s \in s5_canread(r, v, type)
  <2>1. \/ s \in s5_sendconnect(h)
        \/ s \in StartRequest(h, "userpass", "s5_readauth")
        \/ s \in StartRequest(h, "chap", "s5_readchap")
        \/ s \in Failed(RemoveWatch(h), type)
    BY <1>3 DEF s5_canread, h
  <2> QED
    BY <1>0, <1>a, <1>b, <1>c, <2>1
<1>4. CASE s \in s5_readauth(r, v, type)
  <2>1. s \in s5_sendconnect(RemoveWatch(h)) \/ s \in Failed(RemoveWatch(h), type)
    BY <1>4 DEF s5_readauth, h
  <2> QED
    BY <1>a, <1>c, <2>1
<1>5. CASE s \in s5_readchap(r, v, type)
  <2>1. \/ s \in s5_sendconnect(h)
        \/ s \in Failed(h, type)
        \/ r.rounds < MaxRounds /\ s \in StartRequest(a, "chap", "s5_readchap")
        \/ r.rounds < MaxRounds /\ s = b
    BY <1>5 DEF s5_readchap, h, a, b
  <2> QED
    BY <1>0, <1>a, <1>b, <1>c, <2>1
<1>6. CASE s \in s5_canread_again(r, v, type)
  <2>1. (v = "grant" /\ s = Connected(h)) \/ s \in Failed(h, type)
    BY <1>6 DEF s5_canread_again, h
  <2> QED
    BY <1>a, <2>1
<1> QED
  BY <1>1, <1>2, <1>3, <1>4, <1>5, <1>6 DEF Reply

\* s is r but for its verdict and what comes of it.
HeardSame(s, r, v) ==
    /\ s.st = r.st /\ s.own = r.own /\ s.to = r.to /\ s.query = r.query
    /\ s.hosts = r.hosts /\ s.clean = r.clean /\ s.calls = r.calls
    /\ s.read_cb = r.read_cb /\ s.written = r.written
    /\ s.said = v /\ s.msg = r.msg /\ s.skipped = r.skipped

LEMMA HeardFrame ==
    ASSUME NEW r, Sound(r), r.st = "live", r.inpa # NoWatch, NEW v \in Verdicts
    PROVE  LET h == Heard(r, v)
               w == RemoveWatch(h)
               a == [h EXCEPT !.rounds = @ + 1]
               b == [h EXCEPT !.rounds = @ + 1, !.owes = TRUE]
           IN  /\ Sound(h) /\ h \in Records /\ h.fd # NoFd /\ h.inpa = r.inpa /\ HeardSame(h, r, v)
               /\ Sound(w) /\ w \in Records /\ w.fd # NoFd /\ w.inpa = NoWatch /\ HeardSame(w, r, v)
               /\ r.rounds < MaxRounds =>
                    /\ Sound(a) /\ a.fd # NoFd /\ a.inpa = r.inpa /\ HeardSame(a, r, v)
                    /\ Sound(b) /\ b.inpa = r.inpa /\ HeardSame(b, r, v)
<1> DEFINE h == Heard(r, v)
           w == RemoveWatch(h)
           a == [h EXCEPT !.rounds = @ + 1]
           b == [h EXCEPT !.rounds = @ + 1, !.owes = TRUE]
<1>1. Sound(h) /\ h \in Records /\ h.st = "live" /\ h.fd # NoFd /\ h.inpa = r.inpa /\ h.rounds = r.rounds
  BY HeardSound DEF Sound, Loose
<1>2. HeardSame(h, r, v)
  BY DEF Heard, HeardSame, Sound, Loose, Records
<1> HIDE DEF h
<1>3. Sound(w) /\ w \in Records /\ w.fd # NoFd /\ w.inpa = NoWatch /\ HeardSame(w, r, v)
  <2>1. w \in Records /\ Steady(w, h) /\ w.msg = h.msg /\ w.skipped = h.skipped
    BY <1>1, RemoveWatchFrame
  <2>2. HeardSame(w, r, v)
    BY <1>2, <2>1 DEF Steady, Kindred, HeardSame
  <2> QED
    BY <1>1, <2>1, <2>2, RemoveWatchIdle DEF Idle
<1>4. ASSUME r.rounds < MaxRounds
      PROVE  /\ Sound(a) /\ a.fd # NoFd /\ a.inpa = r.inpa /\ HeardSame(a, r, v)
             /\ Sound(b) /\ b.inpa = r.inpa /\ HeardSame(b, r, v)
  <2>1. Sound(a) /\ a.fd # NoFd /\ Sound(b)
    BY <1>1, <1>4, RoundSound DEF Result
  <2>2. a.inpa = r.inpa /\ HeardSame(a, r, v)
    BY <1>1, <1>2 DEF Records, HeardSame
  <2>3. b.inpa = r.inpa /\ HeardSame(b, r, v)
    BY <1>1, <1>2 DEF Records, HeardSame
  <2> QED
    BY <2>1, <2>2, <2>3
<1> QED
  BY <1>1, <1>2, <1>3, <1>4 DEF h

LEMMA ReplyWay ==
    ASSUME NEW r, Sound(r), r.st = "live", r.inpa # NoWatch, r.to # "dest",
           NEW v \in Verdicts, NEW type, type \in {"http", "socks4", "socks5"},
           NEW s \in Reply(r, v, type)
    PROVE  Way(s, r)
<1> DEFINE h == Heard(r, v)
           w == RemoveWatch(h)
           a == [h EXCEPT !.rounds = @ + 1]
           b == [h EXCEPT !.rounds = @ + 1, !.owes = TRUE]
<1>0. /\ Sound(h) /\ h \in Records /\ h.fd # NoFd /\ h.inpa = r.inpa /\ HeardSame(h, r, v)
      /\ Sound(w) /\ w \in Records /\ w.fd # NoFd /\ w.inpa = NoWatch /\ HeardSame(w, r, v)
      /\ r.rounds < MaxRounds =>
           /\ Sound(a) /\ a.fd # NoFd /\ a.inpa = r.inpa /\ HeardSame(a, r, v)
           /\ b.inpa = r.inpa /\ HeardSame(b, r, v)
  BY HeardFrame
<1>2. \/ s \in {Connected(h), Connected(w)}
      \/ s \in Failed(h, type) \cup Failed(w, type)
      \/ \E m \in Messages \ {"greeting"}, cb \in Readers \ {"s4_canread"} :
            \/ s \in StartRequest(h, m, cb) \cup StartRequest(w, m, cb)
            \/ r.rounds < MaxRounds /\ s \in StartRequest(a, m, cb)
      \/ r.rounds < MaxRounds /\ s = b
  BY ReplyCases
<1> HIDE DEF h, w, a, b
<1>1. Way(h, r) /\ Way(w, r) /\ (r.rounds < MaxRounds => Way(a, r) /\ Way(b, r))
  BY <1>0, SameWay DEF HeardSame
<1>3. CASE s \in {Connected(h), Connected(w)}
  BY <1>0, <1>1, <1>3, ConnectedWay, WayTrans
<1>4. CASE s \in Failed(h, type) \cup Failed(w, type)
  BY <1>0, <1>1, <1>4, FailedWay, WayTrans DEF HeardSame
<1>5. ASSUME NEW m \in Messages \ {"greeting"}, NEW cb \in Readers \ {"s4_canread"},
             \/ s \in StartRequest(h, m, cb) \cup StartRequest(w, m, cb)
             \/ r.rounds < MaxRounds /\ s \in StartRequest(a, m, cb)
      PROVE  Way(s, r)
  BY <1>0, <1>1, <1>5, StartRequestWay, WayTrans DEF HeardSame
<1> QED
  BY <1>1, <1>2, <1>3, <1>4, <1>5

-----------------------------------------------------------------------------
(* What an attempt asks. *)

\* A live attempt that an event found at work
Busy(r) ==
    /\ r.hosts = 0 /\ r.query = "none" /\ ~r.clean /\ r.calls = <<>>
    /\ r.read_cb # "s4_canread"

LEMMA ReadyFacts ==
    /\ \A cb \in Readers : cb \notin Writers
    /\ "none" \notin Writers /\ "none" \notin Readers /\ "proxy_do_write" \in Writers
    /\ "s4_canwrite" \in Writers
BY DEF Readers, Writers

LEMMA NoCalls ==
    ASSUME NEW r, r.calls = <<>>
    PROVE  Granted(r)
BY DEF Granted

LEMMA AtWork ==
    ASSUME NEW r, Asked(r), Sound(r), r.st = "live", r.inpa # NoWatch
    PROVE  Busy(r)
BY DEF Asked, Busy, NoSocks4

LEMMA ConnectedAsked ==
    ASSUME NEW r \in Records, Busy(r), r.read_cb = "none" \/ r.said = "grant"
    PROVE  Asked(Connected(r))
<1> DEFINE s == Connected(r)
<1>1. /\ s.st = "freed" /\ s.query = "none" /\ s.hosts = 0 /\ s.inpa = NoWatch
      /\ s.said = r.said /\ s.clean = r.clean /\ s.read_cb = r.read_cb /\ s.msg = "none"
  BY ConnectedFrame
<1> HIDE DEF s
<1>2. Granted(s) /\ Whole(s)
  BY <1>1 DEF Granted, Whole
<1> QED
  BY <1>1, <1>2, Members, ReadyFacts DEF Asked, Busy, NoSocks4, s

LEMMA GaveUpAsked ==
    ASSUME NEW r \in Records, r.inpa = NoWatch, r.msg = "none", ~r.clean,
           r.calls = <<>>, r.read_cb # "s4_canread"
    PROVE  Asked(GaveUp(r))
<1> DEFINE s == GaveUp(r)
<1>1. /\ s.st = "freed" /\ s.query = "none" /\ s.hosts = 0 /\ s.inpa = r.inpa
      /\ s.clean = r.clean /\ s.read_cb = r.read_cb /\ s.msg = r.msg
      /\ s.calls = Append(r.calls, <<"fail", NoFd>>)
  BY GaveUpFrame
<1> HIDE DEF s
<1>2. s.calls = <<<<"fail", NoFd>>>>
  BY <1>1
<1>3. Granted(s) /\ Whole(s)
  BY <1>1, <1>2 DEF Granted, Whole
<1> QED
  BY <1>1, <1>3, Members, ReadyFacts DEF Asked, NoSocks4, s

LEMMA StartRequestAsked ==
    ASSUME NEW r, Sound(r), r.st = "live", r.fd # NoFd, Busy(r),
           NEW m \in Messages, m # "greeting" \/ r.written = 0,
           NEW cb \in Readers \ {"s4_canread"},
           NEW s \in StartRequest(r, m, cb)
    PROVE  Asked(s)
<1>1. /\ Kindred(s, r) /\ s.read_cb = cb /\ s.inpa[2] \in {"proxy_do_write", cb} /\ Whole(s)
  BY StartRequestFrame
<1> QED
  BY <1>1, NoCalls, ReadyFacts DEF Asked, Busy, Kindred, NoSocks4

LEMMA OpenedAsked ==
    ASSUME NEW r, Sound(r), r.st = "live", r.fd # NoFd, Busy(r), Fresh(r),
           NEW type, type # "socks4",
           type \notin {"http", "socks4", "socks5"} => r.inpa = NoWatch /\ r.msg = "none",
           NEW s \in Opened(r, type)
    PROVE  Asked(s)
<1>1. /\ {"connect", "greeting"} \subseteq Messages
      /\ {"http_canread", "s5_canread"} \subseteq Readers \ {"s4_canread"}
  BY DEF Messages, Readers
<1>2. \A m \in Messages, cb \in Readers \ {"s4_canread"} : s \in StartRequest(r, m, cb) => Asked(s)
  BY StartRequestAsked DEF Fresh
<1>3. CASE type \in {"http", "socks5"}
  <2>1. CASE s = Connected(RemoveWatch(r))
    <3>1. r \in Records /\ RemoveWatch(r) \in Records /\ Steady(RemoveWatch(r), r)
      BY RemoveWatchFrame DEF Sound, Loose
    <3>2. Busy(RemoveWatch(r)) /\ RemoveWatch(r).read_cb = "none"
      BY <3>1 DEF Busy, Steady, Kindred, Fresh
    <3> QED
      BY <2>1, <3>1, <3>2, ConnectedAsked
  <2>2. \/ s = Connected(RemoveWatch(r))
        \/ s \in StartRequest(r, "connect", "http_canread")
        \/ s \in StartRequest(r, "greeting", "s5_canread")
    BY <1>3 DEF Opened
  <2> QED
    BY <1>1, <1>2, <2>1, <2>2
<1>4. CASE type \notin {"http", "socks4", "socks5"}
  <2>1. s = [r EXCEPT !.clean = TRUE]
    BY <1>4 DEF Opened
  <2>2. /\ s.st = r.st /\ s.hosts = r.hosts /\ s.query = r.query /\ s.inpa = r.inpa
        /\ s.read_cb = r.read_cb /\ s.written = r.written /\ s.msg = r.msg /\ s.calls = r.calls
    BY <2>1 DEF Sound, Loose, Records
  <2> QED
    BY <1>4, <2>2, Members, NoCalls, ReadyFacts DEF Asked, Busy, Fresh, Whole, NoSocks4
<1> QED
  BY <1>3, <1>4

LEMMA StartedAsked ==
    ASSUME MaxHosts = 1, NEW r, Idle(r), r.fd = NoFd, NEW h \in 1..r.hosts,
           r.query = "none", ~r.clean, r.calls = <<>>, r.msg = "none", Fresh(r),
           NEW type, type # "socks4", NEW s \in Started(r, h, type)
    PROVE  Asked(s)
<1> DEFINE t == OnSocket(r, h)
<1>1. h = 1
  <2>1. r.hosts \in 0..1
    BY DEF Idle, Sound, Loose, Records, Indices
  <2> QED
    BY <2>1
<1>2. /\ Sound(t) /\ t \in Records /\ t.st = "live" /\ t.fd # NoFd /\ t.hosts = 0
      /\ t.inpa = NoWatch /\ t.query = "none" /\ ~t.clean /\ t.calls = <<>>
      /\ t.read_cb = r.read_cb /\ t.written = r.written /\ t.msg = "none"
  BY <1>1, OnSocketFrame
<1>3. s = AddWatch(t, "W", ReadyCallback(type)) \/ s \in Opened(t, type)
  BY DEF Started, OnSocket
<1> HIDE DEF t
<1>4. Busy(t) /\ Fresh(t)
  BY <1>2 DEF Busy, Fresh
<1>5. CASE s = AddWatch(t, "W", ReadyCallback(type))
  <2>1. Steady(s, t) /\ s.inpa[2] = ReadyCallback(type) /\ s.msg = "none"
    BY <1>2, <1>5, AddWatchFrame
  <2>2. ReadyCallback(type) \notin {"s4_canwrite", "s4_canread"}
    BY DEF ReadyCallback
  <2> QED
    BY <1>2, <1>4, <2>1, <2>2, NoCalls DEF Steady, Kindred, Asked, Busy, Fresh, Whole, NoSocks4
<1>6. CASE s \in Opened(t, type)
  BY <1>2, <1>4, <1>6, OpenedAsked
<1> QED
  BY <1>3, <1>5, <1>6

LEMMA FailedAsked ==
    ASSUME MaxHosts = 1, NEW r, Sound(r), r.st = "live",
           r.query = "none", ~r.clean, r.calls = <<>>, r.read_cb # "s4_canread",
           r.hosts # 0 => Fresh(r),
           NEW type, type # "socks4", NEW s \in Failed(r, type)
    PROVE  Asked(s)
<1> DEFINE d == Disconnected(r)
           e == [d EXCEPT !.hosts = 0]
<1>1. /\ Idle(d) /\ d.fd = NoFd /\ Steady(d, r) /\ d.msg = "none"
      /\ e \in Records /\ e.inpa = NoWatch /\ e.msg = "none"
      /\ e.clean = r.clean /\ e.calls = r.calls /\ e.read_cb = r.read_cb
      /\ s = GaveUp(e) \/ \E h \in 1..d.hosts : s \in Started(d, h, type)
  BY FailedCases
<1> HIDE DEF d, e
<1>2. CASE s = GaveUp(e)
  BY <1>1, <1>2, GaveUpAsked
<1>3. ASSUME NEW h \in 1..d.hosts, s \in Started(d, h, type)
      PROVE  Asked(s)
  <2>1. d.hosts # 0
    BY <1>3
  <2>2. Fresh(d) /\ d.query = "none" /\ ~d.clean /\ d.calls = <<>>
    BY <1>1, <2>1 DEF Steady, Kindred, Fresh
  <2> QED
    BY <1>1, <1>3, <2>2, StartedAsked
<1> QED
  BY <1>1, <1>2, <1>3

LEMMA ReplyAsked ==
    ASSUME MaxHosts = 1, NEW r, Sound(r), r.st = "live", r.inpa # NoWatch, Asked(r),
           NEW v \in Verdicts, NEW type, type # "socks4", NEW s \in Reply(r, v, type)
    PROVE  Asked(s)
<1> DEFINE h == Heard(r, v)
           w == RemoveWatch(h)
           a == [h EXCEPT !.rounds = @ + 1]
           b == [h EXCEPT !.rounds = @ + 1, !.owes = TRUE]
<1>1. /\ Sound(h) /\ h \in Records /\ h.fd # NoFd /\ h.inpa = r.inpa /\ HeardSame(h, r, v)
      /\ Sound(w) /\ w \in Records /\ w.fd # NoFd /\ w.inpa = NoWatch /\ HeardSame(w, r, v)
      /\ r.rounds < MaxRounds =>
           /\ Sound(a) /\ a.fd # NoFd /\ a.inpa = r.inpa /\ HeardSame(a, r, v)
           /\ b.inpa = r.inpa /\ HeardSame(b, r, v)
  BY HeardFrame
<1>2. \/ v = "grant" /\ s \in {Connected(h), Connected(w)}
      \/ r.inpa[2] = "s4_canread" /\ s = Connected(h)
      \/ s \in Failed(h, type) \cup Failed(w, type)
      \/ \E m \in Messages \ {"greeting"}, cb \in Readers \ {"s4_canread"} :
            \/ s \in StartRequest(h, m, cb) \cup StartRequest(w, m, cb)
            \/ r.rounds < MaxRounds /\ s \in StartRequest(a, m, cb)
      \/ r.rounds < MaxRounds /\ s = b
  BY ReplyCases
<1> HIDE DEF h, w, a, b
<1>3. Busy(r)
  BY AtWork
<1>4. Busy(h) /\ Busy(w) /\ (r.rounds < MaxRounds => Busy(a))
  BY <1>1, <1>3 DEF Busy, HeardSame
<1>5. CASE v = "grant" /\ s \in {Connected(h), Connected(w)}
  BY <1>1, <1>4, <1>5, ConnectedAsked DEF HeardSame
<1>6. CASE s \in Failed(h, type) \cup Failed(w, type)
  BY <1>1, <1>3, <1>6, FailedAsked DEF Busy, HeardSame
<1>7. ASSUME NEW m \in Messages \ {"greeting"}, NEW cb \in Readers \ {"s4_canread"},
             \/ s \in StartRequest(h, m, cb) \cup StartRequest(w, m, cb)
             \/ r.rounds < MaxRounds /\ s \in StartRequest(a, m, cb)
      PROVE  Asked(s)
  BY <1>1, <1>4, <1>7, StartRequestAsked DEF HeardSame
<1>8. CASE r.rounds < MaxRounds /\ s = b
  <2>1. HeardSame(s, r, v) /\ s.inpa = r.inpa
    BY <1>1, <1>8
  <2> QED
    BY <1>3, <2>1, NoCalls DEF HeardSame, Asked, Busy, Whole, Fresh, NoSocks4
<1>9. r.inpa[2] # "s4_canread"
  BY DEF Asked, NoSocks4
<1> QED
  BY <1>2, <1>5, <1>6, <1>7, <1>8, <1>9

-----------------------------------------------------------------------------
(* The invariant of the specification. *)

Fitting == Inv /\ \A c \in Attempts : Fit(conn[c], gpi)

LEMMA UnusedFit ==
    /\ \A g : Fit(Unused, g)
    /\ \A g, h, o, t :
          /\ ~Volatile => (t = "dest" /\ ~o /\ g = "none") \/ (t = "proxy" /\ (o \/ g # "none"))
          => Fit([Unused EXCEPT !.own = o, !.to = t, !.st = "live", !.handle = h,
                                !.query = "timer"], g)
BY ReadyFacts DEF Fit, Route, OnDest, OnProxy, TypeOf, Asked, Fresh, Whole, Granted,
   NoSocks4, Unused, NoWatch

LEMMA BecomesFit ==
    ASSUME Fitting, NEW c \in Attempts, NEW rs, Becomes(c, rs),
           \A x \in rs : Fit(x, gpi)
    PROVE  \A d \in Attempts : Fit(conn'[d], gpi')
BY DEF Fitting, Inv, Becomes

\* What an event on a live attempt must leave
Fitted(x, r, g) == (~Volatile => Way(x, r)) /\ (Narrow => Asked(x))

LEMMA FittedFit ==
    ASSUME NEW r, NEW x, NEW g, r.st = "live", Fit(r, g), Fitted(x, r, g)
    PROVE  Fit(x, g)
BY WayRoute DEF Fit, Fitted

\* The type an attempt goes by, and the way it is on.
LEMMA TypeFacts ==
    ASSUME Inv, NEW c \in Attempts, Fit(conn[c], gpi)
    PROVE  LET r == conn[c]
               type == TypeOf(r, gpi)
           IN  /\ type \in {"none", "http", "socks4", "socks5"}
               /\ Narrow => type # "socks4" /\ Asked(r) /\ MaxHosts = 1
               /\ ~Volatile => Route(r, gpi)
               /\ ~Volatile /\ r.st = "live" =>
                    (type \notin {"http", "socks4", "socks5"} <=> r.to = "dest")
BY ConstantsAssumption DEF Inv, Fit, TypeOf, Narrow, Route

LEMMA ResolveFit ==
    ASSUME Inv, NEW c \in Attempts, Fit(conn[c], gpi),
           conn[c].query # "none", NEW n \in Indices,
           NEW x \in Failed([conn[c] EXCEPT !.query = "none", !.hosts = n], TypeOf(conn[c], gpi))
    PROVE  Fitted(x, conn[c], gpi)
<1> DEFINE r    == conn[c]
           type == TypeOf(r, gpi)
           b    == [r EXCEPT !.query = "none", !.hosts = n]
<1>1. Sound(r) /\ r.st = "live"
  BY DEF Inv, Sound
<1>2. Sound(b) /\ b.st = "live"
  BY <1>1, QuerySound, Members
<1>3. /\ b.query = "none" /\ b.hosts = n /\ b.to = r.to /\ b.own = r.own
      /\ b.read_cb = r.read_cb /\ b.written = r.written /\ b.clean = r.clean
      /\ b.inpa = r.inpa /\ b.calls = r.calls
  BY <1>1 DEF Sound, Loose, Records
<1>4. /\ Narrow => type # "socks4" /\ Asked(r) /\ MaxHosts = 1
      /\ ~Volatile => (type \notin {"http", "socks4", "socks5"} <=> r.to = "dest")
  BY <1>1, TypeFacts
<1>5. x \in Failed(b, type) /\ r.query # "none"
  OBVIOUS
<1> HIDE DEF r, type, b
<1>6. ~Volatile => Way(x, b)
  BY <1>2, <1>3, <1>4, <1>5, FailedWay
<1>7. Way(b, r)
  BY <1>3, SameWay
<1>8. Narrow => Asked(x)
  <2> SUFFICES ASSUME Narrow PROVE Asked(x)
    OBVIOUS
  <2>1. ~b.clean /\ b.calls = <<>> /\ b.read_cb # "s4_canread" /\ Fresh(b)
    BY <1>1, <1>3, <1>4, <1>5 DEF Asked, Fresh
  <2> QED
    BY <1>2, <1>3, <1>4, <1>5, <2>1, FailedAsked
<1> QED
  BY <1>6, <1>7, <1>8, WayTrans DEF Fitted, r

LEMMA ReadyFit ==
    ASSUME Inv, NEW c \in Attempts, Fit(conn[c], gpi),
           conn[c].inpa[2] \in Writers \ {"proxy_do_write"},
           NEW x, \/ conn[c].inpa[2] = "socket_ready_cb" /\ x \in {Connected(conn[c]), conn[c]}
                  \/ conn[c].inpa[2] = "http_canwrite" /\ x \in Opened(conn[c], "http")
                  \/ conn[c].inpa[2] = "s4_canwrite" /\ x \in Opened(conn[c], "socks4")
                  \/ conn[c].inpa[2] = "s5_canwrite" /\ x \in Opened(conn[c], "socks5")
    PROVE  Fitted(x, conn[c], gpi)
<1> DEFINE r == conn[c]
<1>0. r.inpa[2] \in Writers \ {"proxy_do_write"} /\ r.inpa # NoWatch
  BY Members DEF Writers
<1>1. Sound(r) /\ r.st = "live" /\ r.fd # NoFd /\ r \in Records
  BY <1>0 DEF Inv, Sound
<1>2. /\ Narrow => Asked(r)
      /\ ~Volatile => Route(r, gpi)
  BY TypeFacts
<1>3. \/ r.inpa[2] = "socket_ready_cb" /\ x \in {Connected(r), r}
      \/ r.inpa[2] = "http_canwrite" /\ x \in Opened(r, "http")
      \/ r.inpa[2] = "s4_canwrite" /\ x \in Opened(r, "socks4")
      \/ r.inpa[2] = "s5_canwrite" /\ x \in Opened(r, "socks5")
  OBVIOUS
<1> HIDE DEF r
<1>4. Narrow => Busy(r) /\ Fresh(r) /\ r.inpa[2] # "s4_canwrite"
  BY <1>0, <1>1, <1>2, AtWork DEF Asked, NoSocks4
<1>5. CASE r.inpa[2] = "socket_ready_cb" /\ x \in {Connected(r), r}
  <2>1. Way(x, r)
    BY <1>1, <1>5, ConnectedWay DEF Way
  <2>2. Narrow => Asked(x)
    BY <1>1, <1>2, <1>4, <1>5, ConnectedAsked DEF Fresh
  <2> QED
    BY <2>1, <2>2 DEF Fitted, r
<1>6. ASSUME NEW type \in {"http", "socks4", "socks5"}, x \in Opened(r, type),
             r.inpa[2] # "socket_ready_cb", type = "socks4" => r.inpa[2] = "s4_canwrite"
      PROVE  Fitted(x, r, gpi)
  <2>1. ~Volatile => r.to # "dest"
    BY <1>0, <1>2, <1>6, ReadyFacts DEF Route, OnDest, OnProxy
  <2>2. ~Volatile => Way(x, r)
    BY <1>1, <1>6, <2>1, OpenedWay
  <2>3. Narrow => Asked(x)
    BY <1>1, <1>4, <1>6, OpenedAsked
  <2> QED
    BY <2>2, <2>3 DEF Fitted
<1> QED
  BY <1>3, <1>5, <1>6 DEF r

LEMMA CleanFit ==
    ASSUME Inv, NEW c \in Attempts, Fit(conn[c], gpi), conn[c].clean,
           NEW x, LET s == [conn[c] EXCEPT !.clean = FALSE]
                  IN  x = IF s.st = "live" THEN Connected(s)
                          ELSE [s EXCEPT !.calls = Append(@, <<"ok", NoFd>>)]
    PROVE  Fit(x, gpi)
<1> DEFINE r == conn[c]
           s == [r EXCEPT !.clean = FALSE]
           t == [s EXCEPT !.calls = Append(@, <<"ok", NoFd>>)]
<1>1. Sound(r) /\ r \in Records /\ r.clean
  BY DEF Inv
<1>2. /\ s \in Records /\ ~s.clean /\ s.st = r.st /\ s.own = r.own /\ s.to = r.to
      /\ s.query = r.query /\ s.hosts = r.hosts /\ s.read_cb = r.read_cb
      /\ s.written = r.written /\ s.inpa = r.inpa /\ s.msg = r.msg
      /\ s.skipped = r.skipped /\ s.calls = r.calls
  BY <1>1 DEF Records
<1>3. (~Volatile => Route(r, gpi)) /\ (Narrow => Asked(r))
  BY TypeFacts
<1>4. x = IF s.st = "live" THEN Connected(s) ELSE t
  OBVIOUS
<1> HIDE DEF r, s
<1>5. ~Volatile => OnDest(r) /\ OnDest(s)
  BY <1>1, <1>2, <1>3 DEF Route, OnDest, OnProxy
<1>6. CASE r.st = "live"
  <2>1. x = Connected(s)
    BY <1>2, <1>4, <1>6
  <2>2. /\ x.st = "freed" /\ x.inpa = NoWatch /\ x.to = s.to /\ x.read_cb = s.read_cb
    BY <1>2, <2>1, ConnectedFrame
  <2>3. ~Volatile => Route(x, gpi)
    BY <1>5, <2>2, Members DEF Route, OnDest
  <2>4. Narrow => Asked(x)
    <3>1. Narrow => Busy(s) /\ s.read_cb = "none"
      BY <1>1, <1>2, <1>3, <1>6 DEF Asked, Busy, Fresh, NoSocks4
    <3> QED
      BY <1>2, <2>1, <3>1, ConnectedAsked
  <2> QED
    BY <2>3, <2>4 DEF Fit
<1>7. CASE r.st # "live"
  <2> DEFINE cs == Append(s.calls, <<"ok", NoFd>>)
  <2>1. x = [s EXCEPT !.calls = cs]
    BY <1>2, <1>4, <1>7
  <2> HIDE DEF cs
  <2>2. /\ x.st = r.st /\ x.to = r.to /\ x.read_cb = r.read_cb /\ x.inpa = r.inpa
        /\ x.query = r.query /\ x.hosts = r.hosts /\ ~x.clean /\ x.written = r.written
        /\ x.msg = r.msg /\ x.skipped = r.skipped
    BY <1>2, <2>1 DEF Records
  <2>3. ~Volatile => Route(x, gpi)
    BY <1>5, <1>7, <2>2 DEF Route, OnDest
  <2>4. Narrow => Asked(x)
    <3> SUFFICES ASSUME Narrow PROVE Asked(x)
      OBVIOUS
    <3>1. Asked(r) /\ Fresh(r) /\ r.st # "unused" /\ r.inpa = NoWatch
      BY <1>1, <1>3 DEF Asked
    <3>2. Granted(x) /\ Fresh(x)
      BY <2>2, <3>1 DEF Granted, Fresh
    <3>3. Whole(x) /\ NoSocks4(x)
      BY <2>2, <3>1 DEF Asked, Whole, NoSocks4
    <3> QED
      BY <1>7, <2>2, <3>1, <3>2, <3>3 DEF Asked
  <2> QED
    BY <2>3, <2>4 DEF Fit
<1> QED
  BY <1>6, <1>7

LEMMA WriteFit ==
    ASSUME Inv, NEW c \in Attempts, Fit(conn[c], gpi),
           conn[c].inpa[2] = "proxy_do_write", NEW x \in Written(conn[c])
    PROVE  Fitted(x, conn[c], gpi)
<1> DEFINE r == conn[c]
<1>0. r.inpa[2] = "proxy_do_write" /\ r.inpa # NoWatch
  BY Members
<1>1. Sound(r) /\ r.st = "live" /\ r \in Records /\ r.read_cb \in Readers /\ r.msg # "none"
  BY <1>0 DEF Inv, Sound, Messages
<1>2. (~Volatile => Route(r, gpi)) /\ (Narrow => Asked(r))
  BY TypeFacts
<1>3. /\ Kindred(x, r) /\ x.read_cb = r.read_cb
      /\ \/ x = r
         \/ x.inpa = r.inpa /\ x.msg = r.msg /\ x.skipped = r.skipped
              /\ x.written < Length(r.msg)
         \/ x.inpa = <<"R", r.read_cb, r.fd>> /\ x.msg = "none"
  BY <1>1, WrittenFrame
<1> HIDE DEF r
<1>4. ~Volatile => Way(x, r)
  <2>1. ~Volatile => r.to # "dest"
    BY <1>0, <1>2 DEF Route, OnDest, OnProxy
  <2>2. x.inpa[2] # "socket_ready_cb"
    BY <1>0, <1>1, <1>3 DEF Readers
  <2> QED
    BY <1>3, <2>1, <2>2 DEF Way, OnDest, OnProxy, Kindred
<1>5. Narrow => Asked(x)
  <2> SUFFICES ASSUME Narrow PROVE Asked(x)
    OBVIOUS
  <2>1. Busy(r) /\ Asked(r)
    BY <1>0, <1>1, <1>2, AtWork
  <2>2. Whole(x)
    BY <1>1, <1>3, <2>1 DEF Asked, Whole
  <2>3. x.inpa[2] \in {"proxy_do_write", r.read_cb}
    BY <1>0, <1>3
  <2> QED
    BY <1>1, <1>3, <2>1, <2>2, <2>3, NoCalls, ReadyFacts DEF Asked, Busy, Kindred, NoSocks4
<1> QED
  BY <1>4, <1>5 DEF Fitted, r

LEMMA ReadFit ==
    ASSUME Inv, NEW c \in Attempts, Fit(conn[c], gpi), conn[c].inpa[1] = "R",
           NEW v \in Verdicts, NEW x \in Reply(conn[c], v, TypeOf(conn[c], gpi))
    PROVE  Fitted(x, conn[c], gpi)
<1> DEFINE r    == conn[c]
           type == TypeOf(r, gpi)
<1>1. Sound(r) /\ r.st = "live" /\ r \in Records /\ r.inpa # NoWatch
  BY DEF Inv, Sound, NoWatch
<1>2. /\ type \in {"none", "http", "socks4", "socks5"}
      /\ Narrow => type # "socks4" /\ Asked(r) /\ MaxHosts = 1
      /\ ~Volatile => Route(r, gpi)
      /\ ~Volatile => (type \notin {"http", "socks4", "socks5"} <=> r.to = "dest")
  BY <1>1, TypeFacts
<1>3. x \in Reply(r, v, type) /\ r.inpa[2] \in Readers
  <2>1. r.inpa \in Watches
    BY <1>1 DEF Records, OptWatch
  <2> QED
    BY <2>1 DEF Watches
<1> HIDE DEF r, type
<1>4. ~Volatile => r.to # "dest"
  BY <1>2, <1>3 DEF Route, OnDest, OnProxy, Readers
<1>5. ~Volatile => Way(x, r)
  BY <1>1, <1>2, <1>3, <1>4, ReplyWay
<1>6. Narrow => Asked(x)
  BY <1>1, <1>2, <1>3, ReplyAsked
<1> QED
  BY <1>5, <1>6 DEF Fitted, r

LEMMA DropFit ==
    ASSUME Inv, NEW c \in Attempts, Fit(conn[c], gpi), conn[c].inpa # NoWatch,
           NEW x \in Failed(conn[c], TypeOf(conn[c], gpi))
    PROVE  Fitted(x, conn[c], gpi)
<1> DEFINE r    == conn[c]
           type == TypeOf(r, gpi)
<1>1. Sound(r) /\ r.st = "live" /\ r.inpa # NoWatch
  BY DEF Inv, Sound
<1>2. /\ Narrow => type # "socks4" /\ Asked(r) /\ MaxHosts = 1
      /\ ~Volatile => (type \notin {"http", "socks4", "socks5"} <=> r.to = "dest")
  BY <1>1, TypeFacts
<1>3. x \in Failed(r, type)
  OBVIOUS
<1> HIDE DEF r, type
<1>4. ~Volatile => Way(x, r)
  BY <1>1, <1>2, <1>3, FailedWay
<1>5. Narrow => Asked(x)
  BY <1>1, <1>2, <1>3, AtWork, FailedAsked DEF Busy
<1> QED
  BY <1>4, <1>5 DEF Fitted, r

LEMMA CancelledFit ==
    ASSUME Inv, NEW c \in Attempts, Fit(conn[c], gpi), conn[c].st = "live"
    PROVE  Fit(Cancelled(c), gpi)
<1> DEFINE r == conn[c]
           x == Cancelled(c)
<1>1. r \in Records
  BY DEF Inv
<1>2. /\ x.st = "cancelled" /\ x.query = "none" /\ x.hosts = 0 /\ x.inpa = NoWatch
      /\ x.msg = "none" /\ x.clean = r.clean /\ x.calls = r.calls
      /\ x.read_cb = r.read_cb /\ x.written = r.written /\ x.said = r.said
  BY <1>1, DisconnectedFrame, DestroyedFrame DEF Cancelled, Steady, Kindred
<1>3. (~Volatile => Route(r, gpi)) /\ (Narrow => Asked(r))
  BY TypeFacts
<1>4. ~Volatile => Route(x, gpi)
  BY <1>1, <1>3, CancelledWay, WayRoute
<1> HIDE DEF r, x
<1>5. Narrow => Asked(x)
  BY <1>2, <1>3, Members, ReadyFacts DEF Asked, Fresh, Whole, Granted, NoSocks4
<1> QED
  BY <1>4, <1>5 DEF Fit, x

\* What the main loop and a peer do.
LEMMA ProgressFit ==
    ASSUME Fitting, NEW c \in Attempts, Progress(c)
    PROVE  \A d \in Attempts : Fit(conn'[d], gpi')
<1> DEFINE r    == conn[c]
           type == TypeOf(r, gpi)
<1>1. Inv /\ Fit(r, gpi) /\ Sound(r)
  BY DEF Fitting, Inv
<1>2. r.query # "none" \/ r.inpa # NoWatch => r.st = "live"
  BY <1>1 DEF Sound
<1>3. ASSUME NEW rs, Becomes(c, rs), r.st = "live", \A x \in rs : Fitted(x, r, gpi)
      PROVE  \A d \in Attempts : Fit(conn'[d], gpi')
  BY <1>1, <1>3, FittedFit, BecomesFit
<1>4. CASE ResolveHost(c)
  <2> DEFINE done == [r EXCEPT !.query = "none"]
             one  == [done EXCEPT !.hosts = 1]
             ui   == [r EXCEPT !.query = "ui"]
             b(n) == [r EXCEPT !.query = "none", !.hosts = n]
             rs   == Failed(done, type) \cup Failed(one, type)
                       \cup (IF UiResolver THEN {ui} ELSE {})
  <2>1. r.query = "timer" /\ Becomes(c, rs)
    BY <1>4 DEF ResolveHost
  <2>2. 1 \in Indices /\ r.hosts \in Indices /\ r \in Records
    BY <1>1, ConstantsAssumption DEF Sound, Loose, Records, Indices
  <2>3. done = b(r.hosts) /\ one = b(1)
    BY <2>2 DEF Records
  <2>4. \A n \in Indices : \A x \in Failed(b(n), type) : Fitted(x, r, gpi)
    BY <1>1, <2>1, ResolveFit
  <2>5. Fitted(ui, r, gpi)
    <3>1. /\ ui.st = r.st /\ ui.own = r.own /\ ui.to = r.to /\ ui.query = "ui"
          /\ ui.hosts = r.hosts /\ ui.read_cb = r.read_cb /\ ui.written = r.written
          /\ ui.clean = r.clean /\ ui.inpa = r.inpa /\ ui.calls = r.calls
          /\ ui.msg = r.msg /\ ui.skipped = r.skipped /\ ui.said = r.said
      BY <2>2 DEF Records
    <3>2. Narrow => Asked(r)
      BY <1>1 DEF Fit
    <3> HIDE DEF r, ui
    <3>3. Way(ui, r)
      BY <3>1, SameWay
    <3>4. Narrow => Asked(ui)
      BY <2>1, <3>1, <3>2 DEF Asked, Fresh, Whole, Granted, NoSocks4
    <3> QED
      BY <3>3, <3>4 DEF Fitted
  <2> HIDE DEF r, done, one, ui, b, type
  <2>6. \A x \in rs : Fitted(x, r, gpi)
    BY <2>2, <2>3, <2>4, <2>5
  <2> HIDE DEF rs
  <2> QED
    BY <1>2, <1>3, <2>1, <2>6
<1>5. ASSUME NEW n \in 0..MaxHosts, UiResolved(c, n)
      PROVE  \A d \in Attempts : Fit(conn'[d], gpi')
  <2> DEFINE rs == Failed([r EXCEPT !.query = "none", !.hosts = n], type)
  <2>1. r.query = "ui" /\ Becomes(c, rs)
    BY <1>5 DEF UiResolved
  <2>2. \A x \in rs : Fitted(x, r, gpi)
    BY <1>1, <1>5, <2>1, ResolveFit DEF Indices
  <2> HIDE DEF rs
  <2> QED
    BY <1>2, <1>3, <2>1, <2>2
<1>6. CASE SocketReady(c)
  <2> DEFINE ok == CASE r.inpa[2] = "socket_ready_cb" -> {IF c \in handles THEN Connected(r) ELSE r}
                     [] r.inpa[2] = "http_canwrite" -> Opened(r, "http")
                     [] r.inpa[2] = "s4_canwrite"   -> Opened(r, "socks4")
                     [] OTHER                       -> Opened(r, "socks5")
             rs == ok \cup Failed(r, type)
  <2>1. r.inpa[2] \in Writers \ {"proxy_do_write"} /\ Becomes(c, rs)
    BY <1>6 DEF SocketReady
  <2>2. r.inpa # NoWatch
    BY <2>1, Members, ReadyFacts
  <2>3. \A x \in ok :
          \/ r.inpa[2] = "socket_ready_cb" /\ x \in {Connected(r), r}
          \/ r.inpa[2] = "http_canwrite" /\ x \in Opened(r, "http")
          \/ r.inpa[2] = "s4_canwrite" /\ x \in Opened(r, "socks4")
          \/ r.inpa[2] = "s5_canwrite" /\ x \in Opened(r, "socks5")
    BY <2>1 DEF Writers
  <2> HIDE DEF ok
  <2>4. \A x \in ok : Fitted(x, r, gpi)
    BY <1>1, <2>1, <2>3, ReadyFit
  <2>5. \A x \in Failed(r, type) : Fitted(x, r, gpi)
    BY <1>1, <2>2, DropFit
  <2>6. \A x \in rs : Fitted(x, r, gpi)
    BY <2>4, <2>5
  <2> HIDE DEF rs
  <2> QED
    BY <1>2, <1>3, <2>1, <2>2, <2>6
<1>7. CASE CleanConnect(c)
  <2>1. PICK x : /\ r.clean /\ Becomes(c, {x})
                 /\ LET s == [r EXCEPT !.clean = FALSE]
                    IN  x = IF s.st = "live" THEN Connected(s)
                            ELSE [s EXCEPT !.calls = Append(@, <<"ok", NoFd>>)]
    BY <1>7 DEF CleanConnect
  <2>2. Fit(x, gpi)
    BY <1>1, <2>1, CleanFit
  <2>3. \A y \in {x} : Fit(y, gpi)
    BY <2>2
  <2> QED
    BY <2>1, <2>3, BecomesFit
<1>8. CASE DoWrite(c)
  <2> DEFINE rs == Written(r)
  <2>1. r.inpa[2] = "proxy_do_write" /\ Becomes(c, rs)
    BY <1>8 DEF DoWrite
  <2>2. r.inpa # NoWatch
    BY <2>1, Members
  <2>3. \A x \in rs : Fitted(x, r, gpi)
    BY <1>1, <2>1, WriteFit
  <2> HIDE DEF rs
  <2> QED
    BY <1>2, <1>3, <2>1, <2>2, <2>3
<1>9. ASSUME NEW v \in Verdicts, ReadReply(c, v)
      PROVE  \A d \in Attempts : Fit(conn'[d], gpi')
  <2> DEFINE rs == Reply(r, v, type)
  <2>1. r.inpa[1] = "R" /\ Becomes(c, rs)
    BY <1>9 DEF ReadReply
  <2>2. r.inpa # NoWatch
    BY <2>1 DEF NoWatch
  <2>3. \A x \in rs : Fitted(x, r, gpi)
    BY <1>1, <2>1, ReadFit
  <2> HIDE DEF rs
  <2> QED
    BY <1>2, <1>3, <2>1, <2>2, <2>3
<1> QED
  BY <1>4, <1>5, <1>6, <1>7, <1>8, <1>9 DEF Progress

LEMMA NextFitting ==
    ASSUME Fitting, Inv', [Next]_vars
    PROVE  Fitting'
<1> USE DEF Fitting
<1>0. ConstantsAssumption
  BY ConstantsAssumption
<1>1. ASSUME NEW c \in Attempts, Progress(c)
      PROVE  Fitting'
  BY <1>1, ProgressFit
<1>2. ASSUME NEW c \in Attempts, NEW r, conn' = [conn EXCEPT ![c] = r],
             Fit(r, gpi'), Volatile \/ gpi' = gpi
      PROVE  Fitting'
  \* The others only know of the settings when these do not change.
  <2>1. \A d \in Attempts : Fit(conn[d], gpi')
    BY <1>2 DEF Fit
  <2> QED
    BY <1>2, <2>1 DEF Inv
<1>3. ASSUME NEW c \in Attempts, Client(c)
      PROVE  Fitting'
  <2> DEFINE New(o, t, h) == [Unused EXCEPT !.own = o, !.to = t, !.st = "live",
                                            !.handle = h, !.query = "timer"]
  <2>1. ASSUME NEW h \in Handles, NEW t \in Types, Connect(c, h, t)
        PROVE  Fitting'
    <3> DEFINE to == IF t = "none" THEN "dest" ELSE "proxy"
    <3>1. gpi' = t /\ (Volatile \/ gpi' = gpi)
      BY <2>1 DEF Connect, Settings
    <3>2. conn' = [conn EXCEPT ![c] = New(FALSE, to, h)]
      BY <2>1 DEF Connect, Asking
    <3>3. (to = "dest" /\ gpi' = "none") \/ (to = "proxy" /\ gpi' # "none")
      BY <3>1
    <3> HIDE DEF to
    <3>4. Fit(New(FALSE, to, h), gpi')
      BY <3>3, UnusedFit
    <3> HIDE DEF New
    <3> QED
      BY <1>2, <3>1, <3>2, <3>4
  <2>2. ASSUME NEW h \in Handles, ConnectSocks5(c, h)
        PROVE  Fitting'
    <3>1. gpi' = gpi /\ conn' = [conn EXCEPT ![c] = New(TRUE, "proxy", h)]
      BY <2>2 DEF ConnectSocks5, Asking
    <3>2. Fit(New(TRUE, "proxy", h), gpi')
      BY UnusedFit
    <3> HIDE DEF New
    <3> QED
      BY <1>2, <3>1, <3>2
  <2>3. ASSUME NEW t \in Types, Refuse(c, t)
        PROVE  Fitting'
    <3> DEFINE r == conn[c]
               x == [r EXCEPT !.st = "refused"]
    <3>1. conn' = [conn EXCEPT ![c] = x] /\ (Volatile \/ gpi' = gpi) /\ r.st = "unused"
      BY <2>3 DEF Refuse, Settings
    <3>2. r \in Records /\ Fit(r, gpi)
      BY DEF Inv
    <3>3. /\ x.st = "refused" /\ x.own = r.own /\ x.to = r.to /\ x.query = r.query
          /\ x.hosts = r.hosts /\ x.read_cb = r.read_cb /\ x.written = r.written
          /\ x.clean = r.clean /\ x.inpa = r.inpa /\ x.calls = r.calls
          /\ x.msg = r.msg /\ x.skipped = r.skipped /\ x.said = r.said
      BY <3>2 DEF Records
    <3> HIDE DEF r, x
    <3>4. Narrow /\ Asked(r) => Asked(x)
      BY <3>1, <3>3 DEF Asked, Fresh, Whole, Granted, NoSocks4
    <3>5. ~Volatile => Route(x, gpi')
      BY <3>1, <3>2, <3>3 DEF Fit, Route, OnDest, OnProxy
    <3>6. Fit(x, gpi')
      BY <3>2, <3>4, <3>5 DEF Fit
    <3> QED
      BY <1>2, <3>1, <3>6
  <2>4. CASE Cancel(c)
    <3>1. conn[c].st = "live" /\ Becomes(c, {Cancelled(c)})
      BY <2>4 DEF Cancel
    <3>2. \A x \in {Cancelled(c)} : Fit(x, gpi)
      BY <3>1, CancelledFit
    <3> QED
      BY <3>1, <3>2, BecomesFit
  <2> QED
    BY <1>3, <2>1, <2>2, <2>3, <2>4 DEF Client
<1>4. ASSUME NEW c \in Attempts, ReadShort(c)
      PROVE  Fitting'
  <2> DEFINE r == conn[c]
  <2>1. conn[c].inpa[1] = "R" /\ \E x : ShortOf(conn[c], x) /\ Becomes(c, {x})
    BY <1>4, Shorter
  <2>2. PICK x : ShortOf(r, x) /\ Becomes(c, {x})
    BY <2>1
  <2>3. r \in Records /\ r.st = "live" /\ Fit(r, gpi)
    BY <2>1 DEF Inv, Sound, NoWatch
  <2> HIDE DEF r
  <2>4. Way(x, r)
    BY <2>2, SameWay DEF ShortOf
  <2>5. Narrow /\ Asked(r) => Asked(x)
    BY <2>2 DEF ShortOf, Asked, Fresh, Whole, Granted, NoSocks4
  <2>6. Fit(x, gpi)
    BY <2>3, <2>4, <2>5, FittedFit DEF Fitted, Fit
  <2>7. \A y \in {x} : Fit(y, gpi)
    BY <2>6
  <2> QED
    BY <2>2, <2>7, BecomesFit
<1>5. ASSUME NEW c \in Attempts, Drop(c)
      PROVE  Fitting'
  <2> DEFINE rs == Failed(conn[c], TypeOf(conn[c], gpi))
  <2>1. conn[c].inpa # NoWatch /\ Becomes(c, rs)
    BY <1>5 DEF Drop, NoWatch
  <2>2. conn[c].st = "live"
    BY <2>1 DEF Inv, Sound
  <2>3. \A x \in rs : Fit(x, gpi)
    BY <2>1, <2>2, DropFit, FittedFit
  <2> HIDE DEF rs
  <2> QED
    BY <2>1, <2>3, BecomesFit
<1>6. ASSUME NEW S \in SUBSET handles, CancelAll(S)
      PROVE  Fitting'
  <2>1. \A c \in S : c \in Attempts /\ conn[c].st = "live"
    BY DEF Inv, HandlesAreLive
  <2>2. \A c \in Attempts : Fit(conn'[c], gpi')
    BY <1>6, <2>1, CancelledFit DEF CancelAll
  <2> QED
    BY <2>2
<1>7. ASSUME NEW h \in Handles, CancelWithHandle(h)
      PROVE  Fitting'
  BY <1>6, <1>7 DEF CancelWithHandle
<1>8. CASE Uninit
  BY <1>6, <1>8 DEF Uninit
<1>9. CASE UNCHANGED vars
  BY <1>9 DEF vars
<1> QED
  BY <1>1, <1>3, <1>4, <1>5, <1>7, <1>8, <1>9 DEF Next

LEMMA FittingForever == Spec => []Fitting
<1>1. Init => Fitting
  BY InitInv, UnusedFit DEF Init, Fitting
<1>2. Fitting /\ [Next]_vars => Fitting'
  BY NextInv, NextFitting DEF Fitting
<1> QED
  BY <1>1, <1>2, PTL DEF Spec

\* With settings that do not change, no attempt speaks to the destination as to
\* a proxy or to a proxy as to the destination, though try_connect reads the
\* type again after the lookup (proxy.c:1748).
THEOREM RouteKept == ASSUME ~Volatile PROVE Spec => []RouteIsKept
<1>1. Fitting => RouteIsKept
  BY DEF Fitting, Fit, Route, OnDest, OnProxy, RouteIsKept
<1> QED
  BY <1>1, FittingForever, PTL

\* With one address per lookup and no SOCKS4 proxy, each request is sent from its
\* first byte and within its buffer, though the greeting relies on written_len
\* being 0 (proxy.c:1664), and a socket is handed over only after the grant.
THEOREM AskedAndGranted == ASSUME Narrow PROVE Spec => []GrantedAsAsked
<1>1. Fitting => GrantedAsAsked
  BY DEF Fitting, Fit, Asked, Whole, Granted, GrantedAsAsked, RequestSentWhole,
     ConnectedMeansGranted
<1> QED
  BY <1>1, FittingForever, PTL
=============================================================================
