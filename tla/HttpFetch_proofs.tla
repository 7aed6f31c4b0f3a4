-------------------------- MODULE HttpFetch_proofs --------------------------
(***************************************************************************)
(* Proofs about HttpFetch: a fetch is sound between two callbacks, what    *)
(* it hands over is what the server sent, and both the contract with       *)
(* proxy.c and the promise to the originator are kept.                     *)
(*                                                                         *)
(* Sound says what one fetch looks like at each stage, Attempted what      *)
(* proxy.c said of its attempts.  Each action changes one fetch: a lemma   *)
(* for each way to end it, to connect it and to go on reading shows that   *)
(* HttpInv holds again and that both contracts take a step.                *)
(*                                                                         *)
(* The second half is about what the proxies a fetch goes through are      *)
(* authenticated with, CipherSuite: decryption, the fields of NTLM, and    *)
(* digests, each after the lemmas about sequences it needs.                *)
(***************************************************************************)
EXTENDS HttpFetch, CipherSuite, WellFoundedInduction, TLAPS

Stages == {"unused", "active", "freed", "cancelled", "refused"}
NoInput == <<"none", NoFd>>
Inputs == Watchers \cup {NoInput}
Answers == Responses \cup {NoResponse}
Tellings == Seq({"body", "error"})

Records ==
    [st : Stages, full_headers : BOOLEAN, max_len : Nat, redirects : 0..MaxRedirects,
     connect_data : BOOLEAN, fd : Fds, open : SUBSET Hops, inpa : Inputs,
     watches : SUBSET Watchers, written : 0..RequestLength, got_headers : BOOLEAN,
     explicit : BOOLEAN, len : Nat, data_len : Nat, cap : Nat, good : Nat,
     resp : Answers, pos : Nat, told : Tellings]

Says == {"idle", "refused", "pending", "connected", "failed", "cancelled"}

-----------------------------------------------------------------------------
(* The inductive invariant. *)

Idle(r) ==
    ~r.connect_data /\ r.open = {} /\ r.watches = {} /\ r.inpa = NoInput /\ r.fd = NoFd

\* Only the connection is waited for; nothing was read of this location.
Connecting(r) ==
    /\ r.connect_data /\ r.open = {} /\ r.watches = {} /\ r.inpa = NoInput /\ r.fd = NoFd
    /\ r.len = 0 /\ r.good = 0 /\ r.data_len = 0 /\ ~r.got_headers /\ ~r.explicit

OnSocket(r) ==
    /\ ~r.connect_data /\ r.fd = r.redirects /\ r.open = {r.fd}
    /\ r.inpa \in Watchers /\ r.inpa[2] = r.fd /\ r.watches = {r.inpa}

\* What was read and where the answer stands.
Counted(r) ==
    /\ r.pos <= Total(r.resp)
    /\ ~r.got_headers => ~r.explicit /\ r.len = r.pos
    /\ r.got_headers => r.pos >= r.resp.hdr

HeaderAhead(r) == ~r.got_headers => r.pos <= r.resp.hdr

Sized(r) == r.data_len # 0 => r.data_len = r.cap
Room(r) == r.len > 0 => r.len < r.data_len

\* The body of BodyIntact, for a fetch still under way too.
Kept(r) ==
    /\ r.good = r.len
    /\ r.len = IF r.got_headers /\ ~r.full_headers THEN r.pos - r.resp.hdr ELSE r.pos
Intact(r) ==
    (~OneByteTail /\ (r.full_headers /\ r.explicit => r.resp.body <= r.resp.announced))
        => Kept(r)

Reads(r) == OnSocket(r) /\ Counted(r) /\ HeaderAhead(r) /\ Sized(r) /\ Room(r) /\ Intact(r)

Sound(r) ==
    /\ r \in Records
    /\ r.st = "unused" => r = Unused
    /\ r.st = "active" => /\ r.told = <<>> /\ r.redirects \in Hops
                          /\ Connecting(r) \/ Reads(r)
    /\ r.st # "active" => Idle(r)
    /\ r.st = "freed" => r.told = <<"error">> \/ (r.told = <<"body">> /\ Intact(r))
    /\ r.st = "refused" => r.told = <<"error">>
    /\ r.st = "cancelled" => r.told = <<>>

\* What o says of the attempts of f: the one it waits for is under way, no other
\* is, and none beyond the location it stands at was made.
Attempted(f, r, o) ==
    \A k \in Hops :
        /\ o[<<f, k>>] = "pending" <=> (r.st = "active" /\ r.connect_data /\ k = r.redirects)
        /\ (r.st = "unused" \/ k > r.redirects) => o[<<f, k>>] = "idle"

HttpInv ==
    /\ fetch \in [Fetches -> Records]
    /\ outcome \in [Fetches \X Hops -> Says]
    /\ reading \in Fetches \cup {NoFetch}
    /\ \A f \in Fetches : Sound(fetch[f]) /\ Attempted(f, fetch[f], outcome)
    /\ reading # NoFetch => /\ fetch[reading].st = "active"
                            /\ fetch[reading].inpa[1] = "recv"

\* What an action on f leads to.
Moves(f) ==
    \E s \in Records :
        /\ fetch' = [fetch EXCEPT ![f] = s]
        /\ \/ fetch[f].st = "unused" /\ s.st \in {"active", "refused"}
           \/ fetch[f].st = "active" /\ s.st \in {"active", "freed", "cancelled"}

Contract == [Connections!Next]_outcome

Good(f) == HttpInv' /\ Contract /\ Moves(f)

-----------------------------------------------------------------------------
(* Records and what the operators do to them. *)

LEMMA Members ==
    /\ \A w \in Stages : w \in Stages
    /\ {"unused", "active", "freed", "cancelled", "refused"} = Stages
    /\ NoInput \in Inputs /\ NoFd \in Fds /\ NoFd \notin Hops
    /\ \A k \in Hops : k \in Fds /\ k \in 0..MaxRedirects
    /\ \A k \in Hops : <<"send", k>> \in Watchers /\ <<"recv", k>> \in Watchers
    /\ \A w \in Watchers : w \in Inputs /\ w # NoInput
    /\ NoResponse \in Answers /\ Responses \subseteq Answers
    /\ <<>> \in Tellings /\ <<"body">> \in Tellings /\ <<"error">> \in Tellings
BY DEF Stages, NoInput, Inputs, NoFd, Fds, Hops, MaxRedirects, Watchers, Answers, Tellings

LEMMA AnswerType ==
    ASSUME NEW a \in Answers
    PROVE  /\ a.hdr \in Nat /\ a.body \in Nat /\ a.announced \in Nat
           /\ a.redirect \in BOOLEAN /\ a.closes \in BOOLEAN
           /\ Total(a) \in Nat
<1> DEFINE Responded == [hdr : Nat, body : Nat, announced : Nat,
                         redirect : BOOLEAN, closes : BOOLEAN]
<1>1. a \in Responded
  <2>1. CASE a \in Responses
    BY <2>1, HttpAssumption
  <2>2. CASE a = NoResponse
    BY <2>2 DEF NoResponse
  <2> QED
    BY <2>1, <2>2 DEF Answers
<1> QED
  BY <1>1 DEF Total

LEMMA UnusedType == Unused \in Records
<1>1. {} \in SUBSET Hops /\ {} \in SUBSET Watchers /\ 0 \in 0..MaxRedirects
      /\ 0 \in 0..RequestLength /\ "unused" \in Stages
  BY DEF MaxRedirects, RequestLength, Stages
<1> QED
  BY <1>1, Members DEF Unused, Records, NoInput

\* s is r but for the stage, what is held and what was told.
SameData(s, r) ==
    /\ s.full_headers = r.full_headers /\ s.max_len = r.max_len
    /\ s.redirects = r.redirects /\ s.written = r.written
    /\ s.got_headers = r.got_headers /\ s.explicit = r.explicit /\ s.len = r.len
    /\ s.data_len = r.data_len /\ s.cap = r.cap /\ s.good = r.good
    /\ s.resp = r.resp /\ s.pos = r.pos

\* What oul_http_fetch_url_cancel can release is all that r holds.
Releasable(r) == r.open \subseteq {r.fd} /\ r.watches \subseteq {r.inpa}

LEMMA ClosedFrame ==
    ASSUME NEW r \in Records, Releasable(r)
    PROVE  LET s == Closed(r)
           IN  /\ s \in Records /\ Idle(s) /\ SameData(s, r)
               /\ s.st = r.st /\ s.told = r.told
<1>1. r.watches \ {r.inpa} = {} /\ r.open \ {r.fd} = {}
  BY DEF Releasable
<1>2. {} \in SUBSET Hops /\ {} \in SUBSET Watchers
  OBVIOUS
<1> QED
  BY <1>1, <1>2, Members DEF Closed, Idle, SameData, Records, NoInput

\* r has ended in the stage how with told.
Ends(s, r, how, told) ==
    s \in Records /\ s.st = how /\ s.told = told /\ Idle(s) /\ SameData(s, r)

LEMMA Untold ==
    ASSUME NEW r \in Records, r.told = <<>>, NEW what \in {"body", "error"}
    PROVE  Append(r.told, what) = <<what>> /\ <<what>> \in Tellings
BY DEF Tellings

\* Both ways to write it: told before it is closed, or after.
LEMMA EndsFrame ==
    ASSUME NEW r \in Records, Releasable(r), r.told = <<>>,
           NEW how \in Stages, NEW what \in {"body", "error"}
    PROVE  /\ Ends([Closed([r EXCEPT !.told = Append(@, what)]) EXCEPT !.st = how],
                    r, how, <<what>>)
           /\ Ends([Closed(r) EXCEPT !.st = how, !.told = Append(@, what)],
                    r, how, <<what>>)
           /\ Ends([Closed(r) EXCEPT !.st = how], r, how, <<>>)
<1> DEFINE t == [r EXCEPT !.told = Append(@, what)]
           u == Closed(t)
           c == Closed(r)
<1>1. t = [r EXCEPT !.told = <<what>>]
  BY Untold
<1>2. t \in Records /\ t.told = <<what>> /\ Releasable(t) /\ SameData(t, r)
  BY <1>1, Untold DEF Records, Releasable, SameData
<1> HIDE DEF t
<1>3. u \in Records /\ Idle(u) /\ SameData(u, t) /\ u.told = <<what>>
  BY <1>2, ClosedFrame
<1>4. c \in Records /\ Idle(c) /\ SameData(c, r) /\ c.told = <<>>
  BY ClosedFrame
<1>5. Append(c.told, what) = <<what>> /\ <<what>> \in Tellings
  BY <1>4, Untold
<1> HIDE DEF u, c
<1>6. Ends([u EXCEPT !.st = how], r, how, <<what>>)
  BY <1>2, <1>3 DEF Ends, Records, Idle, SameData
<1>7. Ends([c EXCEPT !.st = how], r, how, <<>>)
  BY <1>4 DEF Ends, Records, Idle, SameData
<1>8. [c EXCEPT !.st = how, !.told = Append(@, what)]
        = [c EXCEPT !.st = how, !.told = <<what>>]
  BY <1>5
<1>9. Ends([c EXCEPT !.st = how, !.told = <<what>>], r, how, <<what>>)
  BY <1>4, <1>5 DEF Ends, Records, Idle, SameData
<1> QED
  BY <1>6, <1>7, <1>8, <1>9 DEF t, u, c

LEMMA EndsSound ==
    ASSUME NEW s, NEW r \in Records, NEW how, NEW told, Ends(s, r, how, told),
           \/ how = "freed" /\ (told = <<"error">> \/ (told = <<"body">> /\ Intact(r)))
           \/ how = "refused" /\ told = <<"error">>
           \/ how = "cancelled" /\ told = <<>>
    PROVE  Sound(s)
<1>1. Intact(r) => Intact(s)
  BY DEF Ends, SameData, Intact, Kept
<1> QED
  BY <1>1 DEF Ends, Sound

-----------------------------------------------------------------------------
(* One fetch changes. *)

LEMMA BecomesGood ==
    ASSUME HttpInv, Contract, NEW f \in Fetches, NEW s, Sound(s),
           fetch' = [fetch EXCEPT ![f] = s],
           outcome' \in [Fetches \X Hops -> Says],
           \A g \in Fetches \ {f} : \A k \in Hops : outcome'[<<g, k>>] = outcome[<<g, k>>],
           Attempted(f, s, outcome'),
           reading' \in {NoFetch, f},
           reading' = f => s.st = "active" /\ s.inpa[1] = "recv",
           \/ fetch[f].st = "unused" /\ s.st \in {"active", "refused"}
           \/ fetch[f].st = "active" /\ s.st \in {"active", "freed", "cancelled"}
    PROVE  Good(f)
<1>1. s \in Records
  BY DEF Sound
<1>2. fetch' \in [Fetches -> Records] /\ fetch'[f] = s
      /\ \A g \in Fetches \ {f} : fetch'[g] = fetch[g]
  BY <1>1 DEF HttpInv
<1>3. \A g \in Fetches : Sound(fetch'[g])
  BY <1>2 DEF HttpInv
<1>4. \A g \in Fetches : Attempted(g, fetch'[g], outcome')
  <2>1. Attempted(f, fetch'[f], outcome')
    BY <1>2
  <2>2. ASSUME NEW g \in Fetches \ {f}
        PROVE  Attempted(g, fetch'[g], outcome')
    <3>1. Attempted(g, fetch[g], outcome) /\ fetch'[g] = fetch[g]
      BY <1>2 DEF HttpInv
    <3> QED
      BY <3>1 DEF Attempted
  <2> QED
    BY <2>1, <2>2
<1>5. NoFetch # f
  BY HttpAssumption
<1>6. HttpInv'
  BY <1>2, <1>3, <1>4, <1>5 DEF HttpInv
<1>7. Moves(f)
  BY <1>1 DEF Moves
<1> QED
  BY <1>6, <1>7 DEF Good

\* proxy.c is asked, answers, or is told to give up.
LEMMA ContractStep ==
    ASSUME HttpInv, NEW f \in Fetches, NEW k \in Hops, NEW v,
           outcome' = [outcome EXCEPT ![<<f, k>>] = v],
           \/ outcome[<<f, k>>] = "idle" /\ v \in {"pending", "refused"}
           \/ outcome[<<f, k>>] = "pending" /\ v \in {"connected", "failed", "cancelled"}
    PROVE  /\ Contract
           /\ outcome' \in [Fetches \X Hops -> Says]
           /\ outcome'[<<f, k>>] = v
           /\ \A j \in Hops \ {k} : outcome'[<<f, j>>] = outcome[<<f, j>>]
           /\ \A g \in Fetches \ {f} : \A j \in Hops : outcome'[<<g, j>>] = outcome[<<g, j>>]
<1> DEFINE a == <<f, k>>
           A == Fetches \X Hops
<1>1. outcome \in [A -> Says] /\ a \in A
  BY DEF HttpInv
<1>2. v \in Says
  BY DEF Says
<1>3. outcome' \in [A -> Says] /\ outcome'[a] = v
      /\ \A b \in A \ {a} : outcome'[b] = outcome[b]
  BY <1>1, <1>2
<1>4. ASSUME outcome[a] = "idle" /\ v \in {"pending", "refused"}
      PROVE  Contract
  <2>1. Connections!Answer(a)
    BY <1>4 DEF Connections!Answer
  <2> QED
    BY <1>1, <2>1 DEF Contract, Connections!Next
<1>5. ASSUME outcome[a] = "pending" /\ v \in {"connected", "failed"}
      PROVE  Contract
  <2>1. Connections!Tell(a)
    BY <1>5 DEF Connections!Tell
  <2> QED
    BY <1>1, <2>1 DEF Contract, Connections!Next
<1>6. ASSUME outcome[a] = "pending" /\ v = "cancelled"
      PROVE  Contract
  <2> DEFINE S == {a}
  <2>1. S \in SUBSET A /\ \A c \in S : outcome[c] = "pending"
    BY <1>1, <1>6
  <2>2. outcome' = [c \in A |-> IF c \in S THEN "cancelled" ELSE outcome[c]]
    BY <1>1, <1>3, <1>6
  <2> HIDE DEF S
  <2>3. Connections!Cancel(S)
    BY <2>1, <2>2 DEF Connections!Cancel
  <2> QED
    BY <2>1, <2>3 DEF Contract, Connections!Next
<1>7. Contract
  BY <1>4, <1>5, <1>6
<1>8. /\ \A j \in Hops \ {k} : <<f, j>> \in A \ {a}
      /\ \A g \in Fetches \ {f} : \A j \in Hops : <<g, j>> \in A \ {a}
  OBVIOUS
<1> QED
  BY <1>3, <1>7, <1>8

\* A fetch under way holds no more than cancelling it releases.
LEMMA HeldReleasable ==
    ASSUME NEW r \in Records, Connecting(r) \/ OnSocket(r)
    PROVE  Releasable(r)
BY DEF Connecting, OnSocket, Releasable

\* A fetch on its socket ends, whatever it holds by now.
LEMMA TellGood ==
    ASSUME HttpInv, NEW f \in Fetches, NEW r \in Records, Releasable(r),
           r.told = <<>>, ~r.connect_data,
           fetch[f].st = "active", ~fetch[f].connect_data, r.redirects >= fetch[f].redirects,
           NEW what \in {"body", "error"}, what = "body" => Intact(r),
           Tell(f, r, what)
    PROVE  Good(f)
<1> DEFINE s == [Closed([r EXCEPT !.told = Append(@, what)]) EXCEPT !.st = "freed"]
<1>1. Ends(s, r, "freed", <<what>>)
  BY EndsFrame, Members
<1>2. fetch' = [fetch EXCEPT ![f] = s] /\ outcome' = outcome /\ reading' = NoFetch
  <2>1. [r EXCEPT !.told = Append(@, what)].connect_data = FALSE
    BY DEF Records
  <2> QED
    BY <2>1 DEF Tell, Leave
<1> HIDE DEF s
<1>3. Sound(s)
  BY <1>1, EndsSound
<1>4. s.st = "freed" /\ s.redirects = r.redirects
  BY <1>1 DEF Ends, SameData
<1>5. /\ fetch[f].redirects \in Nat /\ r.redirects \in Nat
      /\ Hops \subseteq Nat
  <2>1. fetch[f] \in Records
    BY DEF HttpInv
  <2>2. 0..MaxRedirects \subseteq Nat /\ Hops \subseteq Nat
    BY DEF Hops, MaxRedirects
  <2> QED
    BY <2>1, <2>2 DEF Records
<1>6. Attempted(f, fetch[f], outcome)
  BY DEF HttpInv
<1>7. Attempted(f, s, outcome')
  BY <1>2, <1>4, <1>5, <1>6 DEF Attempted
<1>8. Contract /\ outcome' \in [Fetches \X Hops -> Says] /\ NoFetch # f
  BY <1>2, HttpAssumption DEF Contract, HttpInv
<1> QED
  BY <1>2, <1>3, <1>4, <1>7, <1>8, BecomesGood

\* A fetch on its socket goes on.
LEMMA ContinueGood ==
    ASSUME HttpInv, NEW f \in Fetches, NEW s \in Records, s.st = "active", s.told = <<>>,
           Reads(s), fetch[f].st = "active", ~fetch[f].connect_data,
           s.redirects = fetch[f].redirects, NEW inside \in {NoFetch, f},
           inside = f => s.inpa[1] = "recv",
           Continue(f, s, inside)
    PROVE  Good(f)
<1>1. s.redirects \in Hops
  BY DEF HttpInv, Sound
<1>2. Sound(s) /\ ~s.connect_data
  BY <1>1 DEF Sound, Reads, OnSocket
<1>3. Attempted(f, s, outcome)
  BY <1>2 DEF HttpInv, Attempted
<1>4. Contract /\ outcome' \in [Fetches \X Hops -> Says] /\ outcome' = outcome
  BY DEF Contract, HttpInv, Continue
<1> QED
  BY <1>2, <1>3, <1>4, BecomesGood DEF Continue

\* r, which holds nothing, is connected to the location it stands at.
LEMMA ConnectGood ==
    ASSUME HttpInv, NEW f \in Fetches, NEW r \in Records, r.st = "active",
           r.told = <<>>, r.redirects \in Hops, Connecting([r EXCEPT !.connect_data = TRUE]),
           \A k \in Hops : outcome[<<f, k>>] # "pending"
                            /\ (k >= r.redirects => outcome[<<f, k>>] = "idle"),
           NEW otherwise,
           \/ fetch[f].st = "unused" /\ otherwise = "refused"
           \/ fetch[f].st = "active" /\ otherwise = "freed",
           ConnectTo(f, r, otherwise)
    PROVE  Good(f)
<1> DEFINE k == r.redirects
           c == [r EXCEPT !.connect_data = TRUE]
           d == [Closed(r) EXCEPT !.st = otherwise, !.told = Append(@, "error")]
<1>1. /\ c \in Records /\ c.st = "active" /\ c.told = <<>> /\ c.redirects = k
      /\ c.connect_data = TRUE
      /\ r.open = c.open /\ r.watches = c.watches /\ r.inpa = c.inpa
  BY DEF Records
<1>2. Sound(c) /\ Releasable(r)
  BY <1>1 DEF Sound, Connecting, Releasable
<1>3. Ends(d, r, otherwise, <<"error">>)
  BY <1>2, EndsFrame, Members
<1> HIDE DEF c, d
<1>4. Sound(d) /\ d.st = otherwise /\ d.redirects = k
  BY <1>3, EndsSound DEF Ends, SameData
<1>5. k \in Hops /\ outcome[<<f, k>>] = "idle" /\ NoFetch # f /\ Hops \subseteq Nat
  BY HttpAssumption DEF Hops, MaxRedirects
<1>6. CASE /\ outcome' = [outcome EXCEPT ![<<f, k>>] = "pending"]
           /\ fetch' = [fetch EXCEPT ![f] = c] /\ reading' = NoFetch
  <2>1. Attempted(f, c, outcome')
    <3>1. outcome'[<<f, k>>] = "pending"
          /\ \A j \in Hops \ {k} : outcome'[<<f, j>>] = outcome[<<f, j>>]
      BY <1>5, <1>6, ContractStep
    <3>2. ASSUME NEW j \in Hops
          PROVE  /\ outcome'[<<f, j>>] = "pending" <=> j = k
                 /\ j > k => outcome'[<<f, j>>] = "idle"
      BY <1>5, <3>1
    <3> HIDE DEF k
    <3> QED
      BY <1>1, <3>2 DEF Attempted
  <2> QED
    BY <1>1, <1>2, <1>5, <1>6, <2>1, ContractStep, BecomesGood
<1>7. CASE /\ outcome' = [outcome EXCEPT ![<<f, k>>] = "refused"]
           /\ fetch' = [fetch EXCEPT ![f] = d] /\ reading' = NoFetch
  <2>1. Attempted(f, d, outcome')
    <3>1. outcome'[<<f, k>>] = "refused"
          /\ \A j \in Hops \ {k} : outcome'[<<f, j>>] = outcome[<<f, j>>]
      BY <1>5, <1>7, ContractStep
    <3>2. ASSUME NEW j \in Hops
          PROVE  /\ outcome'[<<f, j>>] # "pending"
                 /\ j > k => outcome'[<<f, j>>] = "idle"
      BY <1>5, <3>1
    <3> HIDE DEF k
    <3> QED
      BY <1>4, <3>2 DEF Attempted
  <2> QED
    BY <1>4, <1>5, <1>7, <2>1, ContractStep, BecomesGood
<1> QED
  BY <1>6, <1>7 DEF ConnectTo, c, d

-----------------------------------------------------------------------------
(* Reading. *)

\* r but for what was read.
SameHold(s, r) ==
    /\ s.st = r.st /\ s.told = r.told /\ s.redirects = r.redirects
    /\ s.connect_data = r.connect_data /\ s.fd = r.fd /\ s.open = r.open
    /\ s.inpa = r.inpa /\ s.watches = r.watches
    /\ s.resp = r.resp /\ s.full_headers = r.full_headers

\* Growing by steps of Buf makes room for one byte more than is needed.
LEMMA Grown ==
    ASSUME NEW d \in Nat, NEW need \in Nat, need >= d
    PROVE  LET size == d + Buf * (((need - d) \div Buf) + 1)
           IN  size \in Nat /\ need < size
<1> DEFINE m == need - d
           q == m \div Buf
<1>1. Buf \in Nat /\ Buf > 0 /\ m \in Nat
  BY HttpAssumption
<1>2. q \in Nat /\ m < Buf * (q + 1)
  BY <1>1
<1>3. Buf * (q + 1) \in Nat
  BY <1>1, <1>2
<1> QED
  BY <1>1, <1>2, <1>3

LEMMA StoredFrame ==
    ASSUME NEW r \in Records, Reads(r), NEW n \in Nat \ {0}, n <= Buf,
           r.pos + n <= Total(r.resp)
    PROVE  LET s == Stored(r, n)
           IN  /\ s \in Records /\ SameHold(s, r)
               /\ s.got_headers = r.got_headers /\ s.explicit = r.explicit
               /\ s.pos = r.pos + n /\ s.len = r.len + n
               /\ s.data_len = s.cap /\ s.len < s.data_len
               /\ Counted(s) /\ Intact(s)
               /\ ~s.got_headers => s.len <= r.resp.hdr + Buf
<1> DEFINE need == r.len + n
           grows == need >= r.data_len
           grown == r.data_len + Buf * (((need - r.data_len) \div Buf) + 1)
           size  == IF grows THEN grown ELSE r.data_len
           cap   == IF grows THEN size ELSE r.cap
           good  == IF r.good = r.len THEN need ELSE r.good
           s     == Stored(r, n)
<1>1. /\ r.len \in Nat /\ r.data_len \in Nat /\ r.cap \in Nat /\ r.good \in Nat
      /\ r.pos \in Nat /\ r.resp \in Answers /\ r.resp.hdr \in Nat /\ Buf \in Nat
  BY AnswerType, HttpAssumption DEF Records
<1>2. need \in Nat /\ (grows => grown \in Nat /\ need < grown)
  <2>1. need \in Nat
    BY <1>1
  <2> HIDE DEF need
  <2> QED
    BY <1>1, <2>1, Grown
<1>3. size \in Nat /\ need < size /\ cap = size
  <2>1. ~grows => r.data_len # 0 /\ need < r.data_len
    BY <1>1
  <2> QED
    BY <1>1, <1>2, <2>1 DEF Reads, Sized
<1>4. good \in Nat /\ r.pos + n \in Nat
  BY <1>1, <1>2
<1>5. s = [r EXCEPT !.data_len = size, !.cap = cap, !.len = need, !.good = good,
                    !.pos = r.pos + n]
  BY DEF Stored
<1> HIDE DEF grown, size, cap, s
<1>6. /\ s \in Records /\ SameHold(s, r)
      /\ s.got_headers = r.got_headers /\ s.explicit = r.explicit
      /\ s.pos = r.pos + n /\ s.len = need /\ s.data_len = size /\ s.cap = cap
      /\ s.good = good
  BY <1>1, <1>2, <1>3, <1>4, <1>5 DEF Records, SameHold
<1>7. Counted(s) /\ (~s.got_headers => s.len <= r.resp.hdr + Buf)
  BY <1>1, <1>6 DEF Counted, SameHold, Reads, HeaderAhead
<1>8. Intact(s)
  <2>1. Kept(r) => Kept(s)
    BY <1>1, <1>6 DEF Kept, SameHold
  <2> QED
    BY <1>6, <2>1 DEF Intact, SameHold, Reads
<1> QED
  BY <1>3, <1>6, <1>7, <1>8 DEF s

\* The end of a turn of the loop: the buffer is full only when a length was announced.
LEMMA GoOnGood ==
    ASSUME HttpInv, NEW f \in Fetches, NEW h \in Records, h.st = "active", h.told = <<>>,
           OnSocket(h), Counted(h), HeaderAhead(h), Sized(h), Intact(h),
           h.len < h.data_len \/ h.explicit, h.inpa[1] = "recv",
           fetch[f].st = "active", ~fetch[f].connect_data, h.redirects = fetch[f].redirects,
           GoOn(f, h)
    PROVE  Good(f)
<1>1. h.redirects \in Nat /\ h.len \in Nat /\ h.data_len \in Nat
  BY DEF Records, MaxRedirects
<1>2. CASE h.explicit /\ h.len >= h.data_len
  <2>1. Tell(f, h, "body") /\ Releasable(h) /\ ~h.connect_data
    BY <1>2, HeldReleasable DEF GoOn, OnSocket
  <2> QED
    BY <1>1, <2>1, TellGood
<1>3. CASE ~(h.explicit /\ h.len >= h.data_len)
  <2>1. Continue(f, h, f) /\ Room(h)
    BY <1>1, <1>3 DEF GoOn, Room
  <2> QED
    BY <2>1, ContinueGood DEF Reads
<1> QED
  BY <1>2, <1>3

\* What was read when the header is complete.
AtHeader(s) ==
    /\ s \in Records /\ s.st = "active" /\ s.told = <<>>
    /\ OnSocket(s) /\ Counted(s) /\ Intact(s) /\ ~s.got_headers
    /\ s.pos >= s.resp.hdr /\ s.len <= s.resp.hdr + Buf
    /\ OneByteTail \/ s.pos # s.resp.hdr + 1

Going(h, s) ==
    /\ h \in Records /\ SameHold(h, s)
    /\ OnSocket(h) /\ Counted(h) /\ HeaderAhead(h) /\ Sized(h) /\ Intact(h)
    /\ h.len < h.data_len \/ h.explicit

LEMMA HeaderFacts ==
    ASSUME NEW s, AtHeader(s)
    PROVE  /\ s.pos \in Nat /\ s.len = s.pos /\ s.good \in Nat /\ ~s.explicit
           /\ Buf \in Nat \ {0} /\ s.resp.hdr \in Nat /\ s.resp.body \in Nat
           /\ s.resp.announced \in Nat /\ s.pos <= s.resp.hdr + s.resp.body
           /\ ContentLength(s) \in Nat
           /\ (s.resp.announced # 0) => ContentLength(s) = s.resp.announced
           /\ (s.resp.announced = 0) => ContentLength(s) = 2 * Buf
<1>1. s.pos \in Nat /\ s.good \in Nat /\ s.resp \in Answers
  BY DEF AtHeader, Records
<1>2. s.resp.hdr \in Nat /\ s.resp.body \in Nat /\ s.resp.announced \in Nat
      /\ Buf \in Nat \ {0}
  BY <1>1, AnswerType, HttpAssumption
<1>3. s.len = s.pos /\ ~s.explicit /\ s.pos <= s.resp.hdr + s.resp.body
  BY DEF AtHeader, Counted, Total
<1> QED
  BY <1>1, <1>2, <1>3 DEF ContentLength

LEMMA HeaderKeptGoing ==
    ASSUME NEW s, AtHeader(s), s.full_headers
    PROVE  Going(HeaderKept(s), s)
<1> DEFINE size == ContentLength(s) + s.resp.hdr
           explicit == s.resp.announced # 0
           good == AtMost(s.good, size)
           h == HeaderKept(s)
<1>1. size \in Nat /\ good \in Nat /\ explicit \in BOOLEAN
  BY HeaderFacts DEF AtMost
<1>2. h = [s EXCEPT !.got_headers = TRUE, !.explicit = explicit,
                    !.data_len = size, !.cap = size, !.good = good]
  BY DEF HeaderKept
<1> HIDE DEF size, explicit, good, h
<1>3. /\ h \in Records /\ SameHold(h, s) /\ h.got_headers = TRUE /\ h.explicit = explicit
      /\ h.data_len = size /\ h.cap = size /\ h.good = good /\ h.pos = s.pos /\ h.len = s.len
  BY <1>1, <1>2 DEF AtHeader, Records, SameHold
<1>4. OnSocket(h) /\ Counted(h) /\ HeaderAhead(h) /\ Sized(h)
  BY <1>3 DEF AtHeader, OnSocket, Counted, HeaderAhead, Sized, SameHold
<1>5. h.len < h.data_len \/ h.explicit
  <2>1. CASE s.resp.announced # 0
    BY <1>3, <2>1 DEF explicit
  <2>2. CASE s.resp.announced = 0
    <3>1. s.len < size
      BY <2>2, HeaderFacts DEF AtHeader, size
    <3> QED
      BY <1>3, <3>1
  <2> QED
    BY <2>1, <2>2
<1>6. Intact(h)
  <2> SUFFICES ASSUME ~OneByteTail, h.explicit => h.resp.body <= h.resp.announced
               PROVE  Kept(h)
    BY <1>3 DEF Intact, SameHold
  <2>1. s.good = s.len
    BY HeaderFacts DEF AtHeader, Intact, Kept
  <2>2. s.len <= size
    BY <1>3, <1>5, HeaderFacts DEF size, explicit, SameHold
  <2>3. good = s.len
    BY <2>1, <2>2, <1>1, HeaderFacts DEF good, AtMost
  <2> QED
    BY <1>3, <2>3, HeaderFacts DEF Kept, SameHold
<1> QED
  BY <1>3, <1>4, <1>5, <1>6 DEF Going, h

LEMMA HeaderDroppedGoing ==
    ASSUME NEW s, AtHeader(s), ~s.full_headers
    PROVE  Going(HeaderDropped(s), s)
<1> DEFINE explicit == s.resp.announced # 0
           len == BodyRead(s)
           size == BodySize(s)
           h == HeaderDropped(s)
<1>1. /\ len \in Nat /\ explicit \in BOOLEAN
      /\ len <= Buf
      /\ ~OneByteTail => len = s.pos - s.resp.hdr
  BY HeaderFacts DEF BodyRead, AtHeader
<1>2. size \in Nat /\ (~explicit => len < size)
  BY <1>1, HeaderFacts DEF BodySize, AtLeast
<1>3. h = [s EXCEPT !.got_headers = TRUE, !.explicit = explicit, !.len = len, !.good = len,
                    !.data_len = size, !.cap = size]
  BY DEF HeaderDropped
<1> HIDE DEF size, explicit, len, h
<1>4. /\ h \in Records /\ SameHold(h, s) /\ h.got_headers = TRUE /\ h.explicit = explicit
      /\ h.data_len = size /\ h.cap = size /\ h.good = len /\ h.pos = s.pos /\ h.len = len
  BY <1>1, <1>2, <1>3 DEF AtHeader, Records, SameHold
<1>5. OnSocket(h) /\ Counted(h) /\ HeaderAhead(h) /\ Sized(h)
  BY <1>4 DEF AtHeader, OnSocket, Counted, HeaderAhead, Sized, SameHold
<1>6. h.len < h.data_len \/ h.explicit
  BY <1>2, <1>4
<1>7. Intact(h)
  BY <1>1, <1>4 DEF Intact, Kept, SameHold
<1> QED
  BY <1>4, <1>5, <1>6, <1>7 DEF Going, h

-----------------------------------------------------------------------------
(* The actions. *)

LEMMA OneFetch ==
    ASSUME HttpInv, NEW f \in Fetches
    PROVE  /\ fetch[f] \in Records /\ Sound(fetch[f]) /\ Attempted(f, fetch[f], outcome)
           /\ reading \in Fetches \cup {NoFetch} /\ NoFetch # f
BY HttpAssumption DEF HttpInv

LEMMA OnSocketFacts ==
    ASSUME HttpInv, NEW f \in Fetches, fetch[f].inpa[1] \in {"send", "recv"}
    PROVE  LET r == fetch[f]
           IN  /\ r.st = "active" /\ r.told = <<>> /\ ~r.connect_data /\ Reads(r)
               /\ OnSocket(r) /\ Counted(r) /\ Intact(r) /\ Releasable(r)
               /\ r.redirects \in Hops /\ r.redirects \in Nat
               /\ r \in Records
               /\ \A k \in Hops : outcome[<<f, k>>] # "pending"
                                 /\ (k > r.redirects => outcome[<<f, k>>] = "idle")
<1> DEFINE r == fetch[f]
<1>1. r \in Records /\ Sound(r) /\ Attempted(f, r, outcome)
  BY OneFetch
<1>2. r.inpa # NoInput
  BY DEF NoInput
<1>3. r.st = "active" /\ r.told = <<>> /\ r.redirects \in Hops /\ Reads(r)
  BY <1>1, <1>2 DEF Sound, Idle, Connecting
<1>4. OnSocket(r) /\ Counted(r) /\ Intact(r) /\ ~r.connect_data
  BY <1>3 DEF Reads, OnSocket
<1>5. Releasable(r)
  BY <1>1, <1>4, HeldReleasable
<1>6. r.redirects \in Nat
  BY <1>3 DEF Hops, MaxRedirects
<1> QED
  BY <1>1, <1>3, <1>4, <1>5, <1>6 DEF Attempted

LEMMA ConnectingFacts ==
    ASSUME HttpInv, NEW f \in Fetches, fetch[f].connect_data
    PROVE  LET r == fetch[f]
           IN  /\ r \in Records /\ r.st = "active" /\ r.told = <<>> /\ Connecting(r)
               /\ r.redirects \in Hops /\ Releasable(r)
               /\ \A k \in Hops : /\ outcome[<<f, k>>] = "pending" => k = r.redirects
                                  /\ k > r.redirects => outcome[<<f, k>>] = "idle"
               /\ outcome[<<f, r.redirects>>] = "pending"
<1> DEFINE r == fetch[f]
<1>1. r \in Records /\ Sound(r) /\ Attempted(f, r, outcome)
  BY OneFetch
<1>2. r.st = "active" /\ r.told = <<>> /\ r.redirects \in Hops /\ Connecting(r)
  BY <1>1 DEF Sound, Idle, Reads, OnSocket
<1>3. Releasable(r)
  BY <1>1, <1>2, HeldReleasable
<1> QED
  BY <1>1, <1>2, <1>3 DEF Attempted

LEMMA RequestGood ==
    ASSUME HttpInv, NEW f \in Fetches, NEW limit \in Limits, NEW headers \in WithHeaders,
           Request(f, limit, headers)
    PROVE  Good(f)
<1> DEFINE r == [Unused EXCEPT !.st = "active", !.max_len = limit, !.full_headers = headers]
<1>1. limit \in Nat /\ headers \in BOOLEAN
  BY HttpAssumption
<1>2. Unused \in Records
  BY UnusedType
<1>3. /\ Unused.told = <<>> /\ Unused.redirects = 0 /\ Unused.open = {}
      /\ Unused.watches = {} /\ Unused.inpa = NoInput /\ Unused.fd = NoFd
      /\ Unused.len = 0 /\ Unused.good = 0 /\ Unused.data_len = 0
      /\ Unused.got_headers = FALSE /\ Unused.explicit = FALSE
  BY DEF Unused, NoInput
<1>4. r \in Records /\ r.st = "active" /\ r.told = <<>> /\ r.redirects = 0
  BY <1>1, <1>2, <1>3, Members DEF Records
<1>5. Connecting([r EXCEPT !.connect_data = TRUE])
  BY <1>2, <1>3 DEF Records, Connecting
<1>6. fetch[f].st = "unused" /\ ConnectTo(f, r, "refused")
  BY DEF Request
<1> HIDE DEF r
<1>7. \A k \in Hops : outcome[<<f, k>>] = "idle"
  BY <1>6, OneFetch DEF Attempted
<1>8. 0 \in Hops
  BY DEF Hops, MaxRedirects
<1> QED
  BY <1>4, <1>5, <1>6, <1>7, <1>8, ConnectGood

\* What is sent changes the request, and the watcher when it is complete.
LEMMA SentFrame ==
    ASSUME NEW r \in Records, OnSocket(r), r.fd \in Hops, NEW s \in Sent(r)
    PROVE  /\ s \in Records /\ OnSocket(s) /\ s.st = r.st /\ s.told = r.told
           /\ s.redirects = r.redirects /\ s.full_headers = r.full_headers
           /\ s.got_headers = r.got_headers /\ s.explicit = r.explicit
           /\ s.len = r.len /\ s.data_len = r.data_len /\ s.cap = r.cap
           /\ s.good = r.good /\ s.resp = r.resp /\ s.pos = r.pos
<1> DEFINE w == <<"recv", r.fd>>
           rest == RequestLength - r.written
           done == [r EXCEPT !.written = RequestLength, !.inpa = w,
                             !.watches = (@ \ {r.inpa}) \cup {w}]
<1>1. w \in Watchers /\ w \in Inputs /\ w[2] = r.fd
  BY Members
<1>2. (r.watches \ {r.inpa}) \cup {w} = {w} /\ {w} \in SUBSET Watchers
  BY <1>1 DEF OnSocket
<1>3. r.written \in 0..RequestLength /\ RequestLength \in 0..RequestLength
  BY DEF Records, RequestLength
<1>4. CASE s = done
  <2>1. done = [r EXCEPT !.written = RequestLength, !.inpa = w, !.watches = {w}]
    BY <1>2
  <2> HIDE DEF w, done
  <2> QED
    BY <1>1, <1>2, <1>3, <1>4, <2>1 DEF Records, OnSocket
<1>5. ASSUME NEW n \in 0..(rest - 1), s = [r EXCEPT !.written = @ + n]
      PROVE  /\ s \in Records /\ OnSocket(s) /\ s.st = r.st /\ s.told = r.told
             /\ s.redirects = r.redirects /\ s.full_headers = r.full_headers
             /\ s.got_headers = r.got_headers /\ s.explicit = r.explicit
             /\ s.len = r.len /\ s.data_len = r.data_len /\ s.cap = r.cap
             /\ s.good = r.good /\ s.resp = r.resp /\ s.pos = r.pos
  <2> DEFINE written == r.written + n
  <2>1. written \in 0..RequestLength
    BY <1>3 DEF RequestLength
  <2> HIDE DEF written
  <2>2. s = [r EXCEPT !.written = written]
    BY <1>5 DEF written
  <2> QED
    BY <2>1, <2>2 DEF Records, OnSocket
<1> QED
  BY <1>4, <1>5 DEF Sent

\* The same is read of s as of r.
LEMMA ReadsSame ==
    ASSUME NEW r, NEW s, OnSocket(s), Counted(r), HeaderAhead(r), Sized(r), Room(r), Intact(r),
           s.full_headers = r.full_headers, s.got_headers = r.got_headers,
           s.explicit = r.explicit, s.len = r.len, s.data_len = r.data_len, s.cap = r.cap,
           s.good = r.good, s.resp = r.resp, s.pos = r.pos
    PROVE  Reads(s)
BY DEF Reads, Counted, HeaderAhead, Sized, Room, Intact, Kept

\* proxy.c has answered the attempt that was waited for, or is told to give it up.
Settles(f) ==
    LET k == fetch[f].redirects
    IN  /\ outcome'[<<f, k>>] \in {"connected", "failed", "cancelled"}
        /\ outcome' \in [Fetches \X Hops -> Says]
        /\ \A j \in Hops \ {k} : outcome'[<<f, j>>] = outcome[<<f, j>>]
        /\ \A g \in Fetches \ {f} : \A j \in Hops : outcome'[<<g, j>>] = outcome[<<g, j>>]

LEMMA SettlesAttempt ==
    ASSUME HttpInv, NEW f \in Fetches, fetch[f].connect_data,
           NEW v \in {"connected", "failed", "cancelled"},
           NEW k, k = fetch[f].redirects, outcome' = [outcome EXCEPT ![<<f, k>>] = v]
    PROVE  Settles(f) /\ Contract
<1>1. k \in Hops /\ outcome[<<f, k>>] = "pending"
  BY ConnectingFacts
<1>2. /\ Contract /\ outcome' \in [Fetches \X Hops -> Says]
      /\ outcome'[<<f, k>>] = v
      /\ \A j \in Hops \ {k} : outcome'[<<f, j>>] = outcome[<<f, j>>]
      /\ \A g \in Fetches \ {f} : \A j \in Hops : outcome'[<<g, j>>] = outcome[<<g, j>>]
  BY <1>1, ContractStep
<1> QED
  BY <1>2 DEF Settles

LEMMA SettledAttempt ==
    ASSUME HttpInv, NEW f \in Fetches, fetch[f].connect_data, Settles(f),
           NEW s \in Records, s.connect_data = FALSE, s.st # "unused",
           s.redirects = fetch[f].redirects
    PROVE  Attempted(f, s, outcome')
<1> DEFINE k == fetch[f].redirects
<1>1. /\ k \in Hops
      /\ \A j \in Hops : /\ outcome[<<f, j>>] = "pending" => j = k
                         /\ j > k => outcome[<<f, j>>] = "idle"
  BY ConnectingFacts
<1>2. Hops \subseteq Nat
  BY DEF Hops, MaxRedirects
<1>3. /\ outcome'[<<f, k>>] # "pending"
      /\ \A j \in Hops \ {k} : outcome'[<<f, j>>] = outcome[<<f, j>>]
  BY DEF Settles
<1>4. ASSUME NEW j \in Hops
      PROVE  outcome'[<<f, j>>] # "pending" /\ (j > k => outcome'[<<f, j>>] = "idle")
  <2>1. CASE j = k
    BY <1>1, <1>2, <1>3, <2>1
  <2>2. CASE j # k
    BY <1>1, <1>3, <2>2
  <2> QED
    BY <2>1, <2>2
<1> HIDE DEF k
<1>5. s.redirects = k
  BY DEF k
<1> QED
  BY <1>4, <1>5 DEF Attempted

LEMMA ConnectCbGood ==
    ASSUME HttpInv, NEW f \in Fetches, ConnectCb(f)
    PROVE  Good(f)
<1> DEFINE r == fetch[f]
           k == r.redirects
           w == <<"send", k>>
           c == [r EXCEPT !.connect_data = FALSE, !.fd = k, !.open = @ \cup {k},
                          !.pos = 0, !.inpa = w, !.watches = @ \cup {w}]
           d == [Closed(c) EXCEPT !.st = "freed", !.told = Append(@, "error")]
<1>1. /\ r.connect_data /\ reading = NoFetch /\ reading' = NoFetch
      /\ outcome' = [outcome EXCEPT ![<<f, r.redirects>>] = "connected"]
  BY DEF ConnectCb
<1>2. /\ r \in Records /\ r.st = "active" /\ r.told = <<>> /\ Connecting(r) /\ k \in Hops
  BY <1>1, ConnectingFacts
<1>3. /\ w \in Watchers /\ w \in Inputs /\ w[2] = k /\ k \in Fds /\ k \in 0..MaxRedirects
      /\ {w} \in SUBSET Watchers /\ {k} \in SUBSET Hops
  BY <1>2, Members
<1>4. r.open \cup {k} = {k} /\ r.watches \cup {w} = {w}
  BY <1>2 DEF Connecting
<1>5. c = [r EXCEPT !.connect_data = FALSE, !.fd = k, !.open = {k},
                    !.pos = 0, !.inpa = w, !.watches = {w}]
  BY <1>4
<1> HIDE DEF c, w
<1>6. /\ c \in Records /\ c.st = "active" /\ c.told = <<>> /\ c.redirects = k
      /\ c.connect_data = FALSE /\ c.fd = k /\ c.open = {k} /\ c.pos = 0 /\ c.inpa = w
      /\ c.watches = {w} /\ c.len = 0 /\ c.good = 0 /\ c.data_len = 0
      /\ c.got_headers = FALSE /\ c.explicit = FALSE
  BY <1>2, <1>3, <1>5 DEF Records, Connecting
<1>7. Releasable(c)
  BY <1>6 DEF Releasable
<1> DEFINE How(s) == /\ Sound(s) /\ s.st \in {"active", "freed"} /\ s.redirects = k
                     /\ ~s.connect_data /\ fetch' = [fetch EXCEPT ![f] = s]
<1>8. ASSUME NEW resp \in Responses, NEW s \in Sent([c EXCEPT !.resp = resp]),
             fetch' = [fetch EXCEPT ![f] = s]
      PROVE  How(s)
  <2> DEFINE b == [c EXCEPT !.resp = resp]
  <2>1. resp \in Answers /\ resp.hdr \in Nat /\ Total(resp) \in Nat
    BY AnswerType DEF Answers
  <2>2. /\ b \in Records /\ b.st = "active" /\ b.told = <<>> /\ b.redirects = k
        /\ b.connect_data = FALSE /\ b.fd = k /\ b.open = {k} /\ b.pos = 0 /\ b.inpa = w
        /\ b.watches = {w} /\ b.len = 0 /\ b.good = 0 /\ b.data_len = 0
        /\ b.got_headers = FALSE /\ b.explicit = FALSE /\ b.resp = resp
    BY <1>6, <2>1 DEF Records
  <2> HIDE DEF b
  <2>3. OnSocket(b)
    BY <1>3, <2>2 DEF OnSocket
  <2>4. Counted(b) /\ HeaderAhead(b) /\ Sized(b) /\ Room(b) /\ Intact(b)
    BY <2>1, <2>2 DEF Counted, HeaderAhead, Sized, Room, Intact, Kept
  <2>5. /\ s \in Records /\ OnSocket(s) /\ s.st = "active" /\ s.told = <<>>
        /\ s.redirects = k /\ s.full_headers = b.full_headers
        /\ s.got_headers = b.got_headers /\ s.explicit = b.explicit
        /\ s.len = b.len /\ s.data_len = b.data_len /\ s.cap = b.cap
        /\ s.good = b.good /\ s.resp = b.resp /\ s.pos = b.pos
    BY <1>2, <2>2, <2>3, SentFrame DEF b
  <2>6. Reads(s)
    BY <2>4, <2>5, ReadsSame
  <2>7. Sound(s) /\ ~s.connect_data
    BY <1>2, <2>5, <2>6 DEF Sound, OnSocket
  <2> QED
    BY <1>8, <2>5, <2>7
<1>9. ASSUME fetch' = [fetch EXCEPT ![f] = d]
      PROVE  How(d)
  <2>1. Ends(d, c, "freed", <<"error">>)
    BY <1>6, <1>7, EndsFrame, Members
  <2> HIDE DEF d
  <2>2. Sound(d)
    BY <1>6, <2>1, EndsSound
  <2> QED
    BY <1>6, <1>9, <2>1, <2>2 DEF Ends, SameData, Idle
<1>10. \E s : How(s)
  BY <1>8, <1>9 DEF ConnectCb, c, w
<1>11. PICK s : How(s)
  BY <1>10
<1>12. /\ Contract /\ outcome' \in [Fetches \X Hops -> Says]
       /\ \A g \in Fetches \ {f} : \A j \in Hops : outcome'[<<g, j>>] = outcome[<<g, j>>]
       /\ Attempted(f, s, outcome')
  <2>1. Settles(f) /\ Contract
    BY <1>1, SettlesAttempt
  <2>2. s \in Records /\ s.connect_data = FALSE /\ s.st # "unused"
    BY <1>11 DEF Sound, Records
  <2>3. Attempted(f, s, outcome')
    BY <1>1, <1>11, <2>1, <2>2, SettledAttempt
  <2> QED
    BY <2>1, <2>3 DEF Settles
<1>13. reading' # f /\ reading' \in {NoFetch, f}
  BY <1>1, OneFetch
<1> QED
  BY <1>2, <1>11, <1>12, <1>13, BecomesGood

LEMMA ConnectFailedGood ==
    ASSUME HttpInv, NEW f \in Fetches, ConnectFailed(f)
    PROVE  Good(f)
<1> DEFINE r == fetch[f]
           c == [r EXCEPT !.connect_data = FALSE]
           d == [Closed(c) EXCEPT !.st = "freed", !.told = Append(@, "error")]
<1>1. /\ r.connect_data /\ reading = NoFetch /\ reading' = NoFetch
      /\ outcome' = [outcome EXCEPT ![<<f, r.redirects>>] = "failed"]
      /\ fetch' = [fetch EXCEPT ![f] = d]
  BY DEF ConnectFailed
<1>2. r \in Records /\ r.st = "active" /\ r.told = <<>> /\ Releasable(r)
  BY <1>1, ConnectingFacts
<1>3. c \in Records /\ c.told = <<>> /\ Releasable(c) /\ c.redirects = r.redirects
  BY <1>2 DEF Records, Releasable
<1> HIDE DEF c
<1>4. Ends(d, c, "freed", <<"error">>)
  BY <1>3, EndsFrame, Members
<1> HIDE DEF d
<1>5. Sound(d)
  BY <1>3, <1>4, EndsSound
<1>6. d.st = "freed" /\ ~d.connect_data /\ d.redirects = r.redirects
  BY <1>3, <1>4 DEF Ends, SameData, Idle
<1>7. /\ Contract /\ outcome' \in [Fetches \X Hops -> Says]
      /\ \A g \in Fetches \ {f} : \A j \in Hops : outcome'[<<g, j>>] = outcome[<<g, j>>]
      /\ Attempted(f, d, outcome')
  <2>1. Settles(f) /\ Contract
    BY <1>1, SettlesAttempt
  <2>2. d \in Records /\ d.connect_data = FALSE /\ d.st # "unused"
    BY <1>5, <1>6 DEF Sound, Records
  <2>3. Attempted(f, d, outcome')
    BY <1>1, <1>5, <1>6, <2>1, <2>2, SettledAttempt
  <2> QED
    BY <2>1, <2>3 DEF Settles
<1>8. reading' # f /\ reading' \in {NoFetch, f}
  BY <1>1, OneFetch
<1> QED
  BY <1>1, <1>2, <1>5, <1>6, <1>7, <1>8, BecomesGood

LEMMA SendCbGood ==
    ASSUME HttpInv, NEW f \in Fetches, SendCb(f)
    PROVE  Good(f)
<1> DEFINE r == fetch[f]
<1>1. r.inpa[1] = "send" /\ reading = NoFetch
  BY DEF SendCb
<1>2. /\ r.st = "active" /\ r.told = <<>> /\ ~r.connect_data /\ Reads(r)
      /\ OnSocket(r) /\ Releasable(r) /\ r.redirects \in Hops /\ r.redirects \in Nat
      /\ r \in Records
  BY <1>1, OnSocketFacts
<1>3. ASSUME NEW s \in Sent(r), Continue(f, s, NoFetch)
      PROVE  Good(f)
  <2>1. r.fd \in Hops
    BY <1>2 DEF OnSocket
  <2>2. /\ s \in Records /\ OnSocket(s) /\ s.st = "active" /\ s.told = <<>>
        /\ s.redirects = r.redirects /\ s.full_headers = r.full_headers
        /\ s.got_headers = r.got_headers /\ s.explicit = r.explicit
        /\ s.len = r.len /\ s.data_len = r.data_len /\ s.cap = r.cap
        /\ s.good = r.good /\ s.resp = r.resp /\ s.pos = r.pos
    BY <1>2, <2>1, SentFrame
  <2>3. Reads(s)
    BY <1>2, <2>2, ReadsSame DEF Reads
  <2>4. NoFetch # f
    BY OneFetch
  <2> QED
    BY <1>2, <1>3, <2>2, <2>3, <2>4, ContinueGood
<1>4. ASSUME Error(f, r)
      PROVE  Good(f)
  BY <1>2, <1>4, TellGood DEF Error
<1> QED
  BY <1>3, <1>4 DEF SendCb

LEMMA RedirectGood ==
    ASSUME HttpInv, NEW f \in Fetches, NEW s, AtHeader(s), Releasable(s),
           fetch[f].st = "active", ~fetch[f].connect_data, s.redirects = fetch[f].redirects,
           \A k \in Hops : /\ outcome[<<f, k>>] # "pending"
                           /\ k > s.redirects => outcome[<<f, k>>] = "idle",
           parse_redirect(f, s)
    PROVE  Good(f)
<1> DEFINE next == s.redirects + 1
<1>1. /\ s \in Records /\ s.st = "active" /\ s.told = <<>> /\ OnSocket(s) /\ ~s.got_headers
      /\ s.redirects \in Hops /\ ~s.explicit /\ s.connect_data = FALSE
  <2>1. fetch[f].redirects \in Hops
    BY OneFetch DEF Sound
  <2> QED
    BY <2>1, HeaderFacts DEF AtHeader, OnSocket, Records
<1>2. s.redirects \in Nat /\ next \in 0..MaxRedirects
  BY <1>1 DEF Hops, MaxRedirects
<1>3. CASE next >= MaxRedirects
  <2> DEFINE t == [s EXCEPT !.redirects = @ + 1]
  <2>1. t = [s EXCEPT !.redirects = next]
    BY <1>1 DEF Records
  <2> HIDE DEF t, next
  <2>2. t \in Records /\ t.told = <<>> /\ t.connect_data = FALSE /\ t.redirects = next
    BY <1>1, <1>2, <2>1 DEF Records
  <2>3. Releasable(t)
    BY <1>1, <2>1 DEF Releasable, Records
  <2>4. Tell(f, t, "error")
    BY <1>3 DEF parse_redirect, Error, t, next
  <2>5. t.redirects >= fetch[f].redirects
    BY <1>2, <2>2 DEF next
  <2> QED
    BY <2>2, <2>3, <2>4, <2>5, TellGood
<1>4. CASE ~(next >= MaxRedirects)
  <2> DEFINE t == Redirected(s)
  <2>1. next \in Hops
    BY <1>2, <1>4 DEF Hops, MaxRedirects
  <2>2. s.watches \ {s.inpa} = {} /\ s.open \ {s.fd} = {}
    BY DEF Releasable
  <2>3. t = [s EXCEPT !.redirects = next, !.watches = {}, !.inpa = NoInput, !.open = {},
                      !.fd = NoFd, !.written = 0, !.len = 0, !.good = 0, !.data_len = 0]
    BY <1>1, <2>2 DEF Redirected, NoInput, Records
  <2>4. 0 \in 0..RequestLength /\ NoInput \in Inputs /\ NoFd \in Fds
        /\ {} \in SUBSET Hops /\ {} \in SUBSET Watchers
    BY Members DEF RequestLength
  <2> HIDE DEF t, next
  <2>5. t \in Records /\ t.st = "active" /\ t.told = <<>> /\ t.redirects = next
    BY <1>1, <1>2, <2>3, <2>4 DEF Records
  <2>6. Connecting([t EXCEPT !.connect_data = TRUE])
    BY <1>1, <2>3 DEF Records, Connecting
  <2>7. ConnectTo(f, t, "freed")
    BY <1>4 DEF parse_redirect, t, next
  <2>8. \A k \in Hops : outcome[<<f, k>>] # "pending"
                        /\ (k >= next => outcome[<<f, k>>] = "idle")
    BY <1>2 DEF next, Hops, MaxRedirects
  <2> QED
    BY <2>1, <2>5, <2>6, <2>7, <2>8, ConnectGood
<1> QED
  BY <1>3, <1>4

LEMMA HeaderSeenGood ==
    ASSUME HttpInv, NEW f \in Fetches, NEW s, AtHeader(s), Releasable(s),
           fetch[f].st = "active", ~fetch[f].connect_data, s.redirects = fetch[f].redirects,
           \A k \in Hops : /\ outcome[<<f, k>>] # "pending"
                           /\ k > s.redirects => outcome[<<f, k>>] = "idle",
           s.inpa[1] = "recv", HeaderSeen(f, s)
    PROVE  Good(f)
<1>1. /\ s \in Records /\ s.st = "active" /\ s.told = <<>> /\ s.connect_data = FALSE
      /\ s.redirects \in Nat
  <2>1. fetch[f].redirects \in Nat
    BY OneFetch DEF Sound, Hops, MaxRedirects
  <2> QED
    BY <2>1 DEF AtHeader, OnSocket, Records
<1>2. CASE parse_redirect(f, s)
  BY <1>2, RedirectGood
<1>3. CASE Error(f, s)
  BY <1>1, <1>3, TellGood DEF Error
<1>4. ASSUME NEW h, Going(h, s), GoOn(f, h)
      PROVE  Good(f)
  BY <1>1, <1>4, GoOnGood DEF Going, SameHold
<1>5. CASE GoOn(f, IF s.full_headers THEN HeaderKept(s) ELSE HeaderDropped(s))
  <2>1. CASE s.full_headers
    BY <1>4, <1>5, <2>1, HeaderKeptGoing
  <2>2. CASE ~s.full_headers
    BY <1>4, <1>5, <2>2, HeaderDroppedGoing
  <2> QED
    BY <2>1, <2>2
<1> QED
  BY <1>2, <1>3, <1>5 DEF HeaderSeen

LEMMA ReadSomeGood ==
    ASSUME HttpInv, NEW f \in Fetches, ReadSome(f)
    PROVE  Good(f)
<1> DEFINE r == fetch[f]
<1>1. r.inpa[1] = "recv" /\ Receiving(f)
  BY DEF ReadSome, Receiving
<1>2. /\ r.st = "active" /\ r.told = <<>> /\ ~r.connect_data /\ Reads(r)
      /\ OnSocket(r) /\ Counted(r) /\ Intact(r) /\ Releasable(r)
      /\ r.redirects \in Hops /\ r.redirects \in Nat /\ r \in Records
      /\ \A k \in Hops : outcome[<<f, k>>] # "pending"
                         /\ (k > r.redirects => outcome[<<f, k>>] = "idle")
  BY <1>1, OnSocketFacts
<1>3. /\ r.pos \in Nat /\ r.resp \in Answers /\ Total(r.resp) \in Nat /\ Buf \in Nat
      /\ r.resp.hdr \in Nat
  BY <1>2, AnswerType, HttpAssumption DEF Records
<1>4. PICK n \in 1..AtMost(Buf, Total(r.resp) - r.pos) :
          LET s       == Stored(r, n)
              toolong == r.max_len # 0 /\ r.len + n > r.max_len
              header  == ~r.got_headers /\ s.pos >= r.resp.hdr
          IN  /\ OneByteTail \/ r.got_headers \/ s.pos # r.resp.hdr + 1
              /\ \/ toolong /\ Error(f, r)
                 \/ ~toolong /\ header /\ HeaderSeen(f, s)
                 \/ ~toolong /\ ~header /\ GoOn(f, s)
  BY DEF ReadSome
<1> DEFINE s == Stored(r, n)
<1>5. n \in Nat \ {0} /\ n <= Buf /\ r.pos + n <= Total(r.resp)
  BY <1>3, <1>4 DEF AtMost
<1>6. /\ s \in Records /\ SameHold(s, r)
      /\ s.got_headers = r.got_headers /\ s.explicit = r.explicit
      /\ s.pos = r.pos + n /\ s.len = r.len + n
      /\ s.data_len = s.cap /\ s.len < s.data_len
      /\ Counted(s) /\ Intact(s)
      /\ ~s.got_headers => s.len <= r.resp.hdr + Buf
  BY <1>2, <1>5, StoredFrame
<1> DEFINE header == ~r.got_headers /\ s.pos >= r.resp.hdr
<1>7. /\ OneByteTail \/ r.got_headers \/ s.pos # r.resp.hdr + 1
      /\ \/ Error(f, r)
         \/ header /\ HeaderSeen(f, s)
         \/ ~header /\ GoOn(f, s)
  BY <1>4
<1> HIDE DEF s
<1>8. /\ s.st = "active" /\ s.told = <<>> /\ OnSocket(s) /\ Releasable(s)
      /\ s.redirects = r.redirects /\ s.resp = r.resp /\ s.inpa[1] = "recv"
  BY <1>1, <1>2, <1>6 DEF SameHold, OnSocket, Releasable
<1>9. CASE Error(f, r)
  BY <1>2, <1>9, TellGood DEF Error
<1>10. CASE header /\ HeaderSeen(f, s)
  <2>1. AtHeader(s)
    BY <1>6, <1>7, <1>8, <1>10 DEF AtHeader
  <2> QED
    BY <1>2, <1>8, <1>10, <2>1, HeaderSeenGood
<1>11. CASE ~header /\ GoOn(f, s)
  <2>1. HeaderAhead(s) /\ Sized(s)
    BY <1>3, <1>6, <1>8, <1>11 DEF HeaderAhead, Sized
  <2> QED
    BY <1>2, <1>6, <1>8, <1>11, <2>1, GoOnGood
<1> QED
  BY <1>7, <1>9, <1>10, <1>11

LEMMA ReadAgainGood ==
    ASSUME HttpInv, NEW f \in Fetches, ReadAgain(f)
    PROVE  Good(f)
<1>1. /\ fetch' = fetch /\ outcome' = outcome /\ reading' = NoFetch
      /\ fetch[f].st = "active"
  BY OneFetch DEF ReadAgain, HttpInv
<1>2. HttpInv'
  BY <1>1 DEF HttpInv
<1>3. Moves(f)
  BY <1>1, OneFetch DEF Moves, HttpInv
<1> QED
  BY <1>1, <1>2, <1>3 DEF Good, Contract

LEMMA LastReadGood ==
    ASSUME HttpInv, NEW f \in Fetches, ReadEof(f) \/ BreakOff(f)
    PROVE  Good(f)
<1>1. /\ fetch[f].inpa[1] = "recv"
      /\ \E what \in {"body", "error"} : Tell(f, fetch[f], what)
  BY DEF ReadEof, BreakOff, Receiving
<1> QED
  BY <1>1, OnSocketFacts, TellGood

LEMMA CancelGood ==
    ASSUME HttpInv, NEW f \in Fetches, Cancel(f)
    PROVE  Good(f)
<1> DEFINE r == fetch[f]
           s == [Closed(r) EXCEPT !.st = "cancelled"]
<1>1. /\ r.st = "active" /\ reading' = NoFetch /\ fetch' = [fetch EXCEPT ![f] = s]
      /\ outcome' = IF r.connect_data
                    THEN [outcome EXCEPT ![<<f, r.redirects>>] = "cancelled"] ELSE outcome
  BY DEF Cancel, Leave
<1>2. r \in Records /\ r.told = <<>> /\ Releasable(r) /\ Attempted(f, r, outcome)
  BY <1>1, OneFetch, HeldReleasable DEF Sound, Reads
<1>3. Ends(s, r, "cancelled", <<>>)
  BY <1>2, EndsFrame, Members
<1> HIDE DEF s
<1>4. /\ Sound(s) /\ s \in Records /\ s.st = "cancelled" /\ s.redirects = r.redirects
      /\ s.connect_data = FALSE
  BY <1>2, <1>3, EndsSound DEF Ends, SameData, Idle, Records
<1>5. /\ Contract /\ outcome' \in [Fetches \X Hops -> Says]
      /\ \A g \in Fetches \ {f} : \A j \in Hops : outcome'[<<g, j>>] = outcome[<<g, j>>]
      /\ Attempted(f, s, outcome')
  <2>1. CASE r.connect_data
    <3>1. Settles(f) /\ Contract
      BY <1>1, <2>1, SettlesAttempt
    <3>2. Attempted(f, s, outcome')
      BY <1>4, <2>1, <3>1, SettledAttempt
    <3> QED
      BY <3>1, <3>2 DEF Settles
  <2>2. CASE ~r.connect_data
    <3>1. outcome' = outcome
      BY <1>1, <2>2
    <3>2. Attempted(f, s, outcome')
      BY <1>2, <1>1, <1>4, <2>2, <3>1 DEF Attempted
    <3> QED
      BY <3>1, <3>2 DEF Contract, HttpInv
  <2> QED
    BY <2>1, <2>2
<1>6. reading' # f /\ reading' \in {NoFetch, f}
  BY <1>1, OneFetch
<1> QED
  BY <1>1, <1>4, <1>5, <1>6, BecomesGood

-----------------------------------------------------------------------------
(* The invariant. *)

LEMMA InitInv == Init => HttpInv
<1> SUFFICES ASSUME Init
             PROVE  HttpInv
  OBVIOUS
<1>1. Unused \in Records
  BY UnusedType
<1>2. Sound(Unused) /\ Unused.st = "unused" /\ Unused.connect_data = FALSE
  BY <1>1 DEF Sound, Idle, Unused, NoInput
<1>3. fetch = [f \in Fetches |-> Unused] /\ outcome = [a \in Fetches \X Hops |-> "idle"]
      /\ reading = NoFetch
  BY DEF Init
<1>4. "idle" \in Says
  BY DEF Says
<1>5. \A f \in Fetches : Attempted(f, Unused, outcome)
  BY <1>2, <1>3 DEF Attempted
<1> QED
  BY <1>1, <1>2, <1>3, <1>4, <1>5 DEF HttpInv

LEMMA NextGood ==
    ASSUME HttpInv, [Next]_vars
    PROVE  \/ \E f \in Fetches : Good(f)
           \/ HttpInv' /\ UNCHANGED vars
<1>1. CASE Next
  BY <1>1, RequestGood, ConnectCbGood, ConnectFailedGood, SendCbGood, ReadSomeGood,
     ReadAgainGood, LastReadGood, CancelGood DEF Next
<1>2. CASE UNCHANGED vars
  BY <1>2 DEF HttpInv, vars
<1> QED
  BY <1>1, <1>2

LEMMA Invariant == Spec => []HttpInv
<1>1. HttpInv /\ [Next]_vars => HttpInv'
  BY NextGood DEF Good
<1> QED
  BY <1>1, InitInv, PTL DEF Spec

\* Every field keeps its range, a fetch holds exactly what it waits for and there
\* is room for the NUL that url_fetch_recv_cb writes, for any number of fetches, any
\* servers and any size of the buffer, wherever the reads cut the answer.
THEOREM SoundFetch == Spec => []FetchIsSound
<1>1. HttpInv => TypeOK
  BY DEF HttpInv, TypeOK, Records, Stages, Answers, Inputs, Tellings, NoInput, Says
<1>2. HttpInv => HoldsWhatItAwaits
  <2> SUFFICES ASSUME HttpInv, NEW f \in Fetches
               PROVE  LET r == fetch[f]
                      IN  IF r.st = "active"
                          THEN \/ /\ r.connect_data /\ r.watches = {} /\ r.open = {}
                                  /\ outcome[<<f, r.redirects>>] = "pending"
                               \/ /\ ~r.connect_data
                                  /\ r.open = {r.fd} /\ r.watches = {r.inpa} /\ r.inpa[2] = r.fd
                          ELSE /\ r.open = {} /\ r.watches = {}
                               /\ \A k \in Hops : outcome[<<f, k>>] # "pending"
    BY DEF HoldsWhatItAwaits
  <2> DEFINE r == fetch[f]
  <2>1. Sound(r) /\ Attempted(f, r, outcome)
    BY OneFetch
  <2>2. CASE r.st = "active" /\ r.connect_data
    BY <2>2, ConnectingFacts DEF Connecting
  <2>3. CASE r.st = "active" /\ ~r.connect_data
    BY <2>1, <2>3 DEF Sound, Connecting, Reads, OnSocket
  <2>4. CASE r.st # "active"
    BY <2>1, <2>4 DEF Sound, Idle, Attempted
  <2> QED
    BY <2>2, <2>3, <2>4
<1>3. HttpInv => RoomForNul
  <2> SUFFICES ASSUME HttpInv, NEW f \in Fetches, fetch[f].st = "active", fetch[f].len > 0
               PROVE  fetch[f].data_len = fetch[f].cap /\ fetch[f].len < fetch[f].cap
    BY DEF RoomForNul
  <2> DEFINE r == fetch[f]
  <2>1. Sound(r) /\ r.len \in Nat /\ r.data_len \in Nat
    BY OneFetch DEF Records
  <2>2. Reads(r)
    BY <2>1 DEF Sound, Connecting
  <2>3. r.len < r.data_len /\ r.data_len # 0
    BY <2>1, <2>2 DEF Reads, Room
  <2> QED
    BY <2>2, <2>3 DEF Reads, Sized
<1> QED
  BY <1>1, <1>2, <1>3, Invariant, PTL DEF FetchIsSound

\* The body that is handed over is what the server sent, none of it lost and none of
\* it from another location, as long as no read ends one byte behind the header: that
\* byte is lost (http_one_byte shows it).
THEOREM WholeBody == ASSUME ~OneByteTail PROVE Spec => []BodyIntact
<1>1. HttpInv => BodyIntact
  <2> SUFFICES ASSUME HttpInv, NEW f \in Fetches, fetch[f].told = <<"body">>
               PROVE  Intact(fetch[f])
    BY DEF BodyIntact, Intact, Kept
  <2>1. Sound(fetch[f])
    BY OneFetch
  <2>2. <<"body">> # <<>> /\ <<"body">> # <<"error">>
    OBVIOUS
  <2>3. Unused.told = <<>>
    BY DEF Unused
  <2>4. fetch[f].st = "freed"
    <3>1. fetch[f].st \in Stages
      BY OneFetch DEF Records
    <3> QED
      BY <2>1, <2>2, <2>3, <3>1 DEF Sound, Stages
  <2> QED
    BY <2>1, <2>2, <2>4 DEF Sound
<1> QED
  BY <1>1, Invariant, PTL

-----------------------------------------------------------------------------
(* The contracts. *)

LEMMA OutcomeOfStage ==
    ASSUME NEW r, Sound(r)
    PROVE  /\ r.st = "unused" => Outcome(r) = "idle"
           /\ r.st = "active" => Outcome(r) = "pending"
           /\ r.st = "refused" => Outcome(r) = "refused"
           /\ r.st = "freed" => Outcome(r) \in {"connected", "failed"}
           /\ r.st = "cancelled" => Outcome(r) = "cancelled"
<1>1. <<"body">> # <<>> /\ <<"error">> # <<>> /\ <<"body">> # <<"error">>
  OBVIOUS
<1>2. r.st = "unused" => r.told = <<>>
  BY DEF Sound, Unused
<1> QED
  BY <1>1, <1>2 DEF Sound, Outcome

LEMMA InitContracts == Init => Connections!Init /\ Promise!Init
<1> SUFFICES ASSUME Init
             PROVE  Connections!Init /\ Promise!Init
  OBVIOUS
<1>1. Connections!Init
  BY DEF Init, Connections!Init
<1>2. fetch = [f \in Fetches |-> Unused]
  BY DEF Init
<1>3. Outcome(Unused) = "idle"
  BY DEF Outcome, Unused
<1> QED
  BY <1>1, <1>2, <1>3 DEF Promise!Init

LEMMA NextPromise ==
    ASSUME HttpInv, HttpInv', NEW f \in Fetches, Moves(f)
    PROVE  [Promise!Next]_([g \in Fetches |-> Outcome(fetch[g])])
<1> DEFINE o == [g \in Fetches |-> Outcome(fetch[g])]
           n == [g \in Fetches |-> Outcome(fetch'[g])]
<1>1. o' = n
  OBVIOUS
<1>2. Sound(fetch[f]) /\ Sound(fetch'[f])
  BY DEF HttpInv
<1>3. /\ \A g \in Fetches \ {f} : fetch'[g] = fetch[g]
      /\ \/ fetch[f].st = "unused" /\ fetch'[f].st \in {"active", "refused"}
         \/ fetch[f].st = "active" /\ fetch'[f].st \in {"active", "freed", "cancelled"}
  BY DEF Moves, HttpInv
<1>4. \/ o[f] = "idle" /\ n[f] \in {"pending", "refused"}
      \/ o[f] = "pending" /\ n[f] \in {"pending", "connected", "failed", "cancelled"}
  BY <1>2, <1>3, OutcomeOfStage
<1>5. n = [o EXCEPT ![f] = n[f]]
  BY <1>3
<1>6. CASE o[f] = "idle" /\ n[f] \in {"pending", "refused"}
  <2> HIDE DEF n
  <2> QED
    BY <1>1, <1>5, <1>6 DEF Promise!Next, Promise!Answer
<1>7. CASE o[f] = "pending" /\ n[f] = "pending"
  <2> HIDE DEF n
  <2> QED
    BY <1>1, <1>5, <1>7
<1>8. CASE o[f] = "pending" /\ n[f] \in {"connected", "failed"}
  <2> HIDE DEF n
  <2> QED
    BY <1>1, <1>5, <1>8 DEF Promise!Next, Promise!Tell
<1>9. CASE o[f] = "pending" /\ n[f] = "cancelled"
  <2> DEFINE S == {f}
  <2>1. S \in SUBSET Fetches /\ \A g \in S : o[g] = "pending"
    BY <1>9
  <2>2. n = [g \in Fetches |-> IF g \in S THEN "cancelled" ELSE o[g]]
    BY <1>5, <1>9
  <2> HIDE DEF S, o, n
  <2>3. Promise!Cancel(S)
    BY <1>1, <2>1, <2>2 DEF Promise!Cancel, o
  <2> QED
    BY <2>1, <2>3 DEF Promise!Next
<1> QED
  BY <1>4, <1>6, <1>7, <1>8, <1>9

\* A fetch makes each attempt once and cancels none that was answered, as proxy.c
\* demands of it, and gives its originator the promise an attempt gives: one outcome,
\* and none after a cancellation, through every redirection.
THEOREM BothContracts == Spec => ContractsKept
<1>1. HttpInv /\ HttpInv' /\ [Next]_vars =>
        Contract /\ [Promise!Next]_([f \in Fetches |-> Outcome(fetch[f])])
  <2> SUFFICES ASSUME HttpInv, HttpInv', [Next]_vars
               PROVE  Contract /\ [Promise!Next]_([f \in Fetches |-> Outcome(fetch[f])])
    OBVIOUS
  <2>1. CASE \E f \in Fetches : Good(f)
    BY <2>1, NextPromise DEF Good
  <2>2. CASE UNCHANGED vars
    BY <2>2 DEF Contract, vars
  <2> QED
    BY <2>1, <2>2, NextGood
<1> QED
  BY <1>1, InitContracts, Invariant, PTL
     DEF Spec, ContractsKept, Connections!Spec, Promise!Spec, Contract

-----------------------------------------------------------------------------
(* Induction on natural numbers                                              *)

\* A set of natural numbers has a least one.
LEMMA Least ==
    ASSUME NEW S \in SUBSET Nat, S # {}
    PROVE  \E m \in S : \A n \in S : m <= n
<1>1. PICK x \in S : \A y \in S : ~ (<<y, x>> \in OpToRel(<, Nat))
  BY WFMin, NatLessThanWellFounded, Zenon
<1>2. \A y \in S : y < x => <<y, x>> \in OpToRel(<, Nat)
  BY DEF OpToRel
<1>3. \A y \in S : x \in Int /\ y \in Int
  OBVIOUS
<1>4. \A y \in S : ~ (y < x)
  BY <1>1, <1>2, Zenon
<1> QED
  BY <1>3, <1>4

\* A set with 0 and with the successors of its elements has all natural numbers.
LEMMA Induct ==
    ASSUME NEW S, 0 \in S, \A n \in Nat : n \in S => n + 1 \in S
    PROVE  \A n \in Nat : n \in S
<1> SUFFICES ASSUME Nat \ S # {} PROVE FALSE
  OBVIOUS
<1>1. PICK m \in Nat \ S : \A n \in Nat \ S : m <= n
  BY Least
<1>2. m # 0 /\ m - 1 \in Nat /\ m - 1 \in S
  BY <1>1
<1> QED
  BY <1>1, <1>2
-----------------------------------------------------------------------------
(* Blocks                                                                   *)

\* A number is in one way q blocks and a rest.
LEMMA DivRest ==
    ASSUME NEW b \in Nat \ {0}, NEW q \in Nat, NEW r \in 0..b - 1
    PROVE  (q * b + r) \div b = q /\ (q * b + r) % b = r
<1> DEFINE n == q * b + r
           d == n \div b
           m == n % b
<1>1. n \in Nat /\ q * b \in Nat
  OBVIOUS
<1>2. d \in Nat /\ m \in 0..b - 1 /\ n = b * d + m
  BY <1>1
<1> HIDE DEF d, m
<1>3. b * d \in Nat /\ b * d = d * b
  BY <1>2
<1>4. ~(d < q)
  <2> SUFFICES ASSUME d < q PROVE FALSE
    OBVIOUS
  <2>1. (q - d - 1) * b \in Nat
    BY <1>2
  <2>2. q * b = d * b + b + (q - d - 1) * b
    BY <1>2
  <2> QED
    BY <1>1, <1>2, <1>3, <2>1, <2>2
<1>5. ~(q < d)
  <2> SUFFICES ASSUME q < d PROVE FALSE
    OBVIOUS
  <2>1. (d - q - 1) * b \in Nat
    BY <1>2
  <2>2. d * b = q * b + b + (d - q - 1) * b
    BY <1>2
  <2> QED
    BY <1>1, <1>2, <1>3, <2>1, <2>2
<1>6. d = q
  BY <1>2, <1>4, <1>5
<1>7. m = r
  BY <1>1, <1>2, <1>3, <1>6
<1> QED
  BY <1>6, <1>7 DEF d, m

\* A block of a list of blocks lies inside what they are written to.
LEMMA BlockFits ==
    ASSUME NEW n \in Nat, NEW i \in 1..n, NEW j \in 1..BlockSize
    PROVE  /\ (i - 1) * BlockSize \in Nat /\ i * BlockSize = (i - 1) * BlockSize + BlockSize
           /\ i * BlockSize <= BlockSize * n /\ BlockSize * n \in Nat
           /\ (i - 1) * BlockSize + j \in 1..(BlockSize * n)
           /\ ((i - 1) * BlockSize + j - 1) \div BlockSize = i - 1
           /\ ((i - 1) * BlockSize + j - 1) % BlockSize = j - 1
<1> DEFINE b == BlockSize
<1>1. b \in Nat \ {0} /\ i \in Nat /\ i - 1 \in Nat /\ n - i \in Nat /\ j - 1 \in 0..b - 1
  BY EncryptionAssumption
<1>2. (i - 1) * b \in Nat /\ i * b = (i - 1) * b + b /\ b * n \in Nat /\ (n - i) * b \in Nat
  BY <1>1
<1>3. b * n = i * b + (n - i) * b
  BY <1>1
<1>4. i * b <= b * n
  <2> DEFINE u == i * b
             v == (n - i) * b
             w == b * n
  <2>0. u \in Int
    BY <1>1, <1>2
  <2>1. v \in Nat /\ w = u + v
    BY <1>2, <1>3, Zenon
  <2> HIDE DEF u, v, w
  <2>2. u <= w
    BY <2>0, <2>1
  <2> QED
    BY <2>2 DEF u, w
<1>5. ((i - 1) * b + (j - 1)) \div b = i - 1 /\ ((i - 1) * b + (j - 1)) % b = j - 1
  BY <1>1, DivRest
<1>6. (i - 1) * b + (j - 1) = (i - 1) * b + j - 1
  BY <1>1, <1>2
<1>7. (i - 1) * b + j \in 1..(b * n)
  BY <1>1, <1>2, <1>4
<1> QED
  BY <1>2, <1>4, <1>5, <1>6, <1>7

\* The k-th byte of blocks written one behind the other.
LEMMA JoinedAt ==
    ASSUME NEW blocks, NEW k \in 1..(BlockSize * Len(blocks))
    PROVE  Joined(blocks)[k] = blocks[((k - 1) \div BlockSize) + 1][((k - 1) % BlockSize) + 1]
<1> DEFINE size == BlockSize * Len(blocks)
<1>1. k \in 1..size /\ Joined(blocks) = [i \in 1..size |-> blocks[((i - 1) \div BlockSize) + 1][((i - 1) % BlockSize) + 1]]
  BY DEF Joined
<1> HIDE DEF size
<1> QED
  BY <1>1

\* Blocks that were written one behind the other are read as they were.
LEMMA JoinedIs ==
    ASSUME NEW blocks \in Seq(CipherBlock)
    PROVE  ToCrypt(Joined(blocks)) = blocks
<1> DEFINE n == Len(blocks)
           b == BlockSize
           o == Joined(blocks)
<1>1. n \in Nat /\ b \in Nat \ {0} /\ b * n \in Nat
  BY EncryptionAssumption
<1>2. ASSUME NEW i \in 1..n PROVE blocks[i] = [j \in 1..b |-> blocks[i][j]]
  <2>1. blocks[i] \in CipherBlock
    OBVIOUS
  <2> QED
    BY <2>1 DEF CipherBlock
<1>3. blocks = [i \in 1..n |-> blocks[i]]
  OBVIOUS
<1>4. o = [i \in 1..(b * n) |-> blocks[((i - 1) \div b) + 1][((i - 1) % b) + 1]]
  BY Zenon DEF Joined
<1> HIDE DEF n, o
<1>5. Len(o) = b * n
  BY <1>1, <1>4
<1>6. Blocks(o) = n /\ ~Partial(o)
  <2>1. 0 \in 0..b - 1
    BY <1>1
  <2>2. (n * b + 0) \div b = n /\ (n * b + 0) % b = 0
    BY <1>1, <2>1, DivRest
  <2>3. n * b + 0 = b * n
    BY <1>1
  <2> QED
    BY <1>5, <2>2, <2>3 DEF Blocks, Partial
<1>7. ASSUME NEW i \in 1..n PROVE BlockOf(o, i) = blocks[i]
  <2> DEFINE from == (i - 1) * b
             to == i * b
  <2>1. from \in Nat /\ to = from + b /\ to <= b * n
    <3>1. 1 \in 1..b
      BY <1>1
    <3> QED
      BY <1>1, <3>1, BlockFits
  <2>2. ASSUME NEW j \in 1..b PROVE from + j \in 1..(b * n) /\ o[from + j] = blocks[i][j]
    <3>1. /\ from + j \in 1..(b * n)
          /\ (from + j - 1) \div b = i - 1 /\ (from + j - 1) % b = j - 1
      BY <1>1, BlockFits
    <3>2. o[from + j] = blocks[((from + j - 1) \div b) + 1][((from + j - 1) % b) + 1]
      BY <1>1, <3>1, JoinedAt DEF o, n
    <3>3. (i - 1) + 1 = i /\ (j - 1) + 1 = j
      BY <1>1
    <3> QED
      BY <3>1, <3>2, <3>3
  <2>3. BlockOf(o, i) = [j \in 1..b |-> o[from + j]]
    <3>1. BlockOf(o, i) = SubSeq(o, from + 1, to)
      BY DEF BlockOf
    <3> HIDE DEF from, to
    <3>2. \A j \in 1..b : from + j \in 1..Len(o)
      BY <1>5, <2>2
    <3>3. SubSeq(o, from + 1, to) = [j \in 1..(1 + to - (from + 1)) |-> o[j + (from + 1) - 1]]
      BY <1>1, <2>1
    <3>4. 1 + to - (from + 1) = b
      BY <1>1, <2>1
    <3>5. \A j \in 1..b : j + (from + 1) - 1 = from + j
      BY <1>1, <2>1
    <3> QED
      BY <3>1, <3>3, <3>4, <3>5
  <2>4. BlockOf(o, i) = [j \in 1..b |-> blocks[i][j]]
    BY <2>2, <2>3
  <2> QED
    BY <1>2, <2>4
<1>8. ToCrypt(o) = [i \in 1..(n + 0) |-> IF i <= n THEN BlockOf(o, i) ELSE Rest(o)]
  BY <1>6, Zenon DEF ToCrypt
<1>9. ToCrypt(o) = [i \in 1..n |-> BlockOf(o, i)]
  BY <1>1, <1>8
<1>10. ToCrypt(o) = [i \in 1..n |-> blocks[i]]
  BY <1>7, <1>9
<1> QED
  BY <1>3, <1>10 DEF n, o

\* What is worked on are whole blocks.
LEMMA ToCryptIs ==
    ASSUME NEW data \in Data
    PROVE  ToCrypt(data) \in Seq(CipherBlock)
<1> DEFINE n == Blocks(data)
           l == Len(data)
           b == BlockSize
           m == n + (IF Partial(data) THEN 1 ELSE 0)
<1>1. /\ l \in Nat /\ b \in Nat \ {0} /\ data \in Seq({0, 1})
      /\ n \in Nat /\ l = b * n + (l % b) /\ l % b \in 0..b - 1 /\ n = l \div b
  BY EncryptionAssumption DEF Blocks
<1>2. b * n <= l /\ b * n \in Nat /\ b * n = n * b
  BY <1>1
<1> HIDE DEF n, l
<1>3. ASSUME NEW i \in 1..n PROVE BlockOf(data, i) \in CipherBlock
  <2> DEFINE from == (i - 1) * b
             to == i * b
  <2>1. from \in Nat /\ to = from + b /\ to <= b * n
    <3>1. 1 \in 1..b
      BY <1>1
    <3> QED
      BY <1>1, <3>1, BlockFits
  <2>2. BlockOf(data, i) = SubSeq(data, from + 1, to)
    BY DEF BlockOf
  <2> HIDE DEF from, to
  <2>3. /\ SubSeq(data, from + 1, to) = [j \in 1..(1 + to - (from + 1)) |-> data[j + (from + 1) - 1]]
        /\ 1 + to - (from + 1) = b
    BY <1>1, <2>1
  <2>4. \A j \in 1..b : j + (from + 1) - 1 \in 1..l
    BY <1>1, <1>2, <2>1
  <2>5. \A j \in 1..b : data[j + (from + 1) - 1] \in {0, 1}
    <3>1. \A at \in 1..l : data[at] \in {0, 1}
      BY <1>1 DEF l
    <3> QED
      BY <2>4, <3>1, Zenon
  <2>6. SubSeq(data, from + 1, to) = [j \in 1..b |-> data[j + (from + 1) - 1]]
    BY <2>3
  <2> QED
    BY <2>2, <2>5, <2>6 DEF CipherBlock
<1>4. Rest(data) \in CipherBlock
  <2>1. Rest(data) = [i \in 1..b |-> IF b * n + i <= l THEN data[b * n + i] ELSE 0]
    BY <1>2 DEF Rest, n, l
  <2>2. \A i \in 1..b : b * n + i <= l => b * n + i \in 1..l
    BY <1>1, <1>2
  <2>3. \A i \in 1..b : (IF b * n + i <= l THEN data[b * n + i] ELSE 0) \in {0, 1}
    <3>1. \A k \in 1..l : data[k] \in {0, 1}
      BY <1>1 DEF l
    <3>2. 0 \in {0, 1}
      OBVIOUS
    <3> QED
      BY ONLY <2>2, <3>1, <3>2, Zenon
  <2> QED
    BY <2>1, <2>3 DEF CipherBlock
<1>5. ToCrypt(data) = [i \in 1..m |-> IF i <= n THEN BlockOf(data, i) ELSE Rest(data)]
  BY Zenon DEF ToCrypt, n
<1>6. m \in Nat /\ \A i \in 1..m : i <= n => i \in 1..n
  BY <1>1
<1> HIDE DEF m
<1>7. \A i \in 1..m : (IF i <= n THEN BlockOf(data, i) ELSE Rest(data)) \in CipherBlock
  BY <1>3, <1>4, <1>6
<1> QED
  BY <1>5, <1>6, <1>7

-----------------------------------------------------------------------------
(* Encryption by blocks                                                     *)

\* Keys of DES or Triple-DES, an initialisation vector.
GoodContext(c) == c.keys \in DesKey /\ c.iv \in CipherBlock

\* Each block is a permutation.
LEMMA BlockBack ==
    ASSUME NEW c, GoodContext(c), NEW b \in CipherBlock
    PROVE  EncryptBlock(c, b) \in CipherBlock /\ DecryptBlock(c, EncryptBlock(c, b)) = b
<1> DEFINE keys == c.keys
<1>1. keys \in DesKey /\ Len(keys) \in {1, 3} /\ keys \in Seq(ToSet(keys))
  BY EncryptionAssumption DEF GoodContext
<1>2. \A i \in DOMAIN keys : \A d \in CipherBlock :
        /\ Encipher(keys[i], d) \in CipherBlock /\ Decipher(keys[i], Encipher(keys[i], d)) = d
        /\ Decipher(keys[i], d) \in CipherBlock /\ Encipher(keys[i], Decipher(keys[i], d)) = d
  BY <1>1, EncryptionAssumption
<1>3. DOMAIN keys = 1..Len(keys)
  BY <1>1
<1>4. EncryptBlock(c, b) = IF Len(keys) = 1 THEN Encipher(keys[1], b)
                           ELSE Encipher(keys[3], Decipher(keys[2], Encipher(keys[1], b)))
  BY Zenon DEF EncryptBlock
<1>5. \A d : DecryptBlock(c, d) = IF Len(keys) = 1 THEN Decipher(keys[1], d)
                                  ELSE Decipher(keys[1], Encipher(keys[2], Decipher(keys[3], d)))
  BY Zenon DEF DecryptBlock
<1> HIDE DEF keys
<1>6. CASE Len(keys) = 1
  <2>1. 1 \in DOMAIN keys
    BY <1>3, <1>6
  <2> QED
    BY <1>2, <1>4, <1>5, <1>6, <2>1
<1>7. CASE Len(keys) = 3
  <2>1. 1 \in DOMAIN keys /\ 2 \in DOMAIN keys /\ 3 \in DOMAIN keys /\ Len(keys) # 1
    BY <1>3, <1>7
  <2> DEFINE u == Encipher(keys[1], b)
             v == Decipher(keys[2], u)
             w == Encipher(keys[3], v)
  <2>2. u \in CipherBlock /\ Decipher(keys[1], u) = b
    BY <1>2, <2>1
  <2>3. v \in CipherBlock /\ Encipher(keys[2], v) = u
    <3> HIDE DEF u
    <3> QED
      BY <1>2, <2>1, <2>2
  <2>4. w \in CipherBlock /\ Decipher(keys[3], w) = v
    <3> HIDE DEF v
    <3> QED
      BY <1>2, <2>1, <2>3
  <2>5. EncryptBlock(c, b) = w
    BY <1>4, <2>1, Zenon
  <2>6. DecryptBlock(c, w) = Decipher(keys[1], Encipher(keys[2], Decipher(keys[3], w)))
    BY <1>5, <2>1, Zenon
  <2> HIDE DEF u, v, w
  <2> QED
    BY <2>2, <2>3, <2>4, <2>5, <2>6
<1> QED
  BY <1>1, <1>6, <1>7 DEF keys

\* What was combined with a block twice is as it was.
LEMMA XorBack ==
    ASSUME NEW a \in CipherBlock, NEW b \in CipherBlock
    PROVE  Xor(a, b) \in CipherBlock /\ Xor(Xor(a, b), a) = b
<1> DEFINE x == Xor(a, b)
<1>1. /\ DOMAIN a = 1..BlockSize /\ b = [i \in 1..BlockSize |-> b[i]]
      /\ \A i \in 1..BlockSize : a[i] \in {0, 1} /\ b[i] \in {0, 1}
  BY DEF CipherBlock
<1>2. x = [i \in 1..BlockSize |-> (a[i] + b[i]) % 2]
  BY <1>1 DEF Xor
<1> HIDE DEF x
<1>3. \A i \in 1..BlockSize : x[i] = (a[i] + b[i]) % 2 /\ x[i] \in {0, 1}
  BY <1>1, <1>2
<1>4. x \in CipherBlock
  BY <1>2, <1>3 DEF CipherBlock
<1>5. Xor(x, a) = [i \in 1..BlockSize |-> (x[i] + a[i]) % 2]
  BY <1>2 DEF Xor
<1>6. \A i \in 1..BlockSize : (x[i] + a[i]) % 2 = b[i]
  BY <1>1, <1>3
<1>7. Xor(x, a) = b
  BY <1>1, <1>5, <1>6
<1> QED
  BY <1>4, <1>7 DEF x

\* Chained, a block is combined with what came out before it.
LEMMA CbcIs ==
    ASSUME NEW c, GoodContext(c), NEW blocks \in Seq(CipherBlock)
    PROVE  \E out : /\ CbcEncrypt(c, blocks) = [i \in 1..Len(blocks) |-> out[i]]
                    /\ out[0] = c.iv /\ \A i \in 0..Len(blocks) : out[i] \in CipherBlock
                    /\ \A i \in 1..Len(blocks) : out[i] = EncryptBlock(c, Xor(out[i - 1], blocks[i]))
<1> DEFINE n == Len(blocks)
           More(x, i) == EncryptBlock(c, Xor(x, blocks[i]))
           Fits(f, m) == f = [i \in 0..m |-> IF i = 0 THEN c.iv ELSE More(f[i - 1], i)]
           S == {m \in Nat : \E f : Fits(f, m)}
           out == CHOOSE f : Fits(f, n)
<1>0. n \in Nat /\ DOMAIN blocks = 1..n
  OBVIOUS
<1>1. CbcEncrypt(c, blocks) = [i \in DOMAIN blocks |-> out[i]]
  BY Zenon DEF CbcEncrypt
<1>2. \A x \in CipherBlock : \A i \in 1..n : More(x, i) \in CipherBlock
  <2> TAKE x \in CipherBlock
  <2> TAKE i \in 1..n
  <2>1. blocks[i] \in CipherBlock
    OBVIOUS
  <2>2. Xor(x, blocks[i]) \in CipherBlock
    BY <2>1, XorBack
  <2> QED
    BY <2>2, BlockBack
<1> HIDE DEF More, out, n
<1>3. 0 \in S
  <2>1. Fits([i \in 0..0 |-> c.iv], 0)
    OBVIOUS
  <2> QED
    BY <2>1
<1>4. ASSUME NEW m \in Nat, m \in S PROVE m + 1 \in S
  <2>1. PICK f : Fits(f, m)
    BY <1>4
  <2> DEFINE e == More(f[m], m + 1)
             g == [i \in 0..m + 1 |-> IF i <= m THEN f[i] ELSE e]
  <2>2. \A i \in 0..m : f[i] = IF i = 0 THEN c.iv ELSE More(f[i - 1], i)
    BY <2>1
  <2>3. g[m + 1] = e /\ \A i \in 0..m : g[i] = f[i]
    OBVIOUS
  <2>4. g = [i \in 0..m + 1 |-> g[i]]
    OBVIOUS
  <2>5. e = More(f[m], m + 1)
    OBVIOUS
  <2> HIDE DEF g, e
  <2>6. ASSUME NEW i \in 0..m + 1 PROVE g[i] = IF i = 0 THEN c.iv ELSE More(g[i - 1], i)
    <3>1. CASE i = m + 1
      <4>1. i # 0 /\ i - 1 = m /\ g[m] = f[m]
        BY <2>3, <3>1
      <4> QED
        BY <2>3, <2>5, <3>1, <4>1, Zenon
    <3>2. CASE i \in 1..m
      <4>1. g[i] = f[i] /\ g[i - 1] = f[i - 1] /\ i # 0 /\ i \in 0..m
        BY <2>3, <3>2
      <4> QED
        BY <2>2, <4>1, Zenon
    <3>3. CASE i = 0
      BY <2>2, <2>3, <3>3
    <3> QED
      BY <3>1, <3>2, <3>3
  <2>7. Fits(g, m + 1)
    BY <2>4, <2>6
  <2> HIDE DEF Fits
  <2> QED
    BY <2>7
<1>5. Fits(out, n)
  <2>1. \A m \in Nat : m \in S
    <3> HIDE DEF S
    <3> QED
      BY <1>3, <1>4, Induct
  <2>2. \E f : Fits(f, n)
    BY <1>0, <2>1
  <2> QED
    BY <2>2, Zenon DEF out
<1>6. \A i \in 0..n : out[i] = IF i = 0 THEN c.iv ELSE More(out[i - 1], i)
  BY <1>5
<1>7. \A i \in 1..n : out[i] = More(out[i - 1], i)
  BY <1>0, <1>6
<1>8. out[0] = c.iv
  BY <1>0, <1>6
<1> DEFINE Q == {m \in Nat : m <= n => out[m] \in CipherBlock}
<1>9. 0 \in Q
  BY <1>8 DEF GoodContext
<1>10. ASSUME NEW m \in Nat, m \in Q PROVE m + 1 \in Q
  <2> SUFFICES ASSUME m + 1 <= n PROVE out[m + 1] \in CipherBlock
    OBVIOUS
  <2>1. m <= n /\ m + 1 \in 1..n /\ (m + 1) - 1 = m
    BY <1>0
  <2>2. out[m] \in CipherBlock
    BY <1>10, <2>1
  <2> QED
    BY <1>2, <1>7, <2>1, <2>2
<1>11. \A m \in 0..n : out[m] \in CipherBlock
  <2>1. \A m \in Nat : m \in Q
    <3> HIDE DEF Q
    <3> QED
      BY <1>9, <1>10, Induct
  <2> QED
    BY <1>0, <2>1
<1> QED
  BY <1>0, <1>1, <1>7, <1>8, <1>11 DEF n, More

\* Decryption in the context of the encryption.
LEMMA PlainBack ==
    ASSUME NEW c, GoodContext(c), NEW data \in Data
    PROVE  Decrypted(c, Joined(Encrypted(c, data))) = ToCrypt(data)
<1> DEFINE blocks == ToCrypt(data)
           n == Len(blocks)
<1>1. blocks \in Seq(CipherBlock) /\ n \in Nat /\ blocks = [i \in 1..n |-> blocks[i]]
  BY ToCryptIs
<1> HIDE DEF blocks
<1>2. \A i \in 1..n : blocks[i] \in CipherBlock
  BY <1>1
<1>3. CASE c.mode = "ecb"
  <2> DEFINE out == EcbEncrypt(c, blocks)
  <2>1. out = [i \in 1..n |-> EncryptBlock(c, blocks[i])]
    BY <1>1 DEF EcbEncrypt
  <2>2. \A i \in 1..n : EncryptBlock(c, blocks[i]) \in CipherBlock /\ DecryptBlock(c, EncryptBlock(c, blocks[i])) = blocks[i]
    BY <1>2, BlockBack
  <2> HIDE DEF out
  <2>3. out \in Seq(CipherBlock) /\ DOMAIN out = 1..n
    BY <1>1, <2>1, <2>2
  <2>4. \A i \in 1..n : DecryptBlock(c, out[i]) = blocks[i]
    BY <2>1, <2>2
  <2>5. ToCrypt(Joined(out)) = out
    BY <2>3, JoinedIs
  <2>6. EcbDecrypt(c, out) = [i \in 1..n |-> DecryptBlock(c, out[i])]
    BY <2>3 DEF EcbDecrypt
  <2>7. EcbDecrypt(c, out) = blocks
    BY <1>1, <2>4, <2>6
  <2>8. Encrypted(c, data) = out
    BY <1>3, Zenon DEF Encrypted, out, blocks
  <2>9. Decrypted(c, Joined(out)) = EcbDecrypt(c, ToCrypt(Joined(out)))
    BY <1>3, Zenon DEF Decrypted
  <2> QED
    BY <2>5, <2>7, <2>8, <2>9 DEF blocks
<1>4. CASE c.mode # "ecb"
  <2>1. PICK out : /\ CbcEncrypt(c, blocks) = [i \in 1..n |-> out[i]]
                   /\ out[0] = c.iv /\ \A i \in 0..n : out[i] \in CipherBlock
                   /\ \A i \in 1..n : out[i] = EncryptBlock(c, Xor(out[i - 1], blocks[i]))
    BY <1>1, CbcIs
  <2> DEFINE o == CbcEncrypt(c, blocks)
  <2>2. o \in Seq(CipherBlock) /\ DOMAIN o = 1..n /\ \A i \in 1..n : o[i] = out[i]
    BY <1>1, <2>1
  <2> HIDE DEF o
  <2>3. ASSUME NEW i \in 1..n
        PROVE  Xor(DecryptBlock(c, o[i]), IF i = 1 THEN c.iv ELSE o[i - 1]) = blocks[i]
    <3> DEFINE p == out[i - 1]
               x == Xor(p, blocks[i])
    <3>1. i - 1 \in 0..n /\ (i # 1 => i - 1 \in 1..n)
      BY <1>1
    <3>2. p \in CipherBlock /\ blocks[i] \in CipherBlock
      BY <1>2, <2>1, <3>1
    <3>3. (IF i = 1 THEN c.iv ELSE o[i - 1]) = p
      BY <2>1, <2>2, <3>1
    <3>4. o[i] = EncryptBlock(c, x)
      BY <2>1, <2>2
    <3> HIDE DEF p
    <3>5. x \in CipherBlock /\ Xor(x, p) = blocks[i]
      BY <3>2, XorBack
    <3> HIDE DEF x
    <3>6. DecryptBlock(c, o[i]) = x
      BY <3>4, <3>5, BlockBack
    <3> QED
      BY <3>3, <3>5, <3>6
  <2>4. CbcDecrypt(c, o) = [i \in 1..n |-> Xor(DecryptBlock(c, o[i]), IF i = 1 THEN c.iv ELSE o[i - 1])]
    BY <2>2 DEF CbcDecrypt
  <2>5. CbcDecrypt(c, o) = blocks
    BY <1>1, <2>3, <2>4
  <2>6. ToCrypt(Joined(o)) = o
    BY <2>2, JoinedIs
  <2>7. Encrypted(c, data) = o
    BY <1>4, Zenon DEF Encrypted, o, blocks
  <2>8. Decrypted(c, Joined(o)) = CbcDecrypt(c, ToCrypt(Joined(o)))
    BY <1>4, Zenon DEF Decrypted
  <2> QED
    BY <2>5, <2>6, <2>7, <2>8 DEF blocks
<1> QED
  BY <1>3, <1>4

-----------------------------------------------------------------------------
(* The stream of RC4                                                        *)

StreamByte == 0..StreamSize - 1
StreamState == [StreamByte -> StreamByte]
StreamContext == [state : StreamState, x : StreamByte, y : StreamByte, key : StreamKey]

LEMMA SwapIs ==
    ASSUME NEW s \in StreamState, NEW x \in StreamByte, NEW y \in StreamByte
    PROVE  Swap(s, x, y) \in StreamState
  BY DEF Swap, StreamState

\* A number of the size of the state.
LEMMA StreamRest ==
    ASSUME NEW n \in Nat
    PROVE  n % StreamSize \in StreamByte
  BY EncryptionAssumption DEF StreamByte

\* A key that was set gives a context.
LEMMA KeyedIs ==
    ASSUME NEW k \in StreamKey
    PROVE  Keyed(k) \in StreamContext /\ Keyed(k).key = k
<1> DEFINE n == StreamSize
           M == [state : StreamState, y : StreamByte]
           start == [state |-> FreshStream.state, y |-> 0]
           Y(m, i) == (k[((i - 1) % Len(k)) + 1] + m.state[i - 1] + m.y) % StreamSize
           More(m, i) == [state |-> Swap(m.state, i - 1, Y(m, i)), y |-> Y(m, i)]
           Fits(f, u) == f = [i \in 0..u |-> IF i = 0 THEN start ELSE More(f[i - 1], i)]
           S == {u \in Nat : \E f : Fits(f, u)}
           mix == CHOOSE f : Fits(f, n)
<1>0. n \in Nat /\ n > 0 /\ k \in Seq(Nat) /\ Len(k) \in Nat /\ Len(k) > 0
  <2>1. k # <<>> /\ k \in Seq(Nat)
    BY EncryptionAssumption
  <2>2. Len(k) \in Nat /\ Len(k) # 0
    BY <2>1
  <2> QED
    BY <2>1, <2>2, EncryptionAssumption
<1>1. Keyed(k) = [state |-> mix[n].state, x |-> 0, y |-> 0, key |-> k]
  BY Zenon DEF Keyed
<1>2. 0 \in StreamByte /\ start \in M
  <2>1. 0 \in StreamByte
    BY <1>0 DEF StreamByte
  <2>2. FreshStream.state \in StreamState
    BY DEF FreshStream, StreamState, StreamByte
  <2> QED
    BY <2>1, <2>2
<1>3. ASSUME NEW m \in M, NEW i \in 1..n PROVE More(m, i) \in M
  <2>1. m.state \in StreamState /\ m.y \in StreamByte
    OBVIOUS
  <2>2. i - 1 \in StreamByte /\ i - 1 \in Nat
    BY <1>0 DEF StreamByte
  <2>3. m.state[i - 1] \in StreamByte
    BY <2>1, <2>2 DEF StreamState
  <2>4. (i - 1) % Len(k) \in 0..Len(k) - 1
    BY <1>0, <2>2
  <2>5. k[((i - 1) % Len(k)) + 1] \in Nat
    <3>1. ((i - 1) % Len(k)) + 1 \in 1..Len(k)
      BY <1>0, <2>4
    <3> QED
      BY <1>0, <3>1
  <2>6. k[((i - 1) % Len(k)) + 1] + m.state[i - 1] + m.y \in Nat
    <3>1. m.state[i - 1] \in Nat /\ m.y \in Nat
      BY <1>0, <2>1, <2>3 DEF StreamByte
    <3> QED
      BY <2>5, <3>1
  <2>7. Y(m, i) \in StreamByte
    BY <2>6, StreamRest
  <2> HIDE DEF Y
  <2>8. Swap(m.state, i - 1, Y(m, i)) \in StreamState
    BY <2>1, <2>2, <2>7, SwapIs
  <2> QED
    BY <2>7, <2>8
<1> HIDE DEF More, start, mix, n, M
<1>4. 0 \in S
  <2>1. Fits([i \in 0..0 |-> start], 0)
    OBVIOUS
  <2> QED
    BY <2>1
<1>5. ASSUME NEW u \in Nat, u \in S PROVE u + 1 \in S
  <2>1. PICK f : Fits(f, u)
    BY <1>5
  <2> DEFINE e == More(f[u], u + 1)
             g == [i \in 0..u + 1 |-> IF i <= u THEN f[i] ELSE e]
  <2>2. \A i \in 0..u : f[i] = IF i = 0 THEN start ELSE More(f[i - 1], i)
    BY <2>1
  <2>3. g[u + 1] = e /\ \A i \in 0..u : g[i] = f[i]
    OBVIOUS
  <2>4. g = [i \in 0..u + 1 |-> g[i]]
    OBVIOUS
  <2>5. e = More(f[u], u + 1)
    OBVIOUS
  <2> HIDE DEF g, e
  <2>6. ASSUME NEW i \in 0..u + 1 PROVE g[i] = IF i = 0 THEN start ELSE More(g[i - 1], i)
    <3>1. CASE i = u + 1
      <4>1. i # 0 /\ i - 1 = u /\ g[u] = f[u]
        BY <2>3, <3>1
      <4> QED
        BY <2>3, <2>5, <3>1, <4>1, Zenon
    <3>2. CASE i \in 1..u
      <4>1. g[i] = f[i] /\ g[i - 1] = f[i - 1] /\ i # 0 /\ i \in 0..u
        BY <2>3, <3>2
      <4> QED
        BY <2>2, <4>1, Zenon
    <3>3. CASE i = 0
      BY <2>2, <2>3, <3>3
    <3> QED
      BY <3>1, <3>2, <3>3
  <2>7. Fits(g, u + 1)
    BY <2>4, <2>6
  <2> HIDE DEF Fits
  <2> QED
    BY <2>7
<1>6. Fits(mix, n)
  <2>1. \A u \in Nat : u \in S
    <3> HIDE DEF S
    <3> QED
      BY <1>4, <1>5, Induct
  <2>2. \E f : Fits(f, n)
    BY <1>0, <2>1
  <2> QED
    BY <2>2, Zenon DEF mix
<1>7. \A i \in 0..n : mix[i] = IF i = 0 THEN start ELSE More(mix[i - 1], i)
  BY <1>6
<1> DEFINE Q == {u \in Nat : u <= n => mix[u] \in M}
<1>8. 0 \in Q
  <2>1. mix[0] = start
    BY <1>0, <1>7
  <2> QED
    BY <1>2, <2>1
<1>9. ASSUME NEW u \in Nat, u \in Q PROVE u + 1 \in Q
  <2> SUFFICES ASSUME u + 1 <= n PROVE mix[u + 1] \in M
    OBVIOUS
  <2>1. u <= n /\ u + 1 \in 0..n /\ u + 1 \in 1..n /\ (u + 1) - 1 = u /\ u + 1 # 0
    BY <1>0
  <2>2. mix[u] \in M
    BY <1>9, <2>1
  <2>3. mix[u + 1] = More(mix[u], u + 1)
    BY <1>7, <2>1
  <2> QED
    BY <1>3, <2>1, <2>2, <2>3
<1>10. mix[n] \in M
  <2>1. \A u \in Nat : u \in Q
    <3> HIDE DEF Q
    <3> QED
      BY <1>8, <1>9, Induct
  <2> QED
    BY <1>0, <2>1
<1>11. mix[n].state \in StreamState
  BY <1>10 DEF M
<1> QED
  BY <1>1, <1>2, <1>11 DEF StreamContext

\* A byte more.
LEMMA NextByteIs ==
    ASSUME NEW r \in StreamContext
    PROVE  /\ NextByte(r).context \in StreamContext /\ NextByte(r).byte \in StreamByte
           /\ NextByte(r).context.key = r.key
<1> DEFINE x == (r.x + 1) % StreamSize
           y == (r.state[x] + r.y) % StreamSize
           s == Swap(r.state, x, y)
           z == (s[x] + s[y]) % StreamSize
<1>1. r.state \in StreamState /\ r.x \in StreamByte /\ r.y \in StreamByte /\ r.key \in StreamKey
  BY DEF StreamContext
<1>2. \A b \in StreamByte : b \in Nat
  BY EncryptionAssumption DEF StreamByte
<1>3. x \in StreamByte
  <2>1. r.x + 1 \in Nat
    BY <1>1, <1>2
  <2> QED
    BY <2>1, StreamRest
<1> HIDE DEF x
<1>4. y \in StreamByte
  <2>1. r.state[x] \in StreamByte
    BY <1>1, <1>3 DEF StreamState
  <2>2. r.state[x] + r.y \in Nat
    BY <1>1, <1>2, <2>1
  <2> QED
    BY <2>2, StreamRest
<1> HIDE DEF y
<1>5. s \in StreamState
  BY <1>1, <1>3, <1>4, SwapIs
<1> HIDE DEF s
<1>6. z \in StreamByte
  <2>1. s[x] \in StreamByte /\ s[y] \in StreamByte
    BY <1>3, <1>4, <1>5 DEF StreamState
  <2>2. s[x] + s[y] \in Nat
    BY <1>2, <2>1
  <2> QED
    BY <2>2, StreamRest
<1> HIDE DEF z
<1>7. s[z] \in StreamByte
  BY <1>5, <1>6 DEF StreamState
<1>8. NextByte(r) = [context |-> [state |-> s, x |-> x, y |-> y, key |-> r.key], byte |-> s[z]]
  BY Zenon DEF NextByte, s, z, x, y
<1> QED
  BY <1>1, <1>3, <1>4, <1>5, <1>7, <1>8 DEF StreamContext

\* The bytes one after the other, n of them by one function.
TakenOne(t) == [context |-> NextByte(t.context).context, bytes |-> Append(t.bytes, NextByte(t.context).byte)]
TakenNone(r) == [context |-> r, bytes |-> <<>>]
TakenBy(go, r, n) == go = [i \in 0..n |-> IF i = 0 THEN TakenNone(r) ELSE TakenOne(go[i - 1])]

LEMMA TakenExists ==
    ASSUME NEW r, NEW n \in Nat
    PROVE  \E go : TakenBy(go, r, n) /\ Taken(r, n) = go[n]
<1> DEFINE go == CHOOSE f : TakenBy(f, r, n)
           S == {m \in Nat : \E f : TakenBy(f, r, m)}
<1>1. Taken(r, n) = go[n]
  BY Zenon DEF Taken, TakenBy, TakenNone, TakenOne
<1>2. 0 \in S
  <2>1. TakenBy([i \in 0..0 |-> TakenNone(r)], r, 0)
    BY DEF TakenBy
  <2> QED
    BY <2>1
<1>3. ASSUME NEW m \in Nat, m \in S PROVE m + 1 \in S
  <2>1. PICK f : TakenBy(f, r, m)
    BY <1>3
  <2> DEFINE e == TakenOne(f[m])
             g == [i \in 0..m + 1 |-> IF i <= m THEN f[i] ELSE e]
  <2>2. \A i \in 0..m : f[i] = IF i = 0 THEN TakenNone(r) ELSE TakenOne(f[i - 1])
    BY <2>1 DEF TakenBy
  <2>3. g[m + 1] = e /\ \A i \in 0..m : g[i] = f[i]
    OBVIOUS
  <2>4. g = [i \in 0..m + 1 |-> g[i]]
    OBVIOUS
  <2>5. e = TakenOne(f[m])
    OBVIOUS
  <2> HIDE DEF g, e
  <2>6. ASSUME NEW i \in 0..m + 1 PROVE g[i] = IF i = 0 THEN TakenNone(r) ELSE TakenOne(g[i - 1])
    <3>1. CASE i = m + 1
      <4>1. i # 0 /\ i - 1 = m /\ g[m] = f[m]
        BY <2>3, <3>1
      <4> QED
        BY <2>3, <2>5, <3>1, <4>1, Zenon
    <3>2. CASE i \in 1..m
      <4>1. g[i] = f[i] /\ g[i - 1] = f[i - 1] /\ i # 0 /\ i \in 0..m
        BY <2>3, <3>2
      <4> QED
        BY <2>2, <4>1, Zenon
    <3>3. CASE i = 0
      BY <2>2, <2>3, <3>3
    <3> QED
      BY <3>1, <3>2, <3>3
  <2>7. TakenBy(g, r, m + 1)
    BY <2>4, <2>6 DEF TakenBy
  <2> QED
    BY <2>7
<1>4. TakenBy(go, r, n)
  <2>1. \A m \in Nat : m \in S
    <3> HIDE DEF S
    <3> QED
      BY <1>2, <1>3, Induct
  <2>2. \E f : TakenBy(f, r, n)
    BY <2>1
  <2> HIDE DEF TakenBy
  <2> QED
    BY <2>2, Zenon
<1> HIDE DEF go
<1> QED
  BY <1>1, <1>4

\* None, or one after the others.
LEMMA TakenIs ==
    ASSUME NEW r, NEW n \in Nat
    PROVE  Taken(r, 0) = TakenNone(r) /\ Taken(r, n + 1) = TakenOne(Taken(r, n))
<1>1. PICK f : TakenBy(f, r, n) /\ Taken(r, n) = f[n]
  BY TakenExists
<1>2. n + 1 \in Nat /\ 0 \in Nat
  OBVIOUS
<1>3. PICK g : TakenBy(g, r, n + 1) /\ Taken(r, n + 1) = g[n + 1]
  BY <1>2, TakenExists
<1>4. PICK h : TakenBy(h, r, 0) /\ Taken(r, 0) = h[0]
  BY <1>2, TakenExists
<1>5. \A i \in 0..n : f[i] = IF i = 0 THEN TakenNone(r) ELSE TakenOne(f[i - 1])
  BY <1>1 DEF TakenBy
<1>6. \A i \in 0..n + 1 : g[i] = IF i = 0 THEN TakenNone(r) ELSE TakenOne(g[i - 1])
  BY <1>3 DEF TakenBy
<1>7. h[0] = TakenNone(r)
  BY <1>4 DEF TakenBy
<1> DEFINE S == {i \in Nat : i <= n => f[i] = g[i]}
<1>8. 0 \in S
  <2>1. f[0] = TakenNone(r) /\ g[0] = TakenNone(r)
    BY <1>5, <1>6
  <2> QED
    BY <2>1
<1>9. ASSUME NEW i \in Nat, i \in S PROVE i + 1 \in S
  <2> SUFFICES ASSUME i + 1 <= n PROVE f[i + 1] = g[i + 1]
    OBVIOUS
  <2>1. i <= n /\ i + 1 \in 0..n /\ i + 1 \in 0..n + 1 /\ (i + 1) - 1 = i /\ i + 1 # 0
    OBVIOUS
  <2>2. f[i] = g[i]
    BY <1>9, <2>1
  <2>3. f[i + 1] = TakenOne(f[i])
    BY <1>5, <2>1
  <2>4. g[i + 1] = TakenOne(g[i])
    BY <1>6, <2>1
  <2> QED
    BY <2>2, <2>3, <2>4
<1>10. f[n] = g[n]
  <2>1. \A i \in Nat : i \in S
    <3> HIDE DEF S
    <3> QED
      BY <1>8, <1>9, Induct
  <2> QED
    BY <2>1
<1>11. g[n + 1] = TakenOne(g[n])
  <2>1. n + 1 \in 0..n + 1 /\ n + 1 # 0 /\ (n + 1) - 1 = n
    OBVIOUS
  <2> QED
    BY <1>6, <2>1
<1> QED
  BY <1>1, <1>3, <1>4, <1>7, <1>10, <1>11

\* What is taken is a context of the same key and bytes.
LEMMA TakenType ==
    ASSUME NEW r \in StreamContext, NEW n \in Nat
    PROVE  /\ Taken(r, n).context \in StreamContext /\ Taken(r, n).context.key = r.key
           /\ Taken(r, n).bytes \in Seq(StreamByte) /\ Len(Taken(r, n).bytes) = n
<1> DEFINE Fine(m) == /\ Taken(r, m).context \in StreamContext /\ Taken(r, m).context.key = r.key
                      /\ Taken(r, m).bytes \in Seq(StreamByte) /\ Len(Taken(r, m).bytes) = m
           S == {m \in Nat : Fine(m)}
<1>1. 0 \in S
  <2>1. Taken(r, 0) = TakenNone(r)
    BY TakenIs
  <2>2. Taken(r, 0).context = r /\ Taken(r, 0).bytes = <<>>
    BY <2>1 DEF TakenNone
  <2>3. <<>> \in Seq(StreamByte) /\ Len(<<>>) = 0
    OBVIOUS
  <2>4. Fine(0)
    BY <2>2, <2>3
  <2> HIDE DEF Fine
  <2> QED
    BY <2>4
<1>2. ASSUME NEW m \in Nat, m \in S PROVE m + 1 \in S
  <2> DEFINE t == Taken(r, m)
             b == NextByte(t.context)
  <2>1. t.context \in StreamContext /\ t.context.key = r.key /\ t.bytes \in Seq(StreamByte) /\ Len(t.bytes) = m
    BY <1>2
  <2>2. Taken(r, m + 1) = [context |-> b.context, bytes |-> Append(t.bytes, b.byte)]
    BY TakenIs DEF TakenOne
  <2> HIDE DEF t
  <2>3. b.context \in StreamContext /\ b.byte \in StreamByte /\ b.context.key = t.context.key
    BY <2>1, NextByteIs
  <2> HIDE DEF b
  <2>4. /\ Taken(r, m + 1).context = b.context
        /\ Taken(r, m + 1).bytes = Append(t.bytes, b.byte)
    BY <2>2
  <2>5. Append(t.bytes, b.byte) \in Seq(StreamByte) /\ Len(Append(t.bytes, b.byte)) = m + 1
    BY <2>1, <2>3
  <2>6. Fine(m + 1)
    BY <2>1, <2>3, <2>4, <2>5
  <2> HIDE DEF Fine
  <2> QED
    BY <2>6
<1>3. \A m \in Nat : m \in S
  <2> HIDE DEF S
  <2> QED
    BY <1>1, <1>2, Induct
<1> QED
  BY <1>3

\* Taken in two calls, the stream is the one taken in one.
LEMMA TakenTwice ==
    ASSUME NEW r \in StreamContext, NEW m \in Nat, NEW n \in Nat
    PROVE  /\ Taken(r, m + n).context = Taken(Taken(r, m).context, n).context
           /\ Taken(r, m + n).bytes = Taken(r, m).bytes \o Taken(Taken(r, m).context, n).bytes
<1> DEFINE a == Taken(r, m)
           c == a.context
           Same(i) == /\ Taken(r, m + i).context = Taken(c, i).context
                      /\ Taken(r, m + i).bytes = a.bytes \o Taken(c, i).bytes
           S == {i \in Nat : Same(i)}
<1>1. c \in StreamContext /\ a.bytes \in Seq(StreamByte)
  BY TakenType
<1>2. 0 \in S
  <2>1. Taken(c, 0) = TakenNone(c)
    BY TakenIs
  <2>2. Taken(c, 0).context = c /\ Taken(c, 0).bytes = <<>>
    BY <2>1 DEF TakenNone
  <2>3. m + 0 = m
    OBVIOUS
  <2> HIDE DEF c
  <2>4. Taken(r, m + 0) = a
    BY <2>3
  <2> HIDE DEF a
  <2>5. a.bytes \o <<>> = a.bytes
    BY <1>1
  <2>6. Same(0)
    BY <2>2, <2>4, <2>5 DEF c
  <2> QED
    BY <2>6
<1>3. ASSUME NEW i \in Nat, i \in S PROVE i + 1 \in S
  <2> DEFINE t == Taken(r, m + i)
             u == Taken(c, i)
             b == NextByte(u.context)
  <2>1. t.context = u.context /\ t.bytes = a.bytes \o u.bytes
    BY <1>3
  <2>2. m + i \in Nat /\ m + (i + 1) = (m + i) + 1
    OBVIOUS
  <2>3. Taken(r, m + (i + 1)) = TakenOne(t)
    BY <2>2, TakenIs
  <2>4. Taken(c, i + 1) = TakenOne(u)
    BY TakenIs
  <2>5. u.context \in StreamContext /\ u.bytes \in Seq(StreamByte)
    <3> HIDE DEF c
    <3> QED
      BY <1>1, TakenType
  <2> HIDE DEF a, c, t, u
  <2>6. b.byte \in StreamByte
    BY <2>5, NextByteIs
  <2>7. TakenOne(t) = [context |-> b.context, bytes |-> Append(t.bytes, b.byte)]
    BY <2>1 DEF TakenOne
  <2>8. TakenOne(u) = [context |-> b.context, bytes |-> Append(u.bytes, b.byte)]
    BY DEF TakenOne
  <2> HIDE DEF b
  <2>9. Append(a.bytes \o u.bytes, b.byte) = a.bytes \o Append(u.bytes, b.byte)
    <3> DEFINE v == a.bytes
               w == u.bytes
               d == b.byte
    <3>1. v \in Seq(StreamByte) /\ w \in Seq(StreamByte) /\ d \in StreamByte
      BY <1>1, <2>5, <2>6
    <3> HIDE DEF v, w, d
    <3>2. Append(v \o w, d) = v \o Append(w, d)
      BY ONLY <3>1
    <3> QED
      BY <3>2 DEF v, w, d
  <2>10. /\ Taken(r, m + (i + 1)).context = b.context /\ Taken(r, m + (i + 1)).bytes = Append(t.bytes, b.byte)
         /\ Taken(c, i + 1).context = b.context /\ Taken(c, i + 1).bytes = Append(u.bytes, b.byte)
    BY <2>3, <2>4, <2>7, <2>8
  <2>11. Same(i + 1)
    BY <2>1, <2>9, <2>10
  <2> HIDE DEF Same
  <2> QED
    BY <2>11
<1>4. \A i \in Nat : i \in S
  <2> HIDE DEF S
  <2> QED
    BY <1>2, <1>3, Induct
<1> QED
  BY <1>4

-----------------------------------------------------------------------------
(* The steps                                                                *)

PlainIsBack == crypt # NoCrypt => Decrypted(crypt.context, crypt.output) = ToCrypt(crypt.data)
\* What the stream gave so far is what it gives from its key on.
StreamOfKey == rc4.key # <<>> =>
    /\ rc4.key \in StreamKey /\ Len(stream) \in Nat
    /\ rc4 = Taken(Keyed(rc4.key), Len(stream)).context
    /\ stream = Taken(Keyed(rc4.key), Len(stream)).bytes
DesContext == des3 \in [mode : {"ecb", "cbc"}, iv : CipherBlock, keys : DesKey]
EncryptionInv == DesContext /\ PlainIsBack /\ StreamOfKey

LEMMA EncryptionStarts == EncryptionInit => EncryptionInv
<1> SUFFICES ASSUME EncryptionInit PROVE EncryptionInv
  OBVIOUS
<1>1. ZeroBlock \in CipherBlock
  BY DEF ZeroBlock, CipherBlock
<1>2. DesContext
  BY <1>1 DEF EncryptionInit, DesContext
<1>3. PlainIsBack
  BY DEF EncryptionInit, PlainIsBack
<1>4. rc4.key = <<>>
  BY DEF EncryptionInit, FreshStream
<1> QED
  BY <1>2, <1>3, <1>4 DEF EncryptionInv, StreamOfKey

LEMMA EncryptKeeps ==
    ASSUME EncryptionInv, NEW data \in Data, Encrypt(data)
    PROVE  EncryptionInv'
<1> DEFINE c == des3
<1>1. /\ crypt' = [data |-> data, output |-> Joined(Encrypted(c, data)), outlen |-> OutLen(data), context |-> c]
      /\ des3' = des3 /\ rc4' = rc4 /\ stream' = stream
  BY DEF Encrypt
<1>2. GoodContext(c)
  BY DEF EncryptionInv, DesContext, GoodContext
<1>3. Decrypted(c, Joined(Encrypted(c, data))) = ToCrypt(data)
  BY <1>2, PlainBack
<1>4. crypt'.data = data /\ crypt'.output = Joined(Encrypted(c, data)) /\ crypt'.context = c
  BY <1>1
<1>5. PlainIsBack'
  BY <1>3, <1>4 DEF PlainIsBack
<1> QED
  BY <1>1, <1>5 DEF EncryptionInv, DesContext, StreamOfKey

LEMMA SetStreamKeyKeeps ==
    ASSUME EncryptionInv, NEW k \in StreamKey, SetStreamKey(k)
    PROVE  EncryptionInv'
<1>1. rc4' = Keyed(k) /\ stream' = <<>> /\ des3' = des3 /\ crypt' = crypt
  BY DEF SetStreamKey
<1>2. rc4'.key = k
  BY <1>1, KeyedIs
<1>3. Len(stream') = 0
  BY <1>1
<1>4. Taken(Keyed(k), 0) = TakenNone(Keyed(k))
  BY TakenIs
<1>5. Taken(Keyed(k), 0).context = Keyed(k) /\ Taken(Keyed(k), 0).bytes = <<>>
  BY <1>4 DEF TakenNone
<1>6. StreamOfKey'
  BY <1>1, <1>2, <1>3, <1>5 DEF StreamOfKey
<1> QED
  BY <1>1, <1>6 DEF EncryptionInv, DesContext, PlainIsBack

LEMMA EncryptStreamKeeps ==
    ASSUME EncryptionInv, NEW n \in 1..MaxStream, EncryptStream(n)
    PROVE  EncryptionInv'
<1> DEFINE k == rc4.key
           r == Keyed(k)
           m == Len(stream)
           t == Taken(rc4, n)
<1>1. k # <<>> /\ rc4' = t.context /\ stream' = stream \o t.bytes /\ des3' = des3 /\ crypt' = crypt
  BY Zenon DEF EncryptStream
<1>2. k \in StreamKey /\ m \in Nat /\ rc4 = Taken(r, m).context /\ stream = Taken(r, m).bytes
  BY <1>1 DEF EncryptionInv, StreamOfKey
<1>3. n \in Nat
  BY EncryptionAssumption
<1>4. r \in StreamContext /\ r.key = k
  BY <1>2, KeyedIs
<1> HIDE DEF k, r, m
<1>5. /\ Taken(r, m + n).context = t.context
      /\ Taken(r, m + n).bytes = stream \o t.bytes
  BY <1>2, <1>3, <1>4, TakenTwice
<1> HIDE DEF t
<1>6. m + n \in Nat
  BY <1>2, <1>3
<1>7. Taken(r, m + n).context.key = k /\ Len(Taken(r, m + n).bytes) = m + n
  BY <1>4, <1>6, TakenType
<1>8. rc4'.key = k /\ Len(stream') = m + n /\ rc4' = Taken(r, m + n).context /\ stream' = Taken(r, m + n).bytes
  BY <1>1, <1>5, <1>7
<1>9. StreamOfKey'
  BY <1>2, <1>6, <1>8 DEF StreamOfKey, r
<1> QED
  BY <1>1, <1>9 DEF EncryptionInv, DesContext, PlainIsBack

LEMMA EncryptionStepKeeps == EncryptionInv /\ [EncryptionNext]_encryptionVars => EncryptionInv'
<1> SUFFICES ASSUME EncryptionInv, [EncryptionNext]_encryptionVars PROVE EncryptionInv'
  OBVIOUS
<1>1. CASE UNCHANGED encryptionVars
  BY <1>1 DEF encryptionVars, EncryptionInv, DesContext, PlainIsBack, StreamOfKey
<1>2. ASSUME DesContext', crypt' = crypt, rc4' = rc4, stream' = stream PROVE EncryptionInv'
  BY <1>2 DEF EncryptionInv, PlainIsBack, StreamOfKey
<1>3. ASSUME NEW keys \in DesKey, SetDesKey(keys) PROVE EncryptionInv'
  <2>1. DesContext'
    BY <1>3 DEF SetDesKey, EncryptionInv, DesContext
  <2> QED
    BY <1>2, <1>3, <2>1 DEF SetDesKey
<1>4. ASSUME NEW iv \in Iv, SetIv(iv) PROVE EncryptionInv'
  <2>1. iv \in CipherBlock
    BY EncryptionAssumption
  <2>2. DesContext'
    BY <1>4, <2>1 DEF SetIv, EncryptionInv, DesContext
  <2> QED
    BY <1>2, <1>4, <2>2 DEF SetIv
<1>5. ASSUME NEW m \in {"ecb", "cbc"}, SetMode(m) PROVE EncryptionInv'
  <2>1. DesContext'
    BY <1>5 DEF SetMode, EncryptionInv, DesContext
  <2> QED
    BY <1>2, <1>5, <2>1 DEF SetMode
<1>6. ASSUME NEW data \in Data, Encrypt(data) PROVE EncryptionInv'
  BY <1>6, EncryptKeeps
<1>7. ASSUME NEW k \in StreamKey, SetStreamKey(k) PROVE EncryptionInv'
  BY <1>7, SetStreamKeyKeeps
<1>8. ASSUME NEW n \in 1..MaxStream, EncryptStream(n) PROVE EncryptionInv'
  BY <1>8, EncryptStreamKeeps
<1> QED
  BY <1>1, <1>3, <1>4, <1>5, <1>6, <1>7, <1>8, Zenon DEF EncryptionNext

\* What was encrypted comes back, for blocks and keys of any size and data of any length,
\* in both modes and whatever was set in between; and the stream depends on the key
\* alone (des3_encrypt, des3_decrypt, rc4_encrypt).
THEOREM PlainBackAgain == EncryptionSpec => []PlainComesBack
<1>1. EncryptionInv => PlainComesBack
  BY DEF EncryptionInv, PlainIsBack, StreamOfKey, PlainComesBack
<1> QED
  BY <1>1, EncryptionStarts, EncryptionStepKeeps, PTL DEF EncryptionSpec

-----------------------------------------------------------------------------
(* The messages of NTLM                                                      *)

\* The message and the place reached after each of its first m fields.
FilledIn(f, body, fields, m) ==
    f = [k \in 0..m |-> IF k = 0 THEN [body |-> body, at |-> 0]
                        ELSE FieldWritten(f[k - 1], fields[k])]

LEMMA FilledInExists ==
    ASSUME NEW body, NEW fields
    PROVE  \A m \in Nat : \E f : FilledIn(f, body, fields, m)
<1> DEFINE S == {m \in Nat : \E f : FilledIn(f, body, fields, m)}
<1>1. 0 \in S
  <2> DEFINE g == [k \in 0..0 |-> [body |-> body, at |-> 0]]
  <2>1. FilledIn(g, body, fields, 0)
    BY DEF FilledIn
  <2> QED
    BY <2>1
<1>2. ASSUME NEW m \in Nat, m \in S PROVE m + 1 \in S
  <2>1. PICK f : FilledIn(f, body, fields, m)
    BY <1>2
  <2> DEFINE last == FieldWritten(f[m], fields[m + 1])
             g == [k \in 0..(m + 1) |-> IF k = m + 1 THEN last ELSE f[k]]
  <2>2. \A k \in 0..m : f[k] = IF k = 0 THEN [body |-> body, at |-> 0]
                               ELSE FieldWritten(f[k - 1], fields[k])
    BY <2>1 DEF FilledIn
  <2>3. ASSUME NEW k \in 0..(m + 1)
        PROVE  g[k] = IF k = 0 THEN [body |-> body, at |-> 0] ELSE FieldWritten(g[k - 1], fields[k])
    <3>1. CASE k = m + 1
      <4>1. k # 0 /\ k - 1 = m /\ m \in 0..(m + 1) /\ m # m + 1
        BY <3>1
      <4>2. g[k] = last /\ g[m] = f[m]
        BY <3>1, <4>1
      <4> QED
        BY <3>1, <4>1, <4>2
    <3>2. CASE k # m + 1
      <4>1. k \in 0..m /\ (k # 0 => k - 1 \in 0..(m + 1) /\ k - 1 # m + 1)
        BY <3>2
      <4>2. g[k] = f[k] /\ (k # 0 => g[k - 1] = f[k - 1])
        BY <3>2, <4>1
      <4> HIDE DEF g
      <4> QED
        BY <2>2, <4>1, <4>2, Zenon
    <3> QED
      BY <3>1, <3>2
  <2>4. g = [k \in 0..(m + 1) |-> IF k = 0 THEN [body |-> body, at |-> 0]
                                  ELSE FieldWritten(g[k - 1], fields[k])]
    <3> DEFINE e(k) == IF k = 0 THEN [body |-> body, at |-> 0] ELSE FieldWritten(g[k - 1], fields[k])
    <3>1. \A k \in 0..(m + 1) : g[k] = e(k)
      BY <2>3, Zenon
    <3>2. g = [k \in 0..(m + 1) |-> g[k]]
      OBVIOUS
    <3> HIDE DEF g, e
    <3>3. g = [k \in 0..(m + 1) |-> e(k)]
      BY <3>1, <3>2
    <3> QED
      BY <3>3 DEF e
  <2>5. FilledIn(g, body, fields, m + 1)
    BY <2>4, Zenon DEF FilledIn
  <2> HIDE DEF g
  <2> QED
    BY <2>5
<1>3. \A m \in Nat : m \in S
  <2> HIDE DEF S
  <2>1. \A m \in Nat : m \in S => m + 1 \in S
    BY <1>2
  <2> QED
    BY <1>1, <2>1, Induct, Zenon
<1> QED
  BY <1>3

\* What gen_type3 has written when it is done.
LEMMA FieldsWrittenIs ==
    ASSUME NEW body, NEW fields, Len(fields) \in Nat
    PROVE  \E f : FilledIn(f, body, fields, Len(fields)) /\ FieldsWritten(body, fields) = f[Len(fields)].body
<1> DEFINE F == CHOOSE f : f = [k \in 0..Len(fields) |-> IF k = 0 THEN [body |-> body, at |-> 0]
                                              ELSE FieldWritten(f[k - 1], fields[k])]
<1>1. \E f : FilledIn(f, body, fields, Len(fields))
  BY FilledInExists
<1>2. F = [k \in 0..Len(fields) |-> IF k = 0 THEN [body |-> body, at |-> 0]
                                    ELSE FieldWritten(F[k - 1], fields[k])]
  BY <1>1, Zenon DEF FilledIn
<1>3. FieldsWritten(body, fields) = F[Len(fields)].body
  BY Zenon DEF FieldsWritten
<1>4. FilledIn(F, body, fields, Len(fields))
  BY <1>2, Zenon DEF FilledIn
<1> HIDE DEF F
<1> QED
  BY <1>3, <1>4

\* A sequence of n bytes.
OfLength(bytes, n) == bytes = [i \in 1..n |-> bytes[i]]

\* n fields that can be converted, with the places they begin and end at.
Consecutive(fields, n, at) ==
    /\ Len(fields) = n /\ at[0] = 0
    /\ \A k \in 1..n : /\ fields[k].converts
                       /\ Len(fields[k].bytes) \in Nat
                       /\ at[k] = at[k - 1] + Len(fields[k].bytes)
\* They are in a message at these places.
StandIn(message, fields, n, at) ==
    \A k \in 1..n : \A j \in 1..Len(fields[k].bytes) : message[at[k - 1] + j] = fields[k].bytes[j]

\* The fields that can be converted stand one behind the other.
LEMMA FieldsStandWhere ==
    ASSUME NEW size \in Nat, NEW n \in Nat, NEW fields, NEW at \in [0..n -> Nat],
           Consecutive(fields, n, at), at[n] <= size, NEW body, OfLength(body, size)
    PROVE  /\ OfLength(FieldsWritten(body, fields), size)
           /\ StandIn(FieldsWritten(body, fields), fields, n, at)
<1>0. /\ Len(fields) = n /\ at[0] = 0
      /\ \A k \in 1..n : /\ fields[k].converts
                         /\ Len(fields[k].bytes) \in Nat
                         /\ at[k] = at[k - 1] + Len(fields[k].bytes)
  BY DEF Consecutive
<1>1. PICK f : FilledIn(f, body, fields, n) /\ FieldsWritten(body, fields) = f[n].body
  <2>1. Len(fields) \in Nat
    BY <1>0
  <2>2. \E f : FilledIn(f, body, fields, Len(fields)) /\ FieldsWritten(body, fields) = f[Len(fields)].body
    BY <2>1, FieldsWrittenIs
  <2> QED
    BY <1>0, <2>2
<1>2. \A k \in 0..n : f[k] = IF k = 0 THEN [body |-> body, at |-> 0]
                             ELSE FieldWritten(f[k - 1], fields[k])
  BY <1>1 DEF FilledIn
<1> DEFINE Reached(m) ==
             /\ f[m].at = at[m] /\ f[m].body = [i \in 1..size |-> f[m].body[i]]
             /\ \A k \in 0..m : at[k] <= at[m]
             /\ \A k \in 1..m : \A j \in 1..Len(fields[k].bytes) :
                    f[m].body[at[k - 1] + j] = fields[k].bytes[j]
           S == {m \in Nat : m <= n => Reached(m)}
<1>3. 0 \in S
  <2>1. f[0] = [body |-> body, at |-> 0]
    BY <1>2
  <2>0. body = [i \in 1..size |-> body[i]]
    BY DEF OfLength
  <2>2. f[0].at = 0 /\ f[0].body = body
    BY <2>1
  <2>3. at[0] <= at[0]
    OBVIOUS
  <2>4. Reached(0)
    BY <1>0, <2>0, <2>2, <2>3
  <2> QED
    BY <2>4
<1>4. ASSUME NEW m \in Nat, m \in S, m + 1 <= n PROVE Reached(m + 1)
  <2>0. m \in 0..n /\ m + 1 \in 1..n /\ m + 1 \in 0..n /\ m + 1 # 0 /\ (m + 1) - 1 = m /\ m <= n
    <3> HIDE DEF Reached, S
    <3>1. m \in Nat /\ n \in Nat /\ m + 1 <= n
      BY <1>4
    <3> QED
      BY ONLY <3>1
  <2>1. Reached(m)
    <3> HIDE DEF Reached
    <3> QED
      BY <1>4, <2>0
  <2> DEFINE b == fields[m + 1].bytes
             g == f[m].body
             h == f[m + 1].body
  <2>2. f[m + 1] = FieldWritten(f[m], fields[m + 1])
    BY <1>2, <2>0
  <2>3. f[m + 1] = [body |-> Copied(f[m].body, f[m].at, b), at |-> f[m].at + Len(b)]
    <3>1. fields[m + 1].converts
      BY <1>0, <2>0
    <3> QED
      BY <2>2, <3>1 DEF FieldWritten
  <2>4. /\ Len(b) \in Nat /\ at[m] \in Nat /\ at[m + 1] \in Nat /\ at[m + 1] = at[m] + Len(b)
    BY <1>0, <2>0
  <2>5. h = Copied(g, at[m], b) /\ f[m + 1].at = at[m + 1]
    BY <2>1, <2>3, <2>4
  <2>6. g = [i \in 1..size |-> g[i]]
    BY <2>1
  <2> HIDE DEF b, g, h
  <2>7. h = [i \in 1..size |-> IF i \in (at[m] + 1)..(at[m] + Len(b)) THEN b[i - at[m]] ELSE g[i]]
    <3>1. DOMAIN g = 1..size
      BY <2>6
    <3> QED
      BY <2>5, <3>1 DEF Copied
  <2>8. h = [i \in 1..size |-> h[i]]
    BY <2>7
  <2>9. \A k \in 0..(m + 1) : at[k] <= at[m + 1]
    <3> SUFFICES ASSUME NEW k \in 0..(m + 1) PROVE at[k] <= at[m + 1]
      OBVIOUS
    <3>1. CASE k = m + 1
      BY <2>4, <3>1
    <3>2. CASE k # m + 1
      <4>1. k \in 0..m /\ k \in 0..n
        BY <2>0, <3>2
      <4>2. at[k] <= at[m] /\ at[k] \in Nat
        BY <2>1, <4>1
      <4> QED
        BY <2>4, <4>2
    <3> QED
      BY <3>1, <3>2
  <2>11. at[m + 1] <= size
    <3> HIDE DEF Reached
    <3> SUFFICES ASSUME TRUE PROVE at[m + 1] <= at[n]
      BY <2>4
    <3> DEFINE T == {l \in Nat : m + 1 + l <= n => at[m + 1] <= at[m + 1 + l]}
    <3>1. 0 \in T
      BY <2>4
    <3>2. ASSUME NEW l \in Nat, l \in T PROVE l + 1 \in T
      <4> SUFFICES ASSUME m + 1 + (l + 1) <= n PROVE at[m + 1] <= at[m + 1 + (l + 1)]
        OBVIOUS
      <4>1. at[m + 1] <= at[m + 1 + l]
        BY <3>2
      <4>2. m + 1 + (l + 1) \in 1..n /\ (m + 1 + (l + 1)) - 1 = m + 1 + l /\ m + 1 + l \in 0..n
        BY <2>0
      <4>3. at[m + 1 + (l + 1)] = at[m + 1 + l] + Len(fields[m + 1 + (l + 1)].bytes)
            /\ Len(fields[m + 1 + (l + 1)].bytes) \in Nat
        BY <1>0, <4>2
      <4>4. at[m + 1 + l] \in Nat
        BY <4>2
      <4> DEFINE p == at[m + 1]
                 q == at[m + 1 + l]
                 s == at[m + 1 + (l + 1)]
                 c == Len(fields[m + 1 + (l + 1)].bytes)
      <4>5. p \in Nat /\ q \in Nat /\ c \in Nat /\ p <= q /\ s = q + c
        BY <2>4, <4>1, <4>3, <4>4
      <4> HIDE DEF p, q, s, c
      <4>6. p <= s
        BY <4>5
      <4> QED
        BY <4>6 DEF p, s
    <3>3. \A l \in Nat : l \in T
      <4> HIDE DEF T
      <4> QED
        BY <3>1, <3>2, Induct
    <3> DEFINE l == n - (m + 1)
    <3>4. l \in Nat /\ m + 1 + l = n /\ m + 1 + l <= n
      BY <2>0
    <3> HIDE DEF l
    <3>5. at[m + 1] <= at[m + 1 + l]
      BY <3>3, <3>4
    <3> QED
      BY <3>4, <3>5
  <2> DEFINE a == at[m]
             c == Len(b)
  <2>13. a \in Nat /\ c \in Nat /\ a + c <= size /\ at[m + 1] = a + c
    BY <2>4, <2>11
  <2>14. h = [i \in 1..size |-> IF i \in (a + 1)..(a + c) THEN b[i - a] ELSE g[i]]
    BY <2>7
  <2>15. \A k \in 0..m : at[k] <= a
    BY <2>1
  <2> HIDE DEF a, c
  <2>12. ASSUME NEW k \in 1..(m + 1), NEW j \in 1..Len(fields[k].bytes)
         PROVE  h[at[k - 1] + j] = fields[k].bytes[j]
    <3>1. CASE k = m + 1
      <4>1. j \in 1..Len(b) /\ k - 1 = m
        BY <2>1, <2>12, <3>1 DEF b
      <4>2. a + j \in 1..size /\ a + j \in (a + 1)..(a + c) /\ (a + j) - a = j
        BY <2>13, <4>1 DEF c
      <4>3. h[a + j] = b[j]
        BY <2>14, <4>2
      <4> QED
        BY <3>1, <4>1, <4>3 DEF a, b
    <3>2. CASE k # m + 1
      <4>1. k \in 1..m /\ k \in 1..n /\ k - 1 \in 0..n /\ k \in 0..m
        BY <2>0, <3>2
      <4> DEFINE p == at[k - 1]
                 q == at[k]
                 e == Len(fields[k].bytes)
      <4>2. p \in Nat /\ q = p + e /\ e \in Nat /\ q <= a /\ j \in 1..e
        BY <1>0, <2>15, <4>1
      <4> HIDE DEF p, q, e
      <4>3. p + j \in 1..size /\ ~(p + j \in (a + 1)..(a + c))
        BY <2>13, <4>2
      <4>4. h[at[k - 1] + j] = g[at[k - 1] + j]
        BY <2>14, <4>3 DEF p
      <4>5. g[at[k - 1] + j] = fields[k].bytes[j]
        BY <2>1, <4>1 DEF g
      <4> QED
        BY <4>4, <4>5
    <3> QED
      BY <3>1, <3>2
  <2> QED
    BY <2>5, <2>8, <2>9, <2>12 DEF h
<1>5. \A m \in Nat : m \in S
  <2>1. \A m \in Nat : m \in S => m + 1 \in S
    <3> HIDE DEF Reached
    <3> SUFFICES ASSUME NEW m \in Nat, m \in S, m + 1 <= n PROVE Reached(m + 1)
      OBVIOUS
    <3>1. m <= n
      BY SMT
    <3>2. Reached(m + 1)
      <4> HIDE DEF S
      <4> QED
        BY <1>4
    <3> QED
      BY <3>2
  <2> HIDE DEF S
  <2> QED
    BY <1>3, <2>1, Induct
<1>6. Reached(n)
  <2>1. n \in S
    BY <1>5
  <2> HIDE DEF Reached
  <2> QED
    BY <2>1
<1> DEFINE w == FieldsWritten(body, fields)
<1>7. w = f[n].body
  BY <1>1
<1> HIDE DEF w
<1>8. /\ OfLength(w, size)
      /\ \A k \in 1..n : \A j \in 1..Len(fields[k].bytes) : w[at[k - 1] + j] = fields[k].bytes[j]
  BY <1>6, <1>7 DEF OfLength
<1> QED
  BY <1>8 DEF w, StandIn

\* Two sequences one behind the other.
LEMMA Behind ==
    ASSUME NEW T, NEW x \in Seq(T), NEW y \in Seq(T)
    PROVE  /\ x \o y \in Seq(T) /\ Len(x \o y) = Len(x) + Len(y)
           /\ \A j \in 1..Len(x) : (x \o y)[j] = x[j]
           /\ \A j \in 1..Len(y) : (x \o y)[Len(x) + j] = y[j]
<1>1. Len(x) \in Nat /\ Len(y) \in Nat
  OBVIOUS
<1>2. x \o y \in Seq(T) /\ Len(x \o y) = Len(x) + Len(y)
  OBVIOUS
<1>3. \A i \in 1..(Len(x) + Len(y)) : (x \o y)[i] = IF i <= Len(x) THEN x[i] ELSE y[i - Len(x)]
  OBVIOUS
<1> QED
  BY <1>1, <1>2, <1>3

\* A response is made of three texts encrypted with three keys.
LEMMA ThreeParts ==
    ASSUME NEW keys, NEW text
    PROVE  /\ CalcResp(keys, text) = [i \in 1..24 |-> CalcResp(keys, text)[i]]
           /\ Len(CalcResp(keys, text)) = 24
           /\ \A k \in 1..3 : \A j \in 1..8 :
                CalcResp(keys, text)[8 * (k - 1) + j] = <<"des", Slice(keys, k), text, j>>
<1> DEFINE D(k) == DesOf(Slice(keys, k), text)
<1>1. ASSUME NEW k \in 1..3
      PROVE  /\ D(k) = [j \in 1..8 |-> <<"des", Slice(keys, k), text, j>>]
             /\ Len(D(k)) = 8 /\ \A j \in 1..8 : D(k)[j] = <<"des", Slice(keys, k), text, j>>
  <2>1. D(k) = [j \in 1..8 |-> <<"des", Slice(keys, k), text, j>>]
    BY DEF DesOf
  <2> HIDE DEF D
  <2> QED
    BY <2>1
<1>2. D(1) \in Seq({D(1)[j] : j \in 1..8}) /\ D(2) \in Seq({D(2)[j] : j \in 1..8}) /\ D(3) \in Seq({D(3)[j] : j \in 1..8})
  <2>1. ASSUME NEW k \in 1..3 PROVE D(k) \in Seq({D(k)[j] : j \in 1..8})
    <3> HIDE DEF D
    <3>1. D(k) = [j \in 1..8 |-> D(k)[j]]
      BY <1>1
    <3> QED
      BY <3>1
  <2> QED
    BY <2>1
<1>3. CalcResp(keys, text) = D(1) \o D(2) \o D(3)
  BY DEF CalcResp
<1> HIDE DEF D
<1> DEFINE r == CalcResp(keys, text)
           T == {D(1)[j] : j \in 1..8} \cup {D(2)[j] : j \in 1..8} \cup {D(3)[j] : j \in 1..8}
<1>4. \A k \in 1..3 : Len(D(k)) = 8
  BY <1>1
<1>5. D(1) \in Seq(T) /\ D(2) \in Seq(T) /\ D(3) \in Seq(T)
  BY <1>2
<1>6. r = D(1) \o D(2) \o D(3)
  BY <1>3
<1> HIDE DEF T, r
<1> DEFINE x == D(1)
           y == D(2)
           z == D(3)
           u == x \o y
<1>12. x \in Seq(T) /\ y \in Seq(T) /\ z \in Seq(T) /\ Len(x) = 8 /\ Len(y) = 8 /\ Len(z) = 8 /\ r = u \o z
  BY <1>4, <1>5, <1>6
<1> HIDE DEF x, y, z
<1>15. /\ u \in Seq(T) /\ Len(u) = Len(x) + Len(y)
       /\ \A j \in 1..Len(x) : u[j] = x[j]
       /\ \A j \in 1..Len(y) : u[Len(x) + j] = y[j]
  <2>1. x \in Seq(T) /\ y \in Seq(T)
    BY <1>12
  <2>2. /\ x \o y \in Seq(T) /\ Len(x \o y) = Len(x) + Len(y)
        /\ \A j \in 1..Len(x) : (x \o y)[j] = x[j]
        /\ \A j \in 1..Len(y) : (x \o y)[Len(x) + j] = y[j]
    BY ONLY <2>1, Behind
  <2> QED
    BY <2>2
<1> HIDE DEF u
<1>16. /\ r \in Seq(T) /\ Len(r) = Len(u) + Len(z)
       /\ \A j \in 1..Len(u) : r[j] = u[j]
       /\ \A j \in 1..Len(z) : r[Len(u) + j] = z[j]
  <2>1. u \in Seq(T) /\ z \in Seq(T)
    BY <1>12, <1>15
  <2>2. /\ u \o z \in Seq(T) /\ Len(u \o z) = Len(u) + Len(z)
        /\ \A j \in 1..Len(u) : (u \o z)[j] = u[j]
        /\ \A j \in 1..Len(z) : (u \o z)[Len(u) + j] = z[j]
    BY ONLY <2>1, Behind
  <2> QED
    BY <1>12, <2>2
<1>13. u \in Seq(T) /\ Len(u) = 16 /\ \A j \in 1..8 : u[j] = x[j] /\ u[8 + j] = y[j]
  BY <1>12, <1>15
<1>7. r \in Seq(T) /\ Len(r) = 24
  BY <1>12, <1>13, <1>16
<1>14. (\A j \in 1..16 : r[j] = u[j]) /\ \A j \in 1..8 : r[16 + j] = z[j]
  BY <1>12, <1>13, <1>16
<1>8. \A j \in 1..8 : r[j] = D(1)[j] /\ r[8 + j] = D(2)[j] /\ r[16 + j] = D(3)[j]
  <2> SUFFICES ASSUME NEW j \in 1..8 PROVE r[j] = D(1)[j] /\ r[8 + j] = D(2)[j] /\ r[16 + j] = D(3)[j]
    OBVIOUS
  <2>1. j \in 1..16 /\ 8 + j \in 1..16
    OBVIOUS
  <2>2. r[j] = u[j] /\ r[8 + j] = u[8 + j] /\ r[16 + j] = z[j]
    BY <1>14, <2>1
  <2>3. u[j] = x[j] /\ u[8 + j] = y[j]
    BY <1>13
  <2> QED
    BY <2>2, <2>3 DEF x, y, z
<1>9. r = [i \in 1..24 |-> r[i]]
  BY <1>7
<1>10. ASSUME NEW k \in 1..3, NEW j \in 1..8 PROVE r[8 * (k - 1) + j] = D(k)[j]
  <2>1. CASE k = 1
    BY <1>8, <2>1
  <2>2. CASE k = 2
    BY <1>8, <2>2
  <2>3. CASE k = 3
    BY <1>8, <2>3
  <2> QED
    BY <2>1, <2>2, <2>3
<1>11. \A k \in 1..3 : \A j \in 1..8 : r[8 * (k - 1) + j] = <<"des", Slice(keys, k), text, j>>
  BY <1>1, <1>10
<1> QED
  BY <1>7, <1>9, <1>11 DEF r

\* A byte of a field is not what a message holds where nothing was written.
LEMMA Different ==
    /\ \A a, b : <<a, b>> # Unwritten
    /\ \A a, b, c, d : <<a, b, c, d>> # Unwritten
<1>1. ASSUME NEW a, NEW b PROVE <<a, b>> # Unwritten
  <2>1. Len(<<a, b>>) = 2 /\ Len(<<"unwritten">>) = 1
    OBVIOUS
  <2> QED
    BY <2>1 DEF Unwritten
<1>2. ASSUME NEW a, NEW b, NEW c, NEW d PROVE <<a, b, c, d>> # Unwritten
  <2>1. Len(<<a, b, c, d>>) = 4 /\ Len(<<"unwritten">>) = 1
    OBVIOUS
  <2> QED
    BY <2>1 DEF Unwritten
<1> QED
  BY <1>1, <1>2

LEMMA WideIs ==
    ASSUME NEW field, NEW n \in Nat
    PROVE  /\ Wide(field, n) = [j \in 1..(2 * n) |-> <<field, j>>] /\ Len(Wide(field, n)) = 2 * n
           /\ \A j \in 1..(2 * n) : Wide(field, n)[j] = <<field, j>>
<1>1. Wide(field, n) = [j \in 1..(2 * n) |-> <<field, j>>] /\ 2 * n \in Nat
  BY DEF Wide, Chars
<1> QED
  BY <1>1

\* A field lies where it is announced, when its bytes are there.
LEMMA FieldIs ==
    ASSUME NEW m, NEW f, NEW off \in Nat, NEW l \in Nat, NEW bytes, NEW size \in Nat,
           m.fields[f].off = Header + off, m.fields[f].len = l,
           OfLength(m.body, size), off + l <= size, OfLength(bytes, l),
           \A j \in 1..l : m.body[off + j] = bytes[j]
    PROVE  FieldOf(m, f) = bytes
<1> DEFINE b == m.body
           o == m.fields[f].off
           p == m.fields[f].len
           h == Header
<1>1. FieldOf(m, f) = SubSeq(b, o - h + 1, o - h + p)
  BY DEF FieldOf
<1>2. h \in Nat /\ o = h + off /\ p = l /\ b = [i \in 1..size |-> b[i]] /\ \A j \in 1..l : b[off + j] = bytes[j]
  BY NtlmAssumption DEF OfLength
<1> HIDE DEF b, o, p, h
<1>3. o - h + 1 = off + 1 /\ o - h + p = off + l
  BY <1>2
<1>4. SubSeq(b, off + 1, off + l) = [j \in 1..(1 + (off + l) - (off + 1)) |-> b[j + (off + 1) - 1]]
  BY <1>2
<1>5. 1 + (off + l) - (off + 1) = l /\ \A j \in 1..l : j + (off + 1) - 1 = off + j
  OBVIOUS
<1>6. SubSeq(b, off + 1, off + l) = [j \in 1..l |-> bytes[j]]
  <2>1. SubSeq(b, off + 1, off + l) = [j \in 1..l |-> b[j + (off + 1) - 1]]
    BY <1>4, <1>5
  <2>2. \A j \in 1..l : b[j + (off + 1) - 1] = bytes[j]
    BY <1>2, <1>5
  <2> QED
    BY <2>1, <2>2
<1>7. bytes = [j \in 1..l |-> bytes[j]]
  BY DEF OfLength
<1> QED
  BY <1>1, <1>3, <1>6, <1>7

LEMMA OneBehindFive ==
    ASSUME NEW a, NEW b, NEW c, NEW d, NEW e, NEW f
    PROVE  /\ <<a, b, c, d, e>> \o <<f>> = <<a, b, c, d, e, f>>
           /\ <<a, b, c, d, e>> \o <<>> = <<a, b, c, d, e>>
<1> DEFINE T == {a, b, c, d, e, f}
           x == <<a, b, c, d, e>>
           y == <<f>>
<1>1. x \in Seq(T) /\ y \in Seq(T) /\ <<>> \in Seq(T) /\ Len(x) = 5 /\ Len(y) = 1
  OBVIOUS
<1>2. x \o <<>> = x
  BY <1>1
<1>3. x[1] = a /\ x[2] = b /\ x[3] = c /\ x[4] = d /\ x[5] = e /\ y[1] = f
  OBVIOUS
<1> HIDE DEF x, y, T
<1>4. x \o y \in Seq(T) /\ Len(x \o y) = 6 /\ (\A j \in 1..5 : (x \o y)[j] = x[j]) /\ (x \o y)[6] = y[1]
  <2>1. x \in Seq(T) /\ y \in Seq(T)
    BY <1>1
  <2>2. /\ x \o y \in Seq(T) /\ Len(x \o y) = Len(x) + Len(y)
        /\ \A j \in 1..Len(x) : (x \o y)[j] = x[j]
        /\ \A j \in 1..Len(y) : (x \o y)[Len(x) + j] = y[j]
    BY ONLY <2>1, Behind
  <2> QED
    BY <1>1, <2>2
<1> DEFINE z == x \o y
<1>5. z \in Seq(T) /\ Len(z) = 6 /\ z[1] = a /\ z[2] = b /\ z[3] = c /\ z[4] = d /\ z[5] = e /\ z[6] = f
  BY <1>3, <1>4
<1> HIDE DEF z
<1>6. z = <<a, b, c, d, e, f>>
  BY <1>5
<1> QED
  BY <1>2, <1>6 DEF x, y, z

\* What a response of 24 bytes says: the nonce, and the three keys.
Says3(bytes, keys, text) ==
    /\ \A i \in 1..Response : bytes[i][3] = text
    /\ {bytes[i][2] : i \in 1..Response} = {Slice(keys, k) : k \in 1..3}

LEMMA ResponseSays ==
    ASSUME NEW keys, NEW text, NEW bytes, bytes = CalcResp(keys, text)
    PROVE  Says3(bytes, keys, text)
<1> DEFINE r == CalcResp(keys, text)
           K(k) == Slice(keys, k)
<1>1. \A k \in 1..3 : \A j \in 1..8 : r[8 * (k - 1) + j] = <<"des", K(k), text, j>>
  BY ThreeParts
<1> HIDE DEF r, K
<1>2. ASSUME NEW i \in 1..24 PROVE \E k \in 1..3 : r[i][2] = K(k) /\ r[i][3] = text
  <2>1. \E k \in 1..3, j \in 1..8 : i = 8 * (k - 1) + j
    <3>1. CASE i <= 8
      <4>1. i \in 1..8 /\ i = 8 * (1 - 1) + i
        BY <3>1
      <4> QED
        BY <4>1
    <3>2. CASE i > 8 /\ i <= 16
      <4>1. i - 8 \in 1..8 /\ i = 8 * (2 - 1) + (i - 8)
        BY <3>2
      <4> QED
        BY <4>1
    <3>3. CASE i > 16
      <4>1. i - 16 \in 1..8 /\ i = 8 * (3 - 1) + (i - 16)
        BY <3>3
      <4> QED
        BY <4>1
    <3> QED
      BY <3>1, <3>2, <3>3
  <2>2. PICK k \in 1..3, j \in 1..8 : i = 8 * (k - 1) + j
    BY <2>1
  <2>3. r[i] = <<"des", K(k), text, j>>
    BY <1>1, <2>2
  <2>4. r[i][2] = K(k) /\ r[i][3] = text
    BY <2>3
  <2> QED
    BY <2>4
<1>3. ASSUME NEW k \in 1..3 PROVE \E i \in 1..24 : r[i][2] = K(k)
  <2>1. 1 \in 1..8 /\ 8 * (k - 1) + 1 \in 1..24
    OBVIOUS
  <2>2. r[8 * (k - 1) + 1] = <<"des", K(k), text, 1>>
    BY <1>1, <2>1
  <2>3. r[8 * (k - 1) + 1][2] = K(k)
    BY <2>2
  <2> QED
    BY <2>1, <2>3
<1>4. bytes = r
  BY DEF r
<1>5. \A i \in 1..24 : r[i][3] = text
  BY <1>2
<1>6. {r[i][2] : i \in 1..24} = {K(k) : k \in 1..3}
  BY <1>2, <1>3
<1> QED
  BY <1>4, <1>5, <1>6 DEF K, Response, Says3

\* An answer has its fields where it announces them.
LEMMA AnswerAnnounces ==
    ASSUME NEW domain \in Nat, NEW user \in Nat, NEW host \in Nat, NEW password, NEW challenge,
           NEW lcs \in BOOLEAN
    PROVE  Announces(Type3(domain, user, host, password, challenge, lcs, {}))
<1> DEFINE m == Type3(domain, user, host, password, challenge, lcs, {})
           d == 2 * domain
           u == 2 * user
           h == 2 * host
           tail == Header + d + u + h
           size == d + u + h + 2 * Response + (IF lcs THEN Session ELSE 0)
           lm == CalcResp(LmHash(password), challenge)
           nt == CalcResp(NtHash(password), challenge)
           session == Chars("rand", Session)
           field(name, bytes) == [bytes |-> bytes, converts |-> name \notin {}]
           five == <<field("domain", Wide("domain", domain)), field("user", Wide("user", user)),
                     field("host", Wide("host", host)), field("lm", lm), field("nt", nt)>>
           fields == five \o (IF lcs THEN <<field("session", session)>> ELSE <<>>)
           empty == [i \in 1..size |-> Unwritten]
<1>1. /\ m.body = FieldsWritten(empty, fields)
      /\ m.fields = [domain |-> Announced(Header, d), user |-> Announced(Header + d, u),
                     host |-> Announced(Header + d + u, h),
                     lm |-> Announced(tail, Response), nt |-> Announced(tail + Response, Response),
                     session |-> IF lcs THEN Announced(tail + 2 * Response, Session)
                                        ELSE Announced(0, 0)]
      /\ m.from = [domain |-> Wide("domain", domain), user |-> Wide("user", user), host |-> Wide("host", host)]
      /\ m.nonce = challenge /\ m.password = password
  BY DEF Type3
<1> HIDE DEF m
<1> DEFINE B == <<Wide("domain", domain), Wide("user", user), Wide("host", host), lm, nt, session>>
           n == IF lcs THEN 6 ELSE 5
           from == <<0, d, d + u, d + u + h, d + u + h + Response, d + u + h + 2 * Response, size>>
           at == [k \in 0..n |-> from[k + 1]]
<1>2. /\ Len(fields) = n
      /\ \A k \in 1..n : fields[k].converts /\ fields[k].bytes = B[k]
  <2>1. CASE lcs
    <3>0. fields = five \o <<field("session", session)>>
      BY <2>1
    <3> HIDE DEF field, lm, nt, session
    <3>1. fields = <<field("domain", Wide("domain", domain)), field("user", Wide("user", user)),
                     field("host", Wide("host", host)), field("lm", lm), field("nt", nt),
                     field("session", session)>>
      BY <3>0, OneBehindFive, Zenon
    <3> USE DEF field
    <3> HIDE DEF fields, lm, nt, session
    <3>2. Len(fields) = 6 /\ n = 6
      BY <2>1, <3>1
    <3>4. /\ fields[1] = [bytes |-> B[1], converts |-> TRUE]
          /\ fields[2] = [bytes |-> B[2], converts |-> TRUE]
          /\ fields[3] = [bytes |-> B[3], converts |-> TRUE]
          /\ fields[4] = [bytes |-> B[4], converts |-> TRUE]
          /\ fields[5] = [bytes |-> B[5], converts |-> TRUE]
          /\ fields[6] = [bytes |-> B[6], converts |-> TRUE]
      BY <3>1
    <3> HIDE DEF B
    <3>5. \A k \in 1..6 : k = 1 \/ k = 2 \/ k = 3 \/ k = 4 \/ k = 5 \/ k = 6
      OBVIOUS
    <3>3. \A k \in 1..6 : fields[k] = [bytes |-> B[k], converts |-> TRUE]
      BY <3>4, <3>5, Zenon
    <3> HIDE DEF B
    <3> QED
      BY <3>2, <3>3
  <2>2. CASE ~lcs
    <3>0. fields = five \o <<>>
      BY <2>2
    <3> HIDE DEF field, lm, nt, session
    <3>1. fields = <<field("domain", Wide("domain", domain)), field("user", Wide("user", user)),
                     field("host", Wide("host", host)), field("lm", lm), field("nt", nt)>>
      BY <3>0, OneBehindFive, Zenon
    <3> USE DEF field
    <3> HIDE DEF fields, lm, nt, session
    <3>2. Len(fields) = 5 /\ n = 5
      BY <2>2, <3>1
    <3>4. /\ fields[1] = [bytes |-> B[1], converts |-> TRUE]
          /\ fields[2] = [bytes |-> B[2], converts |-> TRUE]
          /\ fields[3] = [bytes |-> B[3], converts |-> TRUE]
          /\ fields[4] = [bytes |-> B[4], converts |-> TRUE]
          /\ fields[5] = [bytes |-> B[5], converts |-> TRUE]
      BY <3>1
    <3> HIDE DEF B
    <3>5. \A k \in 1..5 : k = 1 \/ k = 2 \/ k = 3 \/ k = 4 \/ k = 5
      OBVIOUS
    <3>3. \A k \in 1..5 : fields[k] = [bytes |-> B[k], converts |-> TRUE]
      BY <3>4, <3>5, Zenon
    <3> HIDE DEF B
    <3> QED
      BY <3>2, <3>3
  <2> QED
    BY <2>1, <2>2
<1>3. /\ d \in Nat /\ u \in Nat /\ h \in Nat /\ size \in Nat /\ Header \in Nat
      /\ size = d + u + h + 48 + (IF lcs THEN 16 ELSE 0)
  BY NtlmAssumption DEF Response, Session
<1>4. /\ B[1] = [j \in 1..d |-> <<"domain", j>>] /\ Len(B[1]) = d
      /\ B[2] = [j \in 1..u |-> <<"user", j>>] /\ Len(B[2]) = u
      /\ B[3] = [j \in 1..h |-> <<"host", j>>] /\ Len(B[3]) = h
  BY WideIs
<1>5. /\ B[4] = [j \in 1..24 |-> B[4][j]] /\ Len(B[4]) = 24
      /\ B[5] = [j \in 1..24 |-> B[5][j]] /\ Len(B[5]) = 24
  BY ThreeParts
<1>6. B[6] = [j \in 1..16 |-> <<"rand", j>>] /\ Len(B[6]) = 16
  <2>1. session = [j \in 1..16 |-> <<"rand", j>>]
    BY DEF Chars, Session
  <2> HIDE DEF session
  <2> QED
    BY <2>1
<1>7. /\ \A k \in 1..6 : \A j \in 1..Len(B[k]) : B[k][j] # Unwritten
  <2>1. \A j \in 1..24 : lm[j] # Unwritten /\ nt[j] # Unwritten
    <3>1. ASSUME NEW keys PROVE \A j \in 1..24 : CalcResp(keys, challenge)[j] # Unwritten
      <4> DEFINE r == CalcResp(keys, challenge)
      <4>1. ASSUME NEW k \in 1..3, NEW j \in 1..8 PROVE r[8 * (k - 1) + j] # Unwritten
        <5>1. r[8 * (k - 1) + j] = <<"des", Slice(keys, k), challenge, j>>
          BY ThreeParts
        <5>2. <<"des", Slice(keys, k), challenge, j>> # Unwritten
          BY Different
        <5> HIDE DEF r
        <5> QED
          BY <5>1, <5>2
      <4> HIDE DEF r
      <4> SUFFICES ASSUME NEW j \in 1..24 PROVE r[j] # Unwritten
        BY DEF r
      <4>2. CASE j <= 8
        <5>1. 1 \in 1..3 /\ j \in 1..8 /\ j = 8 * (1 - 1) + j
          BY <4>2
        <5> QED
          BY <4>1, <5>1
      <4>3. CASE j > 8 /\ j <= 16
        <5>1. j - 8 \in 1..8 /\ j = 8 * (2 - 1) + (j - 8)
          BY <4>3
        <5> QED
          BY <4>1, <5>1
      <4>4. CASE j > 16
        <5>1. j - 16 \in 1..8 /\ j = 8 * (3 - 1) + (j - 16)
          BY <4>4
        <5> QED
          BY <4>1, <5>1
      <4> QED
        BY <4>2, <4>3, <4>4
    <3> QED
      BY <3>1
  <2>2. B[4] = lm /\ B[5] = nt
    OBVIOUS
  <2> HIDE DEF B, lm, nt
  <2> SUFFICES ASSUME NEW k \in 1..6, NEW j \in 1..Len(B[k]) PROVE B[k][j] # Unwritten
    OBVIOUS
  <2>3. CASE k = 1
    <3>1. j \in 1..d
      BY <1>4, <2>3
    <3>2. B[1][j] = <<"domain", j>>
      BY <1>4, <3>1
    <3> QED
      BY <2>3, <3>2, Different
  <2>4. CASE k = 2
    <3>1. j \in 1..u
      BY <1>4, <2>4
    <3>2. B[2][j] = <<"user", j>>
      BY <1>4, <3>1
    <3> QED
      BY <2>4, <3>2, Different
  <2>5. CASE k = 3
    <3>1. j \in 1..h
      BY <1>4, <2>5
    <3>2. B[3][j] = <<"host", j>>
      BY <1>4, <3>1
    <3> QED
      BY <2>5, <3>2, Different
  <2>6. CASE k = 4
    BY <1>5, <2>1, <2>2, <2>6
  <2>7. CASE k = 5
    BY <1>5, <2>1, <2>2, <2>7
  <2>8. CASE k = 6
    <3>1. j \in 1..16
      BY <1>6, <2>8
    <3>2. B[6][j] = <<"rand", j>>
      BY <1>6, <3>1
    <3> QED
      BY <2>8, <3>2, Different
  <2> QED
    BY <2>3, <2>4, <2>5, <2>6, <2>7, <2>8
<1> HIDE DEF fields, B, empty, lm, nt, session
<1>8. /\ at \in [0..n -> Nat] /\ at[0] = 0 /\ at[1] = d /\ at[2] = d + u /\ at[3] = d + u + h
      /\ at[4] = d + u + h + 24 /\ at[5] = d + u + h + 48 /\ at[n] = size
      /\ (lcs => at[6] = d + u + h + 64)
  <2>1. /\ from[1] = 0 /\ from[2] = d /\ from[3] = d + u /\ from[4] = d + u + h
        /\ from[5] = d + u + h + 24 /\ from[6] = d + u + h + 48 /\ from[7] = size
    BY DEF Response
  <2>2. n \in {5, 6} /\ (n = 6 <=> lcs)
    OBVIOUS
  <2> HIDE DEF from, n, d, u, h, size
  <2>3. \A k \in 0..n : k + 1 \in 1..7 /\ k \in 0..6
    BY <2>2
  <2>4. \A k \in 1..7 : from[k] \in Nat
    <3>1. \A k \in 1..7 : k = 1 \/ k = 2 \/ k = 3 \/ k = 4 \/ k = 5 \/ k = 6 \/ k = 7
      OBVIOUS
    <3> QED
      BY <1>3, <2>1, <3>1
  <2>5. at \in [0..n -> Nat]
    BY <2>3, <2>4
  <2>6. at[0] = from[1] /\ at[1] = from[2] /\ at[2] = from[3] /\ at[3] = from[4] /\ at[4] = from[5] /\ at[5] = from[6]
        /\ (n = 6 => at[6] = from[7])
    BY <2>2
  <2>7. size = d + u + h + 48 + (IF lcs THEN 16 ELSE 0)
    BY <1>3
  <2>8. at[n] = size
    <3>1. CASE n = 6
      BY <2>1, <2>6, <3>1
    <3>2. CASE n = 5
      <4>1. ~lcs
        BY <2>2, <3>2
      <4> HIDE DEF at
      <4> QED
        BY <1>3, <2>1, <2>6, <2>7, <3>2, <4>1
    <3> QED
      BY <2>2, <3>1, <3>2
  <2>9. lcs => size = d + u + h + 64
    BY <1>3, <2>7
  <2> HIDE DEF at
  <2> QED
    BY <2>1, <2>2, <2>5, <2>6, <2>8, <2>9
<1>9. n \in Nat /\ n >= 5 /\ n \in {5, 6} /\ (n = 6 <=> lcs)
  OBVIOUS
<1> HIDE DEF at, from, n, size, d, u, h
<1>10. /\ \A k \in 1..n : Len(B[k]) \in Nat /\ at[k] = at[k - 1] + Len(B[k])
  <2> SUFFICES ASSUME NEW k \in 1..n PROVE Len(B[k]) \in Nat /\ at[k] = at[k - 1] + Len(B[k])
    OBVIOUS
  <2>1. k = 1 \/ k = 2 \/ k = 3 \/ k = 4 \/ k = 5 \/ (k = 6 /\ lcs)
    BY <1>9
  <2>2. CASE k = 1
    BY <1>3, <1>4, <1>8, <2>2
  <2>3. CASE k = 2
    BY <1>3, <1>4, <1>8, <2>3
  <2>4. CASE k = 3
    BY <1>3, <1>4, <1>8, <2>4
  <2>5. CASE k = 4
    <3>1. Len(B[4]) = 24 /\ 4 - 1 = 3
      BY <1>5
    <3> QED
      BY <1>3, <1>8, <2>5, <3>1
  <2>6. CASE k = 5
    <3>1. Len(B[5]) = 24 /\ 5 - 1 = 4
      BY <1>5
    <3> QED
      BY <1>3, <1>8, <2>6, <3>1
  <2>7. CASE k = 6 /\ lcs
    <3>1. Len(B[6]) = 16 /\ 6 - 1 = 5
      BY <1>6
    <3> QED
      BY <1>3, <1>8, <2>7, <3>1
  <2> QED
    BY <2>1, <2>2, <2>3, <2>4, <2>5, <2>6, <2>7
<1> DEFINE w == FieldsWritten(empty, fields)
<1>11. /\ OfLength(w, size)
       /\ \A k \in 1..n : \A j \in 1..Len(B[k]) : w[at[k - 1] + j] = B[k][j]
  <2>1. OfLength(empty, size)
    BY DEF empty, OfLength
  <2>2. \A k \in 1..n : /\ fields[k].converts /\ fields[k].bytes = B[k]
                        /\ Len(fields[k].bytes) \in Nat
                        /\ at[k] = at[k - 1] + Len(fields[k].bytes)
    BY <1>2, <1>10
  <2>3. at[n] <= size
    BY <1>3, <1>8
  <2>5. Consecutive(fields, n, at)
    BY <1>2, <1>8, <2>2 DEF Consecutive
  <2>6. size \in Nat /\ n \in Nat /\ at \in [0..n -> Nat]
    BY <1>3, <1>8, <1>9
  <2>7. /\ OfLength(FieldsWritten(empty, fields), size)
        /\ StandIn(FieldsWritten(empty, fields), fields, n, at)
    BY ONLY <2>1, <2>3, <2>5, <2>6, FieldsStandWhere, Zenon
  <2>8. StandIn(w, fields, n, at)
    BY <2>7
  <2>9. OfLength(w, size)
    BY <2>7
  <2> HIDE DEF w
  <2> QED
    BY <2>2, <2>8, <2>9 DEF StandIn
<1> HIDE DEF w
<1>12. m.body = w
  BY <1>1 DEF w
<1>13. ASSUME NEW k \in 1..5, NEW o, o = k - 1, NEW f, m.fields[f] = Announced(Header + at[o], Len(B[k])),
              OfLength(B[k], Len(B[k]))
       PROVE  FieldOf(m, f) = B[k]
  <2> DEFINE off == at[k - 1]
             l == Len(B[k])
             bytes == B[k]
  <2>9. k - 1 \in 0..n /\ k \in 1..n
    BY <1>9
  <2>1. off \in Nat /\ l \in Nat /\ k \in 1..n
    BY <1>8, <1>10, <2>9
  <2>2. at[k] = off + l /\ at[k] <= size
    <3>1. at[k] = off + l
      BY <1>10, <2>1
    <3>2. k = 1 \/ k = 2 \/ k = 3 \/ k = 4 \/ k = 5
      OBVIOUS
    <3>3. size >= d + u + h + 48
      BY <1>3
    <3> HIDE DEF off, l
    <3>4. at[1] <= size /\ at[2] <= size /\ at[3] <= size /\ at[4] <= size /\ at[5] <= size
      BY <1>3, <1>8, <3>3
    <3> QED
      BY <3>1, <3>2, <3>4
  <2>3. m.fields[f].off = Header + off /\ m.fields[f].len = l
    BY <1>13 DEF Announced
  <2>4. OfLength(m.body, size) /\ \A j \in 1..l : m.body[off + j] = bytes[j]
    BY <1>11, <1>12, <2>1
  <2>5. OfLength(bytes, l)
    BY <1>13
  <2>6. off + l <= size
    BY <2>2
  <2>7. size \in Nat
    BY <1>3
  <2> HIDE DEF off, l, bytes
  <2>8. FieldOf(m, f) = bytes
    BY ONLY <2>1, <2>3, <2>4, <2>5, <2>6, <2>7, FieldIs, Zenon
  <2> QED
    BY <2>8 DEF bytes
<1>14. /\ m.fields["domain"] = Announced(Header + at[0], Len(B[1]))
       /\ m.fields["user"] = Announced(Header + at[1], Len(B[2]))
       /\ m.fields["host"] = Announced(Header + at[2], Len(B[3]))
       /\ m.fields["lm"] = Announced(Header + at[3], Len(B[4]))
       /\ m.fields["nt"] = Announced(Header + at[4], Len(B[5]))
  <2>1. /\ m.fields["domain"] = Announced(Header, d) /\ m.fields["user"] = Announced(Header + d, u)
        /\ m.fields["host"] = Announced(Header + d + u, h) /\ m.fields["lm"] = Announced(tail, 24)
        /\ m.fields["nt"] = Announced(tail + 24, 24)
    BY <1>1 DEF Response
  <2>2. /\ Header + at[0] = Header /\ Header + at[1] = Header + d /\ Header + at[2] = Header + d + u
        /\ Header + at[3] = tail /\ Header + at[4] = tail + 24
    BY <1>3, <1>8
  <2> HIDE DEF tail
  <2> QED
    BY <1>4, <1>5, <2>1, <2>2
<1>15. /\ FieldOf(m, "domain") = B[1] /\ FieldOf(m, "user") = B[2] /\ FieldOf(m, "host") = B[3]
       /\ FieldOf(m, "lm") = B[4] /\ FieldOf(m, "nt") = B[5]
  <2>1. /\ OfLength(B[1], Len(B[1]))
        /\ OfLength(B[2], Len(B[2]))
        /\ OfLength(B[3], Len(B[3]))
        /\ OfLength(B[4], Len(B[4]))
        /\ OfLength(B[5], Len(B[5]))
    BY <1>4, <1>5 DEF OfLength
  <2>2. /\ 1 \in 1..5 /\ 2 \in 1..5 /\ 3 \in 1..5 /\ 4 \in 1..5 /\ 5 \in 1..5
        /\ 0 = 1 - 1 /\ 1 = 2 - 1 /\ 2 = 3 - 1 /\ 3 = 4 - 1 /\ 4 = 5 - 1
    OBVIOUS
  <2>3. FieldOf(m, "domain") = B[1]
    BY <1>13, <1>14, <2>1, <2>2, Zenon
  <2>4. FieldOf(m, "user") = B[2]
    BY <1>13, <1>14, <2>1, <2>2, Zenon
  <2>5. FieldOf(m, "host") = B[3]
    BY <1>13, <1>14, <2>1, <2>2, Zenon
  <2>6. FieldOf(m, "lm") = B[4]
    BY <1>13, <1>14, <2>1, <2>2, Zenon
  <2>7. FieldOf(m, "nt") = B[5]
    BY <1>13, <1>14, <2>1, <2>2, Zenon
  <2> QED
    BY <2>3, <2>4, <2>5, <2>6, <2>7
<1>16. \A i \in DOMAIN m.body : m.body[i] # Unwritten
  <2> SUFFICES ASSUME NEW i \in 1..size PROVE w[i] # Unwritten
    BY <1>11, <1>12 DEF OfLength
  <2>1. ASSUME NEW k \in 1..n, NEW j \in 1..Len(B[k]), i = at[k - 1] + j PROVE w[i] # Unwritten
    <3>1. k \in 1..6
      BY <1>9
    <3>2. w[at[k - 1] + j] = B[k][j] /\ B[k][j] # Unwritten
      BY <1>7, <1>11, <3>1
    <3> QED
      BY <2>1, <3>2
  <2>2. \E k \in 1..n : at[k - 1] < i /\ i <= at[k]
    <3>1. CASE i <= d
      <4>1. 1 \in 1..n /\ at[1 - 1] < i /\ i <= at[1]
        BY <1>3, <1>8, <1>9, <3>1
      <4> QED
        BY <4>1
    <3>2. CASE d < i /\ i <= d + u
      <4>1. 2 \in 1..n /\ at[2 - 1] < i /\ i <= at[2]
        BY <1>3, <1>8, <1>9, <3>2
      <4> QED
        BY <4>1
    <3>3. CASE d + u < i /\ i <= d + u + h
      <4>1. 3 \in 1..n /\ at[3 - 1] < i /\ i <= at[3]
        BY <1>3, <1>8, <1>9, <3>3
      <4> QED
        BY <4>1
    <3>4. CASE d + u + h < i /\ i <= d + u + h + 24
      <4>1. 4 \in 1..n /\ at[4 - 1] < i /\ i <= at[4]
        BY <1>3, <1>8, <1>9, <3>4
      <4> QED
        BY <4>1
    <3>5. CASE d + u + h + 24 < i /\ i <= d + u + h + 48
      <4>1. 5 \in 1..n /\ at[5 - 1] < i /\ i <= at[5]
        BY <1>3, <1>8, <1>9, <3>5
      <4> QED
        BY <4>1
    <3>6. CASE d + u + h + 48 < i
      <4>1. lcs
        BY <1>3, <3>6
      <4>2. n = 6 /\ size = d + u + h + 64
        BY <1>3, <1>9, <4>1
      <4>3. 6 \in 1..n /\ at[6 - 1] < i /\ i <= at[6]
        BY <1>3, <1>8, <3>6, <4>1, <4>2
      <4> QED
        BY <4>3
    <3> QED
      BY <1>3, <3>1, <3>2, <3>3, <3>4, <3>5, <3>6
  <2>3. PICK k \in 1..n : at[k - 1] < i /\ i <= at[k]
    BY <2>2
  <2> DEFINE a == at[k - 1]
             l == Len(B[k])
  <2>6. k - 1 \in 0..n
    BY <1>9
  <2>4. a \in Nat /\ l \in Nat /\ at[k] = a + l
    BY <1>8, <1>10, <2>6
  <2> HIDE DEF a, l
  <2>5. i - a \in 1..l /\ i = a + (i - a)
    BY <2>3, <2>4 DEF a
  <2> QED
    BY <2>1, <2>5 DEF a, l
<1>17. B[1] = m.from["domain"] /\ B[2] = m.from["user"] /\ B[3] = m.from["host"]
  BY <1>1 DEF B
<1>18. B[4] = CalcResp(LmHash(password), challenge) /\ B[5] = CalcResp(NtHash(password), challenge)
  BY DEF B, lm, nt
<1>19. /\ \A f \in {"lm", "nt"} : \A i \in 1..Response : FieldOf(m, f)[i][3] = m.nonce
       /\ {FieldOf(m, "lm")[i][2] : i \in 1..Response} = {Slice(LmHash(m.password), k) : k \in 1..3}
       /\ {FieldOf(m, "nt")[i][2] : i \in 1..Response} = {Slice(NtHash(m.password), k) : k \in 1..3}
  <2>1. /\ \A i \in 1..Response : FieldOf(m, "lm")[i][3] = challenge
        /\ {FieldOf(m, "lm")[i][2] : i \in 1..Response} = {Slice(LmHash(password), k) : k \in 1..3}
    <3> DEFINE bytes == FieldOf(m, "lm")
    <3>1. bytes = CalcResp(LmHash(password), challenge)
      BY <1>15, <1>18
    <3> HIDE DEF bytes
    <3>2. Says3(bytes, LmHash(password), challenge)
      BY ONLY <3>1, ResponseSays
    <3> QED
      BY ONLY <3>2, Zenon DEF Says3, bytes
  <2>2. /\ \A i \in 1..Response : FieldOf(m, "nt")[i][3] = challenge
        /\ {FieldOf(m, "nt")[i][2] : i \in 1..Response} = {Slice(NtHash(password), k) : k \in 1..3}
    <3> DEFINE bytes == FieldOf(m, "nt")
    <3>1. bytes = CalcResp(NtHash(password), challenge)
      BY <1>15, <1>18
    <3> HIDE DEF bytes
    <3>2. Says3(bytes, NtHash(password), challenge)
      BY ONLY <3>1, ResponseSays
    <3> QED
      BY ONLY <3>2, Zenon DEF Says3, bytes
  <2>3. m.nonce = challenge /\ m.password = password
    BY <1>1
  <2> QED
    BY <2>1, <2>2, <2>3
<1>20. \A f \in {"domain", "user", "host"} : FieldOf(m, f) = m.from[f]
  BY <1>15, <1>17
<1> QED
  BY <1>16, <1>19, <1>20, Zenon DEF Announces, m

\* The fields of an NTLM answer stand where its header says, fill the message, and are
\* made from the last nonce and the whole password, for names and passwords of any
\* length (oul_ntlm_gen_type3).
THEOREM FieldsInPlace == NtlmSpec => []FieldsAreWhereAnnounced
<1>1. NtlmInit => FieldsAreWhereAnnounced
  <2>1. NoMessage.type = 0
    BY DEF NoMessage
  <2> QED
    BY <2>1 DEF NtlmInit, FieldsAreWhereAnnounced
<1>2. FieldsAreWhereAnnounced /\ [NtlmNext]_ntlmVars => FieldsAreWhereAnnounced'
  <2> SUFFICES ASSUME FieldsAreWhereAnnounced, [NtlmNext]_ntlmVars PROVE FieldsAreWhereAnnounced'
    OBVIOUS
  <2>1. CASE UNCHANGED sent
    BY <2>1 DEF FieldsAreWhereAnnounced
  <2>2. ASSUME NEW host \in Lens, NEW domain \in Lens, Offer(host, domain) PROVE FieldsAreWhereAnnounced'
    <3>1. sent'.type = 1
      BY <2>2 DEF Offer, Type1
    <3> QED
      BY <3>1 DEF FieldsAreWhereAnnounced
  <2>3. ASSUME NEW domain \in Lens, NEW user \in Lens, NEW host \in Lens, NEW password \in PasswordLens,
               NEW lcs \in BOOLEAN, NEW bad \in {{}, {"domain"}, {"user"}},
               AnswerChallenge(domain, user, host, password, lcs, bad)
        PROVE  FieldsAreWhereAnnounced'
    <3>1. sent' = Type3(domain, user, host, password, nonce, lcs, bad)
      BY <2>3 DEF AnswerChallenge
    <3>2. sent'.bad = bad
      BY <3>1 DEF Type3
    <3>3. domain \in Nat /\ user \in Nat /\ host \in Nat
      BY NtlmAssumption
    <3>4. CASE bad = {}
      <4>1. Announces(Type3(domain, user, host, password, nonce, lcs, {}))
        BY <3>3, AnswerAnnounces
      <4> QED
        BY <3>1, <3>4, <4>1, Zenon DEF FieldsAreWhereAnnounced
    <3>5. CASE bad # {}
      BY <3>2, <3>5 DEF FieldsAreWhereAnnounced
    <3> QED
      BY <3>4, <3>5
  <2>4. ASSUME NEW n \in Nonce, ParseType2(n) PROVE FieldsAreWhereAnnounced'
    BY <2>1, <2>4 DEF ParseType2
  <2>5. CASE UNCHANGED ntlmVars
    BY <2>1, <2>5 DEF ntlmVars
  <2> QED
    BY <2>2, <2>3, <2>4, <2>5 DEF NtlmNext
<1> QED
  BY <1>1, <1>2, PTL DEF NtlmSpec
-----------------------------------------------------------------------------
(* Sequences of bytes and of blocks                                          *)

IsSeq(x) == Len(x) \in Nat /\ x = [i \in 1..Len(x) |-> x[i]]

LEMMA SeqIs ==
    ASSUME NEW x, NEW n \in Nat, x = [i \in 1..n |-> x[i]]
    PROVE  IsSeq(x) /\ Len(x) = n
<1>1. Len(x) = n
  OBVIOUS
<1> QED
  BY <1>1 DEF IsSeq

LEMMA EmptyIs == IsSeq(<<>>) /\ Len(<<>>) = 0 /\ \A x : IsSeq(x) /\ Len(x) = 0 => x = <<>>
<1>1. Len(<<>>) = 0 /\ <<>> = [i \in 1..0 |-> <<>>[i]]
  OBVIOUS
<1>2. ASSUME NEW x, IsSeq(x), Len(x) = 0 PROVE x = <<>>
  <2>1. x = [i \in 1..0 |-> x[i]]
    BY <1>2 DEF IsSeq
  <2> QED
    BY <2>1
<1> QED
  BY <1>1, <1>2 DEF IsSeq

LEMMA Single == ASSUME NEW e PROVE IsSeq(<<e>>) /\ Len(<<e>>) = 1 /\ <<e>>[1] = e
<1>1. Len(<<e>>) = 1 /\ <<e>>[1] = e /\ <<e>> = [i \in 1..1 |-> <<e>>[i]]
  OBVIOUS
<1> QED
  BY <1>1 DEF IsSeq

\* Sequences are the same when their elements are.
LEMMA SameSeq ==
    ASSUME NEW x, NEW y, IsSeq(x), IsSeq(y), Len(x) = Len(y), \A i \in 1..Len(x) : x[i] = y[i]
    PROVE  x = y
<1> DEFINE n == Len(x)
<1>1. x = [i \in 1..n |-> x[i]] /\ y = [i \in 1..n |-> y[i]] /\ \A i \in 1..n : x[i] = y[i]
  BY DEF IsSeq
<1> HIDE DEF n
<1> QED
  BY <1>1

\* One sequence behind the other.
Joins(z, x, y) ==
    /\ IsSeq(z) /\ Len(z) = Len(x) + Len(y)
    /\ \A i \in 1..Len(x) : z[i] = x[i]
    /\ \A i \in 1..Len(y) : z[Len(x) + i] = y[i]

LEMMA Cat == ASSUME NEW x, NEW y, IsSeq(x), IsSeq(y) PROVE Joins(x \o y, x, y)
<1> DEFINE T == {x[i] : i \in 1..Len(x)} \cup {y[i] : i \in 1..Len(y)}
<1>1. x \in Seq(T) /\ y \in Seq(T)
  <2> DEFINE n == Len(x)
             k == Len(y)
  <2>1. n \in Nat /\ k \in Nat /\ x = [i \in 1..n |-> x[i]] /\ y = [i \in 1..k |-> y[i]]
    BY DEF IsSeq
  <2>2. (\A i \in 1..n : x[i] \in T) /\ (\A i \in 1..k : y[i] \in T)
    OBVIOUS
  <2> HIDE DEF n, k, T
  <2> QED
    BY <2>1, <2>2
<1> HIDE DEF T
<1>2. Len(x) \in Nat /\ Len(y) \in Nat
  BY DEF IsSeq
<1>3. x \o y \in Seq(T) /\ Len(x \o y) = Len(x) + Len(y)
  BY ONLY <1>1
<1>4. \A i \in 1..(Len(x) + Len(y)) : (x \o y)[i] = IF i <= Len(x) THEN x[i] ELSE y[i - Len(x)]
  BY ONLY <1>1
<1>5. IsSeq(x \o y)
  <2> DEFINE z == x \o y
  <2>1. z \in Seq(T)
    BY <1>3
  <2> HIDE DEF z
  <2>2. Len(z) \in Nat /\ z = [i \in 1..Len(z) |-> z[i]]
    BY ONLY <2>1
  <2> QED
    BY <2>2 DEF IsSeq, z
<1>6. \A i \in 1..Len(x) : (x \o y)[i] = x[i]
  BY ONLY <1>2, <1>4
<1>7. \A i \in 1..Len(y) : (x \o y)[Len(x) + i] = y[i]
  BY ONLY <1>2, <1>4
<1> QED
  BY <1>3, <1>5, <1>6, <1>7 DEF Joins

\* The empty sequence changes nothing.
LEMMA CatEmpty == ASSUME NEW x, IsSeq(x) PROVE x \o <<>> = x /\ <<>> \o x = x
<1>0. IsSeq(<<>>) /\ Len(<<>>) = 0 /\ Len(x) \in Nat
  BY EmptyIs DEF IsSeq
<1>1. Joins(x \o <<>>, x, <<>>) /\ Joins(<<>> \o x, <<>>, x)
  BY <1>0, Cat
<1>2. /\ IsSeq(<<>> \o x) /\ Len(<<>> \o x) = Len(x)
      /\ \A i \in 1..Len(x) : (<<>> \o x)[0 + i] = x[i]
  BY <1>0, <1>1 DEF Joins
<1>3. x \o <<>> = x
  <2>1. /\ IsSeq(x \o <<>>) /\ Len(x \o <<>>) = Len(x)
        /\ \A i \in 1..Len(x \o <<>>) : (x \o <<>>)[i] = x[i]
    BY <1>0, <1>1 DEF Joins
  <2> QED
    BY <2>1, SameSeq
<1>4. <<>> \o x = x
  <2> DEFINE z == <<>> \o x
             n == Len(x)
  <2>1. IsSeq(z) /\ Len(z) = n /\ n \in Nat /\ \A i \in 1..n : z[0 + i] = x[i]
    BY <1>0, <1>2
  <2> HIDE DEF z, n
  <2>2. \A i \in 1..n : z[i] = x[i]
    BY <2>1
  <2> QED
    BY <2>1, <2>2, SameSeq DEF z, n
<1> QED
  BY <1>3, <1>4

LEMMA CatThree == ASSUME NEW x, NEW y, NEW z, IsSeq(x), IsSeq(y), IsSeq(z) PROVE (x \o y) \o z = x \o (y \o z)
<1> DEFINE u == x \o y
           v == y \o z
           p == u \o z
           q == x \o v
           a == Len(x)
           b == Len(y)
           c == Len(z)
<1>11. Joins(u, x, y) /\ Joins(v, y, z)
  BY Cat
<1>12. IsSeq(u) /\ IsSeq(v)
  BY <1>11 DEF Joins
<1> HIDE DEF u, v
<1>13. Joins(p, u, z) /\ Joins(q, x, v)
  BY <1>12, Cat
<1> HIDE DEF p, q
<1>1. /\ IsSeq(u) /\ Len(u) = a + b
      /\ (\A i \in 1..a : u[i] = x[i]) /\ (\A i \in 1..b : u[a + i] = y[i])
  BY <1>11 DEF Joins
<1>2. /\ IsSeq(v) /\ Len(v) = b + c
      /\ (\A i \in 1..b : v[i] = y[i]) /\ (\A i \in 1..c : v[b + i] = z[i])
  BY <1>11 DEF Joins
<1>3. /\ IsSeq(p) /\ Len(p) = Len(u) + c
      /\ (\A i \in 1..Len(u) : p[i] = u[i]) /\ (\A i \in 1..c : p[Len(u) + i] = z[i])
  BY <1>13 DEF Joins
<1>4. /\ IsSeq(q) /\ Len(q) = a + Len(v)
      /\ (\A i \in 1..a : q[i] = x[i]) /\ (\A i \in 1..Len(v) : q[a + i] = v[i])
  BY <1>13 DEF Joins
<1>5. a \in Nat /\ b \in Nat /\ c \in Nat
  BY DEF IsSeq
<1> HIDE DEF p, q, a, b, c
<1>6. Len(p) = a + b + c /\ Len(q) = a + b + c
  BY <1>1, <1>2, <1>3, <1>4, <1>5
<1>7. ASSUME NEW i \in 1..(a + b + c) PROVE p[i] = q[i]
  <2>1. CASE i <= a
    <3>1. i \in 1..a /\ i \in 1..(a + b)
      BY <1>5, <2>1
    <3> QED
      BY <1>1, <1>3, <1>4, <3>1
  <2>2. CASE i > a /\ i <= a + b
    <3>1. i \in 1..(a + b) /\ i - a \in 1..b /\ i - a \in 1..(b + c) /\ a + (i - a) = i
      BY <1>5, <2>2
    <3>2. p[i] = u[a + (i - a)]
      BY <1>1, <1>3, <3>1
    <3>3. q[a + (i - a)] = v[i - a]
      BY <1>2, <1>4, <3>1
    <3>4. u[a + (i - a)] = y[i - a] /\ v[i - a] = y[i - a]
      BY <1>1, <1>2, <3>1
    <3> QED
      BY <3>1, <3>2, <3>3, <3>4
  <2>3. CASE i > a + b
    <3> DEFINE k == i - a - b
    <3>1. k \in 1..c /\ b + k \in 1..(b + c) /\ (a + b) + k = i /\ a + (b + k) = i
      BY <1>5, <2>3
    <3> HIDE DEF k
    <3>2. p[(a + b) + k] = z[k]
      BY <1>1, <1>3, <3>1
    <3>3. q[a + (b + k)] = v[b + k] /\ v[b + k] = z[k]
      BY <1>2, <1>4, <3>1
    <3> QED
      BY <3>1, <3>2, <3>3
  <2> QED
    BY <1>5, <2>1, <2>2, <2>3
<1>8. p = q
  BY <1>3, <1>4, <1>6, <1>7, SameSeq
<1> QED
  BY <1>8 DEF p, q, u, v

Regroups(x, y, z) == (x \o y) \o z = x \o (y \o z)

LEMMA Regrouped == ASSUME NEW x, NEW y, NEW z, IsSeq(x), IsSeq(y), IsSeq(z) PROVE Regroups(x, y, z)
BY CatThree DEF Regroups

\* A part of a sequence.
IsPart(part, x, from, n) ==
    IsSeq(part) /\ Len(part) = n /\ \A i \in 1..n : part[i] = x[from + i]

LEMMA PartIs ==
    ASSUME NEW x, IsSeq(x), NEW from \in Nat, NEW n \in Nat, from + n <= Len(x)
    PROVE  IsPart(SubSeq(x, from + 1, from + n), x, from, n)
<1> DEFINE part == SubSeq(x, from + 1, from + n)
<1>1. part = [i \in 1..(1 + (from + n) - (from + 1)) |-> x[i + (from + 1) - 1]]
  BY DEF IsSeq
<1>2. 1 + (from + n) - (from + 1) = n /\ \A i \in 1..n : i + (from + 1) - 1 = from + i
  OBVIOUS
<1>3. part = [i \in 1..n |-> x[i + (from + 1) - 1]]
  BY <1>1, <1>2
<1> HIDE DEF part
<1>4. part = [i \in 1..n |-> part[i]]
  BY <1>3
<1>5. \A i \in 1..n : part[i] = x[from + i]
  BY <1>2, <1>3
<1>6. IsSeq(part) /\ Len(part) = n
  BY <1>4, SeqIs
<1> QED
  BY <1>5, <1>6 DEF part, IsPart

\* What is cut off and what is left are the whole.
LEMMA TwoParts ==
    ASSUME NEW x, IsSeq(x), NEW n \in Nat, n <= Len(x)
    PROVE  SubSeq(x, 1, n) \o SubSeq(x, n + 1, Len(x)) = x
<1> DEFINE a == SubSeq(x, 1, n)
           b == SubSeq(x, n + 1, Len(x))
           l == Len(x)
           z == a \o b
<1>1. l \in Nat /\ l - n \in Nat /\ n + (l - n) = l /\ 0 + n = n /\ n <= l /\ n + (l - n) <= l
  BY DEF IsSeq
<1>2. IsSeq(a) /\ Len(a) = n /\ \A i \in 1..n : a[i] = x[0 + i]
  <2>1. 0 \in Nat /\ 0 + n <= Len(x)
    BY <1>1
  <2>2. SubSeq(x, 0 + 1, 0 + n) = a
    BY <1>1
  <2> QED
    <3>1. IsPart(SubSeq(x, 0 + 1, 0 + n), x, 0, n)
      BY <2>1, PartIs
    <3> QED
      BY <2>2, <3>1 DEF IsPart
<1>3. IsSeq(b) /\ Len(b) = l - n /\ \A i \in 1..(l - n) : b[i] = x[n + i]
  <2>1. SubSeq(x, n + 1, n + (l - n)) = b
    BY <1>1
  <2>2. n + (l - n) <= Len(x)
    BY <1>1
  <2>3. IsPart(SubSeq(x, n + 1, n + (l - n)), x, n, l - n)
    <3> HIDE DEF l
    <3> QED
      BY <1>1, <2>2, PartIs
  <2> HIDE DEF b
  <2> QED
    BY <2>1, <2>3 DEF IsPart
<1> HIDE DEF a, b
<1>4. /\ IsSeq(z) /\ Len(z) = Len(a) + Len(b)
      /\ (\A i \in 1..Len(a) : z[i] = a[i]) /\ (\A i \in 1..Len(b) : z[Len(a) + i] = b[i])
  <2>1. Joins(z, a, b)
    BY <1>2, <1>3, Cat
  <2> QED
    BY <2>1 DEF Joins
<1> HIDE DEF z, l
<1>5. Len(z) = l
  BY <1>1, <1>2, <1>3, <1>4
<1>6. ASSUME NEW i \in 1..l PROVE z[i] = x[i]
  <2>1. CASE i <= n
    <3>1. i \in 1..n
      BY <2>1
    <3>2. z[i] = a[i] /\ a[i] = x[0 + i] /\ 0 + i = i
      BY <1>2, <1>4, <3>1
    <3> QED
      BY <3>2
  <2>2. CASE i > n
    <3>1. i - n \in 1..(l - n) /\ n + (i - n) = i
      BY <1>1, <2>2
    <3>2. z[n + (i - n)] = b[i - n]
      BY <1>2, <1>3, <1>4, <3>1
    <3>3. b[i - n] = x[n + (i - n)]
      BY <1>3, <3>1
    <3> QED
      BY <3>1, <3>2, <3>3
  <2> QED
    BY <1>1, <2>1, <2>2
<1>7. Len(x) = l
  BY DEF l
<1>8. z = x
  BY <1>4, <1>5, <1>6, <1>7, SameSeq
<1> QED
  BY <1>8 DEF z, a, b, l

-----------------------------------------------------------------------------
(* Blocks                                                                   *)

LEMMA BlockType == Block \in Nat \ {0} /\ Block > 2
BY DigestsAssumption

LEMMA InPieces ==
    ASSUME NEW q \in Nat, NEW i \in 1..q
    PROVE  /\ (i - 1) * Block \in Nat /\ q * Block \in Nat
           /\ i * Block = (i - 1) * Block + Block
           /\ (i - 1) * Block + Block <= q * Block
<1> DEFINE b == Block
<1>1. b \in Nat \ {0} /\ i \in Nat /\ i - 1 \in Nat /\ q - i \in Nat
  BY BlockType
<1>2. (i - 1) * b \in Nat /\ i * b = (i - 1) * b + b /\ q * b \in Nat /\ (q - i) * b \in Nat
  BY <1>1
<1>3. q * b = i * b + (q - i) * b
  BY <1>1
<1> DEFINE u == (i - 1) * b
           v == (q - i) * b
           w == q * b
           t == i * b
<1>4. u \in Nat /\ v \in Nat /\ w \in Nat /\ t = u + b /\ w = t + v
  BY <1>2, <1>3, Zenon
<1> HIDE DEF u, v, w, t
<1>5. u + b <= w
  BY <1>1, <1>4
<1> QED
  BY <1>4, <1>5 DEF u, w, t

\* A sequence is q blocks and a rest of r.
IsCut(x, q, r) ==
    /\ q \in Nat /\ r \in 0..(Block - 1) /\ q * Block \in Nat /\ Len(x) = q * Block + r
    /\ IsSeq(Whole(x)) /\ Len(Whole(x)) = q
    /\ \A i \in 1..q : Whole(x)[i] = Piece(x, i) /\ IsPart(Piece(x, i), x, (i - 1) * Block, Block)
    /\ IsPart(Left(x), x, q * Block, r)

\* How a sequence is cut.
LEMMA CutIs == ASSUME NEW x, IsSeq(x) PROVE IsCut(x, Pieces(x), Len(x) % Block)
<1> DEFINE b == Block
           l == Len(x)
           q == Pieces(x)
           r == l % b
<1>1. l \in Nat /\ b \in Nat \ {0}
  BY BlockType DEF IsSeq
<1>2. q \in Nat /\ r \in 0..(b - 1) /\ l = b * q + r
  <2>1. q = l \div b
    BY DEF Pieces
  <2> HIDE DEF l, q
  <2> QED
    BY <1>1, <2>1
<1>3. q * b \in Nat /\ q * b = b * q
  <2> HIDE DEF q
  <2> QED
    BY <1>1, <1>2
<1>4. Whole(x) = [i \in 1..q |-> Piece(x, i)]
  BY DEF Whole
<1>5. IsSeq(Whole(x)) /\ Len(Whole(x)) = q /\ \A i \in 1..q : Whole(x)[i] = Piece(x, i)
  <2> DEFINE w == Whole(x)
  <2>1. w = [i \in 1..q |-> Piece(x, i)]
    BY <1>4
  <2> HIDE DEF w, q
  <2>2. w = [i \in 1..q |-> w[i]] /\ \A i \in 1..q : w[i] = Piece(x, i)
    BY <2>1
  <2>3. IsSeq(w) /\ Len(w) = q
    BY <1>2, <2>2, SeqIs
  <2> QED
    BY <2>2, <2>3 DEF w
<1>6. ASSUME NEW i \in 1..q PROVE IsPart(Piece(x, i), x, (i - 1) * b, b)
  <2> DEFINE from == (i - 1) * b
             s == q * b
  <2>1. from \in Nat /\ i * b = from + b /\ from + b <= s
    <3> HIDE DEF q
    <3> QED
      BY <1>2, InPieces
  <2>2. Piece(x, i) = SubSeq(x, from + 1, from + b)
    BY <2>1 DEF Piece
  <2>3. s \in Nat /\ l = s + r
    BY <1>2, <1>3
  <2> HIDE DEF from, s, q, r, l
  <2>4. from + b <= l
    BY <1>1, <1>2, <2>1, <2>3
  <2>5. IsPart(SubSeq(x, from + 1, from + b), x, from, b)
    BY <1>1, <2>1, <2>4, PartIs DEF l
  <2> QED
    BY <2>2, <2>5 DEF from
<1>7. IsPart(Left(x), x, q * b, r)
  <2> DEFINE from == q * b
  <2>1. from \in Nat /\ l = from + r /\ r \in Nat
    BY <1>1, <1>2, <1>3
  <2>2. Left(x) = SubSeq(x, from + 1, l)
    BY DEF Left
  <2> HIDE DEF from, q, r, l
  <2>3. IsPart(SubSeq(x, from + 1, from + r), x, from, r)
    <3>1. from + r <= Len(x)
      BY <2>1 DEF l
    <3> QED
      BY <2>1, <3>1, PartIs
  <2> QED
    BY <2>1, <2>2, <2>3 DEF from
<1>8. l = q * b + r
  BY <1>2, <1>3
<1>9. \A i \in 1..q : Whole(x)[i] = Piece(x, i) /\ IsPart(Piece(x, i), x, (i - 1) * b, b)
  BY <1>5, <1>6, Zenon
<1> HIDE DEF q, r
<1> QED
  BY <1>2, <1>3, <1>5, <1>7, <1>8, <1>9 DEF IsCut, q, r

\* Parts of equal length and content are the same.
LEMMA SameParts ==
    ASSUME NEW p, NEW s, NEW x, NEW y, NEW i, NEW j, NEW n, IsPart(p, x, i, n), IsPart(s, y, j, n),
           \A k \in 1..n : x[i + k] = y[j + k]
    PROVE  p = s
<1>1. IsSeq(p) /\ IsSeq(s) /\ Len(p) = n /\ Len(s) = n /\ \A k \in 1..n : p[k] = s[k]
  BY DEF IsPart
<1> QED
  BY <1>1, SameSeq

\* Behind whole blocks a sequence is cut as it is cut alone.
LEMMA AlignedIs ==
    ASSUME NEW a, NEW x, IsSeq(a), IsSeq(x), Len(a) % Block = 0
    PROVE  Whole(a \o x) = Whole(a) \o Whole(x) /\ Left(a \o x) = Left(x)
<1> DEFINE b == Block
           z == a \o x
           m == Pieces(a)
           q == Pieces(x)
           r == Len(x) % b
<1>1. Joins(z, a, x)
  BY Cat
<1>2. IsSeq(z) /\ Len(z) = Len(a) + Len(x)
  BY <1>1 DEF Joins
<1>3. b \in Nat \ {0} /\ b > 2
  BY BlockType
<1> HIDE DEF z
<1>16. IsCut(a, m, Len(a) % b) /\ IsCut(x, q, r)
  BY CutIs
<1> HIDE DEF m, q, r
<1>17. Len(a) % b = 0
  OBVIOUS
<1>4. m \in Nat /\ Len(a) = m * b /\ m * b \in Nat
  <2>1. m \in Nat /\ m * b \in Nat /\ Len(a) = m * b + 0
    BY <1>16, <1>17 DEF IsCut
  <2> QED
    BY <2>1
<1>5. q \in Nat /\ r \in 0..(b - 1) /\ Len(x) = q * b + r /\ q * b \in Nat
  BY <1>16 DEF IsCut
<1>6. Len(z) = (m + q) * b + r
  <2>1. (m + q) * b = m * b + q * b
    BY <1>3, <1>4, <1>5
  <2> QED
    BY <1>2, <1>4, <1>5, <2>1
<1>7. Pieces(z) = m + q /\ Len(z) % b = r
  <2> DEFINE k == m + q
  <2>0. k \in Nat
    BY <1>4, <1>5
  <2> HIDE DEF k
  <2>1. (k * b + r) \div b = k /\ (k * b + r) % b = r
    BY <1>3, <1>5, <2>0, DivRest
  <2>2. Len(z) = k * b + r
    BY <1>6 DEF k
  <2> QED
    BY <2>1, <2>2 DEF Pieces, k
<1>8. /\ IsSeq(Whole(z)) /\ Len(Whole(z)) = m + q
      /\ \A i \in 1..(m + q) : Whole(z)[i] = Piece(z, i) /\ IsPart(Piece(z, i), z, (i - 1) * b, b)
      /\ IsPart(Left(z), z, (m + q) * b, r)
  <2>1. IsCut(z, m + q, r)
    <3>1. IsCut(z, Pieces(z), Len(z) % b)
      BY <1>2, CutIs
    <3> QED
      BY <1>7, <3>1
  <2> QED
    BY <2>1 DEF IsCut
<1>9. /\ IsSeq(Whole(a)) /\ Len(Whole(a)) = m
      /\ \A i \in 1..m : Whole(a)[i] = Piece(a, i) /\ IsPart(Piece(a, i), a, (i - 1) * b, b)
  BY <1>16 DEF IsCut
<1>10. /\ IsSeq(Whole(x)) /\ Len(Whole(x)) = q
       /\ \A i \in 1..q : Whole(x)[i] = Piece(x, i) /\ IsPart(Piece(x, i), x, (i - 1) * b, b)
       /\ IsPart(Left(x), x, q * b, r)
  BY <1>16 DEF IsCut
<1>11. /\ \A i \in 1..Len(a) : z[i] = a[i]
       /\ \A i \in 1..Len(x) : z[Len(a) + i] = x[i]
  BY <1>1 DEF Joins
<1>12. ASSUME NEW i \in 1..m PROVE Piece(z, i) = Piece(a, i)
  <2> DEFINE from == (i - 1) * b
  <2>1. from \in Nat /\ from + b <= m * b
    BY <1>4, InPieces
  <2>2. i \in 1..(m + q)
    BY <1>4, <1>5
  <2>3. IsPart(Piece(z, i), z, from, b) /\ IsPart(Piece(a, i), a, from, b)
    BY <1>8, <1>9, <2>2
  <2> HIDE DEF from
  <2>4. \A k \in 1..b : from + k \in 1..Len(a)
    BY <1>3, <1>4, <2>1
  <2>5. \A k \in 1..b : z[from + k] = a[from + k]
    BY <1>11, <2>4
  <2> QED
    BY ONLY <2>3, <2>5, SameParts
<1>13. ASSUME NEW j \in 1..q PROVE Piece(z, m + j) = Piece(x, j)
  <2> DEFINE from == (j - 1) * b
             at == ((m + j) - 1) * b
             am == m * b
             qb == q * b
  <2>1. from \in Nat /\ from + b <= qb
    BY <1>5, InPieces
  <2>2. m + j \in 1..(m + q)
    BY <1>4, <1>5
  <2>3. IsPart(Piece(z, m + j), z, at, b) /\ IsPart(Piece(x, j), x, from, b)
    BY <1>8, <1>10, <2>2
  <2>4. at = am + from
    BY <1>3, <1>4, <1>5
  <2>5. am \in Nat /\ Len(a) = am /\ qb \in Nat /\ Len(x) = qb + r
    BY <1>4, <1>5
  <2> HIDE DEF from, at, am, qb
  <2>6. \A k \in 1..b : from + k \in 1..Len(x) /\ at + k = Len(a) + (from + k)
    BY <1>3, <1>5, <2>1, <2>4, <2>5
  <2>7. \A k \in 1..b : z[at + k] = x[from + k]
    BY <1>11, <2>6
  <2> QED
    BY ONLY <2>3, <2>7, SameParts
<1>14. Left(z) = Left(x)
  <2> DEFINE from == q * b
             at == (m + q) * b
             am == m * b
  <2>3. IsPart(Left(z), z, at, r) /\ IsPart(Left(x), x, from, r)
    BY <1>8, <1>10
  <2>4. at = am + from
    BY <1>3, <1>4, <1>5
  <2>5. am \in Nat /\ Len(a) = am /\ from \in Nat /\ Len(x) = from + r
    BY <1>4, <1>5
  <2> HIDE DEF from, at, am
  <2>6. \A k \in 1..r : from + k \in 1..Len(x) /\ at + k = Len(a) + (from + k)
    BY <1>5, <2>4, <2>5
  <2>7. \A k \in 1..r : z[at + k] = x[from + k]
    BY <1>11, <2>6
  <2> QED
    BY ONLY <2>3, <2>7, SameParts
<1>15. Whole(z) = Whole(a) \o Whole(x)
  <2> DEFINE w == Whole(a) \o Whole(x)
             v == Whole(z)
  <2>1. Joins(w, Whole(a), Whole(x))
    BY <1>9, <1>10, Cat
  <2> HIDE DEF w
  <2>2. /\ IsSeq(w) /\ Len(w) = m + q
        /\ (\A i \in 1..m : w[i] = Piece(a, i)) /\ (\A j \in 1..q : w[m + j] = Piece(x, j))
    BY <1>9, <1>10, <2>1 DEF Joins
  <2>3. IsSeq(v) /\ Len(v) = m + q /\ \A i \in 1..(m + q) : v[i] = Piece(z, i)
    BY <1>8
  <2> HIDE DEF v
  <2>4. ASSUME NEW i \in 1..(m + q) PROVE v[i] = w[i]
    <3>1. CASE i <= m
      <4>1. i \in 1..m
        BY <3>1
      <4> QED
        BY <1>12, <2>2, <2>3, <4>1
    <3>2. CASE i > m
      <4>1. i - m \in 1..q /\ m + (i - m) = i
        BY <1>4, <1>5, <3>2
      <4>2. w[m + (i - m)] = Piece(x, i - m) /\ Piece(z, m + (i - m)) = Piece(x, i - m)
        BY <1>13, <2>2, <4>1
      <4> QED
        BY <2>3, <4>1, <4>2
    <3> QED
      BY <1>4, <1>5, <3>1, <3>2
  <2>5. v = w
    BY <2>2, <2>3, <2>4, SameSeq
  <2> QED
    BY <2>5 DEF v, w
<1> QED
  BY <1>14, <1>15 DEF z

LEMMA ShortIs ==
    ASSUME NEW x, IsSeq(x), Len(x) < Block
    PROVE  Whole(x) = <<>> /\ Left(x) = x
<1> DEFINE q == Pieces(x)
           r == Len(x) % Block
           s == q * Block
           l == Left(x)
           n == Len(x)
<1>0. Block \in Nat \ {0} /\ n \in Nat
  BY BlockType DEF IsSeq
<1>1. IsCut(x, q, r)
  BY CutIs
<1> HIDE DEF q, r, l
<1>2. q \in Nat /\ r \in 0..(Block - 1) /\ s \in Nat /\ n = s + r /\ IsSeq(Whole(x)) /\ Len(Whole(x)) = q
      /\ IsPart(l, x, s, r)
  BY <1>1 DEF IsCut, l
<1>3. q = 0
  <2> SUFFICES ASSUME q # 0 PROVE FALSE
    OBVIOUS
  <2>1. q - 1 \in Nat /\ 1 \in 1..q
    BY <1>2
  <2>2. (q - 1) * Block \in Nat /\ s = (q - 1) * Block + Block
    BY <1>0, <1>2, <2>1
  <2> DEFINE t == (q - 1) * Block
  <2> HIDE DEF s, t
  <2>3. t \in Nat /\ s = t + Block
    BY <2>2 DEF t
  <2>4. n < Block
    BY DEF n
  <2> HIDE DEF n
  <2> QED
    BY <1>0, <1>2, <2>3, <2>4
<1>4. s = 0
  BY <1>0, <1>3
<1> HIDE DEF s
<1>5. n = r
  BY <1>2, <1>4
<1>6. Whole(x) = <<>>
  BY <1>2, <1>3, EmptyIs
<1>7. IsSeq(l) /\ Len(l) = Len(x) /\ \A i \in 1..Len(l) : l[i] = x[i]
  <2>1. IsSeq(l) /\ Len(l) = n /\ \A i \in 1..n : l[i] = x[0 + i]
    BY <1>2, <1>4, <1>5 DEF IsPart
  <2>2. \A i \in 1..n : 0 + i = i
    BY <1>0
  <2> QED
    BY <2>1, <2>2
<1>8. l = x
  BY <1>7, SameSeq
<1> QED
  BY <1>6, <1>8 DEF l

LEMMA OneIs ==
    ASSUME NEW x, IsSeq(x), Len(x) = Block
    PROVE  Whole(x) = <<x>> /\ Left(x) = <<>> /\ Len(x) % Block = 0
<1> DEFINE w == Whole(x)
           p == Piece(x, 1)
           l == Left(x)
<1>1. Block \in Nat \ {0} /\ Len(x) = Block
  BY BlockType
<1>2. Pieces(x) = 1 /\ Len(x) % Block = 0
  <2>1. 0 \in 0..(Block - 1) /\ 1 * Block + 0 = Block
    BY <1>1
  <2>2. Block \div Block = 1 /\ Block % Block = 0
    BY <1>1, <2>1, DivRest
  <2> QED
    BY <1>1, <2>2 DEF Pieces
<1>3. IsCut(x, 1, 0)
  BY <1>2, CutIs
<1>4. IsSeq(w) /\ Len(w) = 1 /\ w[1] = p /\ IsPart(p, x, 0, Block) /\ IsPart(l, x, 1 * Block, 0)
  <2>1. 1 \in 1..1 /\ (1 - 1) * Block = 0
    BY <1>1
  <2> HIDE DEF w, p, l
  <2> QED
    BY <1>3, <2>1 DEF IsCut, w, p, l
<1> HIDE DEF w, p, l
<1>5. l = <<>>
  <2>1. IsSeq(l) /\ Len(l) = 0
    BY <1>4 DEF IsPart
  <2> QED
    BY <2>1, EmptyIs
<1>6. p = x
  <2>1. IsSeq(p) /\ Len(p) = Block /\ \A i \in 1..Block : p[i] = x[0 + i]
    BY <1>4 DEF IsPart
  <2>2. \A i \in 1..Block : 0 + i = i
    BY <1>1
  <2>3. \A i \in 1..Len(p) : p[i] = x[i]
    BY <2>1, <2>2
  <2> QED
    BY <1>1, <2>1, <2>3, SameSeq
<1>7. w = <<x>>
  <2>1. IsSeq(<<x>>) /\ Len(<<x>>) = 1 /\ <<x>>[1] = x
    BY Single
  <2> DEFINE o == <<x>>
  <2> HIDE DEF o
  <2>2. \A i \in 1..Len(w) : w[i] = o[i]
    <3>1. \A i \in 1..1 : i = 1
      OBVIOUS
    <3> QED
      BY <1>4, <1>6, <2>1, <3>1 DEF o
  <2>3. w = o
    BY <1>4, <2>1, <2>2, SameSeq DEF o
  <2> QED
    BY <2>3 DEF o
<1> QED
  BY <1>2, <1>5, <1>7 DEF w, l

\* What is left of a sequence.
LEMMA LeftIs == ASSUME NEW m, IsSeq(m) PROVE IsSeq(Left(m)) /\ Len(Left(m)) = Len(m) % Block /\ Len(Left(m)) \in 0..(Block - 1)
<1> DEFINE q == Pieces(m)
           r == Len(m) % Block
<1>1. IsCut(m, q, r)
  BY CutIs
<1>2. r \in 0..(Block - 1) /\ IsPart(Left(m), m, q * Block, r)
  <2> HIDE DEF q, r
  <2> QED
    BY <1>1 DEF IsCut
<1> HIDE DEF q, r
<1> QED
  BY <1>2 DEF IsPart, r

\* A sequence is its whole blocks and what is left.
LEMMA FrontIs ==
    ASSUME NEW m, IsSeq(m)
    PROVE  \E a : IsSeq(a) /\ Len(a) % Block = 0 /\ m = a \o Left(m) /\ Whole(a) = Whole(m)
<1> DEFINE q == Pieces(m)
           r == Len(m) % Block
           n == q * Block
           l == Left(m)
           a == SubSeq(m, 1, n)
<1>1. IsCut(m, q, r)
  BY CutIs
<1> HIDE DEF q, r
<1>2. q \in Nat /\ n \in Nat /\ r \in 0..(Block - 1) /\ Len(m) = n + r
  BY <1>1 DEF IsCut
<1>3. Block \in Nat \ {0}
  BY BlockType
<1>4. l = SubSeq(m, n + 1, Len(m))
  BY DEF Left, q
<1>5. IsSeq(l) /\ Len(l) < Block
  BY <1>3, LeftIs
<1>6. n % Block = 0
  <2>1. 0 \in 0..(Block - 1) /\ q * Block + 0 = n
    BY <1>2, <1>3
  <2>2. (q * Block + 0) % Block = 0
    BY <1>2, <1>3, <2>1, DivRest
  <2> HIDE DEF n
  <2> QED
    BY <2>1, <2>2
<1> HIDE DEF n, l
<1>7. n <= Len(m)
  BY <1>2, <1>3
<1>8. a \o l = m
  BY <1>2, <1>4, <1>7, TwoParts
<1>9. IsSeq(a) /\ Len(a) = n
  <2>1. 0 + n <= Len(m) /\ 0 + 1 = 1 /\ 0 + n = n
    BY <1>2, <1>7
  <2>2. IsPart(SubSeq(m, 0 + 1, 0 + n), m, 0, n)
    BY <1>2, <2>1, PartIs
  <2>3. IsPart(a, m, 0, n)
    BY <2>1, <2>2
  <2> QED
    BY <2>3 DEF IsPart
<1> HIDE DEF a
<1>10. Whole(m) = Whole(a) \o Whole(l) /\ Whole(l) = <<>>
  <2>1. Whole(a \o l) = Whole(a) \o Whole(l)
    BY <1>5, <1>6, <1>9, AlignedIs
  <2>2. Whole(l) = <<>>
    BY <1>5, ShortIs
  <2> QED
    BY <1>8, <2>1, <2>2
<1>11. IsSeq(Whole(a))
  <2>1. IsCut(a, Pieces(a), Len(a) % Block)
    BY <1>9, CutIs
  <2> QED
    BY <2>1 DEF IsCut
<1>12. Whole(a) = Whole(m)
  BY <1>10, <1>11, CatEmpty
<1>13. IsSeq(a) /\ Len(a) % Block = 0 /\ m = a \o Left(m) /\ Whole(a) = Whole(m)
  BY <1>6, <1>8, <1>9, <1>12 DEF l
<1> QED
  BY <1>13

\* More bytes behind a message.
LEMMA MoreIs ==
    ASSUME NEW m, IsSeq(m), NEW x, IsSeq(x)
    PROVE  Whole(m \o x) = Whole(m) \o Whole(Left(m) \o x) /\ Left(m \o x) = Left(Left(m) \o x)
<1> DEFINE l == Left(m)
           y == l \o x
<1>1. IsSeq(l)
  BY LeftIs
<1>2. PICK a : IsSeq(a) /\ Len(a) % Block = 0 /\ m = a \o l /\ Whole(a) = Whole(m)
  BY FrontIs
<1> HIDE DEF l
<1>3. m \o x = a \o y
  BY <1>1, <1>2, CatThree
<1>4. IsSeq(y)
  <2>1. Joins(l \o x, l, x)
    BY <1>1, Cat
  <2> QED
    BY <2>1 DEF Joins
<1> HIDE DEF y
<1>5. Whole(a \o y) = Whole(a) \o Whole(y) /\ Left(a \o y) = Left(y)
  BY <1>2, <1>4, AlignedIs
<1>6. Whole(m \o x) = Whole(m) \o Whole(y) /\ Left(m \o x) = Left(y)
  BY <1>2, <1>3, <1>5
<1> QED
  BY <1>6 DEF y, l

LEMMA WholeIs == ASSUME NEW m, IsSeq(m) PROVE IsSeq(Whole(m))
<1>1. IsCut(m, Pieces(m), Len(m) % Block)
  BY CutIs
<1> QED
  BY <1>1 DEF IsCut

LEMMA LessIs ==
    ASSUME NEW m, IsSeq(m), NEW x, IsSeq(x), Len(Left(m)) + Len(x) < Block
    PROVE  Whole(m \o x) = Whole(m) /\ Left(m \o x) = Left(m) \o x
<1> DEFINE y == Left(m) \o x
<1>1. Joins(y, Left(m), x)
  BY LeftIs, Cat
<1>2. IsSeq(y) /\ Len(y) < Block
  BY <1>1 DEF Joins
<1>3. Whole(m \o x) = Whole(m) \o Whole(y) /\ Left(m \o x) = Left(y)
  BY MoreIs
<1> HIDE DEF y
<1>4. Whole(y) = <<>> /\ Left(y) = y
  BY <1>2, ShortIs
<1>5. Whole(m) \o <<>> = Whole(m)
  BY WholeIs, CatEmpty
<1> QED
  BY <1>3, <1>4, <1>5 DEF y

\* A piece that fills the block makes it one more whole block.
Fills(m, x, rest) ==
    /\ Whole(m \o (x \o rest)) = Whole(m) \o (<<Left(m) \o x>> \o Whole(rest))
    /\ Left(m \o (x \o rest)) = Left(rest)

LEMMA FillIs ==
    ASSUME NEW m, IsSeq(m), NEW x, IsSeq(x), NEW rest, IsSeq(rest), Len(Left(m)) + Len(x) = Block
    PROVE  Fills(m, x, rest)
<1> DEFINE y == Left(m) \o x
           z == x \o rest
<1>1. Joins(y, Left(m), x)
  BY LeftIs, Cat
<1>2. IsSeq(y) /\ Len(y) = Block
  BY <1>1 DEF Joins
<1>3. IsSeq(z)
  <2>1. Joins(z, x, rest)
    BY Cat
  <2> QED
    BY <2>1 DEF Joins
<1>4. Left(m) \o z = y \o rest
  <2>1. IsSeq(Left(m))
    BY LeftIs
  <2>2. (Left(m) \o x) \o rest = Left(m) \o (x \o rest)
    <3>1. Regroups(Left(m), x, rest)
      BY ONLY <2>1, IsSeq(x), IsSeq(rest), Regrouped
    <3> QED
      BY ONLY <3>1 DEF Regroups
  <2> QED
    BY <2>2
<1> HIDE DEF z
<1>5. Whole(m \o z) = Whole(m) \o Whole(Left(m) \o z) /\ Left(m \o z) = Left(Left(m) \o z)
  BY <1>3, MoreIs
<1> HIDE DEF y
<1>6. Whole(y) = <<y>> /\ Len(y) % Block = 0
  BY <1>2, OneIs
<1>7. Whole(y \o rest) = Whole(y) \o Whole(rest) /\ Left(y \o rest) = Left(rest)
  BY <1>2, <1>6, AlignedIs
<1>8. Whole(m \o z) = Whole(m) \o (<<y>> \o Whole(rest)) /\ Left(m \o z) = Left(rest)
  BY <1>4, <1>5, <1>6, <1>7
<1> QED
  BY <1>8 DEF y, z, Fills

-----------------------------------------------------------------------------
(* Counters                                                                 *)

LEMMA DivMod ==
    ASSUME NEW x \in Nat, NEW b \in Nat \ {0}
    PROVE  x \div b \in Nat /\ x % b \in 0..(b - 1) /\ x = (x \div b) * b + (x % b) /\ (x \div b) * b \in Nat
<1> DEFINE q == x \div b
           r == x % b
<1>1. q \in Nat /\ r \in 0..(b - 1) /\ x = b * q + r
  OBVIOUS
<1>2. x = q * b + r /\ q * b \in Nat
  <2> HIDE DEF q, r
  <2> QED
    BY <1>1
<1>3. q \in Nat /\ r \in 0..(b - 1)
  BY <1>1
<1> QED
  BY ONLY <1>2, <1>3, Zenon

\* Whole blocks, or words, change the quotient only.
LEMMA AddWhole ==
    ASSUME NEW x \in Nat, NEW c \in Nat, NEW b \in Nat \ {0}
    PROVE  (c * b + x) % b = x % b /\ (c * b + x) \div b = c + x \div b
<1> DEFINE q == x \div b
           r == x % b
<1>1. q \in Nat /\ r \in 0..(b - 1) /\ x = q * b + r /\ q * b \in Nat
  BY DivMod
<1> HIDE DEF q, r
<1>2. (c + q) * b = c * b + q * b /\ c * b \in Nat
  BY <1>1
<1>3. c * b + x = (c + q) * b + r
  BY <1>1, <1>2
<1> DEFINE k == c + q
<1>4. k \in Nat
  BY <1>1
<1> HIDE DEF k
<1>5. (k * b + r) \div b = k /\ (k * b + r) % b = r
  BY <1>1, <1>4, DivRest
<1>6. (c * b + x) \div b = k /\ (c * b + x) % b = r
  BY <1>3, <1>5 DEF k
<1> QED
  BY <1>6 DEF k, q, r

LEMMA WordIs ==
    /\ Word \in Nat \ {0} /\ Bits \in 1..Word
    /\ \E c \in Nat \ {0} : Word = c * Block
<1>1. Word \in Nat \ {0} /\ Bits \in Nat \ {0} /\ Word % Bits = 0 /\ (Word \div Bits) % Block = 0 /\ Block \in Nat \ {0}
  BY DigestsAssumption
<1> DEFINE k == Word \div Bits
           d == k \div Block
<1>2. k \in Nat /\ Word = k * Bits
  <2>1. k \in Nat /\ Word = k * Bits + (Word % Bits) /\ k * Bits \in Nat
    BY <1>1, DivMod
  <2> DEFINE t == k * Bits
  <2> HIDE DEF k, t
  <2>2. Word = t + 0 /\ t \in Nat
    BY <1>1, <2>1 DEF t
  <2> QED
    BY <2>1, <2>2 DEF t
<1>3. d \in Nat /\ k = d * Block
  <2>1. k % Block = 0
    BY <1>1
  <2> HIDE DEF k
  <2> DEFINE t == d * Block
             r == k % Block
  <2>2. d \in Nat /\ k = t + r /\ t \in Nat
    BY <1>1, <1>2, DivMod
  <2>4. r = 0
    BY <2>1
  <2> HIDE DEF d, t, r
  <2>3. k = t + 0 /\ t \in Nat
    BY <2>2, <2>4
  <2> QED
    BY <2>2, <2>3 DEF t
<1> HIDE DEF k, d
<1>4. k # 0
  BY <1>1, <1>2
<1>5. Bits <= Word
  <2> DEFINE t == (k - 1) * Bits
  <2>1. k - 1 \in Nat
    BY <1>2, <1>4
  <2>2. t \in Nat /\ Word = t + Bits
    BY <1>1, <1>2, <2>1
  <2> HIDE DEF t
  <2> QED
    BY <1>1, <2>2
<1>6. d # 0
  BY <1>1, <1>3, <1>4
<1>7. Word = (d * Bits) * Block /\ d * Bits \in Nat
  BY <1>1, <1>2, <1>3
<1>8. d * Bits # 0
  <2> SUFFICES ASSUME d * Bits = 0 PROVE FALSE
    OBVIOUS
  <2>1. Word = 0 * Block
    BY <1>7
  <2> QED
    BY <1>1, <2>1
<1> QED
  BY <1>1, <1>5, <1>7, <1>8

LEMMA BlockInWord == Block \in 1..Word
<1>1. PICK c \in Nat \ {0} : Word = c * Block
  BY WordIs
<1>2. Block \in Nat \ {0} /\ Word \in Nat
  BY BlockType, WordIs
<1> DEFINE t == (c - 1) * Block
<1>3. c - 1 \in Nat
  OBVIOUS
<1>4. t \in Nat /\ Word = t + Block
  BY <1>1, <1>2, <1>3
<1> HIDE DEF t
<1> QED
  BY <1>2, <1>4

\* The low word tells the place in the block.
LEMMA PlaceInBlock == ASSUME NEW x \in Nat PROVE (x % Word) % Block = x % Block
<1>1. PICK c \in Nat \ {0} : Word = c * Block
  BY WordIs
<1>2. Block \in Nat \ {0} /\ Word \in Nat \ {0}
  BY BlockType, WordIs
<1> DEFINE q == x \div Word
           r == x % Word
<1>3. q \in Nat /\ r \in 0..(Word - 1) /\ x = q * Word + r
  BY <1>2, DivMod
<1> HIDE DEF q, r
<1>4. q * Word = (q * c) * Block /\ q * c \in Nat
  BY <1>1, <1>2, <1>3
<1> DEFINE k == q * c
<1>5. k \in Nat /\ x = k * Block + r /\ r \in Nat
  BY <1>2, <1>3, <1>4
<1> HIDE DEF k
<1>6. (k * Block + r) % Block = r % Block
  BY <1>2, <1>5, AddWhole
<1> QED
  BY <1>5, <1>6 DEF r

\* The two words count on.
LEMMA CarryIs ==
    ASSUME NEW x \in Nat, NEW n \in 0..Word
    PROVE  /\ (x + n) % Word = ((x % Word) + n) % Word
           /\ ((x + n) \div Word) % Word = IF ((x % Word) + n) % Word < n THEN (((x \div Word) % Word) + 1) % Word
                                           ELSE (x \div Word) % Word
<1> DEFINE w == Word
           q == x \div w
           r == x % w
<1>1. w \in Nat \ {0} /\ n \in Nat /\ n <= w
  BY WordIs
<1>2. q \in Nat /\ r \in 0..(w - 1) /\ x = q * w + r /\ q * w \in Nat
  BY <1>1, DivMod
<1> HIDE DEF w, q, r
<1>3. x + n = q * w + (r + n) /\ r + n \in Nat
  BY <1>1, <1>2
<1>4. (q * w + (r + n)) % w = (r + n) % w /\ (q * w + (r + n)) \div w = q + (r + n) \div w
  BY <1>1, <1>2, <1>3, AddWhole
<1>5. CASE r + n < w
  <2>1. r + n \in 0..(w - 1) /\ 0 * w + (r + n) = r + n
    BY <1>1, <1>2, <1>5
  <2>2. (0 * w + (r + n)) \div w = 0 /\ (0 * w + (r + n)) % w = r + n
    BY <1>1, <2>1, DivRest
  <2>3. (r + n) \div w = 0 /\ (r + n) % w = r + n /\ ~(r + n < n)
    BY <1>1, <1>2, <2>1, <2>2
  <2>4. (x + n) % w = r + n /\ (x + n) \div w = q
    BY <1>2, <1>3, <1>4, <2>3
  <2> QED
    BY <2>3, <2>4 DEF w, q, r
<1>6. CASE r + n >= w
  <2> DEFINE s == r + n - w
  <2>1. s \in 0..w /\ s < n /\ 1 * w + s = r + n /\ s \in 0..(w - 1)
    BY <1>1, <1>2, <1>6
  <2> HIDE DEF s
  <2>2. (1 * w + s) \div w = 1 /\ (1 * w + s) % w = s
    BY <1>1, <2>1, DivRest
  <2>3. (r + n) \div w = 1 /\ (r + n) % w = s
    BY <2>1, <2>2
  <2>4. (x + n) % w = s /\ (x + n) \div w = q + 1
    BY <1>3, <1>4, <2>3
  <2>5. (q + 1) % w = ((q % w) + 1) % w
    <3> DEFINE u == q \div w
               v == q % w
    <3>1. u \in Nat /\ v \in 0..(w - 1) /\ q = u * w + v /\ u * w \in Nat
      BY <1>1, <1>2, DivMod
    <3> HIDE DEF u, v
    <3>2. q + 1 = u * w + (v + 1) /\ v + 1 \in Nat
      BY <3>1
    <3>3. (u * w + (v + 1)) % w = (v + 1) % w
      BY <1>1, <3>1, <3>2, AddWhole
    <3> QED
      BY <3>2, <3>3 DEF v
  <2> QED
    BY <2>1, <2>3, <2>4, <2>5 DEF w, q, r
<1> QED
  BY <1>1, <1>2, <1>5, <1>6

\* The length in bits from the words that count bytes.
LEMMA BitsIs ==
    ASSUME NEW x \in Nat
    PROVE  /\ (Bits * x) % Word = ((x % Word) * Bits) % Word
           /\ ((Bits * x) \div Word) % Word
                = (((x % Word) * Bits) \div Word + ((x \div Word) % Word) * Bits) % Word
<1> DEFINE w == Word
           b == Bits
           q == x \div w
           r == x % w
           y == r * b
           c == y \div w
           d == q \div w
           h == q % w
<1>1. w \in Nat \ {0} /\ b \in Nat
  BY WordIs
<1>2. q \in Nat /\ r \in 0..(w - 1) /\ x = q * w + r /\ q * w \in Nat
  BY <1>1, DivMod
<1> HIDE DEF w, b, q, r
<1>3. d \in Nat /\ h \in 0..(w - 1) /\ q = d * w + h /\ d * w \in Nat
  BY <1>1, <1>2, DivMod
<1>4. y \in Nat /\ q * b \in Nat /\ h * b \in Nat /\ d * b \in Nat
  BY <1>1, <1>2, <1>3
<1> HIDE DEF d, h
<1>5. b * x = (q * b) * w + y
  BY <1>1, <1>2
<1>6. q * b = (d * b) * w + h * b
  BY <1>1, <1>3
<1> HIDE DEF y
<1>7. c \in Nat
  BY <1>1, <1>4, DivMod
<1> HIDE DEF c
<1> DEFINE e == q * b
           f == h * b
           g == d * b
<1>8. (e * w + y) % w = y % w /\ (e * w + y) \div w = e + c
  <2>1. e \in Nat
    BY <1>4
  <2> HIDE DEF e
  <2> QED
    BY <1>1, <1>4, <2>1, AddWhole DEF c
<1>9. (e + c) % w = (c + f) % w
  <2>1. e = g * w + f /\ g \in Nat /\ f \in Nat
    BY <1>4, <1>6
  <2> HIDE DEF e, f, g
  <2>2. e + c = g * w + (c + f) /\ c + f \in Nat
    <3> DEFINE t == g * w
    <3>1. t \in Nat
      BY <1>1, <2>1
    <3> HIDE DEF t
    <3>2. e = t + f
      BY <2>1 DEF t
    <3>4. f \in Nat
      BY <2>1
    <3>3. e + c = t + (c + f) /\ c + f \in Nat
      BY ONLY <1>7, <3>1, <3>2, <3>4
    <3> QED
      BY <3>3 DEF t
  <2>3. (g * w + (c + f)) % w = (c + f) % w
    BY <1>1, <2>1, <2>2, AddWhole
  <2> QED
    BY <2>2, <2>3
<1>10. (b * x) % w = y % w /\ ((b * x) \div w) % w = (c + f) % w
  BY <1>5, <1>8, <1>9
<1> QED
  BY <1>10 DEF w, b, q, r, y, c, h

-----------------------------------------------------------------------------
(* Buffers                                                                  *)

\* A buffer begins with the bytes that are left.
Holds(buf, l) ==
    /\ buf = [i \in 1..Block |-> buf[i]] /\ IsSeq(l) /\ Len(l) <= Block
    /\ \A i \in 1..Len(l) : buf[i] = l[i]

LEMMA BlitIs ==
    ASSUME NEW buf, NEW l, Holds(buf, l), NEW x, IsSeq(x), Len(l) + Len(x) <= Block
    PROVE  Holds(Blit(buf, Len(l), x), l \o x)
<1> DEFINE b == Blit(buf, Len(l), x)
           y == l \o x
           n == Len(l)
           k == Len(x)
<1>1. Block \in Nat \ {0} /\ n \in Nat /\ k \in Nat /\ n + k <= Block
  BY BlockType DEF Holds, IsSeq
<1>2. IsSeq(y) /\ Len(y) = n + k /\ (\A i \in 1..n : y[i] = l[i]) /\ (\A i \in 1..k : y[n + i] = x[i])
  <2>1. Joins(y, l, x)
    BY Cat DEF Holds
  <2> QED
    BY <2>1 DEF Joins
<1>3. DOMAIN buf = 1..Block /\ \A i \in 1..n : buf[i] = l[i]
  BY DEF Holds
<1>4. b = [i \in 1..Block |-> IF i \in (n + 1)..(n + k) THEN x[i - n] ELSE buf[i]]
  BY <1>3 DEF Blit
<1> HIDE DEF b, y, n, k
<1>5. ASSUME NEW i \in 1..(n + k) PROVE b[i] = y[i]
  <2>0. i \in 1..Block
    BY <1>1
  <2>1. CASE i <= n
    <3>1. i \in 1..n /\ ~(i \in (n + 1)..(n + k))
      BY <1>1, <2>1
    <3>2. b[i] = buf[i]
      BY <1>4, <2>0, <3>1
    <3> QED
      BY <1>2, <1>3, <3>1, <3>2
  <2>2. CASE i > n
    <3>1. i - n \in 1..k /\ n + (i - n) = i /\ i \in (n + 1)..(n + k)
      BY <1>1, <2>2
    <3>2. b[i] = x[i - n]
      BY <1>4, <2>0, <3>1
    <3>3. y[n + (i - n)] = x[i - n]
      BY <1>2, <3>1
    <3> QED
      BY <3>1, <3>2, <3>3
  <2> QED
    BY <1>1, <2>1, <2>2
<1>6. b = [i \in 1..Block |-> b[i]]
  BY <1>4
<1>7. Holds(b, y)
  BY <1>1, <1>2, <1>5, <1>6 DEF Holds
<1> QED
  BY <1>7 DEF b, y

LEMMA HoldsNothing == ASSUME NEW buf, NEW l, Holds(buf, l) PROVE Holds(buf, <<>>)
<1>1. IsSeq(<<>>) /\ Len(<<>>) = 0 /\ 0 <= Block
  BY EmptyIs, BlockType
<1> QED
  BY <1>1 DEF Holds

LEMMA BlitBegin ==
    ASSUME NEW buf, NEW l, Holds(buf, l), NEW x, IsSeq(x), Len(x) <= Block
    PROVE  Holds(Blit(buf, 0, x), x)
<1>1. IsSeq(<<>>) /\ Len(<<>>) = 0 /\ Holds(buf, <<>>)
  BY EmptyIs, HoldsNothing
<1>2. Len(<<>>) + Len(x) <= Block
  BY <1>1 DEF IsSeq
<1>3. Holds(Blit(buf, Len(<<>>), x), <<>> \o x)
  BY <1>1, <1>2, BlitIs
<1>4. <<>> \o x = x
  BY CatEmpty
<1> QED
  BY <1>1, <1>3, <1>4

LEMMA HoldsAll == ASSUME NEW buf, NEW l, Holds(buf, l), Len(l) = Block PROVE buf = l
<1> DEFINE b == Block
<1>1. buf = [i \in 1..b |-> buf[i]] /\ IsSeq(l) /\ \A i \in 1..b : buf[i] = l[i]
  BY DEF Holds
<1>2. b \in Nat
  BY BlockType
<1> HIDE DEF b
<1>3. IsSeq(buf) /\ Len(buf) = b
  BY <1>1, <1>2, SeqIs
<1>4. Len(l) = b
  BY DEF b
<1> QED
  BY <1>1, <1>3, <1>4, SameSeq

LEMMA BlockHolds == ASSUME NEW x, IsSeq(x), Len(x) = Block PROVE Holds(x, x)
<1>1. Block \in Nat
  BY BlockType
<1> QED
  BY <1>1 DEF Holds, IsSeq

LEMMA ZerosIs ==
    ASSUME NEW n \in Nat
    PROVE  IsSeq(Zeros(n)) /\ Len(Zeros(n)) = n /\ \A i \in 1..n : Zeros(n)[i] = Zero
<1> DEFINE z == Zeros(n)
<1>1. z = [i \in 1..n |-> Zero]
  BY DEF Zeros
<1> HIDE DEF z
<1>2. z = [i \in 1..n |-> z[i]] /\ \A i \in 1..n : z[i] = Zero
  BY <1>1
<1>3. IsSeq(z) /\ Len(z) = n
  BY <1>2, SeqIs
<1> QED
  BY <1>2, <1>3 DEF z

-----------------------------------------------------------------------------
(* A hash and the message it has been given                                 *)

Fields == {"kind", "iv", "chain", "buf", "n", "lo", "hi"}
Shape(h) == DOMAIN h = Fields /\ h.kind \in Kinds /\ h.buf = [i \in 1..Block |-> h.buf[i]]

CountsMd5(h, m) == h.lo = Len(m) % Word /\ h.hi = (Len(m) \div Word) % Word
CountsMd4(h, m) == h.n = Len(m)
CountsSha1(h, m) ==
    /\ h.n = Len(m) % Block
    /\ h.lo = (Bits * Len(m)) % Word /\ h.hi = ((Bits * Len(m)) \div Word) % Word
Counts(h, m) ==
    /\ h.kind = "md5" => CountsMd5(h, m)
    /\ h.kind = "md4" => CountsMd4(h, m)
    /\ h.kind = "sha1" => CountsSha1(h, m)

Given(h, m) ==
    /\ Shape(h) /\ IsSeq(m) /\ h.iv = "iv" /\ h.chain = Whole(m)
    /\ Holds(h.buf, Left(m)) /\ Counts(h, m)

LEMMA NothingGiven ==
    ASSUME NEW h, Shape(h), h.iv = "iv", h.chain = <<>>, h.n = 0, h.lo = 0, h.hi = 0
    PROVE  Given(h, <<>>)
<1> DEFINE e == <<>>
<1>1. IsSeq(e) /\ Len(e) = 0
  BY EmptyIs
<1>2. Block \in Nat \ {0} /\ Word \in Nat \ {0} /\ Bits \in Nat
  BY BlockType, WordIs
<1>3. Whole(e) = e /\ Left(e) = e
  BY <1>1, <1>2, ShortIs
<1>4. Holds(h.buf, e)
  BY <1>1, <1>2 DEF Holds, Shape
<1>5. Counts(h, e)
  <2>1. 0 % Word = 0 /\ 0 \div Word = 0 /\ 0 % Block = 0 /\ Bits * 0 = 0
    BY <1>2
  <2> HIDE DEF e
  <2> QED
    BY <1>1, <2>1 DEF Counts, CountsMd5, CountsMd4, CountsSha1
<1> QED
  BY <1>1, <1>3, <1>4, <1>5 DEF Given

LEMMA ResetIs ==
    ASSUME NEW h, Shape(h)
    PROVE  Given(Reset(h), <<>>) /\ Reset(h).kind = h.kind
<1> DEFINE r == Reset(h)
<1>1. /\ DOMAIN r = Fields /\ r.kind = h.kind /\ r.iv = "iv" /\ r.chain = <<>> /\ r.n = 0 /\ r.lo = 0 /\ r.hi = 0
      /\ r.buf = IF h.kind = "md4" THEN h.buf ELSE Zeros(Block)
  BY DEF Shape, Fields, Reset
<1> HIDE DEF r
<1>2. r.buf = [i \in 1..Block |-> r.buf[i]]
  <2>1. Zeros(Block) = [i \in 1..Block |-> Zeros(Block)[i]]
    BY DEF Zeros
  <2> QED
    BY <1>1, <2>1 DEF Shape
<1>3. Shape(r)
  BY <1>1, <1>2 DEF Shape
<1>4. Given(r, <<>>)
  BY <1>1, <1>3, NothingGiven
<1> QED
  BY <1>1, <1>4 DEF r

LEMMA StartedIs ==
    ASSUME NEW kind \in Kinds
    PROVE  Given(Started(kind), <<>>) /\ Started(kind).kind = kind
<1> DEFINE h == [kind |-> kind, iv |-> "iv", chain |-> <<>>, buf |-> Zeros(Block), n |-> 0, lo |-> 0, hi |-> 0]
<1>1. Started(kind) = Reset(h)
  BY DEF Started
<1>2. Shape(h) /\ h.kind = kind
  <2>1. Zeros(Block) = [i \in 1..Block |-> Zeros(Block)[i]]
    BY DEF Zeros
  <2> QED
    BY <2>1 DEF Shape, Fields
<1> HIDE DEF h
<1> QED
  BY <1>1, <1>2, ResetIs

\* Less than what fills the block, and what fills it.
LEMMA LeftHolds ==
    ASSUME NEW h, NEW m, Given(h, m)
    PROVE  /\ IsSeq(m) /\ IsSeq(Left(m)) /\ Len(Left(m)) = Len(m) % Block /\ Len(Left(m)) \in 0..(Block - 1)
           /\ Holds(h.buf, Left(m)) /\ Len(m) \in Nat
BY LeftIs DEF Given, IsSeq

LEMMA FilledBlock ==
    ASSUME NEW buf, NEW l, Holds(buf, l), NEW x, IsSeq(x), Len(l) + Len(x) = Block
    PROVE  Blit(buf, Len(l), x) = l \o x /\ IsSeq(l \o x) /\ Len(l \o x) = Block
<1>1. Len(l) + Len(x) <= Block
  BY BlockType
<1>2. Holds(Blit(buf, Len(l), x), l \o x)
  BY <1>1, BlitIs
<1>3. Joins(l \o x, l, x)
  BY Cat DEF Holds
<1>4. IsSeq(l \o x) /\ Len(l \o x) = Block
  BY <1>3 DEF Joins
<1> QED
  BY <1>2, <1>4, HoldsAll

\* The beginning of a piece that fills the block, and its rest.
LEMMA FillAndRest ==
    ASSUME NEW data, IsSeq(data), NEW fill \in Nat, fill <= Len(data)
    PROVE  LET first == SubSeq(data, 1, fill)
               rest == SubSeq(data, fill + 1, Len(data))
           IN /\ IsSeq(first) /\ Len(first) = fill /\ IsSeq(rest) /\ data = first \o rest
<1> DEFINE first == SubSeq(data, 1, fill)
           rest == SubSeq(data, fill + 1, Len(data))
           k == Len(data)
<1>1. k \in Nat /\ k - fill \in Nat /\ fill + (k - fill) = k /\ 0 + fill = fill /\ 0 + 1 = 1
  BY DEF IsSeq
<1>2. IsPart(first, data, 0, fill)
  <2>1. 0 + fill <= Len(data)
    BY <1>1
  <2>2. IsPart(SubSeq(data, 0 + 1, 0 + fill), data, 0, fill)
    BY <2>1, PartIs
  <2> QED
    BY <1>1, <2>2
<1>3. IsPart(rest, data, fill, k - fill)
  <2> DEFINE j == k - fill
  <2>1. j \in Nat /\ fill + j = k
    BY <1>1
  <2> HIDE DEF j
  <2>2. fill + j <= Len(data)
    BY <1>1, <2>1
  <2>3. IsPart(SubSeq(data, fill + 1, fill + j), data, fill, j)
    BY <2>1, <2>2, PartIs
  <2> QED
    BY <2>1, <2>3 DEF j
<1>4. first \o rest = data
  BY TwoParts
<1> QED
  BY <1>2, <1>3, <1>4 DEF IsPart

LEMMA GivenBy ==
    ASSUME NEW r, NEW m, DOMAIN r = Fields, r.kind \in Kinds, IsSeq(m), r.iv = "iv", r.chain = Whole(m),
           Holds(r.buf, Left(m)), Counts(r, m)
    PROVE  Given(r, m)
<1>1. r.buf = [i \in 1..Block |-> r.buf[i]]
  BY DEF Holds
<1>2. Shape(r)
  BY <1>1 DEF Shape
<1> QED
  BY <1>2 DEF Given

\* A message and a piece: the piece does not fill the block.
LEMMA PieceFits ==
    ASSUME NEW h, NEW m, Given(h, m), NEW x, IsSeq(x), Len(Left(m)) + Len(x) < Block
    PROVE  h.chain = Whole(m \o x) /\ Holds(Blit(h.buf, Len(Left(m)), x), Left(m \o x))
<1>1. IsSeq(m) /\ Holds(h.buf, Left(m)) /\ h.chain = Whole(m)
  BY DEF Given
<1>2. Whole(m \o x) = Whole(m) /\ Left(m \o x) = Left(m) \o x
  BY <1>1, LessIs
<1>3. Len(Left(m)) + Len(x) <= Block
  <2>1. Len(Left(m)) \in Nat /\ Len(x) \in Nat /\ Block \in Nat
    BY <1>1, LeftIs, BlockType DEF IsSeq
  <2> QED
    BY <2>1
<1>4. Holds(Blit(h.buf, Len(Left(m)), x), Left(m) \o x)
  BY <1>1, <1>3, BlitIs
<1> QED
  BY <1>1, <1>2, <1>4

\* The piece fills the block, with something behind it.
Filling(h, m, x, rest, full) ==
    /\ IsSeq(full) /\ Len(full) = Block
    /\ h.chain \o (<<full>> \o Whole(rest)) = Whole(m \o (x \o rest))
    /\ Left(m \o (x \o rest)) = Left(rest)

LEMMA PieceFills ==
    ASSUME NEW h, NEW m, Given(h, m), NEW x, IsSeq(x), NEW rest, IsSeq(rest), Len(Left(m)) + Len(x) = Block
    PROVE  Filling(h, m, x, rest, Blit(h.buf, Len(Left(m)), x))
<1>1. IsSeq(m) /\ Holds(h.buf, Left(m)) /\ h.chain = Whole(m)
  BY DEF Given
<1>2. Fills(m, x, rest)
  BY ONLY <1>1, IsSeq(x), IsSeq(rest), Len(Left(m)) + Len(x) = Block, FillIs
<1>3. /\ Blit(h.buf, Len(Left(m)), x) = Left(m) \o x /\ IsSeq(Left(m) \o x)
      /\ Len(Left(m) \o x) = Block
  BY <1>1, FilledBlock
<1>4. Filling(h, m, x, rest, Left(m) \o x)
  <2> DEFINE y == Left(m) \o x
  <2>1. Whole(m \o (x \o rest)) = Whole(m) \o (<<y>> \o Whole(rest)) /\ Left(m \o (x \o rest)) = Left(rest)
    BY ONLY <1>2 DEF Fills
  <2> HIDE DEF y
  <2>2. IsSeq(y) /\ Len(y) = Block
    BY <1>3 DEF y
  <2>3. Filling(h, m, x, rest, y)
    BY ONLY <1>1, <2>1, <2>2, Zenon DEF Filling
  <2> QED
    BY ONLY <2>3 DEF y
<1> QED
  BY ONLY <1>3, <1>4, Zenon

\* The length of a message and a piece.
LEMMA LengthIs ==
    ASSUME NEW m, IsSeq(m), NEW x, IsSeq(x)
    PROVE  IsSeq(m \o x) /\ Len(m \o x) = Len(m) + Len(x) /\ Len(m) \in Nat /\ Len(x) \in Nat
<1>1. Joins(m \o x, m, x)
  BY Cat
<1> QED
  BY <1>1 DEF Joins, IsSeq

\* What the piece does to the counting words of MD5.
LEMMA Md5Counts ==
    ASSUME NEW h, NEW m, Given(h, m), h.kind = "md5", NEW data, IsSeq(data), Len(data) <= Word,
           NEW r, r.kind = "md5", r.lo = (h.lo + Len(data)) % Word,
           r.hi = IF (h.lo + Len(data)) % Word < Len(data) THEN (h.hi + 1) % Word ELSE h.hi
    PROVE  Counts(r, m \o data)
<1> DEFINE x == Len(m)
           n == Len(data)
           y == Len(m \o data)
<1>1. x \in Nat /\ n \in 0..Word /\ y = x + n
  <2>1. IsSeq(m)
    BY DEF Given
  <2>2. y = x + n /\ x \in Nat /\ n \in Nat
    BY <2>1, LengthIs
  <2> QED
    BY <2>2, WordIs
<1>2. h.lo = x % Word /\ h.hi = (x \div Word) % Word
  BY DEF Given, Counts, CountsMd5
<1>3. r.lo = (h.lo + n) % Word /\ r.hi = IF (h.lo + n) % Word < n THEN (h.hi + 1) % Word ELSE h.hi
  OBVIOUS
<1> HIDE DEF x, n, y
<1>4. /\ (x + n) % Word = ((x % Word) + n) % Word
      /\ ((x + n) \div Word) % Word = IF ((x % Word) + n) % Word < n THEN (((x \div Word) % Word) + 1) % Word
                                      ELSE (x \div Word) % Word
  BY <1>1, CarryIs
<1>5. r.lo = y % Word /\ r.hi = (y \div Word) % Word
  BY <1>1, <1>2, <1>3, <1>4
<1>6. CountsMd5(r, m \o data)
  BY <1>5 DEF CountsMd5, y
<1> QED
  BY <1>6 DEF Counts

LEMMA Md5AppendIs ==
    ASSUME NEW h, NEW m, Given(h, m), h.kind = "md5", NEW data, IsSeq(data), Len(data) <= Word
    PROVE  Given(Md5Append(h, data), m \o data) /\ Md5Append(h, data).kind = "md5"
<1> DEFINE r == Md5Append(h, data)
           l == Left(m)
           left == h.lo % Block
           fill == Block - left
           lo == (h.lo + Len(data)) % Word
           counted == [h EXCEPT !.lo = lo, !.hi = IF lo < Len(data) THEN (@ + 1) % Word ELSE @]
           first == SubSeq(data, 1, fill)
           rest == SubSeq(data, fill + 1, Len(data))
           full == Blit(h.buf, left, first)
<1>1. /\ IsSeq(m) /\ IsSeq(l) /\ Len(l) = Len(m) % Block /\ Len(l) \in 0..(Block - 1) /\ Holds(h.buf, l)
      /\ Len(m) \in Nat
  BY LeftHolds
<1>2. DOMAIN h = Fields /\ h.iv = "iv" /\ h.chain = Whole(m)
  BY DEF Given, Shape
<1>3. left = Len(l)
  <2>1. h.lo = Len(m) % Word
    BY DEF Given, Counts, CountsMd5
  <2>2. (Len(m) % Word) % Block = Len(m) % Block
    BY <1>1, PlaceInBlock
  <2> QED
    BY <1>1, <2>1, <2>2
<1>4. Block \in Nat /\ Len(data) \in Nat
  BY BlockType DEF IsSeq
<1>5. IsSeq(m \o data)
  BY <1>1, LengthIs
<1>6. /\ DOMAIN counted = Fields /\ counted.kind = "md5" /\ counted.iv = "iv" /\ counted.chain = h.chain
      /\ counted.lo = lo /\ counted.hi = IF lo < Len(data) THEN (h.hi + 1) % Word ELSE h.hi
      /\ counted.buf = h.buf
  <2> HIDE DEF lo
  <2> QED
    BY <1>2 DEF Fields
<1>7. CASE left > 0 /\ Len(data) >= fill
  <2>1. r = [Process(counted, <<full>> \o Whole(rest)) EXCEPT !.buf = Blit(full, 0, Left(rest))]
    BY <1>7 DEF Md5Append
  <2>2. fill \in Nat /\ fill <= Len(data) /\ Len(l) + fill = Block
    <3> HIDE DEF left, l
    <3> QED
      BY <1>1, <1>3, <1>4, <1>7
  <2> HIDE DEF counted, fill, left, lo
  <2>3. IsSeq(first) /\ Len(first) = fill /\ IsSeq(rest) /\ data = first \o rest
    BY <2>2, FillAndRest
  <2> HIDE DEF first, rest
  <2>4. Len(l) + Len(first) = Block
    BY <2>2, <2>3
  <2>5. /\ IsSeq(full) /\ Len(full) = Block
        /\ h.chain \o (<<full>> \o Whole(rest)) = Whole(m \o data)
        /\ Left(m \o data) = Left(rest)
    <3> HIDE DEF full, l
    <3>1. Len(Left(m)) + Len(first) = Block
      BY <2>4 DEF l
    <3>2. Filling(h, m, first, rest, Blit(h.buf, Len(Left(m)), first))
      BY ONLY <2>3, <3>1, Given(h, m), PieceFills
    <3>3. full = Blit(h.buf, Len(Left(m)), first)
      BY <1>3 DEF full, l
    <3>4. Filling(h, m, first, rest, full)
      BY ONLY <3>2, <3>3
    <3> QED
      BY ONLY <2>3, <3>4, Zenon DEF Filling
  <2> HIDE DEF full, r
  <2>6. Holds(Blit(full, 0, Left(rest)), Left(rest))
    <3>1. IsSeq(Left(rest)) /\ Len(Left(rest)) <= Block
      BY <1>4, <2>3, LeftIs
    <3> QED
      BY <2>5, <3>1, BlockHolds, BlitBegin
  <2>7. /\ DOMAIN r = Fields /\ r.kind = "md5" /\ r.iv = "iv" /\ r.chain = h.chain \o (<<full>> \o Whole(rest))
        /\ r.lo = lo /\ r.hi = (IF lo < Len(data) THEN (h.hi + 1) % Word ELSE h.hi)
        /\ r.buf = Blit(full, 0, Left(rest))
    BY <1>6, <2>1 DEF Process, Fields
  <2>8. Counts(r, m \o data)
    BY <2>7, Md5Counts DEF lo
  <2> QED
    BY <1>5, <2>5, <2>6, <2>7, <2>8, GivenBy DEF Kinds, l, r
<1>8. CASE ~ (left > 0 /\ Len(data) >= fill)
  <2> DEFINE buf == Blit(h.buf, left, Left(data))
  <2>1. r = [Process(counted, Whole(data)) EXCEPT !.buf = Blit(counted.buf, left, Left(data))]
    BY <1>8 DEF Md5Append, Process
  <2>3. left = 0 \/ Len(l) + Len(data) < Block
    <3> HIDE DEF left, l
    <3> QED
      BY <1>1, <1>3, <1>4, <1>8
  <2> HIDE DEF counted, lo
  <2>4. h.chain \o Whole(data) = Whole(m \o data) /\ Holds(buf, Left(m \o data))
    <3>1. CASE left = 0
      <4>1. Len(m) % Block = 0
        BY <1>1, <1>3, <3>1
      <4>2. Whole(m \o data) = Whole(m) \o Whole(data) /\ Left(m \o data) = Left(data)
        BY <1>1, <4>1, AlignedIs
      <4>3. IsSeq(Left(data)) /\ Len(Left(data)) <= Block
        BY <1>4, LeftIs
      <4>4. Holds(Blit(h.buf, 0, Left(data)), Left(data))
        BY <1>1, <4>3, BlitBegin
      <4> QED
        BY <1>2, <3>1, <4>2, <4>4
    <3>2. CASE Len(l) + Len(data) < Block
      <4>1. Len(data) < Block
        <5> HIDE DEF l
        <5> QED
          BY <1>1, <1>4, <3>2
      <4>2. Whole(data) = <<>> /\ Left(data) = data
        BY <4>1, ShortIs
      <4>3. h.chain = Whole(m \o data) /\ Holds(Blit(h.buf, Len(l), data), Left(m \o data))
        BY <3>2, PieceFits
      <4>4. h.chain \o <<>> = h.chain
        BY <1>1, <1>2, WholeIs, CatEmpty
      <4> QED
        BY <1>3, <4>2, <4>3, <4>4
    <3> QED
      BY <2>3, <3>1, <3>2
  <2> HIDE DEF buf, left, r
  <2>7. /\ DOMAIN r = Fields /\ r.kind = "md5" /\ r.iv = "iv" /\ r.chain = h.chain \o Whole(data)
        /\ r.lo = lo /\ r.hi = (IF lo < Len(data) THEN (h.hi + 1) % Word ELSE h.hi)
        /\ r.buf = buf
    BY <1>6, <2>1 DEF Process, Fields, buf
  <2>8. Counts(r, m \o data)
    BY <2>7, Md5Counts DEF lo
  <2> QED
    BY <1>5, <2>4, <2>7, <2>8, GivenBy DEF Kinds, r
<1> QED
  BY <1>7, <1>8

\* The last of the blocks a piece has made.
LEMMA LastBlock ==
    ASSUME NEW full, IsSeq(full), Len(full) = Block, NEW rest, IsSeq(rest),
           NEW blocks, blocks = <<full>> \o Whole(rest)
    PROVE  IsSeq(blocks) /\ IsSeq(blocks[Len(blocks)]) /\ Len(blocks[Len(blocks)]) = Block
<1> DEFINE one == <<full>>
           w == Whole(rest)
           q == Pieces(rest)
           k == Len(blocks)
<1>1. IsSeq(one) /\ Len(one) = 1 /\ one[1] = full
  BY Single
<1>2. IsCut(rest, q, Len(rest) % Block)
  BY CutIs
<1> HIDE DEF q
<1>3. /\ IsSeq(w) /\ Len(w) = q /\ q \in Nat
      /\ \A i \in 1..q : w[i] = Piece(rest, i) /\ IsPart(Piece(rest, i), rest, (i - 1) * Block, Block)
  BY <1>2 DEF IsCut
<1>4. blocks = one \o w
  OBVIOUS
<1> HIDE DEF one, w
<1>5. Joins(blocks, one, w)
  BY ONLY <1>1, <1>3, <1>4, Cat
<1>6. IsSeq(blocks) /\ k = 1 + q /\ (\A i \in 1..1 : blocks[i] = one[i]) /\ (\A i \in 1..q : blocks[1 + i] = w[i])
  BY <1>1, <1>3, <1>5 DEF Joins
<1> HIDE DEF k
<1>7. CASE q = 0
  <2>1. k = 1 /\ 1 \in 1..1
    BY <1>6, <1>7
  <2>2. blocks[k] = full
    BY <1>1, <1>6, <2>1
  <2> QED
    BY <1>6, <2>2 DEF k
<1>8. CASE q # 0
  <2>1. q \in 1..q
    BY <1>3, <1>8
  <2>2. blocks[k] = Piece(rest, q) /\ IsPart(Piece(rest, q), rest, (q - 1) * Block, Block)
    BY <1>3, <1>6, <2>1
  <2>3. IsSeq(blocks[k]) /\ Len(blocks[k]) = Block
    BY <2>2 DEF IsPart
  <2> QED
    BY <1>6, <2>3 DEF k
<1> QED
  BY <1>7, <1>8

LEMMA Md4AppendIs ==
    ASSUME NEW h, NEW m, Given(h, m), h.kind = "md4", NEW data, IsSeq(data)
    PROVE  Given(Md4Append(h, data), m \o data) /\ Md4Append(h, data).kind = "md4"
<1> DEFINE r == Md4Append(h, data)
           l == Left(m)
           at == h.n % Block
           avail == Block - at
           counted == [h EXCEPT !.n = @ + Len(data)]
           first == SubSeq(data, 1, avail)
           rest == SubSeq(data, avail + 1, Len(data))
           full == Blit(h.buf, at, first)
           blocks == <<full>> \o Whole(rest)
<1>1. /\ IsSeq(m) /\ IsSeq(l) /\ Len(l) = Len(m) % Block /\ Len(l) \in 0..(Block - 1) /\ Holds(h.buf, l)
      /\ Len(m) \in Nat
  BY LeftHolds
<1>2. DOMAIN h = Fields /\ h.iv = "iv" /\ h.chain = Whole(m)
  BY DEF Given, Shape
<1>3. at = Len(l) /\ h.n = Len(m)
  BY <1>1 DEF Given, Counts, CountsMd4
<1>4. Block \in Nat /\ Len(data) \in Nat
  BY BlockType DEF IsSeq
<1>5. IsSeq(m \o data) /\ Len(m \o data) = Len(m) + Len(data)
  BY <1>1, LengthIs
<1>6. /\ DOMAIN counted = Fields /\ counted.kind = "md4" /\ counted.iv = "iv" /\ counted.chain = h.chain
      /\ counted.n = Len(m) + Len(data) /\ counted.buf = h.buf
  BY <1>2, <1>3 DEF Fields
<1>7. CASE avail > Len(data)
  <2>1. r = [counted EXCEPT !.buf = Blit(counted.buf, at, data)]
    BY <1>7 DEF Md4Append
  <2>2. Len(l) + Len(data) < Block
    <3> HIDE DEF at, l
    <3> QED
      BY <1>1, <1>3, <1>4, <1>7
  <2>3. h.chain = Whole(m \o data) /\ Holds(Blit(h.buf, Len(l), data), Left(m \o data))
    BY <2>2, PieceFits
  <2> HIDE DEF counted, r
  <2>4. /\ DOMAIN r = Fields /\ r.kind = "md4" /\ r.iv = "iv" /\ r.chain = h.chain /\ r.n = Len(m) + Len(data)
        /\ r.buf = Blit(h.buf, Len(l), data)
    BY <1>3, <1>6, <2>1 DEF Fields
  <2>5. Counts(r, m \o data)
    BY <1>5, <2>4 DEF Counts, CountsMd4
  <2> HIDE DEF l
  <2>6. Given(r, m \o data)
    BY <1>5, <2>3, <2>4, <2>5, GivenBy DEF Kinds
  <2> QED
    BY <2>4, <2>6 DEF r
<1>8. CASE ~ (avail > Len(data))
  <2>1. r = [Process(counted, blocks) EXCEPT !.buf = Blit(blocks[Len(blocks)], 0, Left(rest))]
    BY <1>8 DEF Md4Append
  <2>2. avail \in Nat /\ avail <= Len(data) /\ Len(l) + avail = Block
    <3> HIDE DEF at, l
    <3> QED
      BY <1>1, <1>3, <1>4, <1>8
  <2> HIDE DEF counted, avail, at
  <2>3. IsSeq(first) /\ Len(first) = avail /\ IsSeq(rest) /\ data = first \o rest
    BY <2>2, FillAndRest
  <2> HIDE DEF first, rest
  <2>4. Len(l) + Len(first) = Block
    BY <2>2, <2>3
  <2>5. /\ IsSeq(full) /\ Len(full) = Block
        /\ h.chain \o (<<full>> \o Whole(rest)) = Whole(m \o data)
        /\ Left(m \o data) = Left(rest)
    <3> HIDE DEF full, l
    <3>1. Len(Left(m)) + Len(first) = Block
      BY <2>4 DEF l
    <3>2. Filling(h, m, first, rest, Blit(h.buf, Len(Left(m)), first))
      BY ONLY <2>3, <3>1, Given(h, m), PieceFills
    <3>3. full = Blit(h.buf, Len(Left(m)), first)
      BY <1>3 DEF full, l
    <3>4. Filling(h, m, first, rest, full)
      BY ONLY <3>2, <3>3
    <3> QED
      BY ONLY <2>3, <3>4, Zenon DEF Filling
  <2> DEFINE last == blocks[Len(blocks)]
  <2> HIDE DEF full, r
  <2>6. IsSeq(last) /\ Len(last) = Block
    BY <2>3, <2>5, LastBlock
  <2>7. h.chain \o blocks = Whole(m \o data)
    BY <2>5
  <2> HIDE DEF blocks
  <2>8. Holds(Blit(last, 0, Left(rest)), Left(rest))
    <3>1. IsSeq(Left(rest)) /\ Len(Left(rest)) <= Block
      BY <1>4, <2>3, LeftIs
    <3> HIDE DEF last
    <3> QED
      BY <2>6, <3>1, BlockHolds, BlitBegin
  <2>9. /\ DOMAIN r = Fields /\ r.kind = "md4" /\ r.iv = "iv" /\ r.chain = h.chain \o blocks
        /\ r.n = Len(m) + Len(data) /\ r.buf = Blit(last, 0, Left(rest))
    BY <1>6, <2>1 DEF Process, Fields
  <2>10. Counts(r, m \o data)
    BY <1>5, <2>9 DEF Counts, CountsMd4
  <2> HIDE DEF last, l
  <2>11. Given(r, m \o data)
    BY <1>5, <2>5, <2>7, <2>8, <2>9, <2>10, GivenBy DEF Kinds
  <2> QED
    BY <2>9, <2>11 DEF r
<1> QED
  BY <1>7, <1>8

\* One byte more of SHA-1.
LEMMA Sha1Counts ==
    ASSUME NEW h, NEW m, Given(h, m), h.kind = "sha1", NEW b,
           NEW r, r.kind = "sha1", r.lo = (h.lo + Bits) % Word,
           r.hi = IF (h.lo + Bits) % Word < Bits THEN (h.hi + 1) % Word ELSE h.hi,
           r.n = Len(Left(m \o <<b>>))
    PROVE  Counts(r, m \o <<b>>)
<1> DEFINE x == Len(m)
           y == Len(m \o <<b>>)
           p == Bits * x
           n == Bits
<1>1. x \in Nat /\ y = x + 1 /\ IsSeq(m \o <<b>>)
  <2>1. IsSeq(m)
    BY DEF Given
  <2>2. IsSeq(<<b>>) /\ Len(<<b>>) = 1
    BY Single
  <2> QED
    BY <2>1, <2>2, LengthIs
<1>2. h.lo = p % Word /\ h.hi = (p \div Word) % Word
  BY DEF Given, Counts, CountsSha1
<1>3. r.n = y % Block
  BY <1>1, LeftIs
<1>4. p \in Nat /\ Bits * y = p + n /\ n \in 0..Word
  <2>1. Bits \in 1..Word /\ Word \in Nat
    BY WordIs
  <2> HIDE DEF x, y
  <2>2. Bits * (x + 1) = Bits * x + Bits /\ Bits * x \in Nat
    BY <1>1, <2>1
  <2> QED
    BY <1>1, <2>1, <2>2
<1> HIDE DEF p
<1>5. /\ (p + n) % Word = ((p % Word) + n) % Word
      /\ ((p + n) \div Word) % Word = IF ((p % Word) + n) % Word < n THEN (((p \div Word) % Word) + 1) % Word
                                      ELSE (p \div Word) % Word
  BY <1>4, CarryIs
<1>6. r.lo = (p + n) % Word /\ r.hi = ((p + n) \div Word) % Word
  BY <1>2, <1>5
<1>7. r.lo = (Bits * y) % Word /\ r.hi = ((Bits * y) \div Word) % Word
  BY <1>4, <1>6
<1>8. CountsSha1(r, m \o <<b>>)
  BY <1>3, <1>7 DEF CountsSha1
<1> QED
  BY <1>8 DEF Counts

LEMMA Sha1ByteIs ==
    ASSUME NEW h, NEW m, Given(h, m), h.kind = "sha1", NEW b
    PROVE  Given(Sha1Byte(h, b), m \o <<b>>) /\ Sha1Byte(h, b).kind = "sha1"
<1> DEFINE r == Sha1Byte(h, b)
           l == Left(m)
           one == <<b>>
           full == Blit(h.buf, h.n, one)
           lo == (h.lo + Bits) % Word
           counted == [h EXCEPT !.lo = lo, !.hi = IF lo < Bits THEN (@ + 1) % Word ELSE @]
           more == m \o one
<1>1. /\ IsSeq(m) /\ IsSeq(l) /\ Len(l) = Len(m) % Block /\ Len(l) \in 0..(Block - 1) /\ Holds(h.buf, l)
      /\ Len(m) \in Nat
  BY LeftHolds
<1>2. DOMAIN h = Fields /\ h.iv = "iv" /\ h.chain = Whole(m)
  BY DEF Given, Shape
<1>3. h.n = Len(l)
  BY <1>1 DEF Given, Counts, CountsSha1
<1>4. Block \in Nat /\ IsSeq(one) /\ Len(one) = 1
  BY BlockType, Single
<1>5. IsSeq(more)
  BY <1>1, <1>4, LengthIs
<1>6. /\ DOMAIN counted = Fields /\ counted.kind = "sha1" /\ counted.iv = "iv" /\ counted.chain = h.chain
      /\ counted.lo = lo /\ counted.hi = IF lo < Bits THEN (h.hi + 1) % Word ELSE h.hi
      /\ counted.n = h.n
  <2> HIDE DEF lo
  <2> QED
    BY <1>2 DEF Fields
<1>7. CASE h.n + 1 = Block
  <2>1. r = [Process(counted, <<full>>) EXCEPT !.buf = full, !.n = 0]
    BY <1>7 DEF Sha1Byte
  <2> HIDE DEF counted, lo, one, r
  <2>2. Len(l) + Len(one) = Block
    BY <1>3, <1>4, <1>7
  <2>3. IsSeq(<<>>)
    BY EmptyIs
  <2> DEFINE e == <<>>
  <2> HIDE DEF e
  <2>4. Filling(h, m, one, e, full)
    <3> HIDE DEF full, l
    <3>1. Len(Left(m)) + Len(one) = Block
      BY <2>2 DEF l
    <3>2. IsSeq(e)
      BY <2>3 DEF e
    <3>3. Filling(h, m, one, e, Blit(h.buf, Len(Left(m)), one))
      BY ONLY <1>4, <3>1, <3>2, Given(h, m), PieceFills
    <3>4. full = Blit(h.buf, Len(Left(m)), one)
      BY <1>3 DEF full, l
    <3> QED
      BY ONLY <3>3, <3>4
  <2>5. /\ IsSeq(full) /\ Len(full) = Block
        /\ h.chain \o (<<full>> \o Whole(e)) = Whole(m \o (one \o e))
        /\ Left(m \o (one \o e)) = Left(e)
    BY ONLY <2>4, Zenon DEF Filling
  <2> HIDE DEF full
  <2>6. Whole(e) = e /\ Left(e) = e /\ one \o e = one /\ <<full>> \o e = <<full>>
    <3>1. IsSeq(e) /\ Len(e) = 0 /\ 0 < Block
      BY EmptyIs, BlockType DEF e
    <3>2. Len(e) < Block
      BY <3>1
    <3>3. Whole(e) = <<>> /\ Left(e) = e
      BY ONLY <3>1, <3>2, ShortIs
    <3>4. one \o e = one
      BY <1>4, CatEmpty DEF e
    <3>5. IsSeq(<<full>>)
      BY Single
    <3>6. <<full>> \o e = <<full>>
      BY <3>5, CatEmpty DEF e
    <3> QED
      BY <3>3, <3>4, <3>6 DEF e
  <2>7. h.chain \o <<full>> = Whole(more) /\ Left(more) = e
    BY <2>5, <2>6
  <2> HIDE DEF more
  <2>8. Holds(full, Left(more)) /\ Len(Left(more)) = 0
    BY <2>5, <2>7, BlockHolds, HoldsNothing, EmptyIs DEF e
  <2>9. /\ DOMAIN r = Fields /\ r.kind = "sha1" /\ r.iv = "iv" /\ r.chain = h.chain \o <<full>>
        /\ r.lo = lo /\ r.hi = (IF lo < Bits THEN (h.hi + 1) % Word ELSE h.hi) /\ r.n = 0 /\ r.buf = full
    BY <1>6, <2>1 DEF Process, Fields
  <2>10. Counts(r, more)
    BY <2>8, <2>9, Sha1Counts DEF lo, more, one
  <2>11. Given(r, more)
    BY <1>5, <2>7, <2>8, <2>9, <2>10, GivenBy DEF Kinds
  <2> QED
    BY <2>9, <2>11 DEF r, more, one
<1>8. CASE h.n + 1 # Block
  <2>1. r = [counted EXCEPT !.buf = full, !.n = counted.n + 1]
    BY <1>8 DEF Sha1Byte
  <2> HIDE DEF counted, lo, one, r
  <2>2. Len(l) + Len(one) < Block /\ h.n + 1 = Len(l) + Len(one)
    <3> HIDE DEF l
    <3> QED
      BY <1>1, <1>3, <1>4, <1>8
  <2>3. h.chain = Whole(more) /\ Holds(full, Left(more))
    <3>1. h.chain = Whole(m \o one) /\ Holds(Blit(h.buf, Len(Left(m)), one), Left(m \o one))
      BY <1>4, <2>2, PieceFits
    <3> QED
      BY <1>3, <3>1
  <2>4. Len(Left(more)) = h.n + 1
    <3>1. Left(m \o one) = l \o one
      BY <1>1, <1>4, <2>2, LessIs
    <3>2. Len(l \o one) = Len(l) + Len(one)
      BY <1>1, <1>4, LengthIs
    <3> QED
      BY <2>2, <3>1, <3>2
  <2> HIDE DEF full, more, l
  <2>9. /\ DOMAIN r = Fields /\ r.kind = "sha1" /\ r.iv = "iv" /\ r.chain = h.chain
        /\ r.lo = lo /\ r.hi = (IF lo < Bits THEN (h.hi + 1) % Word ELSE h.hi) /\ r.n = h.n + 1 /\ r.buf = full
    BY <1>6, <2>1 DEF Fields
  <2>10. Counts(r, more)
    BY <2>4, <2>9, Sha1Counts DEF lo, more, one
  <2>11. Given(r, more)
    BY <1>5, <2>3, <2>9, <2>10, GivenBy DEF Kinds
  <2> QED
    BY <2>9, <2>11 DEF r, more, one
<1> QED
  BY <1>7, <1>8

\* The context after each of the first m bytes.
AfterEach(f, h, data, m) == f = [k \in 0..m |-> IF k = 0 THEN h ELSE Sha1Byte(f[k - 1], data[k])]

LEMMA AfterEachExists ==
    ASSUME NEW h, NEW data
    PROVE  \A m \in Nat : \E f : AfterEach(f, h, data, m)
<1> DEFINE S == {m \in Nat : \E f : AfterEach(f, h, data, m)}
<1>1. 0 \in S
  <2> DEFINE g == [k \in 0..0 |-> h]
  <2>1. AfterEach(g, h, data, 0)
    BY DEF AfterEach
  <2> QED
    BY <2>1
<1>2. ASSUME NEW m \in Nat, m \in S PROVE m + 1 \in S
  <2>1. PICK f : AfterEach(f, h, data, m)
    BY <1>2
  <2> DEFINE last == Sha1Byte(f[m], data[m + 1])
             g == [k \in 0..(m + 1) |-> IF k = m + 1 THEN last ELSE f[k]]
  <2>2. \A k \in 0..m : f[k] = IF k = 0 THEN h ELSE Sha1Byte(f[k - 1], data[k])
    BY <2>1 DEF AfterEach
  <2>3. ASSUME NEW k \in 0..(m + 1)
        PROVE  g[k] = IF k = 0 THEN h ELSE Sha1Byte(g[k - 1], data[k])
    <3>1. CASE k = m + 1
      <4>1. k # 0 /\ k - 1 = m /\ m \in 0..(m + 1) /\ m # m + 1
        BY <3>1
      <4>2. g[k] = last /\ g[m] = f[m]
        BY <3>1, <4>1
      <4> QED
        BY <3>1, <4>1, <4>2
    <3>2. CASE k # m + 1
      <4>1. k \in 0..m /\ (k # 0 => k - 1 \in 0..(m + 1) /\ k - 1 # m + 1)
        BY <3>2
      <4>2. g[k] = f[k] /\ (k # 0 => g[k - 1] = f[k - 1])
        BY <3>2, <4>1
      <4> HIDE DEF g
      <4> QED
        BY <2>2, <4>1, <4>2, Zenon
    <3> QED
      BY <3>1, <3>2
  <2>4. g = [k \in 0..(m + 1) |-> IF k = 0 THEN h ELSE Sha1Byte(g[k - 1], data[k])]
    <3> DEFINE e(k) == IF k = 0 THEN h ELSE Sha1Byte(g[k - 1], data[k])
    <3>1. \A k \in 0..(m + 1) : g[k] = e(k)
      BY <2>3, Zenon
    <3>2. g = [k \in 0..(m + 1) |-> g[k]]
      OBVIOUS
    <3> HIDE DEF g, e
    <3>3. g = [k \in 0..(m + 1) |-> e(k)]
      BY <3>1, <3>2
    <3> QED
      BY <3>3 DEF e
  <2>5. AfterEach(g, h, data, m + 1)
    BY <2>4, Zenon DEF AfterEach
  <2> HIDE DEF g
  <2> QED
    BY <2>5
<1>3. \A m \in Nat : m \in S
  <2> HIDE DEF S
  <2>1. \A m \in Nat : m \in S => m + 1 \in S
    BY <1>2
  <2> QED
    BY <1>1, <2>1, Induct, Zenon
<1> QED
  BY <1>3

LEMMA Sha1AppendAfter ==
    ASSUME NEW h, NEW data, Len(data) \in Nat
    PROVE  \E f : AfterEach(f, h, data, Len(data)) /\ Sha1Append(h, data) = f[Len(data)]
<1> DEFINE F == CHOOSE f : f = [k \in 0..Len(data) |-> IF k = 0 THEN h ELSE Sha1Byte(f[k - 1], data[k])]
<1>1. \E f : AfterEach(f, h, data, Len(data))
  BY AfterEachExists
<1>2. F = [k \in 0..Len(data) |-> IF k = 0 THEN h ELSE Sha1Byte(F[k - 1], data[k])]
  BY <1>1, Zenon DEF AfterEach
<1>3. Sha1Append(h, data) = F[Len(data)]
  BY Zenon DEF Sha1Append
<1>4. AfterEach(F, h, data, Len(data))
  BY <1>2, Zenon DEF AfterEach
<1> HIDE DEF F
<1> QED
  BY <1>3, <1>4

\* The first k bytes, and one more.
LEMMA OneMore ==
    ASSUME NEW data, IsSeq(data), NEW k \in Nat, k + 1 <= Len(data)
    PROVE  /\ IsSeq(SubSeq(data, 1, k)) /\ IsSeq(SubSeq(data, 1, k + 1))
           /\ SubSeq(data, 1, k) \o <<data[k + 1]>> = SubSeq(data, 1, k + 1)
<1> DEFINE a == SubSeq(data, 1, k)
           b == SubSeq(data, 1, k + 1)
           one == <<data[k + 1]>>
           c == a \o one
<1>0. Len(data) \in Nat
  BY DEF IsSeq
<1>1. IsPart(a, data, 0, k)
  <2>1. 0 + k <= Len(data) /\ 0 + 1 = 1 /\ 0 + k = k
    BY <1>0
  <2>2. IsPart(SubSeq(data, 0 + 1, 0 + k), data, 0, k)
    BY <2>1, PartIs
  <2> QED
    BY <2>1, <2>2
<1>2. IsPart(b, data, 0, k + 1)
  <2>1. 0 + (k + 1) <= Len(data) /\ 0 + 1 = 1 /\ 0 + (k + 1) = k + 1 /\ k + 1 \in Nat
    BY <1>0
  <2>2. IsPart(SubSeq(data, 0 + 1, 0 + (k + 1)), data, 0, k + 1)
    BY <2>1, PartIs
  <2> QED
    BY <2>1, <2>2
<1>3. IsSeq(one) /\ Len(one) = 1 /\ one[1] = data[k + 1]
  BY Single
<1> HIDE DEF a, b, one
<1>4. IsSeq(a) /\ Len(a) = k /\ (\A i \in 1..k : a[i] = data[0 + i])
  BY <1>1 DEF IsPart
<1>5. IsSeq(b) /\ Len(b) = k + 1 /\ (\A i \in 1..(k + 1) : b[i] = data[0 + i])
  BY <1>2 DEF IsPart
<1>6. Joins(c, a, one)
  BY <1>3, <1>4, Cat
<1> HIDE DEF c
<1>7. IsSeq(c) /\ Len(c) = k + 1 /\ (\A i \in 1..k : c[i] = a[i]) /\ (\A i \in 1..1 : c[k + i] = one[i])
  BY <1>3, <1>4, <1>6 DEF Joins
<1>8. ASSUME NEW i \in 1..(k + 1) PROVE c[i] = b[i]
  <2>1. CASE i <= k
    <3>1. i \in 1..k
      BY <2>1
    <3> QED
      BY <1>4, <1>5, <1>7, <3>1
  <2>2. CASE i > k
    <3>1. i = k + 1 /\ 1 \in 1..1 /\ 0 + i = k + 1
      BY <2>2
    <3> QED
      BY <1>3, <1>5, <1>7, <3>1
  <2> QED
    BY <2>1, <2>2
<1>9. c = b
  <2>1. Len(c) = Len(b) /\ \A i \in 1..Len(c) : c[i] = b[i]
    BY <1>5, <1>7, <1>8
  <2> QED
    BY <1>5, <1>7, <2>1, SameSeq
<1> QED
  BY <1>4, <1>5, <1>9 DEF a, b, c, one

LEMMA Sha1AppendIs ==
    ASSUME NEW h, NEW m, Given(h, m), h.kind = "sha1", NEW data, IsSeq(data)
    PROVE  Given(Sha1Append(h, data), m \o data) /\ Sha1Append(h, data).kind = "sha1"
<1> DEFINE n == Len(data)
<1>0. n \in Nat /\ IsSeq(m)
  BY DEF IsSeq, Given
<1>1. PICK f : AfterEach(f, h, data, n) /\ Sha1Append(h, data) = f[n]
  BY <1>0, Sha1AppendAfter
<1>2. \A k \in 0..n : f[k] = IF k = 0 THEN h ELSE Sha1Byte(f[k - 1], data[k])
  BY <1>1 DEF AfterEach
<1> DEFINE Upto(k) == Given(f[k], m \o SubSeq(data, 1, k)) /\ f[k].kind = "sha1"
           S == {k \in Nat : k <= n => Upto(k)}
<1> HIDE DEF n
<1>3. 0 \in S
  <2>1. f[0] = h
    BY <1>0, <1>2
  <2>2. SubSeq(data, 1, 0) = <<>>
    <3>1. 0 + 0 <= Len(data) /\ 0 + 1 = 1 /\ 0 + 0 = 0
      BY <1>0 DEF n
    <3>2. IsPart(SubSeq(data, 0 + 1, 0 + 0), data, 0, 0)
      BY <3>1, PartIs
    <3>3. IsSeq(SubSeq(data, 1, 0)) /\ Len(SubSeq(data, 1, 0)) = 0
      BY <3>1, <3>2 DEF IsPart
    <3> QED
      BY <3>3, EmptyIs
  <2>3. m \o SubSeq(data, 1, 0) = m
    BY <1>0, <2>2, CatEmpty
  <2>4. Upto(0)
    BY <2>1, <2>3
  <2> QED
    BY <2>4
<1>4. ASSUME NEW k \in Nat, k \in S, k + 1 <= n PROVE Upto(k + 1)
  <2>0. k + 1 \in 0..n /\ k + 1 # 0 /\ (k + 1) - 1 = k /\ k <= n
    BY <1>0, <1>4
  <2>1. Upto(k)
    <3> HIDE DEF Upto
    <3> QED
      BY <1>4, <2>0
  <2> DEFINE b == data[k + 1]
             p == SubSeq(data, 1, k)
             q == SubSeq(data, 1, k + 1)
  <2>2. f[k + 1] = Sha1Byte(f[k], b)
    BY <1>2, <2>0
  <2>3. IsSeq(p) /\ IsSeq(q) /\ p \o <<b>> = q
    BY <1>4, OneMore DEF n
  <2> HIDE DEF b, p, q
  <2>4. Given(f[k], m \o p) /\ f[k].kind = "sha1"
    BY <2>1 DEF p
  <2>5. Given(Sha1Byte(f[k], b), (m \o p) \o <<b>>) /\ Sha1Byte(f[k], b).kind = "sha1"
    BY <2>4, Sha1ByteIs
  <2>6. (m \o p) \o <<b>> = m \o q
    <3>1. IsSeq(<<b>>)
      BY Single
    <3>2. (m \o p) \o <<b>> = m \o (p \o <<b>>)
      <4>1. Regroups(m, p, <<b>>)
        BY ONLY <1>0, <2>3, <3>1, Regrouped
      <4> QED
        BY ONLY <4>1 DEF Regroups
    <3> QED
      BY <2>3, <3>2
  <2>7. Given(f[k + 1], m \o q) /\ f[k + 1].kind = "sha1"
    BY <2>2, <2>5, <2>6
  <2> QED
    BY <2>7 DEF q
<1>5. \A k \in Nat : k \in S
  <2>1. \A k \in Nat : k \in S => k + 1 \in S
    <3> HIDE DEF Upto
    <3> QED
      BY <1>4
  <2> HIDE DEF S
  <2> QED
    BY <1>3, <2>1, Induct, Zenon
<1>6. Upto(n)
  <2> HIDE DEF Upto
  <2> QED
    BY <1>0, <1>5
<1>7. SubSeq(data, 1, n) = data
  <2>1. 0 + n <= Len(data) /\ 0 + 1 = 1 /\ 0 + n = n
    BY <1>0 DEF n
  <2>2. IsPart(SubSeq(data, 0 + 1, 0 + n), data, 0, n)
    BY <1>0, <2>1, PartIs
  <2> DEFINE s == SubSeq(data, 1, n)
  <2>3. IsSeq(s) /\ Len(s) = n /\ \A i \in 1..n : s[i] = data[0 + i]
    BY <2>1, <2>2 DEF IsPart
  <2> HIDE DEF s
  <2>4. \A i \in 1..Len(s) : s[i] = data[i]
    <3>1. \A i \in 1..n : 0 + i = i
      BY <1>0
    <3> QED
      BY <2>3, <3>1
  <2>5. Len(s) = Len(data)
    BY <2>3 DEF n
  <2>6. s = data
    BY <2>3, <2>4, <2>5, SameSeq
  <2> QED
    BY <2>6 DEF s
<1> QED
  BY <1>1, <1>6, <1>7

\* A piece appended to any of the three.
LEMMA AppendIs ==
    ASSUME NEW h, NEW m, Given(h, m), NEW data, IsSeq(data), Len(data) <= Word
    PROVE  Given(AppendTo(h, data), m \o data) /\ AppendTo(h, data).kind = h.kind
<1>1. h.kind \in Kinds
  BY DEF Given, Shape
<1>2. CASE h.kind = "md5"
  <2>1. AppendTo(h, data) = Md5Append(h, data)
    BY <1>2 DEF AppendTo
  <2> QED
    BY <1>2, <2>1, Md5AppendIs
<1>3. CASE h.kind = "md4"
  <2>1. AppendTo(h, data) = Md4Append(h, data)
    BY <1>3 DEF AppendTo
  <2> QED
    BY <1>3, <2>1, Md4AppendIs
<1>4. CASE h.kind = "sha1"
  <2>1. AppendTo(h, data) = Sha1Append(h, data)
    BY <1>4 DEF AppendTo
  <2> QED
    BY <1>4, <2>1, Sha1AppendIs
<1> QED
  BY <1>1, <1>2, <1>3, <1>4 DEF Kinds

-----------------------------------------------------------------------------
(* Padding                                                                  *)

ZeroCount(m) == (2 * Block - 3 - (Len(m) % Block)) % Block
Words(kind, m) ==
    IF kind = "sha1" THEN HighLow((Bits * Len(m)) % Word, ((Bits * Len(m)) \div Word) % Word)
                     ELSE LowHigh((Bits * Len(m)) % Word, ((Bits * Len(m)) \div Word) % Word)
PaddedMessage(kind, m) == ((m \o <<Mark>>) \o Zeros(ZeroCount(m))) \o Words(kind, m)

LEMMA ReferenceIs ==
    ASSUME NEW kind, NEW m
    PROVE  Reference(kind, m) = [iv |-> "iv", chain |-> Whole(PaddedMessage(kind, m))]
BY DEF Reference, PaddedMessage, Words, ZeroCount

\* How many zeros there are between the mark and the length.
LEMMA ZeroCountIs ==
    ASSUME NEW m, IsSeq(m)
    PROVE  /\ Len(m) % Block \in 0..(Block - 1)
           /\ (Len(m) % Block) + 1 <= Block - 2 => ZeroCount(m) = Block - 3 - (Len(m) % Block)
           /\ ~ ((Len(m) % Block) + 1 <= Block - 2) => ZeroCount(m) = 2 * Block - 3 - (Len(m) % Block)
           /\ ZeroCount(m) \in 0..(Block - 1)
<1> DEFINE a == Len(m) % Block
           b == Block
           z == ZeroCount(m)
           y == 2 * b - 3 - a
<1>1. b \in Nat /\ b > 2 /\ a \in 0..(b - 1)
  BY DigestsAssumption, LeftIs
<1>2. z = y % b
  BY DEF ZeroCount
<1> HIDE DEF a, b, z
<1>3. CASE a + 1 <= b - 2
  <2>1. b - 3 - a \in 0..(b - 1) /\ y = 1 * b + (b - 3 - a)
    BY <1>1, <1>3
  <2>2. (1 * b + (b - 3 - a)) % b = b - 3 - a
    BY <1>1, <2>1, DivRest
  <2>3. z = b - 3 - a
    BY <1>2, <2>1, <2>2
  <2> QED
    BY <1>1, <1>3, <2>1, <2>3 DEF a, b, z
<1>4. CASE ~ (a + 1 <= b - 2)
  <2>1. y \in 0..(b - 1) /\ y = 0 * b + y
    BY <1>1, <1>4
  <2>2. (0 * b + y) % b = y
    <3> HIDE DEF y
    <3> QED
      BY <1>1, <2>1, DivRest
  <2>3. z = y
    BY <1>2, <2>1, <2>2
  <2> QED
    BY <1>1, <1>4, <2>1, <2>3 DEF a, b, z
<1> QED
  BY <1>3, <1>4

LEMMA WordsAre == ASSUME NEW kind, NEW m PROVE IsSeq(Words(kind, m)) /\ Len(Words(kind, m)) = 2
<1>1. ASSUME NEW u, NEW v PROVE IsSeq(<<u, v>>) /\ Len(<<u, v>>) = 2
  <2>1. Len(<<u, v>>) = 2 /\ <<u, v>> = [i \in 1..2 |-> <<u, v>>[i]]
    OBVIOUS
  <2> QED
    BY <2>1 DEF IsSeq
<1> DEFINE lo == (Bits * Len(m)) % Word
           hi == ((Bits * Len(m)) \div Word) % Word
<1>2. Words(kind, m) = IF kind = "sha1" THEN << <<"hi", hi>>, <<"lo", lo>> >> ELSE << <<"lo", lo>>, <<"hi", hi>> >>
  BY DEF Words, HighLow, LowHigh
<1> HIDE DEF lo, hi
<1> QED
  BY <1>1, <1>2

\* What a digest leaves.
Digested(h, m) ==
    /\ DigestOf(h).digest = Reference(h.kind, m)
    /\ Shape(DigestOf(h).context) /\ DigestOf(h).context.kind = h.kind
    /\ h.kind = "sha1" => Given(DigestOf(h).context, <<>>)

\* The pieces a digest is padded with.
LEMMA Pads ==
    ASSUME NEW m, IsSeq(m)
    PROVE  /\ IsSeq(<<Mark>>) /\ Len(<<Mark>>) = 1
           /\ IsSeq(Zeros(ZeroCount(m))) /\ Len(Zeros(ZeroCount(m))) = ZeroCount(m)
           /\ ZeroCount(m) \in 0..(Block - 1) /\ ZeroCount(m) \in Nat
           /\ ZeroCount(m) <= Word /\ ZeroCount(m) + 1 <= Word /\ 1 <= Word /\ 2 <= Word
<1>1. ZeroCount(m) \in 0..(Block - 1) /\ Block \in 1..Word /\ Block > 2 /\ Word \in Nat
  BY ZeroCountIs, BlockInWord, DigestsAssumption
<1>2. ZeroCount(m) \in Nat
  BY <1>1
<1> QED
  BY <1>1, <1>2, ZerosIs, Single

LEMMA Md5DigestIs ==
    ASSUME NEW h, NEW m, Given(h, m), h.kind = "md5"
    PROVE  Digested(h, m)
<1> DEFINE last == h.lo % Block
           room == Block - 2
           pad == IF last < room THEN room - last ELSE Block + room - last
           low == (h.lo * Bits) % Word
           high == ((h.lo * Bits) \div Word + h.hi * Bits) % Word
           z == Zeros(ZeroCount(m))
           w == Words("md5", m)
           x == <<Mark>> \o z
           h1 == Md5Append(h, x)
           done == Md5Append(h1, w)
           m1 == m \o x
           m2 == m1 \o w
<1>1. IsSeq(m) /\ Len(m) \in Nat /\ Block \in Nat /\ Block > 2
  BY DigestsAssumption DEF Given, IsSeq
<1>2. last = Len(m) % Block
  BY <1>1, PlaceInBlock DEF Given, Counts, CountsMd5
<1>3. pad - 1 = ZeroCount(m)
  <2> DEFINE a == Len(m) % Block
  <2>1. /\ a \in 0..(Block - 1)
        /\ a + 1 <= Block - 2 => ZeroCount(m) = Block - 3 - a
        /\ ~ (a + 1 <= Block - 2) => ZeroCount(m) = 2 * Block - 3 - a
    BY <1>1, ZeroCountIs
  <2>2. last = a
    BY <1>2
  <2> HIDE DEF last, a
  <2>3. CASE a + 1 <= Block - 2
    BY <1>1, <2>1, <2>2, <2>3
  <2>4. CASE ~ (a + 1 <= Block - 2)
    BY <1>1, <2>1, <2>2, <2>4
  <2> QED
    BY <2>3, <2>4
<1>4. LowHigh(low, high) = w
  <2>1. h.lo = Len(m) % Word /\ h.hi = (Len(m) \div Word) % Word
    BY DEF Given, Counts, CountsMd5
  <2>2. /\ (Bits * Len(m)) % Word = ((Len(m) % Word) * Bits) % Word
        /\ ((Bits * Len(m)) \div Word) % Word
             = (((Len(m) % Word) * Bits) \div Word + ((Len(m) \div Word) % Word) * Bits) % Word
    BY <1>1, BitsIs
  <2>3. low = (Bits * Len(m)) % Word /\ high = ((Bits * Len(m)) \div Word) % Word
    BY <2>1, <2>2
  <2> HIDE DEF low, high
  <2> QED
    BY <2>3 DEF Words
<1>5. DigestOf(h) = [digest |-> Result(done), context |-> done]
  <2>1. DigestOf(h) = Md5Digest(h)
    BY DEF DigestOf
  <2>2. Md5Digest(h) = [digest |-> Result(Md5Append(Md5Append(h, <<Mark>> \o Zeros(pad - 1)), LowHigh(low, high))),
                        context |-> Md5Append(Md5Append(h, <<Mark>> \o Zeros(pad - 1)), LowHigh(low, high))]
    BY DEF Md5Digest
  <2> HIDE DEF pad, low, high
  <2> QED
    BY <1>3, <1>4, <2>1, <2>2
<1> HIDE DEF low, high, pad, last
<1>6. IsSeq(z) /\ Len(z) = ZeroCount(m) /\ IsSeq(w) /\ Len(w) = 2 /\ IsSeq(<<Mark>>) /\ Len(<<Mark>>) = 1
  BY <1>1, Pads, WordsAre
<1>7. IsSeq(x) /\ Len(x) <= Word /\ Len(w) <= Word
  <2> HIDE DEF z, w
  <2>1. IsSeq(x) /\ Len(x) = 1 + ZeroCount(m)
    BY <1>6, LengthIs
  <2>2. ZeroCount(m) + 1 <= Word /\ ZeroCount(m) \in Nat /\ 2 <= Word
    BY <1>1, Pads
  <2> QED
    BY <1>6, <2>1, <2>2
<1>8. m2 = PaddedMessage("md5", m)
  <2>1. m \o (<<Mark>> \o z) = (m \o <<Mark>>) \o z
    <3>1. Regroups(m, <<Mark>>, z)
      BY ONLY <1>1, <1>6, Regrouped
    <3> QED
      BY ONLY <3>1 DEF Regroups
  <2> QED
    BY <2>1 DEF PaddedMessage
<1> HIDE DEF x, w, z
<1>9. Given(h1, m1) /\ h1.kind = "md5"
  BY <1>7, Md5AppendIs
<1> HIDE DEF h1, m1
<1>10. Given(done, m2) /\ done.kind = "md5"
  BY <1>6, <1>7, <1>9, Md5AppendIs
<1> HIDE DEF done, m2
<1>11. Result(done) = Reference("md5", m)
  <2>1. done.iv = "iv" /\ done.chain = Whole(PaddedMessage("md5", m))
    BY <1>8, <1>10 DEF Given
  <2>2. Result(done) = [iv |-> "iv", chain |-> Whole(PaddedMessage("md5", m))]
    BY <2>1 DEF Result
  <2> QED
    BY <2>2, ReferenceIs
<1>12. Shape(done)
  BY <1>10 DEF Given
<1> QED
  BY <1>5, <1>10, <1>11, <1>12 DEF Digested

LEMMA Sha1DigestIs ==
    ASSUME NEW h, NEW m, Given(h, m), h.kind = "sha1"
    PROVE  Digested(h, m)
<1> DEFINE mark == <<Mark>>
           marked == Sha1Append(h, mark)
           pad == (2 * Block - 2 - marked.n) % Block
           z == Zeros(ZeroCount(m))
           w == Words("sha1", m)
           h1 == Sha1Append(marked, z)
           done == Sha1Append(h1, w)
           m0 == m \o mark
           m1 == m0 \o z
           m2 == m1 \o w
<1>1. IsSeq(m) /\ Len(m) \in Nat /\ Block \in Nat /\ Block > 2 /\ Block \in Nat \ {0}
  BY DigestsAssumption DEF Given, IsSeq
<1>6. IsSeq(z) /\ Len(z) = ZeroCount(m) /\ IsSeq(w) /\ Len(w) = 2 /\ IsSeq(mark) /\ Len(mark) = 1
  BY <1>1, Pads, WordsAre
<1>2. HighLow(h.lo, h.hi) = w
  <2>1. h.lo = (Bits * Len(m)) % Word /\ h.hi = ((Bits * Len(m)) \div Word) % Word
    BY DEF Given, Counts, CountsSha1
  <2> QED
    BY <2>1 DEF Words
<1>3. DigestOf(h) = [digest |-> Result(Sha1Append(Sha1Append(marked, Zeros(pad)), HighLow(h.lo, h.hi))),
                     context |-> Reset(Sha1Append(Sha1Append(marked, Zeros(pad)), HighLow(h.lo, h.hi)))]
  BY DEF DigestOf, Sha1Digest
<1> HIDE DEF w, z, mark
<1>4. Given(marked, m0) /\ marked.kind = "sha1"
  BY <1>6, Sha1AppendIs
<1>5. IsSeq(m0) /\ Len(m0) = Len(m) + 1
  BY <1>1, <1>6, LengthIs
<1> HIDE DEF marked
<1>7. pad = ZeroCount(m)
  <2> DEFINE a == Len(m) % Block
             q == Len(m) \div Block
             b == Block
             n == marked.n
  <2>1. a \in 0..(b - 1) /\ q \in Nat /\ Len(m) = q * b + a /\ q * b \in Nat
    BY <1>1, DivMod
  <2>2. n = Len(m0) % b
    BY <1>4 DEF Given, Counts, CountsSha1
  <2>3. ZeroCount(m) = (2 * b - 3 - a) % b /\ pad = (2 * b - 2 - n) % b
    BY DEF ZeroCount
  <2>4. b \in Nat \ {0} /\ b > 2
    BY <1>1
  <2>5. (q * b + (a + 1)) % b = (a + 1) % b
    <3> HIDE DEF a, q, b
    <3>1. a + 1 \in Nat
      BY <2>1, <2>4
    <3> QED
      BY <2>1, <2>4, <3>1, AddWhole
  <2> HIDE DEF pad, a, q, b, n
  <2>6. n = (a + 1) % b
    <3>1. Len(m0) = q * b + (a + 1)
      BY <1>5, <2>1, <2>4
    <3> QED
      BY <2>2, <2>5, <3>1
  <2>7. CASE a + 1 < b
    <3>1. a + 1 \in 0..(b - 1) /\ 0 * b + (a + 1) = a + 1
      BY <2>1, <2>4, <2>7
    <3>2. (0 * b + (a + 1)) % b = a + 1
      BY <2>4, <3>1, DivRest
    <3>3. n = a + 1
      BY <2>6, <3>1, <3>2
    <3>4. 2 * b - 2 - n = 2 * b - 3 - a
      BY <2>1, <2>4, <3>3
    <3> QED
      BY <2>3, <3>4
  <2>8. CASE ~ (a + 1 < b)
    <3>1. a + 1 = 1 * b + 0 /\ 0 \in 0..(b - 1)
      BY <2>1, <2>4, <2>8
    <3>2. (1 * b + 0) % b = 0
      BY <2>4, <3>1, DivRest
    <3>3. n = 0
      BY <2>6, <3>1, <3>2
    <3> DEFINE c == b - 2
    <3>4. c \in 0..(b - 1) /\ 2 * b - 2 - n = 1 * b + c /\ 2 * b - 3 - a = 0 * b + c
      BY <2>1, <2>4, <2>8, <3>3
    <3> HIDE DEF c
    <3>5. (1 * b + c) % b = c /\ (0 * b + c) % b = c
      BY <2>4, <3>4, DivRest
    <3> QED
      BY <2>3, <3>4, <3>5
  <2> QED
    BY <2>7, <2>8
<1>8. DigestOf(h) = [digest |-> Result(done), context |-> Reset(done)]
  <2> HIDE DEF pad
  <2> QED
    BY <1>2, <1>3, <1>7 DEF z
<1> HIDE DEF pad, m0
<1>9. Given(h1, m1) /\ h1.kind = "sha1"
  BY <1>4, <1>6, Sha1AppendIs
<1> HIDE DEF h1, m1
<1>10. Given(done, m2) /\ done.kind = "sha1"
  BY <1>6, <1>9, Sha1AppendIs
<1>11. m2 = PaddedMessage("sha1", m)
  BY DEF m2, m1, m0, z, w, mark, PaddedMessage
<1> HIDE DEF done, m2
<1>12. Result(done) = Reference("sha1", m)
  <2>1. done.iv = "iv" /\ done.chain = Whole(PaddedMessage("sha1", m))
    BY <1>10, <1>11 DEF Given
  <2>2. Result(done) = [iv |-> "iv", chain |-> Whole(PaddedMessage("sha1", m))]
    BY <2>1 DEF Result
  <2> QED
    BY <2>2, ReferenceIs
<1>13. Given(Reset(done), <<>>) /\ Reset(done).kind = "sha1"
  <2>1. Shape(done)
    BY <1>10 DEF Given
  <2> QED
    BY <1>10, <2>1, ResetIs
<1>14. Shape(Reset(done))
  BY <1>13 DEF Given
<1> QED
  BY <1>8, <1>12, <1>13, <1>14 DEF Digested

\* A piece that fills the block exactly.
LEMMA FillAll ==
    ASSUME NEW m, IsSeq(m), NEW x, IsSeq(x), Len(Left(m)) + Len(x) = Block
    PROVE  Whole(m \o x) = Whole(m) \o <<Left(m) \o x>>
<1> DEFINE e == <<>>
           y == Left(m) \o x
<1>1. IsSeq(e) /\ Len(e) = 0 /\ 0 < Block
  BY EmptyIs, BlockType
<1> HIDE DEF e, y
<1>2. Fills(m, x, e)
  BY ONLY <1>1, IsSeq(m), IsSeq(x), Len(Left(m)) + Len(x) = Block, FillIs
<1>3. Whole(m \o (x \o e)) = Whole(m) \o (<<y>> \o Whole(e))
  BY ONLY <1>2 DEF Fills, y
<1>4. Len(e) < Block
  BY <1>1
<1>5. Whole(e) = <<>>
  BY ONLY <1>1, <1>4, ShortIs
<1>6. x \o e = x
  BY CatEmpty DEF e
<1>7. <<y>> \o <<>> = <<y>>
  BY Single, CatEmpty
<1> QED
  BY <1>3, <1>5, <1>6, <1>7 DEF y

LEMMA ZerosCat ==
    ASSUME NEW i \in Nat, NEW j \in Nat
    PROVE  Zeros(i) \o Zeros(j) = Zeros(i + j)
<1> DEFINE x == Zeros(i)
           y == Zeros(j)
           z == Zeros(i + j)
           c == x \o y
<1>1. IsSeq(x) /\ Len(x) = i /\ \A k \in 1..i : x[k] = Zero
  BY ZerosIs
<1>2. IsSeq(y) /\ Len(y) = j /\ \A k \in 1..j : y[k] = Zero
  BY ZerosIs
<1>3. IsSeq(z) /\ Len(z) = i + j /\ \A k \in 1..(i + j) : z[k] = Zero
  <2> DEFINE n == i + j
  <2>1. n \in Nat
    OBVIOUS
  <2> HIDE DEF n
  <2>2. IsSeq(Zeros(n)) /\ Len(Zeros(n)) = n /\ \A k \in 1..n : Zeros(n)[k] = Zero
    BY <2>1, ZerosIs
  <2> QED
    BY <2>2 DEF n
<1> HIDE DEF x, y, z
<1>4. Joins(c, x, y)
  BY <1>1, <1>2, Cat
<1> HIDE DEF c
<1>5. /\ IsSeq(c) /\ Len(c) = i + j
      /\ (\A k \in 1..i : c[k] = x[k]) /\ (\A k \in 1..j : c[i + k] = y[k])
  BY <1>1, <1>2, <1>4 DEF Joins
<1>6. ASSUME NEW k \in 1..(i + j) PROVE c[k] = z[k]
  <2>1. CASE k <= i
    <3>1. k \in 1..i
      BY <2>1
    <3> QED
      BY <1>1, <1>3, <1>5, <3>1
  <2>2. CASE k > i
    <3>1. k - i \in 1..j /\ i + (k - i) = k
      BY <2>2
    <3>2. c[i + (k - i)] = y[k - i] /\ y[k - i] = Zero
      BY <1>2, <1>5, <3>1
    <3> QED
      BY <1>3, <3>1, <3>2
  <2> QED
    BY <2>1, <2>2
<1>7. \A k \in 1..Len(c) : c[k] = z[k]
  BY <1>5, <1>6
<1>8. c = z
  BY <1>3, <1>5, <1>7, SameSeq
<1> QED
  BY <1>8 DEF c, x, y, z

\* Zeros up to the end of the buffer, and no further.
LEMMA BlitBeyond ==
    ASSUME NEW buf, DOMAIN buf = 1..Block, NEW at \in 0..Block
    PROVE  Blit(buf, at, Zeros(Block)) = Blit(buf, at, Zeros(Block - at))
<1> DEFINE b == Block
           k == b - at
           long == Zeros(b)
           short == Zeros(k)
           f == Blit(buf, at, long)
           g == Blit(buf, at, short)
<1>1. b \in Nat /\ k \in Nat /\ k <= b /\ at + k = b /\ at \in Nat
  BY BlockType
<1> HIDE DEF b, k
<1>2. Len(long) = b /\ \A i \in 1..b : long[i] = Zero
  BY <1>1, ZerosIs
<1>3. Len(short) = k /\ \A i \in 1..k : short[i] = Zero
  BY <1>1, ZerosIs
<1>4. f = [i \in 1..b |-> IF i \in (at + 1)..(at + b) THEN long[i - at] ELSE buf[i]]
  BY <1>2 DEF Blit, b
<1>5. g = [i \in 1..b |-> IF i \in (at + 1)..(at + k) THEN short[i - at] ELSE buf[i]]
  BY <1>3 DEF Blit, b
<1> HIDE DEF long, short, f, g
<1>6. ASSUME NEW i \in 1..b PROVE f[i] = g[i]
  <2>1. CASE i > at
    <3>1. i \in (at + 1)..(at + b) /\ i \in (at + 1)..(at + k) /\ i - at \in 1..k /\ i - at \in 1..b
      BY <1>1, <2>1
    <3>2. f[i] = long[i - at] /\ g[i] = short[i - at]
      BY <1>4, <1>5, <3>1
    <3> QED
      BY <1>2, <1>3, <3>1, <3>2
  <2>2. CASE ~ (i > at)
    <3>1. ~ (i \in (at + 1)..(at + b)) /\ ~ (i \in (at + 1)..(at + k))
      BY <1>1, <2>2
    <3> QED
      BY <1>4, <1>5, <3>1
  <2> QED
    BY <2>1, <2>2
<1>7. f = [i \in 1..b |-> f[i]] /\ g = [i \in 1..b |-> g[i]]
  BY <1>4, <1>5
<1>8. f = g
  BY <1>6, <1>7
<1> QED
  BY <1>8 DEF f, g, long, short, b, k

LEMMA TwoOnes == ASSUME NEW u, NEW v PROVE <<u>> \o <<v>> = <<u, v>>
<1> DEFINE x == <<u>>
           y == <<v>>
           c == x \o y
           d == <<u, v>>
<1>1. IsSeq(x) /\ Len(x) = 1 /\ x[1] = u /\ IsSeq(y) /\ Len(y) = 1 /\ y[1] = v
  BY Single
<1>2. Len(d) = 2 /\ d = [i \in 1..2 |-> d[i]] /\ d[1] = u /\ d[2] = v
  OBVIOUS
<1>3. IsSeq(d)
  BY <1>2 DEF IsSeq
<1> HIDE DEF x, y, d
<1>4. Joins(c, x, y)
  BY <1>1, Cat
<1> HIDE DEF c
<1>5. IsSeq(c) /\ Len(c) = 2 /\ (\A i \in 1..1 : c[i] = x[i]) /\ (\A i \in 1..1 : c[1 + i] = y[i])
  BY <1>1, <1>4 DEF Joins
<1>6. c[1] = u /\ c[2] = v
  BY <1>1, <1>5
<1>7. \A i \in 1..Len(c) : c[i] = d[i]
  BY <1>2, <1>5, <1>6
<1>8. c = d
  BY <1>2, <1>3, <1>5, <1>7, SameSeq
<1> QED
  BY <1>8 DEF c, d, x, y

LEMMA Md4DigestIs ==
    ASSUME NEW h, NEW m, Given(h, m), h.kind = "md4"
    PROVE  Digested(h, m)
<1> DEFINE at == h.n % Block
           room == Block - 2
           l == Left(m)
           mark == <<Mark>>
           marked == Blit(h.buf, at, mark)
           fits == room >= at + 1
           z == Zeros(ZeroCount(m))
           w == Words("md4", m)
           short == Blit(marked, at + 1, Zeros(room - (at + 1)))
           first == Blit(marked, at + 1, Zeros(Block))
           second == Blit(first, 0, Zeros(room))
           last == Blit(IF fits THEN short ELSE second, room, w)
           blocks == IF fits THEN <<last>> ELSE <<first, last>>
           lm == l \o mark
           cleared == [h EXCEPT !.iv = "zero", !.chain = <<>>, !.buf = Zeros(Block), !.n = 0]
<1>1. /\ IsSeq(m) /\ IsSeq(l) /\ Len(l) = Len(m) % Block /\ Len(l) \in 0..(Block - 1) /\ Holds(h.buf, l)
      /\ Len(m) \in Nat
  BY LeftHolds
<1>2. DOMAIN h = Fields /\ h.iv = "iv" /\ h.chain = Whole(m)
  BY DEF Given, Shape
<1>3. at = Len(l) /\ h.n = Len(m)
  BY <1>1 DEF Given, Counts, CountsMd4
<1>4. Block \in Nat /\ Block > 2 /\ room \in Nat /\ room + 2 = Block
  BY DigestsAssumption
<1>5. /\ IsSeq(z) /\ Len(z) = ZeroCount(m) /\ IsSeq(w) /\ Len(w) = 2 /\ IsSeq(mark) /\ Len(mark) = 1
      /\ ZeroCount(m) \in Nat
  BY <1>1, Pads, WordsAre
<1>6. LowHigh((h.n * Bits) % Word, (h.n * Bits) \div Word % Word) = w
  <2>1. h.n * Bits = Bits * Len(m)
    <3> DEFINE n == Len(m)
    <3>1. n \in Nat /\ Bits \in Nat /\ h.n = n
      BY <1>1, <1>3, DigestsAssumption
    <3> HIDE DEF n
    <3> QED
      BY <3>1 DEF n
  <2> QED
    BY <2>1 DEF Words
<1>7. DigestOf(h) = [digest |-> Result(Process(h, blocks)), context |-> cleared]
  <2>1. DigestOf(h) = Md4Digest(h)
    BY DEF DigestOf
  <2> DEFINE v == LowHigh((h.n * Bits) % Word, (h.n * Bits) \div Word % Word)
             end == Blit(IF fits THEN short ELSE second, room, v)
  <2>2. Md4Digest(h) = [digest |-> Result(Process(h, IF fits THEN <<end>> ELSE <<first, end>>)), context |-> cleared]
    BY DEF Md4Digest
  <2>3. v = w
    BY <1>6
  <2> HIDE DEF v, w, cleared, first, short, second, fits
  <2> QED
    BY <2>1, <2>2, <2>3
<1> HIDE DEF w, z, mark
<1>8. Holds(marked, lm) /\ IsSeq(lm) /\ Len(lm) = at + 1 /\ at + 1 <= Block
  <2>1. Len(l) + Len(mark) <= Block /\ Len(l) + Len(mark) = at + 1
    <3> HIDE DEF l, at
    <3> QED
      BY <1>1, <1>3, <1>4, <1>5
  <2>2. Holds(Blit(h.buf, Len(l), mark), l \o mark)
    BY <1>1, <1>5, <2>1, BlitIs
  <2>3. IsSeq(lm) /\ Len(lm) = Len(l) + Len(mark)
    BY <1>1, <1>5, LengthIs
  <2> HIDE DEF lm
  <2> QED
    BY <1>3, <2>1, <2>2, <2>3 DEF lm
<1>9. PaddedMessage("md4", m) = ((m \o mark) \o z) \o w
  BY DEF PaddedMessage, mark, z, w
<1>10. at \in 0..(Block - 1)
  BY <1>1, <1>3
<1>15. IsSeq(m) /\ IsSeq(l) /\ IsSeq(mark) /\ IsSeq(z) /\ IsSeq(w)
  BY <1>1, <1>5
<1> HIDE DEF at, l, room, marked
<1>11. Process(h, blocks).chain = Whole(PaddedMessage("md4", m))
  <2>1. CASE fits
    <3> DEFINE k == room - (at + 1)
               o == lm \o z
    <3>1. k \in Nat /\ at + 1 + k = room
      BY <1>4, <1>10, <2>1
    <3>2. k = ZeroCount(m)
      <4>1. (Len(m) % Block) + 1 <= Block - 2 => ZeroCount(m) = Block - 3 - (Len(m) % Block)
        BY <1>1, ZeroCountIs
      <4>2. at = Len(m) % Block
        BY <1>1, <1>3
      <4> QED
        BY <1>4, <1>10, <2>1, <4>1, <4>2 DEF room
    <3>3. short = Blit(marked, Len(lm), z)
      BY <1>8, <3>2 DEF z
    <3> HIDE DEF k, short, lm
    <3>4. Holds(short, o) /\ IsSeq(o) /\ Len(o) = room
      <4>1. Len(lm) + Len(z) = room /\ Len(lm) + Len(z) <= Block
        BY <1>4, <1>5, <1>8, <1>10, <3>1, <3>2
      <4>2. Holds(Blit(marked, Len(lm), z), lm \o z)
        BY <1>5, <1>8, <4>1, BlitIs
      <4>3. IsSeq(o) /\ Len(o) = Len(lm) + Len(z)
        BY <1>5, <1>8, LengthIs
      <4> QED
        BY <3>3, <4>1, <4>2, <4>3
    <3>5. last = Blit(short, Len(o), w)
      BY <2>1, <3>4 DEF last
    <3> HIDE DEF last
    <3>6. last = o \o w
      <4>1. Len(o) + Len(w) = Block
        BY <1>4, <1>5, <3>4
      <4> HIDE DEF o
      <4> QED
        BY <1>5, <3>4, <3>5, <4>1, FilledBlock
    <3> DEFINE x == (mark \o z) \o w
    <3>7. IsSeq(mark \o z) /\ IsSeq(x) /\ Len(x) = (1 + Len(z)) + 2
      <4>1. IsSeq(mark \o z) /\ Len(mark \o z) = 1 + Len(z)
        BY <1>5, LengthIs
      <4>2. IsSeq(x) /\ Len(x) = Len(mark \o z) + Len(w)
        BY <1>5, <4>1, LengthIs
      <4> QED
        BY <1>5, <4>1, <4>2
    <3>8. last = l \o x
      <4>1. (l \o mark) \o z = l \o (mark \o z)
        <5>1. Regroups(l, mark, z)
          BY ONLY <1>15, Regrouped
        <5> QED
          BY ONLY <5>1 DEF Regroups
      <4> DEFINE u == mark \o z
      <4>0. IsSeq(u)
        BY <3>7
      <4> HIDE DEF u
      <4>3. (l \o u) \o w = l \o (u \o w)
        <5>1. Regroups(l, u, w)
          BY ONLY <1>15, <4>0, Regrouped
        <5> QED
          BY ONLY <5>1 DEF Regroups
      <4>2. (l \o (mark \o z)) \o w = l \o ((mark \o z) \o w)
        BY <4>3 DEF u
      <4> QED
        BY <3>6, <4>1, <4>2 DEF lm
    <3>9. PaddedMessage("md4", m) = m \o x
      <4>1. (m \o mark) \o z = m \o (mark \o z)
        <5>1. Regroups(m, mark, z)
          BY ONLY <1>15, Regrouped
        <5> QED
          BY ONLY <5>1 DEF Regroups
      <4> DEFINE u == mark \o z
      <4>0. IsSeq(u)
        BY <3>7
      <4> HIDE DEF u
      <4>3. (m \o u) \o w = m \o (u \o w)
        <5>1. Regroups(m, u, w)
          BY ONLY <1>15, <4>0, Regrouped
        <5> QED
          BY ONLY <5>1 DEF Regroups
      <4>2. (m \o (mark \o z)) \o w = m \o ((mark \o z) \o w)
        BY <4>3 DEF u
      <4> QED
        BY <1>9, <4>1, <4>2
    <3> HIDE DEF x
    <3>10. Len(Left(m)) + Len(x) = Block
      <4>1. Len(Left(m)) = at
        BY <1>3 DEF l
      <4>2. Len(x) = (1 + k) + 2
        BY <1>5, <3>2, <3>7
      <4> QED
        BY ONLY <1>4, <1>10, <3>1, <4>1, <4>2
    <3>11. Whole(m \o x) = Whole(m) \o <<Left(m) \o x>>
      BY ONLY <1>1, <3>7, <3>10, FillAll
    <3>12. blocks = <<last>>
      BY <2>1
    <3>13. Process(h, blocks).chain = h.chain \o blocks
      BY <1>2 DEF Process, Fields
    <3> QED
      BY <1>2, <3>8, <3>9, <3>11, <3>12, <3>13 DEF l
  <2>2. CASE ~ fits
    <3> DEFINE k == Block - (at + 1)
               zk == Zeros(k)
               zr == Zeros(room)
               x == mark \o zk
               rest == zr \o w
    <3>1. k \in Nat /\ at + 1 + k = Block /\ at + 1 \in 0..Block /\ room \in Nat /\ room <= Block
      BY <1>4, <1>10
    <3>2. z = zk \o zr
      <4>1. ~ ((Len(m) % Block) + 1 <= Block - 2) => ZeroCount(m) = 2 * Block - 3 - (Len(m) % Block)
        BY <1>1, ZeroCountIs
      <4>2. at = Len(m) % Block
        BY <1>1, <1>3
      <4>3. ZeroCount(m) = k + room
        BY <1>4, <1>10, <2>2, <4>1, <4>2 DEF room
      <4> QED
        BY <3>1, <4>3, ZerosCat DEF z
    <3>3. IsSeq(zk) /\ Len(zk) = k /\ IsSeq(zr) /\ Len(zr) = room
      BY <3>1, ZerosIs
    <3>19. IsSeq(zk) /\ IsSeq(zr)
      BY <3>3
    <3>4. first = Blit(marked, Len(lm), zk)
      <4>1. DOMAIN marked = 1..Block
        BY <1>8 DEF Holds
      <4>2. Blit(marked, at + 1, Zeros(Block)) = Blit(marked, at + 1, Zeros(Block - (at + 1)))
        <5> DEFINE u == at + 1
        <5>1. u \in 0..Block
          BY <3>1
        <5> HIDE DEF u
        <5>2. Blit(marked, u, Zeros(Block)) = Blit(marked, u, Zeros(Block - u))
          BY <4>1, <5>1, BlitBeyond
        <5> QED
          BY <5>2 DEF u
      <4> QED
        BY <1>8, <4>2
    <3> HIDE DEF k, zk, zr, first, lm
    <3>5. first = lm \o zk /\ IsSeq(first) /\ Len(first) = Block
      <4>1. Len(lm) + Len(zk) = Block
        BY <1>4, <1>8, <1>10, <3>1, <3>3
      <4>3. Holds(marked, lm)
        BY <1>8
      <4>5. Blit(marked, Len(lm), zk) = lm \o zk /\ IsSeq(lm \o zk) /\ Len(lm \o zk) = Block
        BY ONLY <3>19, <4>1, <4>3, FilledBlock
      <4> QED
        BY ONLY <3>4, <4>5
    <3>6. Holds(second, zr)
      <4>1. Holds(first, first) /\ Len(zr) <= Block
        BY <3>1, <3>3, <3>5, BlockHolds
      <4>2. Holds(Blit(first, 0, zr), zr)
        BY <3>3, <4>1, BlitBegin
      <4> QED
        BY <4>2 DEF zr
    <3>7. last = Blit(second, Len(zr), w)
      BY <2>2, <3>3
    <3> HIDE DEF second, last
    <3>8. last = rest /\ IsSeq(rest) /\ Len(rest) = Block
      <4>1. Len(zr) + Len(w) = Block
        BY <1>4, <1>5, <3>3
      <4> QED
        BY <1>5, <3>3, <3>6, <3>7, <4>1, FilledBlock
    <3>9. IsSeq(x) /\ Len(x) = 1 + k
      BY <1>5, <3>3, LengthIs
    <3>10. first = l \o x
      <4>1. (l \o mark) \o zk = l \o (mark \o zk)
        <5>1. Regroups(l, mark, zk)
          BY ONLY <1>15, <3>19, Regrouped
        <5> QED
          BY ONLY <5>1 DEF Regroups
      <4> QED
        BY <3>5, <4>1 DEF lm
    <3>11. PaddedMessage("md4", m) = m \o (x \o rest)
      <4>1. (m \o mark) \o (zk \o zr) = ((m \o mark) \o zk) \o zr
        <5>1. IsSeq(m \o mark)
          BY <1>1, <1>5, LengthIs
        <5> QED
          <6>1. Regroups(m \o mark, zk, zr)
            BY ONLY <3>19, <5>1, Regrouped
          <6> QED
            BY ONLY <6>1 DEF Regroups
      <4>2. (m \o mark) \o zk = m \o (mark \o zk)
        <5>1. Regroups(m, mark, zk)
          BY ONLY <1>15, <3>19, Regrouped
        <5> QED
          BY ONLY <5>1 DEF Regroups
      <4>6. (m \o mark) \o zk = m \o x
        BY <4>2
      <4>3. IsSeq(m \o x)
        BY <1>1, <3>9, LengthIs
      <4> HIDE DEF x
      <4> DEFINE u == m \o x
      <4>7. IsSeq(u)
        BY <4>3
      <4> HIDE DEF u
      <4>8. (u \o zr) \o w = u \o (zr \o w)
        <5>1. Regroups(u, zr, w)
          BY ONLY <1>15, <3>19, <4>7, Regrouped
        <5> QED
          BY ONLY <5>1 DEF Regroups
      <4>4. ((m \o x) \o zr) \o w = (m \o x) \o (zr \o w)
        BY <4>8 DEF u
      <4>5. (m \o x) \o rest = m \o (x \o rest)
        <5>1. Regroups(m, x, rest)
          BY ONLY <1>1, <3>8, <3>9, Regrouped
        <5> QED
          BY ONLY <5>1 DEF Regroups
      <4> QED
        BY <1>9, <3>2, <4>1, <4>6, <4>4, <4>5
    <3> HIDE DEF x, rest
    <3>12. Len(Left(m)) + Len(x) = Block
      <4>1. Len(Left(m)) = at
        BY <1>3 DEF l
      <4> QED
        BY <1>4, <1>10, <3>1, <3>9, <4>1
    <3>13. Fills(m, x, rest)
      BY ONLY <1>1, <3>8, <3>9, <3>12, FillIs
    <3>14. Whole(m \o (x \o rest)) = Whole(m) \o (<<l \o x>> \o Whole(rest))
      BY ONLY <3>13 DEF Fills, l
    <3>15. Whole(rest) = <<rest>>
      BY <3>8, OneIs
    <3>16. <<first>> \o <<last>> = <<first, last>>
      <4> HIDE DEF first, last
      <4> QED
        BY TwoOnes
    <3>17. blocks = <<first, last>>
      BY <2>2
    <3>18. Process(h, blocks).chain = h.chain \o blocks
      BY <1>2 DEF Process, Fields
    <3> HIDE DEF blocks
    <3> QED
      BY <1>2, <3>8, <3>10, <3>11, <3>14, <3>15, <3>16, <3>17, <3>18
  <2> HIDE DEF fits
  <2> QED
    BY <2>1, <2>2
<1>12. Process(h, blocks).iv = "iv"
  BY <1>2 DEF Process, Fields
<1> HIDE DEF blocks
<1>13. Result(Process(h, blocks)) = Reference("md4", m)
  <2>1. Result(Process(h, blocks)) = [iv |-> "iv", chain |-> Whole(PaddedMessage("md4", m))]
    BY <1>11, <1>12 DEF Result
  <2> QED
    BY <2>1, ReferenceIs
<1>14. Shape(cleared) /\ cleared.kind = "md4"
  <2>1. Zeros(Block) = [i \in 1..Block |-> Zeros(Block)[i]]
    BY DEF Zeros
  <2>2. DOMAIN cleared = Fields /\ cleared.kind = "md4" /\ cleared.buf = Zeros(Block)
    BY <1>2 DEF Fields
  <2> HIDE DEF cleared
  <2> QED
    BY <2>1, <2>2 DEF Shape, Kinds
<1> HIDE DEF cleared
<1> QED
  BY <1>7, <1>13, <1>14 DEF Digested

\* A digest of any of the three is that of what the context was given.
LEMMA DigestIs == ASSUME NEW h, NEW m, Given(h, m) PROVE Digested(h, m)
<1>1. h.kind \in Kinds
  BY DEF Given, Shape
<1> QED
  BY <1>1, Md5DigestIs, Md4DigestIs, Sha1DigestIs DEF Kinds

-----------------------------------------------------------------------------
(* Keys and messages                                                        *)

LEMMA FedIs ==
    ASSUME NEW from \in Nat, NEW n \in Nat
    PROVE  IsSeq(Fed(from, n)) /\ Len(Fed(from, n)) = n /\ \A i \in 1..n : Fed(from, n)[i] = Byte(from + i)
<1> DEFINE f == Fed(from, n)
<1>1. f = [i \in 1..n |-> Byte(from + i)]
  BY DEF Fed
<1> HIDE DEF f
<1>2. f = [i \in 1..n |-> f[i]] /\ \A i \in 1..n : f[i] = Byte(from + i)
  BY <1>1
<1>3. IsSeq(f) /\ Len(f) = n
  BY <1>2, SeqIs
<1> QED
  BY <1>2, <1>3 DEF f

\* The next bytes go on where the message was.
LEMMA FedOn ==
    ASSUME NEW k \in Nat, NEW n \in Nat
    PROVE  Fed(0, k) \o Fed(k, n) = Fed(0, k + n)
<1> DEFINE x == Fed(0, k)
           y == Fed(k, n)
           z == Fed(0, k + n)
           c == x \o y
           B(i) == Byte(i)
<1>1. IsSeq(x) /\ Len(x) = k /\ \A i \in 1..k : x[i] = B(0 + i)
  BY FedIs
<1>2. IsSeq(y) /\ Len(y) = n /\ \A i \in 1..n : y[i] = B(k + i)
  BY FedIs
<1>3. IsSeq(z) /\ Len(z) = k + n /\ \A i \in 1..(k + n) : z[i] = B(0 + i)
  <2> DEFINE t == k + n
  <2>1. t \in Nat
    OBVIOUS
  <2> HIDE DEF t
  <2>2. IsSeq(Fed(0, t)) /\ Len(Fed(0, t)) = t /\ \A i \in 1..t : Fed(0, t)[i] = B(0 + i)
    BY <2>1, FedIs
  <2> QED
    BY <2>2 DEF t
<1> HIDE DEF x, y, z, B
<1>4. Joins(c, x, y)
  BY <1>1, <1>2, Cat
<1> HIDE DEF c
<1>5. /\ IsSeq(c) /\ Len(c) = k + n
      /\ (\A i \in 1..k : c[i] = x[i]) /\ (\A i \in 1..n : c[k + i] = y[i])
  BY <1>1, <1>2, <1>4 DEF Joins
<1>6. ASSUME NEW i \in 1..(k + n) PROVE c[i] = z[i]
  <2>1. CASE i <= k
    <3>1. i \in 1..k
      BY <2>1
    <3> QED
      BY <1>1, <1>3, <1>5, <3>1
  <2>2. CASE i > k
    <3>1. i - k \in 1..n /\ k + (i - k) = i /\ 0 + i = i
      BY <2>2
    <3>2. c[k + (i - k)] = y[i - k] /\ y[i - k] = B(k + (i - k))
      BY <1>2, <1>5, <3>1
    <3> QED
      BY <1>3, <3>1, <3>2
  <2> QED
    BY <2>1, <2>2
<1>7. \A i \in 1..Len(c) : c[i] = z[i]
  BY <1>5, <1>6
<1>8. c = z
  BY <1>3, <1>5, <1>7, SameSeq
<1> QED
  BY <1>8 DEF c, x, y, z

LEMMA NothingFed == Fed(0, 0) = <<>>
<1>1. IsSeq(Fed(0, 0)) /\ Len(Fed(0, 0)) = 0
  BY FedIs
<1> QED
  BY <1>1, EmptyIs

LEMMA KeyIs == ASSUME NEW n \in Nat PROVE IsSeq(KeyBytes(n)) /\ Len(KeyBytes(n)) = n
<1> DEFINE f == KeyBytes(n)
<1>1. f = [i \in 1..n |-> <<"k", i>>]
  BY DEF KeyBytes
<1> HIDE DEF f
<1>2. f = [i \in 1..n |-> f[i]]
  BY <1>1
<1>3. IsSeq(f) /\ Len(f) = n
  BY <1>2, SeqIs
<1> QED
  BY <1>3 DEF f

LEMMA DigestBytesAre ==
    ASSUME NEW d
    PROVE  /\ IsSeq(DigestBytes(d)) /\ Len(DigestBytes(d)) = DigestSize
           /\ DigestSize \in Nat /\ DigestSize <= Block /\ DigestSize <= Word
<1> DEFINE f == DigestBytes(d)
<1>0. DigestSize \in Nat /\ DigestSize <= Block /\ DigestSize <= Word
  <2>1. DigestSize \in 1..Block /\ Block \in 1..Word /\ Word \in Nat
    BY DigestsAssumption, BlockInWord
  <2> QED
    BY <2>1
<1>1. f = [i \in 1..DigestSize |-> <<"d", d, i>>]
  BY DEF DigestBytes
<1> HIDE DEF f
<1>2. f = [i \in 1..DigestSize |-> f[i]]
  BY <1>1
<1>3. IsSeq(f) /\ Len(f) = DigestSize
  BY <1>0, <1>2, SeqIs
<1> QED
  BY <1>0, <1>3 DEF f

LEMMA XoredIs ==
    ASSUME NEW pad, NEW x, IsSeq(x)
    PROVE  IsSeq(Xored(pad, x)) /\ Len(Xored(pad, x)) = Len(x)
<1> DEFINE f == Xored(pad, x)
           n == Len(x)
<1>1. n \in Nat /\ x = [i \in 1..n |-> x[i]]
  BY DEF IsSeq
<1>2. DOMAIN x = 1..n
  BY <1>1
<1>3. f = [i \in DOMAIN x |-> <<pad, x[i]>>]
  BY DEF Xored
<1> HIDE DEF f, n
<1>4. f = [i \in 1..n |-> f[i]]
  BY <1>2, <1>3
<1>5. IsSeq(f) /\ Len(f) = n
  BY <1>1, <1>4, SeqIs
<1> QED
  BY <1>5 DEF f, n

LEMMA FilledIs ==
    ASSUME NEW k, IsSeq(k), Len(k) <= Block
    PROVE  IsSeq(Filled(k)) /\ Len(Filled(k)) = Block
<1> DEFINE n == Block - Len(k)
           z == Zeros(n)
<1>1. Len(k) \in Nat /\ Block \in Nat /\ n \in Nat /\ Len(k) + n = Block
  <2>1. Len(k) \in Nat /\ Block \in Nat
    BY BlockType DEF IsSeq
  <2> QED
    BY <2>1
<1> HIDE DEF n
<1>2. IsSeq(z) /\ Len(z) = n
  BY <1>1, ZerosIs
<1> HIDE DEF z
<1>3. IsSeq(k \o z) /\ Len(k \o z) = Len(k) + Len(z)
  BY <1>2, LengthIs
<1>4. Filled(k) = k \o z
  BY DEF Filled, z, n
<1> QED
  BY <1>1, <1>2, <1>3, <1>4

\* The key of RFC 2104: hashed when it is longer than a block.
RefKey(kind, k) == Filled(IF Len(k) > Block THEN DigestBytes(Reference(kind, k)) ELSE k)

LEMMA RefKeyIs ==
    ASSUME NEW kind, NEW k, IsSeq(k)
    PROVE  IsSeq(RefKey(kind, k)) /\ Len(RefKey(kind, k)) = Block
<1> DEFINE d == DigestBytes(Reference(kind, k))
           c == IF Len(k) > Block THEN d ELSE k
<1>1. IsSeq(d) /\ Len(d) <= Block
  BY DigestBytesAre
<1> HIDE DEF d
<1>2. Len(k) \in Nat /\ Block \in Nat
  BY BlockType DEF IsSeq
<1>3. IsSeq(c) /\ Len(c) <= Block
  BY <1>1, <1>2
<1> HIDE DEF c
<1>4. IsSeq(Filled(c)) /\ Len(Filled(c)) = Block
  BY <1>3, FilledIs
<1> QED
  BY <1>4 DEF RefKey, c, d

\* A context that is reset and given one piece.
LEMMA OnePiece ==
    ASSUME NEW h, Shape(h), NEW x, IsSeq(x), Len(x) <= Word
    PROVE  Given(AppendTo(Reset(h), x), x) /\ AppendTo(Reset(h), x).kind = h.kind
<1>1. Given(Reset(h), <<>>) /\ Reset(h).kind = h.kind
  BY ResetIs
<1> DEFINE r == Reset(h)
           e == <<>>
<1> HIDE DEF r, e
<1>2. Given(r, e) /\ r.kind = h.kind
  BY <1>1 DEF r, e
<1>3. Given(AppendTo(r, x), e \o x) /\ AppendTo(r, x).kind = r.kind
  BY <1>2, AppendIs
<1>4. e \o x = x
  BY CatEmpty DEF e
<1> QED
  BY <1>2, <1>3, <1>4 DEF r

\* hmac_set_key_with_len hashes a long key as a message of its own.
LEMMA FullKeyIs ==
    ASSUME NEW h, Shape(h), NEW k, IsSeq(k), Len(k) <= Word
    PROVE  FullKey(h, k) = RefKey(h.kind, k)
<1> DEFINE g == AppendTo(Reset(h), k)
<1>1. Given(g, k) /\ g.kind = h.kind
  BY OnePiece
<1>2. FullKey(h, k) = IF Len(k) > Block THEN Filled(DigestBytes(DigestOf(g).digest)) ELSE Filled(k)
  BY DEF FullKey
<1> HIDE DEF g
<1>3. DigestOf(g).digest = Reference(h.kind, k)
  BY <1>1, DigestIs DEF Digested
<1> QED
  BY <1>2, <1>3 DEF RefKey

\* hmac_digest: the digest of the opad and the inner digest.
LEMMA HmacIs ==
    ASSUME NEW h, NEW m, Given(h, m), NEW o, IsSeq(o), Len(o) <= Word
    PROVE  /\ HmacDigest(h, o).digest = Reference(h.kind, o \o DigestBytes(Reference(h.kind, m)))
           /\ Shape(HmacDigest(h, o).context) /\ HmacDigest(h, o).context.kind = h.kind
<1> DEFINE inner == DigestOf(h)
           c == inner.context
           d == DigestBytes(inner.digest)
           h1 == AppendTo(Reset(c), o)
           h2 == AppendTo(h1, d)
<1>1. HmacDigest(h, o) = DigestOf(h2)
  BY DEF HmacDigest
<1>2. Shape(c) /\ c.kind = h.kind /\ inner.digest = Reference(h.kind, m)
  BY DigestIs DEF Digested
<1>3. IsSeq(d) /\ Len(d) <= Word
  BY DigestBytesAre
<1>4. d = DigestBytes(Reference(h.kind, m))
  BY <1>2
<1> HIDE DEF c, d, inner
<1>5. Given(h1, o) /\ h1.kind = h.kind
  BY <1>2, OnePiece
<1> HIDE DEF h1
<1>6. Given(h2, o \o d) /\ h2.kind = h.kind
  BY <1>3, <1>5, AppendIs
<1> HIDE DEF h2
<1>7. Digested(h2, o \o d)
  BY <1>6, DigestIs
<1>8. /\ DigestOf(h2).digest = Reference(h.kind, o \o d)
      /\ Shape(DigestOf(h2).context) /\ DigestOf(h2).context.kind = h.kind
  BY <1>6, <1>7 DEF Digested
<1> QED
  BY <1>1, <1>4, <1>8

-----------------------------------------------------------------------------
(* The invariant: a context that may be appended to has been given exactly   *)
(* the bytes since it was made ready, behind the inner key of an HMAC.       *)

Message(kind, k, n) ==
    IF k = NoKey THEN Fed(0, n) ELSE Xored("ipad", RefKey(kind, k)) \o Fed(0, n)

KeyIsSet(kind, k, o) ==
    \/ k = NoKey
    \/ \E n \in KeyLens : k = KeyBytes(n) /\ o = Xored("opad", RefKey(kind, k))

DigestsInv ==
    /\ Shape(hash) /\ fed \in Nat
    /\ KeyIsSet(hash.kind, key, opad)
    /\ ready => Given(hash, Message(hash.kind, key, fed))
    /\ DigestsAreRight

LEMMA KeyLensAre == ASSUME NEW n \in KeyLens PROVE n \in Nat /\ n # 0 /\ n <= Word
<1>1. n \in 1..Word /\ Word \in Nat
  BY DigestsAssumption
<1> QED
  BY <1>1

LEMMA DigestsInitInv == DigestsInit => DigestsInv
<1> SUFFICES ASSUME DigestsInit PROVE DigestsInv
  OBVIOUS
<1>1. hash = Started("md5") /\ key = NoKey /\ fed = 0 /\ made = NoDigest
  BY DEF DigestsInit
<1>2. Given(hash, <<>>) /\ hash.kind = "md5"
  <2>1. "md5" \in Kinds
    BY DEF Kinds
  <2> QED
    BY <1>1, <2>1, StartedIs
<1>3. Message(hash.kind, key, fed) = <<>>
  BY <1>1, NothingFed DEF Message
<1>4. Shape(hash)
  BY <1>2 DEF Given
<1>5. KeyIsSet(hash.kind, key, opad)
  BY <1>1 DEF KeyIsSet
<1>6. DigestsAreRight
  BY <1>1 DEF DigestsAreRight, DigestOfMessage, HmacOfMessage
<1>7. Given(hash, Message(hash.kind, key, fed))
  BY <1>2, <1>3
<1> QED
  BY <1>1, <1>4, <1>5, <1>6, <1>7 DEF DigestsInv

LEMMA NewContextInv == ASSUME NEW k \in Kinds, DigestsInv, NewContext(k) PROVE DigestsInv'
<1>1. /\ hash' = Started(k) /\ key' = NoKey /\ fed = 0 /\ fed' = fed /\ made' = made
  BY DEF NewContext
<1>2. Given(hash', <<>>)
  BY <1>1, StartedIs
<1>3. Message(hash'.kind, key', fed') = <<>>
  BY <1>1, NothingFed DEF Message
<1>4. Shape(hash')
  BY <1>2 DEF Given
<1>5. KeyIsSet(hash'.kind, key', opad')
  BY <1>1 DEF KeyIsSet
<1>6. DigestsAreRight'
  BY <1>1 DEF DigestsInv, DigestsAreRight, DigestOfMessage, HmacOfMessage
<1>7. Given(hash', Message(hash'.kind, key', fed'))
  BY <1>2, <1>3
<1> QED
  BY <1>1, <1>4, <1>5, <1>6, <1>7 DEF DigestsInv

LEMMA SetKeyInv == ASSUME NEW n \in KeyLens, DigestsInv, SetKey(n) PROVE DigestsInv'
<1> DEFINE k == KeyBytes(n)
           full == FullKey(hash, k)
           ipad == Xored("ipad", full)
<1>1. /\ opad' = Xored("opad", full) /\ hash' = AppendTo(Reset(hash), ipad)
      /\ key' = k /\ fed' = 0 /\ made' = made
  BY DEF SetKey
<1>2. n \in Nat /\ n # 0 /\ n <= Word
  BY KeyLensAre
<1>3. IsSeq(k) /\ Len(k) = n
  BY <1>2, KeyIs
<1>4. k # NoKey
  BY <1>2, <1>3, EmptyIs DEF NoKey
<1>5. k = KeyBytes(n)
  OBVIOUS
<1> HIDE DEF k
<1>6. Shape(hash)
  BY DEF DigestsInv
<1>7. full = RefKey(hash.kind, k)
  BY <1>2, <1>3, <1>6, FullKeyIs
<1>8. IsSeq(full) /\ Len(full) = Block
  BY <1>3, <1>7, RefKeyIs
<1> HIDE DEF full
<1>9. IsSeq(ipad) /\ Len(ipad) <= Word
  <2>1. IsSeq(ipad) /\ Len(ipad) = Block
    BY <1>8, XoredIs
  <2> QED
    BY <2>1, BlockInWord, WordIs
<1>10. ipad = Xored("ipad", RefKey(hash.kind, k))
  BY <1>7
<1> HIDE DEF ipad
<1>11. Given(hash', ipad) /\ hash'.kind = hash.kind
  BY <1>1, <1>6, <1>9, OnePiece
<1>12. Message(hash'.kind, key', fed') = ipad
  <2>1. Message(hash'.kind, key', fed') = ipad \o Fed(0, 0)
    BY <1>1, <1>4, <1>10, <1>11 DEF Message
  <2> QED
    BY <1>9, <2>1, NothingFed, CatEmpty
<1>13. KeyIsSet(hash'.kind, key', opad')
  BY <1>1, <1>5, <1>7, <1>11 DEF KeyIsSet
<1>14. DigestsAreRight'
  BY <1>1 DEF DigestsInv, DigestsAreRight, DigestOfMessage, HmacOfMessage
<1>15. Given(hash', Message(hash'.kind, key', fed')) /\ Shape(hash')
  BY <1>11, <1>12 DEF Given
<1> QED
  BY <1>1, <1>13, <1>14, <1>15 DEF DigestsInv

LEMMA ResetContextInv == ASSUME DigestsInv, ResetContext PROVE DigestsInv'
<1>1. key = NoKey /\ hash' = Reset(hash) /\ fed' = 0 /\ key' = key /\ made' = made
  BY DEF ResetContext
<1>2. Given(hash', <<>>)
  BY <1>1, ResetIs DEF DigestsInv
<1>3. Message(hash'.kind, key', fed') = <<>>
  BY <1>1, NothingFed DEF Message
<1>4. Shape(hash')
  BY <1>2 DEF Given
<1>5. KeyIsSet(hash'.kind, key', opad')
  BY <1>1 DEF KeyIsSet
<1>6. DigestsAreRight'
  BY <1>1 DEF DigestsInv, DigestsAreRight, DigestOfMessage, HmacOfMessage
<1>7. Given(hash', Message(hash'.kind, key', fed'))
  BY <1>2, <1>3
<1> QED
  BY <1>1, <1>4, <1>5, <1>6, <1>7 DEF DigestsInv

\* The inner key stands in front of the message.
LEMMA MessageGoesOn ==
    ASSUME NEW kind, NEW k, NEW o, KeyIsSet(kind, k, o), NEW i \in Nat, NEW n \in Nat
    PROVE  Message(kind, k, i) \o Fed(i, n) = Message(kind, k, i + n)
<1> DEFINE x == Fed(0, i)
           y == Fed(i, n)
           z == Fed(0, i + n)
           p == Xored("ipad", RefKey(kind, k))
<1>1. IsSeq(x) /\ IsSeq(y)
  BY FedIs
<1>2. x \o y = z
  BY FedOn
<1>3. CASE k = NoKey
  BY <1>2, <1>3 DEF Message
<1>4. CASE k # NoKey
  <2>1. IsSeq(p)
    <3>1. PICK j \in KeyLens : k = KeyBytes(j)
      BY <1>4 DEF KeyIsSet
    <3>2. IsSeq(k)
      BY <3>1, KeyLensAre, KeyIs
    <3> QED
      BY <3>2, RefKeyIs, XoredIs
  <2>2. Message(kind, k, i) = p \o x /\ Message(kind, k, i + n) = p \o z
    BY <1>4 DEF Message
  <2> HIDE DEF p, x, y, z
  <2>3. (p \o x) \o y = p \o (x \o y)
    <3>1. Regroups(p, x, y)
      BY ONLY <1>1, <2>1, Regrouped
    <3> QED
      BY ONLY <3>1 DEF Regroups
  <2>4. Message(kind, k, i) \o y = Message(kind, k, i + n)
    BY <1>2, <2>2, <2>3
  <2> QED
    BY <2>4 DEF y
<1> QED
  BY <1>3, <1>4

LEMMA AppendBytesInv == ASSUME NEW n \in 0..Word, DigestsInv, AppendBytes(n) PROVE DigestsInv'
<1> DEFINE m == Message(hash.kind, key, fed)
           x == Fed(fed, n)
<1>1. /\ ready /\ hash' = AppendTo(hash, x) /\ fed' = fed + n
      /\ opad' = opad /\ key' = key /\ made' = made
  BY DEF AppendBytes
<1>2. fed \in Nat /\ n \in Nat /\ n <= Word /\ KeyIsSet(hash.kind, key, opad) /\ Given(hash, m)
  BY <1>1, WordIs DEF DigestsInv
<1>3. IsSeq(x) /\ Len(x) = n
  BY <1>2, FedIs
<1>4. m \o x = Message(hash.kind, key, fed + n)
  BY <1>2, MessageGoesOn
<1> HIDE DEF m, x
<1>5. Given(hash', m \o x) /\ hash'.kind = hash.kind
  BY <1>1, <1>2, <1>3, AppendIs
<1>6. Given(hash', Message(hash'.kind, key', fed'))
  BY <1>1, <1>4, <1>5
<1>7. Shape(hash')
  BY <1>5 DEF Given
<1>8. KeyIsSet(hash'.kind, key', opad')
  BY <1>1, <1>2, <1>5
<1>9. DigestsAreRight'
  BY <1>1 DEF DigestsInv, DigestsAreRight, DigestOfMessage, HmacOfMessage
<1>10. fed' \in Nat
  BY <1>1, <1>2
<1> QED
  BY <1>6, <1>7, <1>8, <1>9, <1>10 DEF DigestsInv

LEMMA DigestInv == ASSUME DigestsInv, Digest PROVE DigestsInv'
<1> DEFINE m == Message(hash.kind, key, fed)
           r == IF key = NoKey THEN DigestOf(hash) ELSE HmacDigest(hash, opad)
<1>1. /\ ready /\ hash' = r.context
      /\ made' = [kind |-> hash.kind, digest |-> r.digest, key |-> key, length |-> fed]
      /\ ready' = (hash.kind = "sha1" /\ key = NoKey) /\ fed' = 0 /\ opad' = opad /\ key' = key
  BY DEF Digest
<1>2. Given(hash, m) /\ KeyIsSet(hash.kind, key, opad) /\ fed \in Nat
  BY <1>1 DEF DigestsInv
<1>3. made'.kind = hash.kind /\ made'.digest = r.digest /\ made'.key = key /\ made'.length = fed
  <2> HIDE DEF r
  <2> QED
    BY <1>1
<1>4. CASE key = NoKey
  <2>1. r = DigestOf(hash)
    BY <1>4
  <2>2. m = Fed(0, fed)
    BY <1>4 DEF Message
  <2> HIDE DEF m, r
  <2>3. /\ r.digest = Reference(hash.kind, m) /\ Shape(r.context) /\ r.context.kind = hash.kind
        /\ hash.kind = "sha1" => Given(r.context, <<>>)
    BY <1>2, <2>1, DigestIs DEF Digested
  <2>4. Message(hash'.kind, key', fed') = <<>>
    BY <1>1, <1>4, NothingFed DEF Message
  <2>5. ready' => Given(hash', Message(hash'.kind, key', fed'))
    BY <1>1, <2>3, <2>4
  <2>6. KeyIsSet(hash'.kind, key', opad')
    BY <1>1, <1>4 DEF KeyIsSet
  <2>7. DigestsAreRight'
    <3>1. made'.digest = Reference(made'.kind, Fed(0, made'.length)) /\ made'.key = NoKey
      BY <1>3, <1>4, <2>2, <2>3
    <3> QED
      BY <3>1 DEF DigestsAreRight, DigestOfMessage, HmacOfMessage
  <2>8. Shape(hash') /\ fed' \in Nat
    BY <1>1, <2>3
  <2> QED
    BY <2>5, <2>6, <2>7, <2>8 DEF DigestsInv
<1>5. CASE key # NoKey
  <2> DEFINE f == RefKey(hash.kind, key)
  <2>1. r = HmacDigest(hash, opad)
    BY <1>5
  <2>2. m = Xored("ipad", f) \o Fed(0, fed)
    BY <1>5 DEF Message
  <2>3. IsSeq(opad) /\ Len(opad) <= Word /\ opad = Xored("opad", f)
    <3>1. PICK j \in KeyLens : key = KeyBytes(j) /\ opad = Xored("opad", f)
      BY <1>2, <1>5 DEF KeyIsSet
    <3>2. IsSeq(key)
      BY <3>1, KeyLensAre, KeyIs
    <3>3. IsSeq(f) /\ Len(f) = Block
      BY <3>2, RefKeyIs
    <3> HIDE DEF f
    <3>4. IsSeq(opad) /\ Len(opad) = Block
      BY <3>1, <3>3, XoredIs
    <3> QED
      BY <3>1, <3>4, BlockInWord, WordIs
  <2> HIDE DEF m, r, f
  <2>4. /\ r.digest = Reference(hash.kind, opad \o DigestBytes(Reference(hash.kind, m)))
        /\ Shape(r.context) /\ r.context.kind = hash.kind
    BY <1>2, <2>1, <2>3, HmacIs
  <2>5. r.digest = ReferenceHmac(hash.kind, key, Fed(0, fed))
    BY <2>2, <2>3, <2>4 DEF ReferenceHmac, RefKey, f
  <2>6. ~ ready' /\ hash'.kind = hash.kind
    BY <1>1, <1>5, <2>4
  <2>7. KeyIsSet(hash'.kind, key', opad')
    BY <1>1, <1>2, <2>6
  <2>8. DigestsAreRight'
    <3>1. made'.digest = ReferenceHmac(made'.kind, made'.key, Fed(0, made'.length)) /\ made'.key # NoKey
      BY <1>3, <1>5, <2>5
    <3> QED
      BY <3>1 DEF DigestsAreRight, DigestOfMessage, HmacOfMessage
  <2>9. Shape(hash') /\ fed' \in Nat
    BY <1>1, <2>4
  <2> QED
    BY <2>6, <2>7, <2>8, <2>9 DEF DigestsInv
<1> QED
  BY <1>4, <1>5

LEMMA DigestsNextInv == DigestsInv /\ [DigestsNext]_digestVars => DigestsInv'
<1> SUFFICES ASSUME DigestsInv, [DigestsNext]_digestVars PROVE DigestsInv'
  OBVIOUS
<1>1. CASE DigestsNext
  BY <1>1, NewContextInv, SetKeyInv, AppendBytesInv, ResetContextInv, DigestInv DEF DigestsNext
<1>2. CASE UNCHANGED digestVars
  BY <1>2 DEF DigestsInv, DigestsAreRight, DigestOfMessage, HmacOfMessage, digestVars
<1> QED
  BY <1>1, <1>2

\* A digest is that of the whole message, and a keyed one that of RFC 2104, however the
\* message arrives, for any sizes of blocks and words and keys of any length
\* (md5_append, md4_append, sha1_append and the digests, hmac_digest).
THEOREM DigestsRight == DigestsSpec => []DigestsAreRight
<1>1. DigestsInit => DigestsInv
  BY DigestsInitInv
<1>2. DigestsInv /\ [DigestsNext]_digestVars => DigestsInv'
  BY DigestsNextInv
<1>3. DigestsInv => DigestsAreRight
  BY DEF DigestsInv
<1> QED
  BY <1>1, <1>2, <1>3, PTL DEF DigestsSpec

-----------------------------------------------------------------------------
(* Together                                                                 *)

\* Digests, plain and keyed, are those of the whole message, decryption gives the
\* plain text back and the fields of an NTLM answer are where its header says, with
\* blocks, words, keys and messages of any size.
THEOREM CiphersRight == DigestsSpec /\ EncryptionSpec /\ NtlmSpec => []CiphersAreRight
<1>1. DigestsAreRight /\ PlainComesBack /\ FieldsAreWhereAnnounced => CiphersAreRight
  BY DEF CiphersAreRight
<1> QED
  BY <1>1, DigestsRight, PlainBackAgain, FieldsInPlace, PTL
=============================================================================
