----------------------------- MODULE HttpFetch -----------------------------
(***************************************************************************)
(* Fetching a URL, liboul/http.c: connect through proxy.c, send the        *)
(* request, read the response until the announced length or the end of     *)
(* file, follow redirections, and tell the originator once.                *)
(*                                                                         *)
(* The connection attempts are those of ConnectPromise: attempt <<f, k>>   *)
(* is the one fetch f makes after k redirections.  A response is the sizes *)
(* of its header and its body, what Content-Length announces (0: nothing), *)
(* and whether it redirects.  Bytes are counted, a read of at most Buf     *)
(* stands for one of at most 4096.                                         *)
(***************************************************************************)
EXTENDS Naturals, Sequences, FiniteSets

CONSTANTS
    Fetches,        \* allocations of OulHttpFetchUrlData
    NoFetch,        \* not a fetch
    Buf,            \* sizeof(buf), 4096 in the code
    Responses,      \* what a server may answer
    Limits,         \* values of max_len, 0 stands for -1
    WithHeaders,    \* values of include_headers
    Memory,         \* the largest block g_try_malloc gives
    OneByteTail     \* TRUE: a read may end one byte after the header

ASSUME HttpAssumption ==
    /\ NoFetch \notin Fetches
    /\ Buf \in Nat \ {0}
    /\ Responses \subseteq [hdr : Nat, body : Nat, announced : Nat,
                            redirect : BOOLEAN, closes : BOOLEAN]
    /\ Limits \subseteq Nat
    /\ WithHeaders \subseteq BOOLEAN
    /\ Memory \in Nat
    /\ OneByteTail \in BOOLEAN

VARIABLES
    fetch,      \* fetch[f]: the fetch f
    outcome,    \* outcome[<<f, k>>]: what proxy.c said of that attempt
    reading     \* the fetch whose url_fetch_recv_cb is running, or NoFetch

vars == <<fetch, outcome, reading>>

MaxRedirects == 5
Hops == 0..(MaxRedirects - 1)
NoFd == MaxRedirects        \* fd = -1; descriptor k is the socket of attempt k
RequestLength == 2
NoResponse == [hdr |-> 0, body |-> 0, announced |-> 0,
               redirect |-> FALSE, closes |-> FALSE]

Unused ==
    [st           |-> "unused",     \* "unused", "active", "freed", "cancelled", "refused"
     full_headers |-> FALSE,        \* include_headers
     max_len      |-> 0,
     redirects    |-> 0,            \* num_times_redirected
     connect_data |-> FALSE,        \* connect_data is not NULL
     fd           |-> NoFd,
     open         |-> {},           \* sockets of this fetch that are not closed
     inpa         |-> <<"none", NoFd>>,
     watches      |-> {},           \* watchers with this fetch as data
     written      |-> 0,            \* request_written
     got_headers  |-> FALSE,
     explicit     |-> FALSE,        \* has_explicit_data_len
     len          |-> 0,
     data_len     |-> 0,
     cap          |-> 0,            \* bytes allocated for webdata
     good         |-> 0,            \* leading bytes of webdata that were received
     resp         |-> NoResponse,   \* the response under way
     pos          |-> 0,            \* its bytes read so far
     told         |-> <<>>]         \* the calls of the callback

Total(resp) == resp.hdr + resp.body
AtMost(a, b) == IF a < b THEN a ELSE b
AtLeast(a, b) == IF a > b THEN a ELSE b

-----------------------------------------------------------------------------
(* Ending a fetch. *)

\* what oul_http_fetch_url_cancel releases
Closed(r) ==
    [r EXCEPT !.connect_data = FALSE, !.watches = @ \ {r.inpa},
              !.inpa = <<"none", NoFd>>, !.open = @ \ {r.fd}, !.fd = NoFd]

\* The connection is cancelled when the fetch still holds connect_data.
Leave(f, r, how) ==
    /\ fetch' = [fetch EXCEPT ![f] = [Closed(r) EXCEPT !.st = how]]
    /\ outcome' = IF r.connect_data
                  THEN [outcome EXCEPT ![<<f, r.redirects>>] = "cancelled"]
                  ELSE outcome
    /\ reading' = NoFetch

\* The callback, then oul_http_fetch_url_cancel.
Tell(f, r, what) == Leave(f, [r EXCEPT !.told = Append(@, what)], "freed")

Error(f, r) == Tell(f, r, "error")

Continue(f, r, inside) ==
    /\ fetch' = [fetch EXCEPT ![f] = r]
    /\ reading' = inside
    /\ UNCHANGED outcome

-----------------------------------------------------------------------------
(* Connecting. *)

\* oul_proxy_connect for the location r stands at; when it returns NULL the
\* originator is told at once and the fetch ends as "refused" or "freed".
ConnectTo(f, r, otherwise) ==
    \/ /\ outcome' = [outcome EXCEPT ![<<f, r.redirects>>] = "pending"]
       /\ fetch' = [fetch EXCEPT ![f] = [r EXCEPT !.connect_data = TRUE]]
       /\ reading' = NoFetch
    \/ /\ outcome' = [outcome EXCEPT ![<<f, r.redirects>>] = "refused"]
       /\ fetch' = [fetch EXCEPT ![f] = [Closed(r) EXCEPT !.st = otherwise,
                                             !.told = Append(@, "error")]]
       /\ reading' = NoFetch

Request(f, limit, headers) ==
    /\ fetch[f].st = "unused"
    /\ reading = NoFetch
    /\ ConnectTo(f, [Unused EXCEPT !.st = "active", !.max_len = limit,
                                   !.full_headers = headers], "refused")

\* write() takes a part of the request or nothing (EAGAIN), or all of it; then
\* the response is waited for.
Sent(r) ==
    LET rest == RequestLength - r.written
        w    == <<"recv", r.fd>>
    IN  { [r EXCEPT !.written = @ + n] : n \in 0..(rest - 1) }
          \cup { [r EXCEPT !.written = RequestLength, !.inpa = w,
                           !.watches = (@ \ {r.inpa}) \cup {w}] }

\* Mutant: connect_data is kept after the callback
ConnectCb_Keeps(f) ==
    LET r == fetch[f]
        k == r.redirects
        w == <<"send", k>>
    IN  /\ r.connect_data /\ outcome[<<f, k>>] = "pending" /\ reading = NoFetch
        /\ outcome' = [outcome EXCEPT ![<<f, k>>] = "connected"]
        /\ \E resp \in Responses :
              fetch' = [fetch EXCEPT ![f] =
                         [r EXCEPT !.fd = k, !.open = @ \cup {k}, !.resp = resp,
                                   !.pos = 0, !.inpa = w, !.watches = @ \cup {w}]]
        /\ UNCHANGED reading

\* url_fetch_connect_cb with a socket: the watcher for writing is installed and
\* url_fetch_send_cb called once.
ConnectCb(f) ==
    LET r == fetch[f]
        k == r.redirects
        w == <<"send", k>>
        c == [r EXCEPT !.connect_data = FALSE, !.fd = k, !.open = @ \cup {k},
                       !.pos = 0, !.inpa = w, !.watches = @ \cup {w}]
    IN  /\ r.connect_data /\ outcome[<<f, k>>] = "pending" /\ reading = NoFetch
        /\ outcome' = [outcome EXCEPT ![<<f, k>>] = "connected"]
        /\ \E resp \in Responses :
             \/ \E s \in Sent([c EXCEPT !.resp = resp]) :
                   fetch' = [fetch EXCEPT ![f] = s]
             \/ fetch' = [fetch EXCEPT ![f] =      \* the write fails
                            [Closed(c) EXCEPT !.st = "freed", !.told = Append(@, "error")]]
        /\ UNCHANGED reading

\* url_fetch_connect_cb with source = -1
ConnectFailed(f) ==
    LET r == fetch[f]
    IN  /\ r.connect_data /\ outcome[<<f, r.redirects>>] = "pending"
        /\ reading = NoFetch
        /\ outcome' = [outcome EXCEPT ![<<f, r.redirects>>] = "failed"]
        /\ fetch' = [fetch EXCEPT ![f] =
                       [Closed([r EXCEPT !.connect_data = FALSE])
                            EXCEPT !.st = "freed", !.told = Append(@, "error")]]
        /\ UNCHANGED reading

SendCb(f) ==
    LET r == fetch[f]
    IN  /\ r.inpa[1] = "send" /\ reading = NoFetch
        /\ \/ \E s \in Sent(r) : Continue(f, s, NoFetch)
           \/ Error(f, r)

-----------------------------------------------------------------------------
(* Receiving. *)

\* n bytes are appended to webdata and a NUL after them; a buffer that would be
\* full grows by steps of Buf until it is not.
Stored(r, n) ==
    LET need  == r.len + n
        grows == need >= r.data_len
        size  == IF grows THEN r.data_len + Buf * (((need - r.data_len) \div Buf) + 1)
                 ELSE r.data_len
    IN  [r EXCEPT !.data_len = size, !.cap = IF grows THEN size ELSE @,
                  !.len = need, !.good = IF @ = r.len THEN need ELSE @,
                  !.pos = @ + n]

\* Mutant: the watcher of the old socket is left in the main loop
Redirected_KeepsWatch(r) ==
    [r EXCEPT !.redirects = @ + 1,
              !.inpa = <<"none", NoFd>>, !.open = @ \ {r.fd}, !.fd = NoFd,
              !.written = 0, !.len = 0, !.good = 0, !.data_len = 0]

\* parse_redirect from the increment to oul_proxy_connect; webdata stays.
Redirected(r) ==
    [r EXCEPT !.redirects = @ + 1, !.watches = @ \ {r.inpa},
              !.inpa = <<"none", NoFd>>, !.open = @ \ {r.fd}, !.fd = NoFd,
              !.written = 0, !.len = 0, !.good = 0, !.data_len = 0]

\* Mutant: redirections are not counted against the limit
parse_redirect_Endless(f, r) ==
    ConnectTo(f, [Redirected(r) EXCEPT !.redirects = r.redirects], "freed")

parse_redirect(f, r) ==
    IF r.redirects + 1 >= MaxRedirects
    THEN Error(f, [r EXCEPT !.redirects = @ + 1])
    ELSE ConnectTo(f, Redirected(r), "freed")

ContentLength(r) == IF r.resp.announced = 0 THEN 2 * Buf ELSE r.resp.announced

\* The header is returned too: the buffer is cut to the announced length.  Where memory
\* is short g_realloc ends the program, after which nothing is claimed.
HeaderKept(r) ==
    LET size == ContentLength(r) + r.resp.hdr
    IN  [r EXCEPT !.got_headers = TRUE, !.explicit = r.resp.announced # 0,
                  !.data_len = size, !.cap = size, !.good = AtMost(@, size)]

\* Mutant: what was read of the body together with the header is dropped
BodyRead_None(r) == 0

\* body_len: what was read of the body; a single byte is not counted.
BodyRead(r) == IF r.len > r.resp.hdr + 1 THEN r.len - r.resp.hdr ELSE 0

BodySize(r) == AtLeast(ContentLength(r), BodyRead(r))

\* A new buffer holds what was read of the body.
HeaderDropped(r) ==
    [r EXCEPT !.got_headers = TRUE, !.explicit = r.resp.announced # 0,
              !.len = BodyRead(r), !.good = BodyRead(r),
              !.data_len = BodySize(r), !.cap = BodySize(r)]

\* The end of the loop's body: is everything announced there?
GoOn(f, r) ==
    IF r.explicit /\ r.len >= r.data_len
    THEN Tell(f, r, "body") ELSE Continue(f, r, f)

HeaderSeen(f, r) ==
    LET h == IF r.full_headers THEN HeaderKept(r) ELSE HeaderDropped(r)
        big == ~r.full_headers /\ BodySize(r) > Memory
    IN  \/ r.resp.redirect /\ parse_redirect(f, r)
        \/ ~r.resp.redirect /\ big /\ Error(f, r)
        \/ ~r.resp.redirect /\ ~big /\ GoOn(f, h)

Receiving(f) ==
    /\ fetch[f].inpa[1] = "recv"
    /\ reading \in {NoFetch, f}

\* One turn of the loop of url_fetch_recv_cb.
ReadSome(f) ==
    LET r == fetch[f]
    IN  /\ Receiving(f)
        /\ \E n \in 1..AtMost(Buf, Total(r.resp) - r.pos) :
             LET s       == Stored(r, n)
                 toolong == r.max_len # 0 /\ r.len + n > r.max_len
                 header  == ~r.got_headers /\ s.pos >= r.resp.hdr
             IN  /\ OneByteTail \/ r.got_headers \/ s.pos # r.resp.hdr + 1
                 /\ \/ toolong /\ Error(f, r)
                    \/ ~toolong /\ header /\ HeaderSeen(f, s)
                    \/ ~toolong /\ ~header /\ GoOn(f, s)

\* read() has nothing more for now: the handler returns.
ReadAgain(f) ==
    /\ reading = f
    /\ reading' = NoFetch
    /\ UNCHANGED <<fetch, outcome>>

\* End of file: what there is is the answer, whatever was announced.
ReadEof(f) ==
    LET r == fetch[f]
    IN  /\ Receiving(f)
        /\ r.pos = Total(r.resp) /\ r.resp.closes
        /\ Tell(f, r, "body")

\* The server breaks off in the middle, or read() fails.
BreakOff(f) ==
    /\ Receiving(f)
    /\ fetch[f].pos < Total(fetch[f].resp)
    /\ \E what \in {"body", "error"} : Tell(f, fetch[f], what)

Cancel(f) ==
    /\ fetch[f].st = "active" /\ reading = NoFetch
    /\ Leave(f, fetch[f], "cancelled")

-----------------------------------------------------------------------------
Init ==
    /\ fetch = [f \in Fetches |-> Unused]
    /\ outcome = [a \in Fetches \X Hops |-> "idle"]
    /\ reading = NoFetch

Next ==
    \E f \in Fetches :
        \/ \E limit \in Limits, headers \in WithHeaders : Request(f, limit, headers)
        \/ ConnectCb(f)
        \/ ConnectFailed(f)
        \/ SendCb(f)
        \/ ReadSome(f)
        \/ ReadAgain(f)
        \/ ReadEof(f)
        \/ BreakOff(f)
        \/ Cancel(f)

Spec == Init /\ [][Next]_vars

\* proxy.c answers every attempt, sockets become writable for good, and the
\* server sends what it has to send and closes.
Progress(f) ==
    \/ ConnectCb(f)
    \/ ConnectFailed(f)
    \/ SendCb(f) /\ fetch'[f] # fetch[f]
    \/ ReadSome(f)
    \/ ReadEof(f)

FairSpec == Spec /\ \A f \in Fetches : WF_vars(Progress(f))

-----------------------------------------------------------------------------
(* Properties. *)

Fds == Hops \cup {NoFd}
Watchers == {"send", "recv"} \X Hops

\* Every field of a fetch stays in its range.
TypeOK ==
    /\ fetch \in [Fetches ->
         [st : {"unused", "active", "freed", "cancelled", "refused"},
          full_headers : BOOLEAN, max_len : Nat, redirects : 0..MaxRedirects,
          connect_data : BOOLEAN, fd : Fds, open : SUBSET Hops,
          inpa : Watchers \cup {<<"none", NoFd>>}, watches : SUBSET Watchers,
          written : 0..RequestLength, got_headers : BOOLEAN, explicit : BOOLEAN,
          len : Nat, data_len : Nat, cap : Nat, good : Nat,
          resp : Responses \cup {NoResponse}, pos : Nat,
          told : Seq({"body", "error"})]]
    /\ outcome \in [Fetches \X Hops ->
         {"idle", "refused", "pending", "connected", "failed", "cancelled"}]
    /\ reading \in Fetches \cup {NoFetch}

\* What a fetch holds is what it waits for: under way, its connection or one
\* watcher on its only open socket, so that a redirection leaves nothing behind;
\* told, cancelled or refused, no socket, no watcher and no connection attempt
\* (oul_http_fetch_url_cancel, and every return before).
HoldsWhatItAwaits ==
    \A f \in Fetches :
        LET r == fetch[f]
        IN  IF r.st = "active"
            THEN \/ /\ r.connect_data /\ r.watches = {} /\ r.open = {}
                    /\ outcome[<<f, r.redirects>>] = "pending"
                 \/ /\ ~r.connect_data
                    /\ r.open = {r.fd} /\ r.watches = {r.inpa} /\ r.inpa[2] = r.fd
            ELSE /\ r.open = {} /\ r.watches = {}
                 /\ \A k \in Hops : outcome[<<f, k>>] # "pending"

\* The NUL that url_fetch_recv_cb writes after each read is inside webdata: what
\* is held between two reads is shorter than the buffer, and data_len is its size.
RoomForNul ==
    \A f \in Fetches :
        LET r == fetch[f]
        IN  (r.st = "active" /\ r.len > 0) =>
                r.data_len = r.cap /\ r.len < r.cap

\* A fetch is sound between two callbacks: its fields fit together, it holds
\* exactly what it waits for, and its buffer has room for the final NUL.
FetchIsSound == TypeOK /\ HoldsWhatItAwaits /\ RoomForNul

\* What the originator is given is what the server sent, from the beginning of
\* the body (of the header when headers are asked for) to the last byte read:
\* nothing lost, nothing of an earlier location, no byte that was not received.
\* A server that sends more than it announces is left out when the headers are
\* asked for: the buffer is then cut behind the announced length.
BodyIntact ==
    \A f \in Fetches :
        LET r == fetch[f]
        IN  (r.told = <<"body">>
               /\ (r.full_headers /\ r.explicit => r.resp.body <= r.resp.announced))
            => /\ r.good = r.len
               /\ r.len = IF r.got_headers /\ ~r.full_headers
                          THEN r.pos - r.resp.hdr ELSE r.pos

Connections == INSTANCE ConnectPromise
                 WITH Attempts <- Fetches \X Hops, outcome <- outcome

\* What the originator has seen of fetch r; a request that returns NULL has told
\* the error already.
Outcome(r) ==
    CASE r.st = "unused" /\ r.told = <<>>              -> "idle"
      [] r.st = "active" /\ r.told = <<>>              -> "pending"
      [] r.st = "freed" /\ r.told = <<"body">>         -> "connected"
      [] r.st = "freed" /\ r.told = <<"error">>        -> "failed"
      [] r.st = "refused" /\ r.told = <<"error">>      -> "refused"
      [] r.st = "cancelled" /\ r.told = <<>>           -> "cancelled"
      [] OTHER                                         -> "broken"
Promise == INSTANCE ConnectPromise
             WITH Attempts <- Fetches, outcome <- [f \in Fetches |-> Outcome(fetch[f])]

\* A fetch drives proxy.c as its contract demands (it makes each attempt once and
\* cancels none that was answered) and gives its originator the promise an attempt
\* gives: one outcome, and none after a cancellation.
ContractsKept == Connections!Spec /\ Promise!Spec

\* With servers that close, every fetch ends, however often it is redirected.
EveryFetchEnds ==
    \A f \in Fetches : fetch[f].st = "active" ~> fetch[f].st # "active"
=============================================================================
