---------------------------- MODULE ProxyConnect ----------------------------
(***************************************************************************)
(* Connection attempts of liboul/proxy.c: resolve a host name, try its     *)
(* addresses one after the other, speak the proxy's handshake, and report  *)
(* to the originator exactly once with connect_cb.                         *)
(*                                                                         *)
(* Everything runs on the GLib main loop: an action is one dispatch of a   *)
(* timer or of a descriptor watcher, or one call of the API by a client.   *)
(* An attempt is an OulProxyConnectData and what the kernel and the main   *)
(* loop hold on its behalf: the sockets opened for it and not closed, the  *)
(* watchers and timers whose user data points to it.                       *)
(*                                                                         *)
(* Bytes are abstracted.  A request is a member of Messages with a length  *)
(* in units that keeps the order of the real lengths; a reply of the peer  *)
(* is a verdict that arrives whole or in several pieces.  The body an HTTP  *)
(* proxy sends with its answer is not modelled: http_canread (681-703)     *)
(* reads it away in the same dispatch and counts a byte that has not come  *)
(* yet as read, so that what is left of it stands before the next answer   *)
(* and may decide its verdict, which is any of Verdicts here.              *)
(***************************************************************************)
EXTENDS Naturals, Sequences, FiniteSets

CONSTANTS
    Attempts,       \* allocations of OulProxyConnectData
    Handles,        \* the "handle" arguments clients pass
    Types,          \* proxy types the desktop's settings may give
    Volatile,       \* TRUE: the settings may change between two attempts
    MaxHosts,       \* addresses a resolver returns at most
    MaxRounds,      \* authentication rounds a proxy asks for at most
    MaxPieces,      \* pieces a reply arrives in at most
    UiResolver,     \* TRUE: the UI registered dnsquery operations
    Immediate,      \* TRUE: connect() may succeed at once (loopback)
    Port80,         \* TRUE: the destination is port 80
    Schemes         \* HTTP proxy authentication schemes the proxy may ask

ASSUME ConstantsAssumption ==
    /\ Types \subseteq {"none", "http", "socks4", "socks5"}
    /\ Volatile \in BOOLEAN
    /\ MaxHosts \in Nat \ {0}
    /\ MaxRounds \in Nat
    /\ MaxPieces \in Nat \ {0}
    /\ UiResolver \in BOOLEAN
    /\ Immediate \in BOOLEAN
    /\ Port80 \in BOOLEAN
    /\ Schemes \subseteq {"ntlm", "basic"}

VARIABLES
    conn,       \* conn[c]: the attempt c
    handles,    \* the static list "handles": attempts that are not freed
    gpi         \* type in the OulProxyInfo all attempts of oul_proxy_connect share

vars == <<conn, handles, gpi>>

NoFd == 0           \* fd = -1: no socket; socket k is the one for the k-th address
NoWatch == <<"none", "none", NoFd>>
Sockets == 1..MaxHosts

Messages == {"connect", "auth407", "s4request", "greeting", "userpass",
             "chap", "s5connect"}

\* Only the order matters: the SOCKS5 greeting (3 or 5 bytes) is shorter than
\* every other request.
Length(m) == CASE m = "greeting"  -> 2
               [] m = "s5connect" -> 4
               [] OTHER           -> 3

Readers == {"http_canread", "s4_canread", "s5_canread", "s5_readauth",
            "s5_readchap", "s5_canread_again"}
Writers == {"socket_ready_cb", "http_canwrite", "s4_canwrite", "s5_canwrite",
            "proxy_do_write"}

Watch(cond, cb, fd) == <<cond, cb, fd>>
Watches == ({"W"} \X Writers \X Sockets) \cup ({"R"} \X Readers \X Sockets)

Unused ==
    [st      |-> "unused",      \* "unused", "live", "freed", "cancelled", "refused"
     handle  |-> "none",
     own     |-> FALSE,         \* gpi given by the caller of connect_socks5
     to      |-> "dest",        \* whose address was looked up
     query   |-> "none",        \* query_data: "none", "timer", "ui"
     hosts   |-> 0,             \* addresses left in the list "hosts"
     fd      |-> NoFd,
     open    |-> {},            \* sockets of this attempt not yet closed
     inpa    |-> NoWatch,
     watches |-> {},            \* watchers installed with this attempt as data
     read_cb |-> "none",
     msg     |-> "none",        \* write_buffer, "none" is NULL
     written |-> 0,             \* written_len
     skipped |-> 0,             \* units of msg that were never handed to write()
     got     |-> 0,             \* read_len: pieces of the reply read and kept
     lost    |-> FALSE,         \* a piece was read and will be overwritten
     owes    |-> FALSE,         \* the peer has a complete request to answer
     said    |-> "none",        \* the peer's last verdict
     rounds  |-> 0,
     clean   |-> FALSE,         \* a clean_connect timer is pending
     calls   |-> <<>>]          \* the calls of connect_cb: <<result, socket>>

TypeOf(r, shared) == IF r.own THEN "socks5" ELSE shared

-----------------------------------------------------------------------------
(* Ending an attempt. *)

AddWatch(r, cond, cb) ==
    LET w == Watch(cond, cb, r.fd)
    IN  [r EXCEPT !.inpa = w, !.watches = @ \cup {w}]

\* Mutant: the tag is cleared, the watcher stays in the main loop
RemoveWatch_TagOnly(r) ==
    [r EXCEPT !.inpa = NoWatch]

RemoveWatch(r) ==
    [r EXCEPT !.watches = @ \ {r.inpa}, !.inpa = NoWatch]

\* oul_proxy_connect_data_disconnect up to the test of error_message
Disconnected(r) ==
    [RemoveWatch(r) EXCEPT !.open = @ \ {r.fd}, !.fd = NoFd, !.msg = "none",
                           !.got = 0, !.lost = FALSE, !.owes = FALSE]

\* oul_proxy_connect_data_destroy
Destroyed(r, how) == [r EXCEPT !.st = how, !.query = "none", !.hosts = 0]

\* oul_proxy_connect_data_connected: the callback takes the socket over
Connected(r) ==
    LET told  == [r EXCEPT !.calls = Append(@, <<"ok", r.fd>>)]
        given == [told EXCEPT !.open = @ \ {r.fd}, !.fd = NoFd]
    IN  Destroyed(Disconnected(given), "freed")

GaveUp(r) ==
    Destroyed([r EXCEPT !.calls = Append(@, <<"fail", NoFd>>)], "freed")

-----------------------------------------------------------------------------
(* Writing a request. *)

\* Mutant: nothing waits for the answer
Sent_Deaf(r) ==
    RemoveWatch([r EXCEPT !.msg = "none", !.owes = TRUE])

Sent(r) ==
    LET done == [r EXCEPT !.msg = "none",
                          !.owes = (r.skipped = 0 /\ r.msg # "auth407")]
    IN  AddWatch(RemoveWatch(done), "R", r.read_cb)

\* proxy_do_write when write() does not fail: nothing (EAGAIN), a part, or all
Written(r) ==
    LET rest == Length(r.msg) - r.written
    IN  {r} \cup { [r EXCEPT !.written = @ + n] : n \in 1..(rest - 1) }
            \cup (IF rest > 0 THEN {Sent(r)} ELSE {})

\* Mutant: no request resets written_len
Request_NoReset(r, m, cb) ==
    LET req == [RemoveWatch(r) EXCEPT !.msg = m, !.skipped = r.written, !.read_cb = cb,
                                      !.got = 0, !.owes = FALSE]
    IN  AddWatch(req, "W", "proxy_do_write")

\* The buffer is set up, the watcher installed, and a first write tried.  All
\* requests reset written_len, except the SOCKS5 greeting.
Request(r, m, cb) ==
    LET from == IF m = "greeting" THEN r.written ELSE 0
        req  == [RemoveWatch(r) EXCEPT !.msg = m, !.written = from,
                                       !.skipped = from, !.read_cb = cb,
                                       !.got = 0, !.owes = FALSE]
    IN  AddWatch(req, "W", "proxy_do_write")

StartRequest(r, m, cb) == Written(Request(r, m, cb))

\* The 407 answer for the Basic scheme lacks the empty line that ends a request.
AuthRequest(r, scheme) ==
    IF scheme = "basic"
    THEN StartRequest(r, "auth407", "http_canread")
    ELSE StartRequest(r, "connect", "http_canread")

-----------------------------------------------------------------------------
(* Opening a socket. *)

\* http_canwrite, s4_canwrite, s5_canwrite once the socket is known connected
Opened(r, type) ==
    CASE type = "http"   -> IF Port80 THEN {Connected(RemoveWatch(r))}
                            ELSE StartRequest(r, "connect", "http_canread")
      [] type = "socks4" -> StartRequest(r, "s4request", "s4_canread")
      [] type = "socks5" -> StartRequest(r, "greeting", "s5_canread")
      [] OTHER           -> {[r EXCEPT !.clean = TRUE]}

ReadyCallback(type) ==
    CASE type = "http"   -> "http_canwrite"
      [] type = "socks4" -> "s4_canwrite"
      [] type = "socks5" -> "s5_canwrite"
      [] OTHER           -> "socket_ready_cb"

\* proxy_connect_* on the h-th address: connect() is in progress or done
Started(r, h, type) ==
    LET s == [r EXCEPT !.hosts = h - 1, !.fd = h, !.open = @ \cup {h}]
    IN  {AddWatch(s, "W", ReadyCallback(type))}
          \cup (IF Immediate THEN Opened(s, type) ELSE {})

\* Mutant: the next address is taken without a look whether one is left
Failed_NoneLeft(r, type) ==
    LET d == Disconnected(r)
    IN  (UNION { Started(d, h, type) : h \in 0..d.hosts })
          \cup { GaveUp([d EXCEPT !.hosts = 0]) }

\* oul_proxy_connect_data_disconnect with a message, and the recursion through
\* try_connect: the next addresses fail at once until one does not, or none is
\* left and the originator is told.
Failed(r, type) ==
    LET d == Disconnected(r)
    IN  (UNION { Started(d, h, type) : h \in 1..d.hosts })
          \cup { GaveUp([d EXCEPT !.hosts = 0]) }

-----------------------------------------------------------------------------
(* Replies of the proxy, one operator per read callback: what the attempt  *)
(* may be once the whole reply, with verdict v, has been read.             *)

Verdicts == {"grant", "deny", "none", "userpass", "chap", "more", "ntlm", "basic"}

Heard(r, v) ==
    [r EXCEPT !.said = v, !.got = 0, !.owes = FALSE]

http_canread(r, v, type) ==
    CASE v = "grant" -> {Connected(RemoveWatch(Heard(r, v)))}
      [] v \in Schemes /\ r.rounds < MaxRounds ->
            AuthRequest([Heard(r, v) EXCEPT !.rounds = @ + 1], v)
      [] v = "deny"  -> Failed(Heard(r, v), type)
      [] OTHER       -> {}

\* read_len is never advanced: after a short read the rest of the reply is
\* read over its beginning and byte 1 is no longer the reply code.
s4_canread(r, v, type) ==
    LET judged == IF r.lost THEN {"grant", "deny"} ELSE {v}
        h      == Heard(r, v)
    IN  IF v \notin {"grant", "deny"} THEN {}
        ELSE (IF "grant" \in judged THEN {Connected(h)} ELSE {})
                 \cup (IF "deny" \in judged THEN Failed(h, type) ELSE {})

s5_sendconnect(r) == StartRequest(r, "s5connect", "s5_canread_again")

s5_canread(r, v, type) ==
    LET h == Heard(r, v)
    IN  CASE v = "none"     -> s5_sendconnect(h)
          [] v = "userpass" -> StartRequest(h, "userpass", "s5_readauth")
          [] v = "chap"     -> StartRequest(h, "chap", "s5_readchap")
          [] v = "deny"     -> Failed(RemoveWatch(h), type)
          [] OTHER          -> {}

s5_readauth(r, v, type) ==
    LET h == RemoveWatch(Heard(r, v))
    IN  CASE v = "grant" -> s5_sendconnect(h)
          [] v = "deny"  -> Failed(h, type)
          [] OTHER       -> {}

\* "chap": a challenge to answer; "more": attributes to skip, keep reading
s5_readchap(r, v, type) ==
    LET h == Heard(r, v)
    IN  CASE v = "grant" -> s5_sendconnect(h)
          [] v = "deny"  -> Failed(h, type)
          [] v = "chap" /\ r.rounds < MaxRounds ->
                StartRequest([h EXCEPT !.rounds = @ + 1], "chap", "s5_readchap")
          [] v = "more" /\ r.rounds < MaxRounds ->
                {[h EXCEPT !.rounds = @ + 1, !.owes = TRUE]}
          [] OTHER       -> {}

\* Mutant: the reply code is not looked at
s5_canread_again_Blind(r, v, type) == {Connected(Heard(r, v))}

s5_canread_again(r, v, type) ==
    CASE v = "grant" -> {Connected(Heard(r, v))}
      [] v = "deny"  -> Failed(Heard(r, v), type)
      [] OTHER       -> {}

Reply(r, v, type) ==
    CASE r.inpa[2] = "http_canread"     -> http_canread(r, v, type)
      [] r.inpa[2] = "s4_canread"       -> s4_canread(r, v, type)
      [] r.inpa[2] = "s5_canread"       -> s5_canread(r, v, type)
      [] r.inpa[2] = "s5_readauth"      -> s5_readauth(r, v, type)
      [] r.inpa[2] = "s5_readchap"      -> s5_readchap(r, v, type)
      [] r.inpa[2] = "s5_canread_again" -> s5_canread_again(r, v, type)
      [] OTHER                          -> {}

-----------------------------------------------------------------------------
(* The actions. *)

\* conn[c] becomes one of the records rs.  The list of handles is written by
\* oul_proxy_connect and oul_proxy_connect_data_destroy only, which frees what it
\* takes off: a record that is no longer live is not on it.
Becomes(c, rs) ==
    /\ \E r \in rs :
          /\ conn' = [conn EXCEPT ![c] = r]
          /\ handles' = IF r.st = "live" THEN handles ELSE handles \ {c}
    /\ UNCHANGED gpi

Asking(c, h, r) ==
    /\ conn[c].st = "unused"
    /\ conn' = [conn EXCEPT ![c] = [r EXCEPT !.st = "live", !.handle = h,
                                             !.query = "timer"]]
    /\ handles' = handles \cup {c}

\* oul_gnome_proxy_get_info fills its static structure
Settings(type) == gpi' = type /\ (Volatile \/ type = gpi)

\* Mutant: the destination is looked up even when a proxy is set
Connect_Direct(c, h, type) ==
    /\ Settings(type)
    /\ Asking(c, h, [Unused EXCEPT !.own = FALSE, !.to = "dest"])

\* The settings of the desktop are read again and overwrite the structure that
\* the attempts under way point to.
Connect(c, h, type) ==
    /\ Settings(type)
    /\ Asking(c, h, [Unused EXCEPT !.own = FALSE,
                                   !.to = IF type = "none" THEN "dest" ELSE "proxy"])

ConnectSocks5(c, h) ==
    /\ Asking(c, h, [Unused EXCEPT !.own = TRUE, !.to = "proxy"])
    /\ UNCHANGED gpi

\* No host or port is set for the proxy, or the host name is empty: NULL
Refuse(c, type) ==
    /\ conn[c].st = "unused"
    /\ conn' = [conn EXCEPT ![c].st = "refused"]
    /\ Settings(type)
    /\ UNCHANGED handles

\* The zero-delay timer of oul_dnsquery_a.  The built-in resolver blocks and
\* gives one address; a UI resolver may take the query over.
ResolveHost(c) ==
    LET r    == conn[c]
        done == [r EXCEPT !.query = "none"]
        type == TypeOf(r, gpi)
    IN  /\ r.query = "timer"
        /\ Becomes(c, Failed(done, type)
                        \cup Failed([done EXCEPT !.hosts = 1], type)
                        \cup (IF UiResolver THEN {[r EXCEPT !.query = "ui"]} ELSE {}))

\* The UI resolver answers with n addresses; 0 stands for a failure as well
UiResolved(c, n) ==
    /\ conn[c].query = "ui"
    /\ Becomes(c, Failed([conn[c] EXCEPT !.query = "none", !.hosts = n],
                         TypeOf(conn[c], gpi)))

\* socket_ready_cb, *_canwrite: the kernel has decided on the connection.  The
\* validity test of socket_ready_cb always succeeds: oul_input_remove destroys
\* the source, and GLib dispatches no watcher that was removed.
SocketReady(c) ==
    LET r    == conn[c]
        type == TypeOf(r, gpi)
    IN  /\ r.inpa[2] \in Writers \ {"proxy_do_write"}
        /\ Becomes(c, (CASE r.inpa[2] = "socket_ready_cb" ->
                              {IF c \in handles THEN Connected(r) ELSE r}
                         [] r.inpa[2] = "http_canwrite" -> Opened(r, "http")
                         [] r.inpa[2] = "s4_canwrite"   -> Opened(r, "socks4")
                         [] OTHER                       -> Opened(r, "socks5"))
                      \cup Failed(r, type))

\* clean_connect: nothing checks that the attempt still exists
CleanConnect(c) ==
    /\ conn[c].clean
    /\ Becomes(c, {LET r == [conn[c] EXCEPT !.clean = FALSE]
                   IN  IF r.st = "live" THEN Connected(r)
                       ELSE [r EXCEPT !.calls = Append(@, <<"ok", NoFd>>)]})

DoWrite(c) ==
    /\ conn[c].inpa[2] = "proxy_do_write"
    /\ Becomes(c, Written(conn[c]))

\* The peer's reply arrives in part: read_len counts the piece, except in
\* s4_canread, which reads the next one over it ...
ReadShort(c) ==
    LET r == conn[c]
    IN  /\ r.inpa[1] = "R" /\ r.owes
        /\ \/ /\ r.inpa[2] = "s4_canread"
              /\ Becomes(c, {[r EXCEPT !.lost = TRUE]})
           \/ /\ r.inpa[2] # "s4_canread" /\ r.got + 1 < MaxPieces
              /\ Becomes(c, {[r EXCEPT !.got = @ + 1]})

\* ... or to its end
ReadReply(c, v) ==
    /\ conn[c].inpa[1] = "R" /\ conn[c].owes
    /\ Becomes(c, Reply(conn[c], v, TypeOf(conn[c], gpi)))

\* The peer closes or resets the connection during the handshake
Drop(c) ==
    /\ conn[c].inpa[1] = "R" \/ conn[c].inpa[2] = "proxy_do_write"
    /\ Becomes(c, Failed(conn[c], TypeOf(conn[c], gpi)))

\* Mutant: cancelling tells the originator
Cancelled_Told(c) ==
    Destroyed([Disconnected(conn[c]) EXCEPT !.calls = Append(@, <<"fail", NoFd>>)],
              "cancelled")

Cancelled(c) == Destroyed(Disconnected(conn[c]), "cancelled")

Cancel(c) ==
    /\ conn[c].st = "live"
    /\ Becomes(c, {Cancelled(c)})

CancelAll(S) ==
    /\ S # {}
    /\ conn' = [c \in Attempts |-> IF c \in S THEN Cancelled(c) ELSE conn[c]]
    /\ handles' = handles \ S
    /\ UNCHANGED gpi

CancelWithHandle(h) == CancelAll({c \in handles : conn[c].handle = h})

Uninit == CancelAll(handles)

-----------------------------------------------------------------------------
Init ==
    /\ conn = [c \in Attempts |-> Unused]
    /\ handles = {}
    /\ gpi \in Types

\* What the main loop and a peer that answers do for attempt c
Progress(c) ==
    \/ ResolveHost(c)
    \/ \E n \in 0..MaxHosts : UiResolved(c, n)
    \/ SocketReady(c)
    \/ CleanConnect(c)
    \/ DoWrite(c)
    \/ \E v \in Verdicts : ReadReply(c, v)

Client(c) ==
    \/ \E h \in Handles, t \in Types : Connect(c, h, t)
    \/ \E h \in Handles : ConnectSocks5(c, h)
    \/ \E t \in Types : Refuse(c, t)
    \/ Cancel(c)

Next ==
    \/ \E c \in Attempts : Progress(c) \/ Client(c) \/ ReadShort(c) \/ Drop(c)
    \/ \E h \in Handles : CancelWithHandle(h)
    \/ Uninit

Spec == Init /\ [][Next]_vars

\* The main loop dispatches what is ready, resolvers answer, the kernel decides
\* on every connect() and a peer answers a complete request.
FairSpec == Spec /\ \A c \in Attempts : WF_vars(Progress(c))

-----------------------------------------------------------------------------
Stages    == {"unused", "live", "freed", "cancelled", "refused"}
Owners    == Handles \cup {"none"}
Targets   == {"dest", "proxy"}
Queries   == {"none", "timer", "ui"}
Indices   == 0..MaxHosts
OptWatch  == Watches \cup {NoWatch}
OptReader == Readers \cup {"none"}
OptMsg    == Messages \cup {"none"}
Pieces    == 0..MaxPieces
Rounds    == 0..MaxRounds
Calls     == Seq({"ok", "fail"} \X Indices)

Records ==
    [st : Stages, handle : Owners, own : BOOLEAN, to : Targets, query : Queries,
     hosts : Indices, fd : Indices, open : SUBSET Sockets,
     inpa : OptWatch, watches : SUBSET Watches, read_cb : OptReader,
     msg : OptMsg, written : Nat, skipped : Nat, got : Pieces, lost : BOOLEAN,
     owes : BOOLEAN, said : Verdicts, rounds : Rounds, clean : BOOLEAN,
     calls : Calls]

\* Every field of every attempt keeps its type.
TypeOK ==
    /\ conn \in [Attempts -> Records]
    /\ handles \subseteq Attempts
    /\ gpi \in Types

\* The originator hears at most once, never again after it cancelled, and an
\* attempt that ended on its own has told it (oul_proxy_connect_data_connected,
\* the end of oul_proxy_connect_data_disconnect, oul_proxy_connect_cancel).
ToldOnce ==
    \A c \in Attempts :
        Len(conn[c].calls) = IF conn[c].st = "freed" THEN 1 ELSE 0

\* No socket and no watcher is lost or shared on the way through addresses and
\* handshake stages: what the kernel and the main loop hold for an attempt is
\* what its fd and inpa name, and nothing once the attempt is gone.
NothingLeaks ==
    \A c \in Attempts :
        LET r == conn[c]
        IN  /\ r.open = {r.fd} \ {NoFd}
            /\ r.watches = {r.inpa} \ {NoWatch}
            /\ r.st # "live" => r.fd = NoFd /\ r.inpa = NoWatch

\* The main loop never polls, for an attempt, a descriptor that was closed or
\* handed to the originator.
WatchesOpenSocket ==
    \A c \in Attempts : \A w \in conn[c].watches : w[3] \in conn[c].open

\* proxy_do_write never reads outside the request it was given, and sends it
\* from its first byte.
RequestSentWhole ==
    \A c \in Attempts : conn[c].msg # "none" =>
        conn[c].skipped = 0 /\ conn[c].written < Length(conn[c].msg)

\* The originator is given a socket only after the proxy granted the tunnel
\* (or when no grant is needed), whatever pieces the reply came in.
ConnectedMeansGranted ==
    \A c \in Attempts :
        \A i \in 1..Len(conn[c].calls) :
            conn[c].calls[i][1] = "ok" /\ conn[c].read_cb # "none"
                => conn[c].said = "grant"

\* What an originator is given was asked for in whole requests and granted.
GrantedAsAsked == RequestSentWhole /\ ConnectedMeansGranted

\* An attempt never skips the proxy whose address it looked up, nor speaks to
\* the destination as to a proxy: the socket handed over was opened for the
\* type the settings had when the host to resolve was chosen.
RouteIsKept ==
    \A c \in Attempts :
        LET r == conn[c]
        IN  /\ r.to = "dest"  => r.read_cb = "none" /\ r.inpa[2] \in {"none", "socket_ready_cb"}
            /\ r.to = "proxy" => r.inpa[2] # "socket_ready_cb" /\ ~r.clean

\* An attempt is always brought to an end by the main loop and a peer that
\* answers: no handshake stage waits for an event that nobody will produce.
EveryAttemptEnds ==
    \A c \in Attempts : conn[c].st = "live" ~> conn[c].st # "live"

\* The outcome the originator of attempt r has seen so far.
Outcome(r) ==
    CASE r.st = "unused"                         -> "idle"
      [] r.st = "refused"                        -> "refused"
      [] r.st = "live" /\ r.calls = <<>>         -> "pending"
      [] r.st = "cancelled" /\ r.calls = <<>>    -> "cancelled"
      [] r.st = "freed" /\ Len(r.calls) = 1      ->
            IF r.calls[1][1] = "ok" THEN "connected" ELSE "failed"
      [] OTHER                                   -> "broken"

Promise == INSTANCE ConnectPromise
             WITH outcome <- [c \in Attempts |-> Outcome(conn[c])]

\* proxy.c implements the contract of proxy.h: every step of an attempt, with
\* its addresses, timers and handshake, is a step of ConnectPromise or invisible.
PromiseKept == Promise!Spec
=============================================================================
