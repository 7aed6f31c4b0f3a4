--------------------------- MODULE PublicAddress ---------------------------
(***************************************************************************)
(* The address others can reach this machine at: oul_network_get_my_ip,    *)
(* liboul/network.c, which asks a STUN server (stun.c, through dnssrv.c    *)
(* and dnsquery.c), the router by UPnP (PortMapping), then by NAT-PMP      *)
(* (nat-pmp.c), each of which remembers what it found.                     *)
(*                                                                         *)
(* NAT-PMP blocks until the router answers, and what it remembers decides  *)
(* nothing but the address returned in the last resort, so it has no state *)
(* here.  Listening may use it (NatPmp) in place of UPnP.                  *)
(*                                                                         *)
(* STUN listens on a port before it asks, so a mapping is a stage of its   *)
(* discovery.  The user may change a preference at any time, so each time  *)
(* map_ports is read it may have either value; without auto_ip nothing     *)
(* happens but the return of a preference.                                 *)
(***************************************************************************)
EXTENDS PortMapping

CONSTANTS
    Server,         \* names of the STUN server; "short" ones are not names, "blank" is two spaces
    NatPmp          \* NAT-PMP is compiled in (NET_RT_DUMP)

ASSUME PublicAddressAssumption ==
    /\ "short" \in Server /\ Server \cap {"srv", "no_port", "lost"} = {}
    /\ NatPmp \in BOOLEAN

VARIABLES
    server,         \* the preference /oul/network/stun_server
    nat,            \* nattype, the callback its discovery waits for (stage), and the
                    \* name whose server is asked (asked)
    slow            \* a mapping was removed before the internal address was known

vars == <<net, server, nat, slow>>

Named(name) == name # "short"
NoNat == [status |-> "undiscovered", server |-> "null", asked |-> "null", ip |-> FALSE, fresh |-> FALSE,
          stage |-> "idle", retry |-> 0, odd |-> {}]
Verdict(n, status) == [n EXCEPT !.status = status, !.fresh = status = "unknown", !.stage = "idle", !.retry = 0]

-----------------------------------------------------------------------------
(* STUN *)

\* do_test1, with the answer of the SRV lookup, or with the name it was asked for.
\* oul_dnsquery_a returns NULL and calls nobody for a blank name or port 0.
Queried(n, result) ==
    [n EXCEPT !.stage = IF result \in {"no_port", "lost", "blank"} THEN "idle" ELSE "dns",
              !.asked = IF result \in Server THEN result ELSE @,
              !.odd = @ \cup ({result} \cap {"no_port"})]

\* That name is the preference's own string.  An edit frees it and stores the new name,
\* perhaps where the old one was: it reads as any name, or as none (lost).
SrvResults(n) ==
    {"srv", "no_port", n.server} \cup (IF "edited" \in n.odd THEN Server \cup {"lost"} ELSE {})

\* Mutant: the name of the server the result came from is not looked at.
Cached_AnyServer(n) ==
    /\ n.status # "undiscovered"
    /\ n.status = "discovered" \/ n.fresh

\* use_cached_result.
Cached(n) ==
    /\ n.status # "undiscovered"
    /\ Named(server) => n.server = server
    /\ n.status = "discovered" \/ n.fresh

\* oul_stun_discover.
StunDiscover(n) ==
    LET begun == [NoNat EXCEPT !.status = "discovering", !.server = server, !.asked = server,
                                !.stage = "srv"]
    IN IF n.status = "discovering" \/ Cached(n) THEN {n}
       ELSE IF ~Named(server) THEN {Verdict(n, "unknown")}
       ELSE {begun, Queried(begun, server)}

\* The SRV lookup's child process has answered, or died.
SrvAnswer ==
    /\ nat.stage = "srv"
    /\ \E result \in SrvResults(nat) : nat' = Queried(nat, result)
    /\ UNCHANGED <<net, server, slow>>

Becomes(s) ==
    /\ info' = s.info /\ dd' = s.dd /\ asking' = s.asking /\ listen' = s.listen

\* hbn_listen_cb: send the request; the listening socket becomes the connection's.
Heard(n) == { [n EXCEPT !.stage = "conn"], Verdict(n, "unknown") }

\* One of S is left behind, and nattype is n; the listener's callback, when it is due,
\* is hbn_listen_cb.
Settled(n, S) ==
    \E s \in S :
        \/ s.listen.ar # "done" /\ Becomes(s) /\ nat' = n
        \/ /\ s.listen.ar = "done"
           /\ Becomes([s EXCEPT !.listen = [NoListen EXCEPT !.touched = s.listen.touched,
                                                            !.spoilt = s.listen.spoilt]])
           /\ nat' \in Heard(n)

\* hbn_cb: without an address STUN is as good as never asked; with one, listen on a
\* port, if one is free, which is mapped unless the user does not want that.
DnsAnswer ==
    /\ nat.stage = "dns"
    /\ \/ nat' = Verdict(nat, "undiscovered") /\ UNCHANGED net
       \/ nat' = Verdict(nat, "unknown") /\ UNCHANGED net
       \/ \E external, mapped \in BOOLEAN :
             /\ mapped => NatPmp
             /\ Settled([nat EXCEPT !.stage = "listen"], Listen(Net, external, mapped))
    /\ UNCHANGED <<server, slow>>

\* A step of PortMapping.
NetStep(S) == Settled(nat, S) /\ UNCHANGED server

\* reply_cb: what is not an answer to this request is ignored, and so is recv() = -1,
\* which no length equals, after the byte before the buffer was cleared.  An answer has
\* the address unless it is missing, or the last attribute, which the loop skips.
Reply ==
    /\ nat.stage = "conn"
    /\ \E found \in BOOLEAN :
         nat' = [Verdict(nat, "discovered") EXCEPT !.ip = found \/ nat.ip,
                                                   !.odd = IF found THEN @ ELSE @ \cup {"no_address"}]
    /\ UNCHANGED <<net, server, slow>>

\* timeoutfunc: every half second; two more requests, then it is given up.
Timeout ==
    /\ nat.stage = "conn"
    /\ nat' = IF nat.retry >= 2 THEN Verdict(nat, "unknown") ELSE [nat EXCEPT !.retry = @ + 1]
    /\ UNCHANGED <<net, server, slow>>

-----------------------------------------------------------------------------
(* Asking for the address; the user; time *)

\* oul_upnp_get_public_ip may start a discovery.
UpnpAsked(s) ==
    IF s.info.status \in {"undiscovered", "unable"} /\ ~s.info.fresh THEN Discover(s, FALSE) ELSE {s}

\* oul_network_get_my_ip, with the address detected automatically.
GetMyIp ==
    /\ nat' \in StunDiscover(nat)
    /\ IF nat'.status = "discovered" THEN UNCHANGED net
       ELSE \E s \in UpnpAsked(Net) : Becomes(s)
    /\ UNCHANGED <<server, slow>>

\* The user edits the name of the STUN server.
EditServer ==
    /\ \E name \in Server \ {server} : server' = name
    /\ nat' = IF nat.stage = "srv" THEN [nat EXCEPT !.odd = @ \cup {"edited"}] ELSE nat
    /\ UNCHANGED <<net, slow>>

\* Five minutes go by; timers of a second or less do not last that long.
TimePasses ==
    /\ info.fresh \/ nat.fresh
    /\ \A d \in Discovery : ~dd[d].tima /\ ~dd[d].late
    /\ listen.ar \notin {"timer", "soon"} /\ nat.stage # "conn"
    /\ info' = [info EXCEPT !.fresh = FALSE]
    /\ nat' = [nat EXCEPT !.fresh = FALSE]
    /\ UNCHANGED <<dd, asking, listen, server, slow>>

-----------------------------------------------------------------------------
(* The specification *)

TimeoutStep(d) == NetStep(DiscoverTimeout(Net, d)) /\ UNCHANGED slow
ReadStep(d) == NetStep(UdpRead(Net, d)) /\ UNCHANGED slow
DescribedStep(d) == NetStep(Described(Net, d)) /\ UNCHANGED slow
LookedUpStep(d) == NetStep(LookedUp(Net, d)) /\ UNCHANGED slow
MapFailedStep == NetStep(MapFailed(Net)) /\ UNCHANGED slow
MapAnsweredStep ==
    \E success \in BOOLEAN :
        /\ NetStep(MapAnswered(Net, success))
        /\ slow' = (slow \/ (success /\ ~listen.adding /\ ~InternalKnown(Net)))
MapNotNeededStep == NetStep(MapNotNeeded(Net)) /\ UNCHANGED slow

\* oul_network_init looks for the router if a preference asks for it.
Init ==
    /\ LET none == [info |-> [status |-> "undiscovered", internal |-> FALSE, fresh |-> FALSE],
                    dd |-> [d \in Discovery |-> NoDiscovery], asking |-> {}, listen |-> NoListen]
       IN \E s \in {none} \cup Discover(none, FALSE) :
             info = s.info /\ dd = s.dd /\ asking = s.asking /\ listen = s.listen
    /\ server \in Server
    /\ nat = NoNat
    /\ slow = FALSE

Next ==
    \/ GetMyIp \/ EditServer \/ TimePasses
    \/ SrvAnswer \/ DnsAnswer \/ Reply \/ Timeout
    \/ MapFailedStep \/ MapAnsweredStep \/ MapNotNeededStep
    \/ \E d \in Discovery : TimeoutStep(d) \/ ReadStep(d) \/ DescribedStep(d) \/ LookedUpStep(d)

Spec == Init /\ [][Next]_vars

\* Timers fire and resolvers answer.  Nothing makes a router answer what it was sent over
\* a connection it has accepted: such a fetch has no timeout.
FairSpec ==
    /\ Spec
    /\ WF_vars(SrvAnswer) /\ WF_vars(DnsAnswer) /\ WF_vars(Timeout)
    /\ WF_vars(MapFailedStep) /\ WF_vars(MapNotNeededStep)
    /\ \A d \in Discovery : WF_vars(TimeoutStep(d))

-----------------------------------------------------------------------------
(* Properties *)

\* Types: between two handlers no request is in the middle of being refused or told.
TypeOK ==
    /\ info \in [status : {"undiscovered", "unable", "discovering", "discovered"},
                 internal : BOOLEAN, fresh : BOOLEAN]
    /\ dd \in [Discovery -> [live : BOOLEAN, fd : {"zero", "open", "closed"}, inpa : BOOLEAN,
                             tima : BOOLEAN, late : BOOLEAN, fetch : BOOLEAN,
                             retry : 0..NUM_UDP_ATTEMPTS]]
    /\ asking \subseteq Discovery
    /\ listen \in [ar : {"none", "soon", "waiting", "timer", "fetch"}, retry : BOOLEAN,
                   adding : BOOLEAN, touched : BOOLEAN, spoilt : BOOLEAN]
    /\ server \in Server
    /\ nat \in [status : {"undiscovered", "unknown", "discovering", "discovered"},
                server : Server \cup {"null"}, asked : Server \cup {"null"},
                ip : BOOLEAN, fresh : BOOLEAN,
                stage : {"idle", "srv", "dns", "listen", "conn"}, retry : 0..2,
                odd : SUBSET {"edited", "no_port", "no_address"}]
    /\ slow \in BOOLEAN

\* A discovery has exactly one thing to go on with: a timer or a fetch.
GoesOn(r) ==
    /\ Cardinality({ x \in {"tima", "late", "fetch"} : r[x] }) = IF r.live THEN 1 ELSE 0
    /\ r.inpa => r.tima /\ r.fd = "open"

\* STUN was given a name it cannot look up, and says so to nobody.
NameLost == nat.server = "blank" \/ nat.odd \cap {"edited", "no_port"} # {}

\* Whoever waits for a discovery is waiting for one that is under way and will end:
\* upnp.c is DISCOVERING, or a request is on the list of callbacks, only while a
\* discovery has a timer or a fetch; stun.c is DISCOVERING only while it waits for an
\* answer, and for a mapping exactly when its port is being mapped.
SomebodyAnswers ==
    /\ \A d \in Discovery : GoesOn(dd[d])
    /\ info.status = "discovering" \/ listen.ar = "waiting" => \E d \in Discovery : dd[d].live
    /\ nat.status = "discovering" => nat.stage # "idle" \/ NameLost
    /\ (nat.stage = "listen") = (listen.ar # "none")

\* oul_network_set_upnp_port_mapping_cb stores the request it makes in a structure that
\* is still allocated, unless the router removed a mapping before the internal address
\* was known, which fails the new request at once (network.c:194), or a request could not
\* be sent at all (upnp.c:680).
StoredInTime == listen.touched => slow \/ listen.spoilt

\* Whoever waits for an address, a router or a mapping waits for something that
\* goes on, and is still there to be told.
LookupsAreSound == TypeOK /\ SomebodyAnswers /\ StoredInTime

\* Whenever it is called, oul_network_get_my_ip does not pass on what another STUN server
\* than the configured one has answered, although the server may be edited at any stage
\* of a discovery and results are kept for ever, unless it was edited while the SRV lookup
\* held the preference's string; and what it passes on is an address, unless the answer
\* had none where reply_cb looks for it.
AddressOfServer ==
    \A n \in StunDiscover(nat) : n.status = "discovered" =>
        /\ Named(server) => n.server = server /\ (n.asked = server \/ "edited" \in n.odd)
        /\ n.ip \/ "no_address" \in n.odd

\* No fetch from the router stays unanswered for ever.
RouterAnswers ==
    /\ \A d \in Discovery : []<>~dd[d].fetch
    /\ []<>(listen.ar # "fetch")

\* A discovery of the router, and one by STUN, comes to an end, whatever times out and
\* whatever fails on the way, as long as a router that accepts a connection does not
\* keep silent: nobody else is left with DISCOVERING for ever.
EveryLookupEnds ==
    RouterAnswers =>
        /\ info.status = "discovering" ~> info.status # "discovering"
        /\ nat.status = "discovering" ~> (nat.status # "discovering" \/ NameLost)
=============================================================================
