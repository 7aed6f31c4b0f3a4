---------------------------- MODULE PortMapping ----------------------------
(***************************************************************************)
(* Finding the router and asking it to forward a port: liboul/upnp.c, and  *)
(* the listening sockets of liboul/network.c that wait for a mapping.      *)
(*                                                                         *)
(* A handler calls back into its caller before it returns, so the handlers *)
(* are operators on the state of both files: each gives the set of states  *)
(* it may leave behind.  The state s is the record of the four variables   *)
(* below.  Whoever listens is called back when listen.ar becomes "done";   *)
(* PublicAddress, which has the only caller there is, makes the steps.     *)
(***************************************************************************)
EXTENDS Naturals, FiniteSets

CONSTANTS
    Discovery,      \* bound: discoveries that may be under way together
    NUM_UDP_ATTEMPTS

ASSUME PortMappingAssumption ==
    /\ IsFiniteSet(Discovery)
    /\ NUM_UDP_ATTEMPTS \in Nat

VARIABLES
    info,           \* control_info: status, internal address known, failed in the last 5 minutes
    dd,             \* dd[d]: UPnPDiscoveryData; late is the timer nobody remembers
    asking,         \* the discoveries whose lookup of the internal address is under way
    listen          \* OulNetworkListenData and its request; touched: written after it was freed;
                    \* spoilt: the request itself was

net == <<info, dd, asking, listen>>
Net == [info |-> info, dd |-> dd, asking |-> asking, listen |-> listen]

\* fd 0, which is what g_new0 leaves when there is no socket, is "zero"; fd -1 is "closed".
NoDiscovery == [live |-> FALSE, fd |-> "zero", inpa |-> FALSE, tima |-> FALSE, late |-> FALSE,
                fetch |-> FALSE, retry |-> 0]
NoListen == [ar |-> "none", retry |-> FALSE, adding |-> FALSE, touched |-> FALSE,
             spoilt |-> FALSE]

Idle(s) == { d \in Discovery : ~s.dd[d].live /\ d \notin s.asking }
InternalKnown(s) == s.info.status = "discovered" /\ s.info.internal
Status(s, status) == [s EXCEPT !.info.status = status, !.info.fresh = status = "unable"]

-----------------------------------------------------------------------------
(* Discovery: broadcasts, their timeouts, and the router's answer *)

\* oul_upnp_discover_send_broadcast: tries until a broadcast is sent; when none
\* is, the failure is told by a timer.
Broadcast(s, d) ==
    { [s EXCEPT !.dd[d].retry = k, !.dd[d].tima = TRUE, !.dd[d].inpa = TRUE] :
        k \in { k \in s.dd[d].retry .. NUM_UDP_ATTEMPTS : k < NUM_UDP_ATTEMPTS /\ s.dd[d].fd = "open" } }
    \cup { [s EXCEPT !.dd[d].retry = NUM_UDP_ATTEMPTS, !.dd[d].late = TRUE] }

\* oul_upnp_discover: without a socket or a group address the status stays what
\* it was, so that a second discovery may start beside the failing one.
Discover(s, waits) ==
    LET w == IF waits THEN [s EXCEPT !.listen.ar = "waiting"] ELSE s
        begun(d, fd) == [w EXCEPT !.dd[d] = [NoDiscovery EXCEPT !.live = TRUE, !.fd = fd]]
    IN IF s.info.status = "discovering" THEN {w}
       ELSE IF Idle(s) = {} THEN {}
       ELSE LET d == CHOOSE d \in Idle(s) : TRUE IN
            { [begun(d, fd) EXCEPT !.dd[d].retry = NUM_UDP_ATTEMPTS, !.dd[d].late = TRUE] :
                fd \in {"zero", "open"} }
            \cup Broadcast([begun(d, "open") EXCEPT !.info.status = "discovering"], d)

-----------------------------------------------------------------------------
(* Mapping a port, and listening on it *)

\* oul_upnp_generate_action_message_and_send that cannot send: the control URL cannot
\* be parsed, or the fetch is refused at once.  The callback frees the request, which
\* is then written to; after a URL that cannot be parsed it is also fetched for, so
\* that the callback is called once more with freed memory, which is left out.
Unsent(s) == [s EXCEPT !.listen.ar = "refused", !.listen.spoilt = TRUE]

\* oul_upnp_set_port_mapping and _remove_port_mapping: wait for a discovery,
\* start one, fail a little later, or ask the router at once.  "refused": the
\* callback was called with a failure before this returns.
Ask(s) ==
    CASE s.info.status = "discovering" -> {[s EXCEPT !.listen.ar = "waiting"]}
      [] s.info.status = "undiscovered" \/ (s.info.status = "unable" /\ ~s.info.fresh) ->
            Discover(s, TRUE)
      [] s.info.status = "unable" /\ s.info.fresh -> {[s EXCEPT !.listen.ar = "timer"]}
      [] s.info.status = "discovered" ->
            IF s.listen.adding /\ ~InternalKnown(s) THEN {[s EXCEPT !.listen.ar = "refused"]}
            ELSE {[s EXCEPT !.listen.ar = "fetch"], Unsent(s)}

\* The listener is called with its socket and its request is freed.
Finished(s) == [s EXCEPT !.listen.ar = "done"]

\* A request that was refused while it was being made has freed the structure
\* its caller then stores it in.
Stored(s) == IF s.listen.ar = "refused" THEN [Finished(s) EXCEPT !.listen.touched = TRUE] ELSE s

\* oul_network_set_upnp_port_mapping_cb: a mapping that fails is removed, and
\* when that succeeds, added again.
Mapped(s, success) ==
    IF ~success /\ s.listen.retry
    THEN { Stored(t) : t \in Ask([s EXCEPT !.listen.retry = FALSE, !.listen.adding = FALSE]) }
    ELSE IF success /\ ~s.listen.adding
    THEN { Stored(t) : t \in Ask([s EXCEPT !.listen.adding = TRUE]) }
    ELSE {Finished(s)}

\* do_port_mapping_cb: a discovery is over, or the failure timer has fired.
DoMapping(s, found) ==
    IF found /\ (s.listen.adding => InternalKnown(s))
    THEN {[s EXCEPT !.listen.ar = "fetch"]} \cup Mapped(Unsent(s), FALSE)
    ELSE Mapped(s, FALSE)

\* fire_discovery_callbacks.
FireCallbacks(s, success) ==
    IF s.listen.ar = "waiting" THEN DoMapping(s, success) ELSE {s}

\* oul_network_do_listen once the socket is bound: there may be nothing to map,
\* or NAT-PMP has answered.
Listen(s, external, pmp) ==
    LET begun == [s EXCEPT !.listen = [NoListen EXCEPT !.retry = TRUE, !.adding = TRUE,
                                                       !.touched = s.listen.touched,
                                                       !.spoilt = s.listen.spoilt]]
    IN IF ~external \/ pmp THEN {[begun EXCEPT !.listen.ar = "soon"]}
       ELSE UNION { IF t.listen.ar = "refused" THEN Mapped(t, FALSE) ELSE {t} : t \in Ask(begun) }

-----------------------------------------------------------------------------
(* The handlers *)

\* Mutant: the last attempt is taken for one that may be repeated.
DiscoverTimeout_OneMore(s, d) ==
    LET t == [s EXCEPT !.dd[d].inpa = FALSE, !.dd[d].tima = FALSE, !.dd[d].late = FALSE]
    IN IF ~(s.dd[d].tima \/ s.dd[d].late) THEN {}
       ELSE IF s.dd[d].retry <= NUM_UDP_ATTEMPTS
       THEN Broadcast([t EXCEPT !.dd[d].retry = @ + 1], d)
       ELSE FireCallbacks(Status([t EXCEPT !.dd[d] = NoDiscovery], "unable"), FALSE)

\* oul_upnp_discover_timeout, for the timer of a broadcast and for the late one.
DiscoverTimeout(s, d) ==
    LET t == [s EXCEPT !.dd[d].inpa = FALSE, !.dd[d].tima = FALSE, !.dd[d].late = FALSE]
    IN IF ~(s.dd[d].tima \/ s.dd[d].late) THEN {}
       ELSE IF s.dd[d].retry < NUM_UDP_ATTEMPTS
       THEN Broadcast([t EXCEPT !.dd[d].retry = @ + 1], d)
       ELSE FireCallbacks(Status([t EXCEPT !.dd[d] = NoDiscovery], "unable"), FALSE)

\* Mutant: the timeout is removed even if the answer names no description.
UdpRead_NoTimeout(s, d) ==
    IF ~s.dd[d].inpa THEN {}
    ELSE { [s EXCEPT !.dd[d].inpa = FALSE, !.dd[d].fd = "closed", !.dd[d].tima = FALSE,
                     !.dd[d].fetch = usable] : usable \in BOOLEAN }

\* upnp_parse_description_cb without a description.
Undescribed(s, d) ==
    FireCallbacks(Status([s EXCEPT !.dd[d] = NoDiscovery], "unable"), FALSE)

\* oul_upnp_discover_udp_read: closes the socket; an answer without a usable
\* address of the description leaves the rest to the timeout.  With one, the fetch
\* has no timeout, or is refused at once.
UdpRead(s, d) ==
    IF ~s.dd[d].inpa THEN {}
    ELSE { [s EXCEPT !.dd[d].inpa = FALSE, !.dd[d].fd = "closed", !.dd[d].tima = ~usable,
                     !.dd[d].fetch = usable] : usable \in BOOLEAN }
         \cup Undescribed(s, d)

\* upnp_parse_description_cb: the description has been fetched, or not.  Those who
\* wait are told before the addresses are looked up.
Described(s, d) ==
    IF ~s.dd[d].fetch THEN {}
    ELSE LET t == [s EXCEPT !.dd[d] = NoDiscovery]
             told == FireCallbacks(Status(t, "discovered"), TRUE)
         IN Undescribed(s, d) \cup told \cup { [u EXCEPT !.asking = @ \cup {d}] : u \in told }

\* looked_up_internal_ip_cb, which takes a failed connection, socket -1, for a
\* connection.  (The public address, looked up beside it, is only ever returned.)
LookedUp(s, d) ==
    IF d \in s.asking THEN {[s EXCEPT !.asking = @ \ {d}, !.info.internal = TRUE]} ELSE {}

\* fire_port_mapping_failure_cb, done_port_mapping_cb, oul_network_finish_pmp_map_cb.
MapFailed(s) == IF s.listen.ar = "timer" THEN DoMapping(s, FALSE) ELSE {}
MapAnswered(s, success) == IF s.listen.ar = "fetch" THEN Mapped(s, success) ELSE {}
MapNotNeeded(s) == IF s.listen.ar = "soon" THEN {Finished(s)} ELSE {}
=============================================================================
