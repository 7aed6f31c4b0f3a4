------------------------------ MODULE Signals ------------------------------
(***************************************************************************)
(* Signals of liboul/signals.c.  An instance registers signals; handlers   *)
(* are kept per signal in order of priority, each for a handle (a plugin,  *)
(* a dialog, a subsystem).  An emission walks the list of handlers and     *)
(* calls each one synchronously, so a callback may register, connect,      *)
(* disconnect and emit while the walk is under way.  The walk keeps the    *)
(* signal and the list node it will visit next over the call.              *)
(*                                                                         *)
(* The contract of a callback, which every callback of the program keeps:  *)
(* of the signals being emitted it disconnects nothing but itself,         *)
(* unregisters none and emits none again.                                  *)
(***************************************************************************)
EXTENDS Naturals, FiniteSets, SequencesExt

CONSTANTS
    Instance,       \* owners of signals
    Signal,         \* names of signals
    Handle,         \* owners of handlers, each with one callback function
    Priority,       \* priorities handlers are connected with
    MaxHandlerId,   \* bound on the handlers ever connected to one signal
    MaxHandlers,    \* bound on the handlers connected at one time
    MaxSignalId,    \* bound on the signals ever registered by one instance
    MaxDepth        \* bound on emissions nested in each other

ASSUME SignalsAssumption ==
    /\ Priority \subseteq Nat /\ IsFiniteSet(Signal)
    /\ MaxHandlerId \in Nat /\ MaxHandlers \in Nat
    /\ MaxSignalId \in Nat /\ MaxDepth \in Nat

VARIABLES
    instance_table, \* Instance -> OulInstanceData, or Gone
    signals,        \* Instance \X Signal -> OulSignalData, or Absent
    emissions       \* emissions under way, the innermost last

signalVars == <<instance_table, signals, emissions>>

Gone == [next_signal_id |-> 0, signal_count |-> 0]
Absent == [id |-> 0, handlers |-> <<>>, next_handler_id |-> 0]
Exists(i) == instance_table[i] # Gone
Registered(i, s) == signals[<<i, s>>] # Absent
NoNode == 0     \* the end of a list of handlers

Idle == emissions = <<>>
Inner == Last(emissions)
UnderWay(i, s) == \E e \in ToSet(emissions) : e.instance = i /\ e.signal = s

Ids(handlers) == {handlers[k].id : k \in DOMAIN handlers}
Position(handlers, id) == CHOOSE k \in DOMAIN handlers : handlers[k].id = id
\* l->next of the node with this id.
NodeAfter(handlers, id) ==
    LET k == Position(handlers, id)
    IN IF k = Len(handlers) THEN NoNode ELSE handlers[k + 1].id
\* Every handler there is, as <<instance and signal, id>>.
Connected == UNION {{<<k, id>> : id \in Ids(signals[k].handlers)} : k \in DOMAIN signals}
HandleOf(e) == LET hs == signals[<<e.instance, e.signal>>].handlers
               IN hs[Position(hs, e.current)].handle

-----------------------------------------------------------------------------
(* Registration.                                                           *)

\* oul_signal_register: the instance appears with its first signal.
Register(i, s) ==
    /\ ~Registered(i, s)
    /\ LET old == instance_table[i]
           sid == IF Exists(i) THEN old.next_signal_id ELSE 1
       IN /\ sid <= MaxSignalId
          /\ instance_table' = [instance_table EXCEPT ![i] =
                [next_signal_id |-> sid + 1, signal_count |-> old.signal_count + 1]]
          /\ signals' = [signals EXCEPT ![<<i, s>>] =
                [id |-> sid, handlers |-> <<>>, next_handler_id |-> 1]]
    /\ UNCHANGED emissions

\* oul_signal_unregister: the instance goes with its last signal.
Unregister(i, s) ==
    /\ Registered(i, s) /\ ~UnderWay(i, s)
    /\ LET old == instance_table[i]
       IN instance_table' = [instance_table EXCEPT ![i] =
            IF old.signal_count = 1 THEN Gone ELSE [old EXCEPT !.signal_count = @ - 1]]
    /\ signals' = [signals EXCEPT ![<<i, s>>] = Absent]
    /\ UNCHANGED emissions

\* oul_signals_unregister_by_instance
UnregisterByInstance(i) ==
    /\ Exists(i) /\ \A s \in Signal : ~UnderWay(i, s)
    /\ instance_table' = [instance_table EXCEPT ![i] = Gone]
    /\ signals' = [k \in DOMAIN signals |-> IF k[1] = i THEN Absent ELSE signals[k]]
    /\ UNCHANGED emissions

-----------------------------------------------------------------------------
(* Connecting and disconnecting.                                           *)

\* g_list_insert_sorted with handler_priority: before the first handler whose
\* priority is not less than the new one's.
InsertSorted(handlers, h) ==
    LET k == Cardinality({j \in DOMAIN handlers : handlers[j].priority < h.priority})
    IN InsertAt(handlers, k + 1, h)

\* signal_connect_common: nothing is connected to a signal that is not there.
Connect(i, s, handle, priority) ==
    /\ Registered(i, s)
    /\ LET d == signals[<<i, s>>]
       IN /\ d.next_handler_id <= MaxHandlerId
          /\ Cardinality(Connected) < MaxHandlers
          /\ signals' = [signals EXCEPT ![<<i, s>>] =
                [d EXCEPT !.handlers = InsertSorted(@, [id |-> d.next_handler_id,
                                            handle |-> handle, priority |-> priority]),
                          !.next_handler_id = @ + 1]]
    /\ UNCHANGED <<instance_table, emissions>>

\* Mutant: the search goes on after the first match.
Disconnected_GoesOn(handlers, handle) == SelectSeq(handlers, LAMBDA h : h.handle # handle)

\* What oul_signal_disconnect removes: the first handler of the handle.
Disconnected(handlers, handle) ==
    RemoveFirstMatch(handlers, LAMBDA h : h.handle = handle)

\* oul_signal_disconnect.  In a callback of the signal, by the handler itself.
Disconnect(i, s, handle) ==
    /\ \E h \in ToSet(signals[<<i, s>>].handlers) : h.handle = handle
    /\ UnderWay(i, s) => /\ Inner.instance = i /\ Inner.signal = s
                         /\ Inner.current \in Ids(signals[<<i, s>>].handlers)
                         /\ HandleOf(Inner) = handle
    /\ signals' = [signals EXCEPT ![<<i, s>>].handlers = Disconnected(@, handle)]
    /\ UNCHANGED <<instance_table, emissions>>

\* The places of S in their order, and what a list has at them.
Places(S) == {f \in [1..Cardinality(S) -> S] : \A m, n \in DOMAIN f : m < n => f[m] < f[n]}
AtPlaces(list, S) == LET at == CHOOSE f \in Places(S) : TRUE IN [n \in DOMAIN at |-> list[at[n]]]

\* disconnect_handle_from_signals
Without(handlers, handle) ==
    AtPlaces(handlers, {n \in DOMAIN handlers : handlers[n].handle # handle})

\* oul_signals_disconnect_by_handle, which walks every signal of every instance.
DisconnectByHandle(handle) ==
    /\ \E k \in DOMAIN signals : \E h \in ToSet(signals[k].handlers) : h.handle = handle
    /\ \A e \in ToSet(emissions) : \A h \in ToSet(signals[<<e.instance, e.signal>>].handlers) :
            h.handle = handle => e = Inner /\ h.id = e.current
    /\ signals' = [k \in DOMAIN signals |->
            [signals[k] EXCEPT !.handlers = Without(@, handle)]]
    /\ UNCHANGED <<instance_table, emissions>>

-----------------------------------------------------------------------------
(* Emission: oul_signal_emit_vargs and oul_signal_emit_vargs_return_1,     *)
(* which returns with the first result that is not NULL.                   *)

\* The walk reaches node id: it keeps the one after it and calls the handler.
Visit(e, handlers, id) ==
    [e EXCEPT !.current = id, !.called = Append(@, id), !.next = NodeAfter(handlers, id)]

Emit(i, s, first_result) ==
    /\ Registered(i, s) /\ ~UnderWay(i, s)
    /\ Len(emissions) < MaxDepth
    /\ LET hs == signals[<<i, s>>].handlers
           e == [instance |-> i, signal |-> s, data |-> signals[<<i, s>>].id,
                 returns |-> first_result, current |-> NoNode, next |-> NoNode,
                 atStart |-> Ids(hs), called |-> <<>>]
       IN /\ hs # <<>>
          /\ emissions' = Append(emissions, Visit(e, hs, Head(hs).id))
    /\ UNCHANGED <<instance_table, signals>>

\* A callback returns and the walk goes on with the node it kept.
Step ==
    /\ ~Idle /\ Inner.next # NoNode
    /\ LET hs == signals[<<Inner.instance, Inner.signal>>].handlers
       IN emissions' = Append(Front(emissions), Visit(Inner, hs, Inner.next))
    /\ UNCHANGED <<instance_table, signals>>

\* The last callback returns.
Finish ==
    /\ ~Idle /\ Inner.next = NoNode
    /\ emissions' = Front(emissions)
    /\ UNCHANGED <<instance_table, signals>>

\* A callback returns something to an emission that asks for one result.
Answer ==
    /\ ~Idle /\ Inner.returns
    /\ emissions' = Front(emissions)
    /\ UNCHANGED <<instance_table, signals>>

SignalsInit ==
    /\ instance_table = [i \in Instance |-> Gone]
    /\ signals = [k \in Instance \X Signal |-> Absent]
    /\ emissions = <<>>

SignalsNext ==
    \/ \E i \in Instance, s \in Signal :
        \/ Register(i, s) \/ Unregister(i, s)
        \/ \E h \in Handle : Disconnect(i, s, h) \/ \E p \in Priority : Connect(i, s, h, p)
        \/ \E r \in BOOLEAN : Emit(i, s, r)
    \/ \E i \in Instance : UnregisterByInstance(i)
    \/ \E h \in Handle : DisconnectByHandle(h)
    \/ Step \/ Finish \/ Answer

SignalsSpec == SignalsInit /\ [][SignalsNext]_signalVars

-----------------------------------------------------------------------------
HandlerData == [id : 1..MaxHandlerId, handle : Handle, priority : Priority]
SignalData == [id : 1..MaxSignalId, next_handler_id : 1..(MaxHandlerId + 1),
               handlers : Seq(HandlerData)]
InstanceData ==
    [next_signal_id : 2..(MaxSignalId + 1), signal_count : 1..Cardinality(Signal)]

SignalsTypeOK ==
    /\ instance_table \in [Instance -> {Gone} \cup InstanceData]
    /\ signals \in [Instance \X Signal -> {Absent} \cup SignalData]
    /\ \A i \in Instance : instance_table[i].signal_count
                            = Cardinality({s \in Signal : Registered(i, s)})

(* The walk of an emission never stands on freed memory: over every callback *)
(* its OulSignalData stays registered, and the list node it will visit next  *)
(* stays in the list, whatever nested callbacks connect and disconnect        *)
(* (signals.c:437).  It holds because oul_signal_disconnect removes the first *)
(* handler that matches, which is never behind the one that asks for it.      *)
WalkStaysLinked ==
    /\ SignalsTypeOK
    /\ \A e \in ToSet(emissions) :
        /\ signals[<<e.instance, e.signal>>].id = e.data
        /\ e.next \in {NoNode} \cup Ids(signals[<<e.instance, e.signal>>].handlers)

(* An emission that visits the whole list calls every handler that was       *)
(* connected when it began and still is when it ends, once, and calls         *)
(* handlers in ascending order of priority.                                   *)
EachCalledOnce ==
    \A e \in ToSet(emissions) :
        LET hs == signals[<<e.instance, e.signal>>].handlers
            still == Ids(hs) \cap ToSet(e.called)
        IN /\ Cardinality(ToSet(e.called)) = Len(e.called)
           /\ e.next = NoNode => e.atStart \cap Ids(hs) \subseteq ToSet(e.called)
           /\ \A a, b \in still :
                Position(hs, a) < Position(hs, b)
                    => \E m, n \in DOMAIN e.called : m < n /\ e.called[m] = a /\ e.called[n] = b
           /\ \A k \in DOMAIN hs : \A m \in 1..(k - 1) : hs[m].priority <= hs[k].priority

\* An emission survives what its handlers do to the signals and still tells
\* everyone it should (oul_signal_emit_vargs).
EmissionsAreSafe == WalkStaysLinked /\ EachCalledOnce
=============================================================================
