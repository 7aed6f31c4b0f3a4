--------------------------- MODULE Library_proofs ---------------------------
(***************************************************************************)
(* Proofs about parts of the library and of the user interface: lists in   *)
(* order, the emission of signals, the icon in the tray, the registry of   *)
(* ciphers, the saved statuses, the themes of popups and their drawing.    *)
(***************************************************************************)
EXTENDS TrayIcon, Signals, Ciphers, SavedStatuses, Themes, PopupDrawing,
        FiniteSetTheorems, SequenceTheorems, WellFoundedInduction, TLAPS

-----------------------------------------------------------------------------
(* Numbers                                                                  *)

\* A set of natural numbers has a least one.
LEMMA Least ==
    ASSUME NEW S \in SUBSET Nat, S # {}
    PROVE  \E m \in S : \A n \in S : m <= n
<1>1. PICK x \in S : \A y \in S : ~ (<<y, x>> \in OpToRel(<, Nat))
  BY WFMin, NatLessThanWellFounded, Zenon
<1>2. \A y \in S : y < x => <<y, x>> \in OpToRel(<, Nat)
  BY DEF OpToRel
<1>3. \A y \in S : x \in Int /\ y \in Int
  OBVIOUS
<1>4. \A y \in S : ~ (y < x)
  BY <1>1, <1>2, Zenon
<1> QED
  BY <1>3, <1>4

\* A set with 0 and with the successors of its elements has all natural numbers.
LEMMA Induct ==
    ASSUME NEW S, 0 \in S, \A n \in Nat : n \in S => n + 1 \in S
    PROVE  \A n \in Nat : n \in S
<1> SUFFICES ASSUME Nat \ S # {} PROVE FALSE
  OBVIOUS
<1>1. PICK m \in Nat \ S : \A n \in Nat \ S : m <= n
  BY Least
<1>2. m # 0 /\ m - 1 \in Nat /\ m - 1 \in S
  BY <1>1
<1> QED
  BY <1>1, <1>2

-----------------------------------------------------------------------------
(* Lists                                                                    *)

\* What is left of a list when an element is taken out.
LEMMA RemoveAtIs ==
    ASSUME NEW S, NEW l \in Seq(S), NEW i \in DOMAIN l
    PROVE  /\ RemoveAt(l, i) \in Seq(S) /\ Len(RemoveAt(l, i)) = Len(l) - 1
           /\ \A j \in DOMAIN RemoveAt(l, i) :
                 RemoveAt(l, i)[j] = IF j < i THEN l[j] ELSE l[j + 1]
<1> DEFINE w == RemoveAt(l, i)
           x == SubSeq(l, 1, i - 1)
           y == SubSeq(l, i + 1, Len(l))
<1>1. i \in Nat /\ 1 <= i /\ i <= Len(l) /\ Len(l) \in Nat
  OBVIOUS
<1>2. /\ x \in Seq(S) /\ Len(x) = i - 1
      /\ \A j \in 1..i - 1 : x[j] = l[j]
  BY <1>1
<1>3. /\ y \in Seq(S) /\ Len(y) = Len(l) - i
      /\ \A j \in 1..Len(l) - i : y[j] = l[i + j]
  BY <1>1
<1>4. w = x \o y
  BY DEF RemoveAt
<1> HIDE DEF w, x, y
<1>5. w \in Seq(S) /\ Len(w) = Len(l) - 1
  BY <1>1, <1>2, <1>3, <1>4
<1>6. \A j \in 1..Len(l) - 1 : w[j] = IF j < i THEN x[j] ELSE y[j - (i - 1)]
  <2> SUFFICES ASSUME NEW j \in 1..Len(l) - 1
               PROVE  (x \o y)[j] = IF j < i THEN x[j] ELSE y[j - (i - 1)]
    BY <1>4
  <2>1. Len(x) \in Nat /\ Len(y) \in Nat /\ j \in 1..Len(x) + Len(y)
    BY <1>1, <1>2, <1>3
  <2>2. (x \o y)[j] = IF j <= Len(x) THEN x[j] ELSE y[j - Len(x)]
    BY <1>2, <1>3, <2>1, SMTT(30)
  <2>3. Len(x) = i - 1 /\ (j <= Len(x) <=> j < i)
    BY <1>1, <1>2, <2>1
  <2> QED
    BY <2>2, <2>3
<1>7. ASSUME NEW j \in DOMAIN w PROVE w[j] = IF j < i THEN l[j] ELSE l[j + 1]
  <2>1. j \in 1..Len(l) - 1
    BY <1>5
  <2>2. CASE j < i
    BY <1>1, <1>2, <1>6, <2>1, <2>2
  <2>3. CASE ~(j < i)
    <3>1. j - (i - 1) \in 1..Len(l) - i /\ i + (j - (i - 1)) = j + 1
      <4>1. j \in Int /\ j <= Len(l) - 1 /\ j >= i /\ i \in Int /\ Len(l) \in Int
        BY <1>1, <2>1, <2>3
      <4> QED
        BY <4>1
    <3>2. w[j] = y[j - (i - 1)]
      BY <1>6, <2>1, <2>3
    <3> QED
      BY <1>3, <2>3, <3>1, <3>2
  <2> QED
    BY <2>2, <2>3
<1> QED
  BY <1>5, <1>7 DEF w

\* The enumeration of places reaches each of them.
LEMMA PlacesAre ==
    ASSUME NEW n \in Nat, NEW S \in SUBSET (1..n), NEW f \in Places(S)
    PROVE  /\ Cardinality(S) \in Nat /\ f \in [1..Cardinality(S) -> S]
           /\ \A x \in S : \E k \in 1..Cardinality(S) : f[k] = x
<1> DEFINE c == Cardinality(S)
<1>1. IsFiniteSet(S)
  <2>1. IsFiniteSet(1..n)
    BY FS_Interval
  <2> QED
    BY <2>1, FS_Subset
<1>2. c \in Nat
  BY <1>1, FS_CardinalityType
<1>3. f \in [1..c -> S] /\ \A i, j \in 1..c : i < j => f[i] < f[j]
  BY DEF Places
<1> HIDE DEF c
<1>4. \A i, j \in 1..c : f[i] = f[j] => i = j
  <2> SUFFICES ASSUME NEW i \in 1..c, NEW j \in 1..c, i # j PROVE f[i] # f[j]
    OBVIOUS
  <2>1. i \in Int /\ j \in Int /\ f[i] \in S /\ f[j] \in S
    BY <1>3
  <2>3. f[i] \in Int /\ f[j] \in Int
    <3>1. \A x \in S : x \in Int
      OBVIOUS
    <3> QED
      BY <2>1, <3>1
  <2>2. i < j \/ j < i
    BY <2>1
  <2> QED
    BY <1>3, <2>1, <2>2, <2>3
<1>5. f \in Injection(1..c, S)
  BY <1>3, <1>4 DEF Injection, IsInjective
<1>6. Cardinality(1..c) = c
  BY <1>2, FS_Interval
<1>7. f \in Surjection(1..c, S)
  BY <1>1, <1>5, <1>6, FS_Injection DEF c
<1>8. \A x \in S : \E k \in 1..c : f[k] = x
  BY <1>7 DEF Surjection
<1> QED
  BY <1>2, <1>3, <1>8 DEF c

\* Every set of places has an enumeration in its order.
LEMMA PlacesExist ==
    ASSUME NEW n \in Nat, NEW S \in SUBSET (1..n)
    PROVE  \E f : f \in Places(S)
<1> DEFINE Q == {m \in Nat : \A T \in SUBSET (1..m) : \E f : f \in Places(T)}
<1>1. 0 \in Q
  <2> SUFFICES ASSUME NEW T \in SUBSET (1..0) PROVE \E f : f \in Places(T)
    OBVIOUS
  <2>1. T = {}
    OBVIOUS
  <2>2. Cardinality(T) = 0
    BY <2>1, FS_EmptySet
  <2> DEFINE f == [i \in 1..0 |-> i]
  <2>3. f \in [1..Cardinality(T) -> T] /\ DOMAIN f = {}
    BY <2>1, <2>2
  <2>4. f \in Places(T)
    BY <2>3 DEF Places
  <2> QED
    BY <2>4
<1>2. ASSUME NEW m \in Nat, m \in Q PROVE m + 1 \in Q
  <2> SUFFICES ASSUME NEW T \in SUBSET (1..m + 1) PROVE \E f : f \in Places(T)
    OBVIOUS
  <2> DEFINE U == T \ {m + 1}
             c == Cardinality(U)
  <2>1. U \in SUBSET (1..m)
    OBVIOUS
  <2>2. PICK g : g \in Places(U)
    BY <1>2, <2>1
  <2>3. CASE m + 1 \notin T
    <3>1. U = T
      BY <2>3
    <3> QED
      BY <2>2, <3>1
  <2>4. CASE m + 1 \in T
    <3>1. c \in Nat /\ g \in [1..c -> U] /\ \A i, j \in 1..c : i < j => g[i] < g[j]
      BY <2>1, <2>2, PlacesAre DEF Places
    <3>2. IsFiniteSet(U)
      <4>1. IsFiniteSet(1..m)
        BY FS_Interval
      <4> QED
        BY <2>1, <4>1, FS_Subset
    <3>3. Cardinality(T) = c + 1
      <4>1. T = U \cup {m + 1} /\ m + 1 \notin U
        BY <2>4
      <4> HIDE DEF U
      <4> QED
        BY <3>2, <4>1, FS_AddElement
    <3> HIDE DEF c
    <3> DEFINE f == [i \in 1..c + 1 |-> IF i = c + 1 THEN m + 1 ELSE g[i]]
    <3>4. f \in [1..c + 1 -> T]
      BY <2>4, <3>1
    <3>5. ASSUME NEW i \in 1..c + 1, NEW j \in 1..c + 1, i < j PROVE f[i] < f[j]
      <4>1. i \in 1..c /\ f[i] = g[i]
        BY <3>1, <3>5
      <4>2. g[i] \in U /\ g[i] <= m /\ g[i] \in Int
        <5>1. \A x \in U : x <= m /\ x \in Int
          BY <2>1
        <5> QED
          BY <3>1, <4>1, <5>1
      <4>3. CASE j = c + 1
        BY <4>1, <4>2, <4>3
      <4>4. CASE j # c + 1
        <5>1. j \in 1..c /\ f[j] = g[j]
          BY <3>1, <4>4
        <5> QED
          BY <3>1, <3>5, <4>1, <5>1
      <4> QED
        BY <4>3, <4>4
    <3>6. f \in Places(T)
      BY <3>3, <3>4, <3>5, Zenon DEF Places
    <3> QED
      BY <3>6
  <2> QED
    BY <2>3, <2>4
<1>3. n \in Q
  <2> HIDE DEF Q
  <2> QED
    BY <1>1, <1>2, Induct
<1> QED
  BY <1>3

\* A list is thinned out when some of its elements are left, in their order.
Thinned(new, list, S) ==
    \E f \in [1..Len(new) -> 1..Len(list)] :
        /\ \A k \in 1..Len(new) : new[k] = list[f[k]]
        /\ \A k, m \in 1..Len(new) : k < m => f[k] < f[m]
        /\ \A k \in 1..Len(new) : f[k] \in S
        /\ \A i \in S : \E k \in 1..Len(new) : f[k] = i

LEMMA AtPlacesIs ==
    ASSUME NEW E, NEW list \in Seq(E), NEW S \in SUBSET DOMAIN list
    PROVE  AtPlaces(list, S) \in Seq(E) /\ Thinned(AtPlaces(list, S), list, S)
<1> DEFINE f == CHOOSE g \in Places(S) : TRUE
           c == Cardinality(S)
           n == Len(list)
           new == AtPlaces(list, S)
<1>0. n \in Nat /\ DOMAIN list = 1..n /\ S \in SUBSET (1..n)
  OBVIOUS
<1>1. f \in Places(S)
  <2>1. \E g : g \in Places(S)
    BY <1>0, PlacesExist
  <2> QED
    BY <2>1
<1>2. new = [k \in DOMAIN f |-> list[f[k]]]
  BY DEF AtPlaces
<1> HIDE DEF f, new, n
<1>3. c \in Nat /\ f \in [1..c -> S] /\ \A x \in S : \E k \in 1..c : f[k] = x
  BY <1>0, <1>1, PlacesAre
<1>4. \A i, j \in 1..c : i < j => f[i] < f[j]
  BY <1>1, <1>3 DEF Places
<1> HIDE DEF c
<1>5. new = [k \in 1..c |-> list[f[k]]]
  BY <1>2, <1>3
<1>6. \A k \in 1..c : list[f[k]] \in E
  <2>1. \A i \in S : list[i] \in E
    BY <1>0
  <2> QED
    BY <1>3, <2>1
<1>7. new \in Seq(E) /\ Len(new) = c
  BY <1>3, <1>5, <1>6
<1>8. f \in [1..c -> 1..n] /\ \A k \in 1..c : f[k] \in S /\ new[k] = list[f[k]]
  BY <1>0, <1>3, <1>5
<1>9. Thinned(new, list, S)
  BY <1>3, <1>4, <1>7, <1>8 DEF Thinned, n
<1> QED
  BY <1>7, <1>9 DEF new

\* A list without the element at i is thinned out.
LEMMA RemoveAtThins ==
    ASSUME NEW E, NEW list \in Seq(E), NEW i \in DOMAIN list
    PROVE  RemoveAt(list, i) \in Seq(E) /\ Thinned(RemoveAt(list, i), list, DOMAIN list \ {i})
<1> DEFINE new == RemoveAt(list, i)
           n == Len(list)
           f == [k \in 1..Len(new) |-> IF k < i THEN k ELSE k + 1]
<1>1. /\ new \in Seq(E) /\ Len(new) = Len(list) - 1
      /\ \A j \in DOMAIN new : new[j] = IF j < i THEN list[j] ELSE list[j + 1]
  BY RemoveAtIs
<1> HIDE DEF new
<1>2. n \in Nat /\ i \in 1..n /\ DOMAIN list = 1..n /\ DOMAIN new = 1..n - 1 /\ Len(new) = n - 1
  BY <1>1
<1> HIDE DEF n
<1>3. \A k \in 1..n - 1 : new[k] = list[f[k]] /\ f[k] \in (1..n) \ {i}
  BY <1>1, <1>2
<1>4. \A k, m \in 1..n - 1 : k < m => f[k] < f[m]
  BY <1>2
<1>5. ASSUME NEW j \in (1..n) \ {i} PROVE \E k \in 1..n - 1 : f[k] = j
  <2>1. CASE j < i
    BY <1>2, <2>1
  <2>2. CASE ~(j < i)
    <3>1. j - 1 \in 1..n - 1 /\ ~(j - 1 < i) /\ (j - 1) + 1 = j
      BY <1>2, <2>2
    <3> QED
      BY <1>2, <3>1
  <2> QED
    BY <2>1, <2>2
<1>6. f \in [1..n - 1 -> 1..n]
  BY <1>2, <1>3
<1> HIDE DEF f
<1>7. Thinned(new, list, (1..n) \ {i})
  <2>1. /\ f \in [1..Len(new) -> 1..Len(list)]
        /\ \A k \in 1..Len(new) : new[k] = list[f[k]] /\ f[k] \in (1..n) \ {i}
        /\ \A k, m \in 1..Len(new) : k < m => f[k] < f[m]
        /\ \A j \in (1..n) \ {i} : \E k \in 1..Len(new) : f[k] = j
    BY <1>2, <1>3, <1>4, <1>5, <1>6 DEF n
  <2> QED
    BY <2>1, Zenon DEF Thinned
<1> QED
  BY <1>1, <1>2, <1>7 DEF new

-----------------------------------------------------------------------------
(* The handlers of a signal and the walk of an emission                     *)

\* The handlers are in order of priority, their numbers are distinct and below the next.
GoodList(d) ==
    /\ \A i, j \in DOMAIN d.handlers : d.handlers[i].id = d.handlers[j].id => i = j
    /\ \A i, j \in DOMAIN d.handlers : i < j => d.handlers[i].priority <= d.handlers[j].priority
    /\ \A i \in DOMAIN d.handlers : d.handlers[i].id < d.next_handler_id

EmissionData ==
    [instance : Instance, signal : Signal, data : Nat, returns : BOOLEAN, current : Nat,
     next : Nat, atStart : SUBSET Nat, called : Seq(Nat)]

\* What was called is before the node the walk kept, and what was there at the start and
\* was not called is not before it.
Walk(e, d) ==
    /\ d.id = e.data /\ e.data # 0
    /\ e.next = NoNode \/ \E j \in DOMAIN d.handlers : d.handlers[j].id = e.next
    /\ \A m, n \in DOMAIN e.called : e.called[m] = e.called[n] => m = n
    /\ \A m \in DOMAIN e.called : e.called[m] < d.next_handler_id
    /\ \A x \in e.atStart : x < d.next_handler_id
    /\ \A i, j \in DOMAIN d.handlers : \A m \in DOMAIN e.called :
            d.handlers[i].id = e.called[m] /\ d.handlers[j].id = e.next => i < j
    /\ \A i \in DOMAIN d.handlers :
            d.handlers[i].id \in e.atStart =>
                \/ \E m \in DOMAIN e.called : d.handlers[i].id = e.called[m]
                \/ \E j \in DOMAIN d.handlers : d.handlers[j].id = e.next /\ j <= i
    /\ \A i, j \in DOMAIN d.handlers : \A m, n \in DOMAIN e.called :
            d.handlers[i].id = e.called[m] /\ d.handlers[j].id = e.called[n] /\ i < j => m < n

\* A list changes: handlers go and new ones come, and those that stay keep their order.
Changed(d, new) ==
    /\ new.id = d.id /\ d.next_handler_id <= new.next_handler_id
    /\ \E f : /\ \A k \in DOMAIN new.handlers : new.handlers[k].id < d.next_handler_id =>
                    f[k] \in DOMAIN d.handlers /\ d.handlers[f[k]].id = new.handlers[k].id
              /\ \A k, m \in DOMAIN new.handlers :
                    /\ new.handlers[k].id < d.next_handler_id
                    /\ new.handlers[m].id < d.next_handler_id
                    /\ k < m
                    => f[k] < f[m]

SignalRange == {Absent} \cup SignalData

LEMMA HandlerFields ==
    ASSUME NEW h \in HandlerData
    PROVE  h.id \in Nat /\ h.id # 0 /\ h.handle \in Handle /\ h.priority \in Nat
<1>1. h.id \in 1..MaxHandlerId /\ h.handle \in Handle /\ h.priority \in Priority
  BY DEF HandlerData
<1>2. MaxHandlerId \in Nat
  BY SignalsAssumption
<1>3. \A x \in Priority : x \in Nat
  BY SignalsAssumption
<1>4. \A x \in 1..MaxHandlerId : x \in Nat /\ x # 0
  BY <1>2
<1> QED
  BY <1>1, <1>3, <1>4, Zenon

LEMMA SignalFields ==
    ASSUME NEW d \in SignalRange
    PROVE  /\ d.id \in Nat /\ d.next_handler_id \in Nat /\ d.handlers \in Seq(HandlerData)
           /\ Len(d.handlers) \in Nat /\ DOMAIN d.handlers = 1..Len(d.handlers)
           /\ \A i \in DOMAIN d.handlers :
                /\ d.handlers[i] \in HandlerData
                /\ d.handlers[i].id \in Nat /\ d.handlers[i].id # 0
                /\ d.handlers[i].priority \in Nat
<1>1. d.id \in Nat /\ d.next_handler_id \in Nat /\ d.handlers \in Seq(HandlerData)
  <2>1. CASE d = Absent
    BY <2>1 DEF Absent
  <2>2. CASE d \in SignalData
    BY <2>2, SignalsAssumption DEF SignalData
  <2> QED
    BY <2>1, <2>2 DEF SignalRange
<1>2. \A i \in DOMAIN d.handlers : d.handlers[i] \in HandlerData
  BY <1>1
<1>3. \A i \in DOMAIN d.handlers :
        /\ d.handlers[i].id \in Nat /\ d.handlers[i].id # 0
        /\ d.handlers[i].priority \in Nat
  BY <1>2, HandlerFields
<1> QED
  BY <1>1, <1>2, <1>3

LEMMA EmissionFields ==
    ASSUME NEW e \in EmissionData
    PROVE  /\ e.instance \in Instance /\ e.signal \in Signal /\ e.data \in Nat
           /\ e.returns \in BOOLEAN /\ e.current \in Nat /\ e.next \in Nat
           /\ e.atStart \in SUBSET Nat /\ e.called \in Seq(Nat)
           /\ Len(e.called) \in Nat /\ DOMAIN e.called = 1..Len(e.called)
           /\ \A m \in DOMAIN e.called : e.called[m] \in Nat
<1>1. /\ e.instance \in Instance /\ e.signal \in Signal /\ e.data \in Nat
      /\ e.returns \in BOOLEAN /\ e.current \in Nat /\ e.next \in Nat
      /\ e.atStart \in SUBSET Nat /\ e.called \in Seq(Nat)
  BY DEF EmissionData
<1> QED
  BY <1>1

\* A walk goes on through a change that leaves the node it kept.
LEMMA WalkGoesOn ==
    ASSUME NEW e \in EmissionData, NEW d \in SignalRange, NEW new \in SignalRange,
           GoodList(d), Walk(e, d), Changed(d, new),
           e.next = NoNode \/ \E j \in DOMAIN new.handlers : new.handlers[j].id = e.next
    PROVE  Walk(e, new)
<1> DEFINE hs == d.handlers
           ns == new.handlers
           c == e.called
           lim == d.next_handler_id
           nx == e.next
           st == e.atStart
           Old(k) == ns[k].id < lim
<1>1. /\ Len(hs) \in Nat /\ DOMAIN hs = 1..Len(hs) /\ Len(ns) \in Nat /\ DOMAIN ns = 1..Len(ns)
      /\ lim \in Nat /\ new.next_handler_id \in Nat
      /\ \A i \in DOMAIN hs : hs[i].id \in Nat /\ hs[i].id # 0
      /\ \A i \in DOMAIN ns : ns[i].id \in Nat /\ ns[i].id # 0
  BY SignalFields
<1>2. /\ nx \in Nat /\ st \in SUBSET Nat /\ Len(c) \in Nat /\ DOMAIN c = 1..Len(c)
      /\ \A m \in DOMAIN c : c[m] \in Nat
  BY EmissionFields
<1>3. /\ new.id = d.id /\ lim <= new.next_handler_id
      /\ \E f : /\ \A k \in DOMAIN ns : Old(k) => f[k] \in DOMAIN hs /\ hs[f[k]].id = ns[k].id
                /\ \A k, m \in DOMAIN ns : Old(k) /\ Old(m) /\ k < m => f[k] < f[m]
  BY Zenon DEF Changed
<1>4. PICK f : /\ \A k \in DOMAIN ns : Old(k) => f[k] \in DOMAIN hs /\ hs[f[k]].id = ns[k].id
               /\ \A k, m \in DOMAIN ns : Old(k) /\ Old(m) /\ k < m => f[k] < f[m]
  BY <1>3
<1>5. /\ \A i, j \in DOMAIN hs : hs[i].id = hs[j].id => i = j
      /\ \A i \in DOMAIN hs : hs[i].id < lim
  BY DEF GoodList
<1>6. /\ d.id = e.data /\ e.data # 0
      /\ nx = NoNode \/ \E j \in DOMAIN hs : hs[j].id = nx
      /\ \A m, n \in DOMAIN c : c[m] = c[n] => m = n
      /\ \A m \in DOMAIN c : c[m] < lim
      /\ \A x \in st : x < lim
  BY DEF Walk
<1>7. \A i, j \in DOMAIN hs : \A m \in DOMAIN c : hs[i].id = c[m] /\ hs[j].id = nx => i < j
  BY DEF Walk
<1>8. \A i \in DOMAIN hs : hs[i].id \in st =>
                \/ \E m \in DOMAIN c : hs[i].id = c[m]
                \/ \E j \in DOMAIN hs : hs[j].id = nx /\ j <= i
  BY DEF Walk
<1>9. \A i, j \in DOMAIN hs : \A m, n \in DOMAIN c :
            hs[i].id = c[m] /\ hs[j].id = c[n] /\ i < j => m < n
  BY DEF Walk
<1>10. nx = NoNode \/ \E j \in DOMAIN ns : ns[j].id = nx
  OBVIOUS
<1>11. \A j \in DOMAIN ns : ns[j].id = nx => Old(j)
  BY <1>1, <1>5, <1>6 DEF NoNode
<1>12. \A k, m \in DOMAIN ns : Old(k) /\ Old(m) => (k < m <=> f[k] < f[m]) /\ k \in Int /\ m \in Int
  <2> SUFFICES ASSUME NEW k \in DOMAIN ns, NEW m \in DOMAIN ns, Old(k), Old(m)
               PROVE  (k < m <=> f[k] < f[m]) /\ k \in Int /\ m \in Int
    OBVIOUS
  <2>1. k \in Int /\ m \in Int
    BY <1>1
  <2>2. f[k] \in Int /\ f[m] \in Int
    <3>1. f[k] \in DOMAIN hs /\ f[m] \in DOMAIN hs
      BY <1>4
    <3> QED
      BY <1>1, <3>1
  <2>3. (k < m => f[k] < f[m]) /\ (m < k => f[m] < f[k])
    BY <1>4
  <2> HIDE DEF Old, ns, hs
  <2> QED
    BY <2>1, <2>2, <2>3
<1> HIDE DEF hs, ns, c, lim, nx, st
<1>13. ASSUME NEW i \in DOMAIN ns, NEW j \in DOMAIN ns, NEW m \in DOMAIN c,
              ns[i].id = c[m], ns[j].id = nx
       PROVE  i < j
  <2>1. Old(i) /\ Old(j)
    BY <1>6, <1>11, <1>13
  <2>2. f[i] \in DOMAIN hs /\ hs[f[i]].id = c[m] /\ f[j] \in DOMAIN hs /\ hs[f[j]].id = nx
    BY <1>4, <1>13, <2>1
  <2> QED
    BY <1>7, <1>12, <2>1, <2>2
<1>14. ASSUME NEW i \in DOMAIN ns, ns[i].id \in st
       PROVE  \/ \E m \in DOMAIN c : ns[i].id = c[m]
              \/ \E j \in DOMAIN ns : ns[j].id = nx /\ j <= i
  <2>1. Old(i)
    BY <1>6, <1>14
  <2>2. f[i] \in DOMAIN hs /\ hs[f[i]].id = ns[i].id
    BY <1>4, <2>1
  <2>3. CASE \E m \in DOMAIN c : ns[i].id = c[m]
    BY <2>3
  <2>4. CASE \E j \in DOMAIN hs : hs[j].id = nx /\ j <= f[i]
    <3>1. PICK j \in DOMAIN hs : hs[j].id = nx /\ j <= f[i]
      BY <2>4
    <3>2. PICK k \in DOMAIN ns : ns[k].id = nx
      BY <1>1, <1>10, <3>1 DEF NoNode
    <3>3. Old(k) /\ f[k] \in DOMAIN hs /\ hs[f[k]].id = nx
      BY <1>4, <1>11, <3>2
    <3>4. f[k] = j
      BY <1>5, <3>1, <3>3
    <3>5. ~(i < k)
      <4>1. j \in Int /\ f[i] \in Int
        BY <1>1, <2>2
      <4>2. ~(f[i] < f[k])
        BY <3>1, <3>4, <4>1
      <4> QED
        BY <1>12, <2>1, <3>3, <4>2
    <3>6. k <= i
      <4>1. i \in Int /\ k \in Int
        BY <1>1
      <4> QED
        BY <3>5, <4>1
    <3> QED
      BY <3>2, <3>6
  <2> QED
    BY <1>8, <1>14, <2>2, <2>3, <2>4
<1>15. ASSUME NEW i \in DOMAIN ns, NEW j \in DOMAIN ns, NEW m \in DOMAIN c, NEW n \in DOMAIN c,
              ns[i].id = c[m], ns[j].id = c[n], i < j
       PROVE  m < n
  <2>1. Old(i) /\ Old(j)
    BY <1>6, <1>15
  <2>2. f[i] \in DOMAIN hs /\ hs[f[i]].id = c[m] /\ f[j] \in DOMAIN hs /\ hs[f[j]].id = c[n]
    BY <1>4, <1>15, <2>1
  <2>3. f[i] < f[j]
    BY <1>4, <1>15, <2>1
  <2> QED
    BY <1>9, <2>2, <2>3
<1>16. /\ \A m \in DOMAIN c : c[m] < new.next_handler_id
       /\ \A x \in st : x < new.next_handler_id
  BY <1>1, <1>2, <1>3, <1>6
<1>17. new.id = e.data /\ e.data # 0 /\ \A m, n \in DOMAIN c : c[m] = c[n] => m = n
  BY <1>3, <1>6
<1> QED
  BY <1>10, <1>13, <1>14, <1>15, <1>16, <1>17, Zenon DEF Walk, hs, ns, c, lim, nx, st

LEMMA PositionIs ==
    ASSUME NEW d \in SignalRange, GoodList(d), NEW k \in DOMAIN d.handlers
    PROVE  Position(d.handlers, d.handlers[k].id) = k
BY DEF GoodList, Position

LEMMA NodeAfterIs ==
    ASSUME NEW d \in SignalRange, GoodList(d), NEW k \in DOMAIN d.handlers
    PROVE  NodeAfter(d.handlers, d.handlers[k].id)
                = IF k = Len(d.handlers) THEN NoNode ELSE d.handlers[k + 1].id
BY PositionIs, Zenon DEF NodeAfter

LEMMA VisitFields ==
    ASSUME NEW e \in EmissionData, NEW hs, NEW id \in Nat, NodeAfter(hs, id) \in Nat
    PROVE  /\ Visit(e, hs, id) \in EmissionData
           /\ Visit(e, hs, id).instance = e.instance /\ Visit(e, hs, id).signal = e.signal
           /\ Visit(e, hs, id).data = e.data /\ Visit(e, hs, id).atStart = e.atStart
           /\ Visit(e, hs, id).returns = e.returns
           /\ Visit(e, hs, id).called = Append(e.called, id)
           /\ Visit(e, hs, id).current = id
           /\ Visit(e, hs, id).next = NodeAfter(hs, id)
<1> DEFINE v(c, n) == [e EXCEPT !.current = id, !.called = c, !.next = n]
<1>1. Append(e.called, id) \in Seq(Nat)
  BY EmissionFields
<1>2. \A n \in Nat, c \in Seq(Nat) :
        /\ v(c, n) \in EmissionData
        /\ v(c, n).instance = e.instance /\ v(c, n).signal = e.signal
        /\ v(c, n).data = e.data /\ v(c, n).atStart = e.atStart /\ v(c, n).returns = e.returns
        /\ v(c, n).called = c /\ v(c, n).current = id /\ v(c, n).next = n
  BY DEF EmissionData
<1>3. Visit(e, hs, id) = v(Append(e.called, id), NodeAfter(hs, id))
  BY DEF Visit, EmissionData
<1> DEFINE w == v(Append(e.called, id), NodeAfter(hs, id))
<1> HIDE DEF v
<1>4. /\ w \in EmissionData
      /\ w.instance = e.instance /\ w.signal = e.signal
      /\ w.data = e.data /\ w.atStart = e.atStart /\ w.returns = e.returns
      /\ w.called = Append(e.called, id) /\ w.current = id /\ w.next = NodeAfter(hs, id)
  BY <1>1, <1>2, Zenon
<1>5. Visit(e, hs, id) = w
  BY <1>3
<1> HIDE DEF w
<1> QED
  BY <1>4, <1>5

\* The walk visits the node it kept.
LEMMA WalkVisits ==
    ASSUME NEW e \in EmissionData, NEW d \in SignalRange, GoodList(d), Walk(e, d),
           e.next # NoNode
    PROVE  /\ Visit(e, d.handlers, e.next) \in EmissionData
           /\ Walk(Visit(e, d.handlers, e.next), d)
<1> DEFINE hs == d.handlers
           c == e.called
           lim == d.next_handler_id
           nx == e.next
           st == e.atStart
           v == Visit(e, hs, nx)
           vc == Append(c, nx)
           vn == NodeAfter(hs, nx)
           l == Len(c)
<1>1. /\ Len(hs) \in Nat /\ DOMAIN hs = 1..Len(hs) /\ lim \in Nat
      /\ \A i \in DOMAIN hs : hs[i].id \in Nat /\ hs[i].id # 0
  BY SignalFields
<1>2. /\ nx \in Nat /\ st \in SUBSET Nat /\ l \in Nat /\ DOMAIN c = 1..l /\ c \in Seq(Nat)
      /\ \A m \in DOMAIN c : c[m] \in Nat
  BY EmissionFields
<1>5. /\ \A i, j \in DOMAIN hs : hs[i].id = hs[j].id => i = j
      /\ \A i \in DOMAIN hs : hs[i].id < lim
  BY DEF GoodList
<1>6. /\ d.id = e.data /\ e.data # 0
      /\ nx = NoNode \/ \E j \in DOMAIN hs : hs[j].id = nx
      /\ \A m, n \in DOMAIN c : c[m] = c[n] => m = n
      /\ \A m \in DOMAIN c : c[m] < lim
      /\ \A x \in st : x < lim
  BY DEF Walk
<1>7. \A i, j \in DOMAIN hs : \A m \in DOMAIN c : hs[i].id = c[m] /\ hs[j].id = nx => i < j
  BY DEF Walk
<1>8. \A i \in DOMAIN hs : hs[i].id \in st =>
                \/ \E m \in DOMAIN c : hs[i].id = c[m]
                \/ \E j \in DOMAIN hs : hs[j].id = nx /\ j <= i
  BY DEF Walk
<1>9. \A i, j \in DOMAIN hs : \A m, n \in DOMAIN c :
            hs[i].id = c[m] /\ hs[j].id = c[n] /\ i < j => m < n
  BY DEF Walk
<1>10. PICK p \in DOMAIN hs : hs[p].id = nx
  BY <1>6
<1>11. vn = IF p = Len(hs) THEN NoNode ELSE hs[p + 1].id
  BY <1>10, NodeAfterIs
<1>12. vn \in Nat
  BY <1>1, <1>11 DEF NoNode
<1>13. /\ v \in EmissionData
       /\ v.data = e.data /\ v.atStart = st /\ v.called = vc /\ v.next = vn
  BY <1>2, <1>12, VisitFields
<1>14. DOMAIN vc = 1..l + 1 /\ \A m \in 1..l + 1 : vc[m] = IF m = l + 1 THEN nx ELSE c[m]
  BY <1>2
<1> HIDE DEF hs, c, lim, nx, st, vc, v, vn, l
<1>15. \A m \in 1..l : c[m] # nx
  <2> SUFFICES ASSUME NEW m \in 1..l, c[m] = nx PROVE FALSE
    OBVIOUS
  <2>1. p < p
    BY <1>2, <1>7, <1>10
  <2> QED
    BY <1>1, <2>1
<1>16. \A m, n \in 1..l + 1 : vc[m] = vc[n] => m = n
  <2> SUFFICES ASSUME NEW m \in 1..l + 1, NEW n \in 1..l + 1, vc[m] = vc[n] PROVE m = n
    OBVIOUS
  <2>1. CASE m = l + 1 /\ n # l + 1
    <3>1. n \in 1..l
      BY <1>2, <2>1
    <3> QED
      BY <1>14, <1>15, <2>1, <3>1
  <2>2. CASE n = l + 1 /\ m # l + 1
    <3>1. m \in 1..l
      BY <1>2, <2>2
    <3> QED
      BY <1>14, <1>15, <2>2, <3>1
  <2>3. CASE n # l + 1 /\ m # l + 1
    <3>1. m \in 1..l /\ n \in 1..l
      BY <1>2, <2>3
    <3> QED
      BY <1>2, <1>6, <1>14, <2>3, <3>1
  <2> QED
    BY <2>1, <2>2, <2>3
<1>17. \A m \in 1..l + 1 : vc[m] < lim
  <2> SUFFICES ASSUME NEW m \in 1..l + 1 PROVE vc[m] < lim
    OBVIOUS
  <2>1. CASE m = l + 1
    BY <1>5, <1>10, <1>14, <2>1
  <2>2. CASE m # l + 1
    <3>1. m \in 1..l
      BY <1>2, <2>2
    <3> QED
      BY <1>2, <1>6, <1>14, <2>2, <3>1
  <2> QED
    BY <2>1, <2>2
<1>18. vn = NoNode \/ \E j \in DOMAIN hs : hs[j].id = vn
  <2>1. CASE p # Len(hs)
    <3>1. p + 1 \in DOMAIN hs
      BY <1>1, <2>1
    <3> QED
      BY <1>11, <2>1, <3>1
  <2> QED
    BY <1>11, <2>1
<1>19. \A j \in DOMAIN hs : hs[j].id = vn => j = p + 1
  <2> SUFFICES ASSUME NEW j \in DOMAIN hs, hs[j].id = vn PROVE j = p + 1
    OBVIOUS
  <2>1. p # Len(hs) /\ hs[p + 1].id = hs[j].id
    BY <1>1, <1>11 DEF NoNode
  <2>2. p + 1 \in DOMAIN hs
    BY <1>1, <2>1
  <2> QED
    BY <1>5, <2>1, <2>2
<1>20. ASSUME NEW i \in DOMAIN hs, NEW j \in DOMAIN hs, NEW m \in 1..l + 1,
              hs[i].id = vc[m], hs[j].id = vn
       PROVE  i < j
  <2>1. j = p + 1 /\ p \in Int /\ i \in Int
    BY <1>1, <1>19, <1>20
  <2>2. CASE m = l + 1
    <3>1. hs[i].id = hs[p].id
      BY <1>10, <1>14, <1>20, <2>2
    <3>2. i = p
      BY <1>5, <3>1
    <3> QED
      BY <2>1, <3>2
  <2>3. CASE m # l + 1
    <3>1. m \in 1..l
      BY <1>2, <2>3
    <3>2. i < p
      BY <1>2, <1>7, <1>10, <1>14, <1>20, <2>3, <3>1
    <3> QED
      BY <2>1, <3>2
  <2> QED
    BY <2>2, <2>3
<1>21. ASSUME NEW i \in DOMAIN hs, hs[i].id \in st
       PROVE  \/ \E m \in 1..l + 1 : hs[i].id = vc[m]
              \/ \E j \in DOMAIN hs : hs[j].id = vn /\ j <= i
  <2>1. CASE \E m \in DOMAIN c : hs[i].id = c[m]
    <3>1. PICK m \in 1..l : hs[i].id = c[m]
      BY <1>2, <2>1
    <3>2. m \in 1..l + 1 /\ m # l + 1
      BY <1>2
    <3> QED
      BY <1>14, <3>1, <3>2
  <2>2. CASE \E j \in DOMAIN hs : hs[j].id = nx /\ j <= i
    <3>1. p <= i
      BY <1>5, <1>10, <2>2
    <3>2. CASE i = p
      <4>1. l + 1 \in 1..l + 1
        BY <1>2
      <4>2. vc[l + 1] = nx
        BY <1>14, <4>1
      <4> QED
        BY <1>10, <3>2, <4>1, <4>2
    <3>3. CASE i # p
      <4>1. p # Len(hs) /\ p + 1 \in DOMAIN hs /\ p + 1 <= i
        BY <1>1, <3>1, <3>3
      <4>2. hs[p + 1].id = vn
        BY <1>11, <4>1
      <4> QED
        BY <4>1, <4>2
    <3> QED
      BY <3>2, <3>3
  <2> QED
    BY <1>8, <1>21, <2>1, <2>2
<1>22. ASSUME NEW i \in DOMAIN hs, NEW j \in DOMAIN hs, NEW m \in 1..l + 1, NEW n \in 1..l + 1,
              hs[i].id = vc[m], hs[j].id = vc[n], i < j
       PROVE  m < n
  <2>0. m \in Int /\ n \in Int /\ l \in Int /\ i \in Int /\ j \in Int /\ p \in Int
    BY <1>1, <1>2
  <2>1. CASE n = l + 1
    <3>1. hs[j].id = hs[p].id
      BY <1>10, <1>14, <1>22, <2>1
    <3>2. m # l + 1
      <4>1. ASSUME m = l + 1 PROVE FALSE
        <5>1. hs[i].id = hs[j].id
          BY <1>22, <2>1, <4>1
        <5>2. i = j
          BY <1>5, <5>1
        <5> QED
          BY <1>22, <2>0, <5>2
      <4> QED
        BY <4>1
    <3> QED
      BY <2>0, <2>1, <3>2
  <2>2. CASE n # l + 1
    <3>1. n \in 1..l /\ hs[j].id = c[n]
      BY <1>2, <1>14, <1>22, <2>2
    <3>2. j < p
      BY <1>2, <1>7, <1>10, <3>1
    <3>3. m # l + 1
      <4>1. ASSUME m = l + 1 PROVE FALSE
        <5>1. hs[i].id = hs[p].id
          BY <1>10, <1>14, <1>22, <4>1
        <5>2. i = p
          BY <1>5, <5>1
        <5> QED
          BY <1>22, <2>0, <3>2, <5>2
      <4> QED
        BY <4>1
    <3>4. m \in 1..l /\ hs[i].id = c[m]
      BY <1>2, <1>14, <1>22, <3>3
    <3> QED
      BY <1>2, <1>9, <1>22, <3>1, <3>4
  <2> QED
    BY <2>1, <2>2
<1>23. v.called = vc /\ DOMAIN v.called = 1..l + 1
  BY <1>13, <1>14
<1>24. d.id = v.data /\ v.data # 0 /\ \A x \in v.atStart : x < lim
  BY <1>6, <1>13
<1>25. v.next = vn /\ v.atStart = st
  BY <1>13
<1>26. Walk(v, d)
  BY <1>16, <1>17, <1>18, <1>20, <1>21, <1>22, <1>23, <1>24, <1>25, Zenon DEF Walk, hs, lim
<1> QED
  BY <1>13, <1>26 DEF v, hs, nx

\* The signal data with other handlers.
Put(d, hs) == [d EXCEPT !.handlers = hs]

LEMMA PutIs ==
    ASSUME NEW d \in SignalRange, NEW hs \in Seq(HandlerData), d = Absent => hs = <<>>
    PROVE  /\ Put(d, hs) \in SignalRange
           /\ Put(d, hs).id = d.id /\ Put(d, hs).next_handler_id = d.next_handler_id
           /\ Put(d, hs).handlers = hs
<1>1. CASE d = Absent
  BY <1>1 DEF Absent, Put, SignalRange
<1>2. CASE d \in SignalData
  BY <1>2 DEF SignalData, Put, SignalRange
<1> QED
  BY <1>1, <1>2 DEF SignalRange

\* Handlers go: the list stays in order and keeps what it was not to lose.
LEMMA ThinnedList ==
    ASSUME NEW d \in SignalRange, GoodList(d), NEW ns \in Seq(HandlerData),
           NEW S \in SUBSET DOMAIN d.handlers, Thinned(ns, d.handlers, S)
    PROVE  /\ Put(d, ns) \in SignalRange /\ GoodList(Put(d, ns)) /\ Changed(d, Put(d, ns))
           /\ Put(d, ns).id = d.id
           /\ \A i \in S : \E j \in DOMAIN Put(d, ns).handlers :
                    Put(d, ns).handlers[j].id = d.handlers[i].id
<1> DEFINE hs == d.handlers
           new == Put(d, ns)
           lim == d.next_handler_id
<1>1. /\ hs \in Seq(HandlerData) /\ lim \in Nat
      /\ Len(hs) \in Nat /\ DOMAIN hs = 1..Len(hs) /\ Len(ns) \in Nat /\ DOMAIN ns = 1..Len(ns)
      /\ \A i \in DOMAIN hs : hs[i].id \in Nat /\ hs[i].priority \in Nat
  BY SignalFields
<1>2. PICK f \in [1..Len(ns) -> 1..Len(hs)] :
        /\ \A k \in 1..Len(ns) : ns[k] = hs[f[k]]
        /\ \A k, m \in 1..Len(ns) : k < m => f[k] < f[m]
        /\ \A k \in 1..Len(ns) : f[k] \in S
        /\ \A i \in S : \E k \in 1..Len(ns) : f[k] = i
  BY DEF Thinned
<1>3. d = Absent => ns = <<>>
  <2>1. d = Absent => Len(hs) = 0
    BY DEF Absent
  <2>2. Len(hs) = 0 => Len(ns) = 0
    <3>1. SUFFICES ASSUME Len(hs) = 0, Len(ns) # 0 PROVE FALSE
      OBVIOUS
    <3>2. 1 \in 1..Len(ns) /\ 1..Len(hs) = {}
      BY <1>1, <3>1
    <3> QED
      BY <1>2, <3>2
  <2> QED
    BY <2>1, <2>2
<1>4. /\ new \in SignalRange /\ new.id = d.id /\ new.next_handler_id = lim /\ new.handlers = ns
  BY <1>3, PutIs
<1>5. /\ \A i, j \in DOMAIN hs : hs[i].id = hs[j].id => i = j
      /\ \A i, j \in DOMAIN hs : i < j => hs[i].priority <= hs[j].priority
      /\ \A i \in DOMAIN hs : hs[i].id < lim
  BY DEF GoodList
<1> HIDE DEF hs, new, lim
<1>6. \A k \in DOMAIN ns : f[k] \in DOMAIN hs /\ ns[k] = hs[f[k]] /\ f[k] \in Int /\ k \in Int
  BY <1>1, <1>2
<1>7. \A k, m \in DOMAIN ns : k < m => f[k] < f[m]
  BY <1>1, <1>2
<1>8. \A k, m \in DOMAIN ns : ns[k].id = ns[m].id => k = m
  <2> SUFFICES ASSUME NEW k \in DOMAIN ns, NEW m \in DOMAIN ns, ns[k].id = ns[m].id PROVE k = m
    OBVIOUS
  <2>1. f[k] = f[m]
    BY <1>5, <1>6
  <2>2. ~(k < m) /\ ~(m < k)
    BY <1>6, <1>7, <2>1
  <2> QED
    BY <1>6, <2>2
<1>9. \A k, m \in DOMAIN ns : k < m => ns[k].priority <= ns[m].priority
  BY <1>5, <1>6, <1>7
<1>10. \A k \in DOMAIN ns : ns[k].id < lim
  BY <1>5, <1>6
<1>11. GoodList(new)
  BY <1>4, <1>8, <1>9, <1>10 DEF GoodList
<1>12. lim <= lim
  BY <1>1
<1>13. Changed(d, new)
  <2>1. /\ \A k \in DOMAIN ns : f[k] \in DOMAIN hs /\ hs[f[k]].id = ns[k].id
        /\ \A k, m \in DOMAIN ns : k < m => f[k] < f[m]
    BY <1>6, <1>7
  <2> QED
    BY <1>4, <1>12, <2>1, Zenon DEF Changed, hs, lim
<1>14. \A i \in S : \E j \in DOMAIN ns : ns[j].id = hs[i].id
  BY <1>1, <1>2
<1> QED
  BY <1>4, <1>11, <1>13, <1>14 DEF new, hs

\* What oul_signal_disconnect leaves: all but the first handler of the handle.
LEMMA DisconnectedIs ==
    ASSUME NEW d \in SignalRange, NEW handle,
           \E i \in DOMAIN d.handlers : d.handlers[i].handle = handle
    PROVE  \E i \in DOMAIN d.handlers :
              /\ d.handlers[i].handle = handle
              /\ \A j \in DOMAIN d.handlers : d.handlers[j].handle = handle => i <= j
              /\ Disconnected(d.handlers, handle) = RemoveAt(d.handlers, i)
<1> DEFINE hs == d.handlers
           I == {i \in 1..Len(hs) : hs[i].handle = handle}
<1>1. Len(hs) \in Nat /\ DOMAIN hs = 1..Len(hs)
  BY SignalFields
<1>2. I # {} /\ I \subseteq Nat
  BY <1>1
<1>3. PICK m \in I : \A n \in I : m <= n
  BY <1>2, Least
<1>4. SelectInSeq(hs, LAMBDA h : h.handle = handle) = Min(I)
  BY <1>2, Zenon DEF SelectInSeq
<1>5. Min(I) = m
  <2>1. \A x \in I : (\A n \in I : x <= n) => x = m
    BY <1>2, <1>3
  <2>2. Min(I) = CHOOSE x \in I : \A n \in I : x <= n
    BY Zenon DEF Min
  <2> HIDE DEF I
  <2>3. (CHOOSE x \in I : \A n \in I : x <= n) \in I
       /\ \A n \in I : (CHOOSE x \in I : \A k \in I : x <= k) <= n
    BY <1>3, Zenon
  <2> QED
    BY <2>1, <2>2, <2>3
<1>6. Disconnected(hs, handle) = RemoveAt(hs, SelectInSeq(hs, LAMBDA h : h.handle = handle))
  BY <1>1, Zenon DEF Disconnected, RemoveFirstMatch
<1>7. m \in DOMAIN hs /\ hs[m].handle = handle
  BY <1>1, <1>3
<1>8. \A j \in DOMAIN hs : hs[j].handle = handle => m <= j
  BY <1>1, <1>3
<1> QED
  BY <1>4, <1>5, <1>6, <1>7, <1>8

\* A set of numbers up to n that has with a number all smaller ones.
LEMMA LowerPart ==
    ASSUME NEW n \in Nat, NEW S \in SUBSET (1..n),
           \A j \in S, i \in 1..n : i < j => i \in S
    PROVE  Cardinality(S) \in 0..n /\ S = 1..Cardinality(S)
<1> DEFINE T == {m \in Nat : m + 1 \notin S}
<1>1. T # {}
  <2>1. n + 1 \notin S
    OBVIOUS
  <2> QED
    BY <2>1
<1>2. PICK m \in T : \A k \in T : m <= k
  <2>1. T \subseteq Nat
    OBVIOUS
  <2> QED
    BY <1>1, <2>1, Least
<1>3. m \in Nat /\ m + 1 \notin S
  OBVIOUS
<1>4. \A i \in 1..m : i \in S
  <2> SUFFICES ASSUME NEW i \in 1..m, i \notin S PROVE FALSE
    OBVIOUS
  <2>1. i - 1 \in Nat /\ (i - 1) + 1 = i /\ i - 1 < m
    BY <1>3
  <2>2. i - 1 \in T
    BY <2>1
  <2> QED
    BY <1>2, <1>3, <2>1, <2>2
<1>5. \A i \in S : i \in 1..m
  <2> SUFFICES ASSUME NEW i \in S, i \notin 1..m PROVE FALSE
    OBVIOUS
  <2>1. i \in 1..n
    OBVIOUS
  <2>2. i > m /\ m + 1 \in 1..n
    BY <1>3, <2>1
  <2>3. i = m + 1 \/ m + 1 < i
    BY <1>3, <2>1, <2>2
  <2> QED
    BY <1>3, <2>2, <2>3
<1>6. S = 1..m /\ m <= n
  <2>1. S = 1..m
    BY <1>4, <1>5
  <2>2. m = 0 \/ m \in 1..m
    BY <1>3
  <2>3. m = 0 \/ m \in 1..n
    BY <1>4, <2>2
  <2> QED
    BY <1>3, <2>1, <2>3
<1>7. Cardinality(1..m) = m
  BY <1>3, FS_Interval
<1> QED
  BY <1>3, <1>6, <1>7

LEMMA InsertAtIs ==
    ASSUME NEW E, NEW l \in Seq(E), NEW p \in 1..Len(l) + 1, NEW e \in E
    PROVE  /\ InsertAt(l, p, e) \in Seq(E) /\ Len(InsertAt(l, p, e)) = Len(l) + 1
           /\ \A j \in 1..Len(l) + 1 :
                 InsertAt(l, p, e)[j] = IF j < p THEN l[j] ELSE IF j = p THEN e ELSE l[j - 1]
<1> DEFINE x == SubSeq(l, 1, p - 1)
           y == SubSeq(l, p, Len(l))
           z == x \o <<e>>
           w == InsertAt(l, p, e)
           n == Len(l)
<1>1. n \in Nat /\ p \in Nat /\ 1 <= p /\ p <= n + 1
  OBVIOUS
<1>2. x \in Seq(E) /\ Len(x) = p - 1 /\ \A j \in 1..p - 1 : x[j] = l[j]
  BY <1>1
<1>3. y \in Seq(E) /\ Len(y) = n + 1 - p /\ \A j \in 1..n + 1 - p : y[j] = l[p + j - 1]
  BY <1>1
<1>4. w = z \o y
  BY DEF InsertAt
<1> HIDE DEF x, y, w, n
<1>5. z \in Seq(E) /\ Len(z) = p /\ \A j \in 1..p : z[j] = IF j < p THEN x[j] ELSE e
  BY <1>1, <1>2
<1> HIDE DEF z
<1>6. w \in Seq(E) /\ Len(w) = n + 1
  <2>0. z \in Seq(E) /\ y \in Seq(E)
    BY <1>3, <1>5, Zenon
  <2>1. z \o y \in Seq(E) /\ Len(z \o y) = Len(z) + Len(y)
    BY <2>0
  <2>2. Len(z) = p /\ Len(y) = n + 1 - p
    BY <1>3, <1>5
  <2>3. p + (n + 1 - p) = n + 1
    BY <1>1
  <2> QED
    BY <1>4, <2>1, <2>2, <2>3
<1>7. \A j \in 1..n + 1 : w[j] = IF j <= p THEN z[j] ELSE y[j - p]
  <2> SUFFICES ASSUME NEW j \in 1..n + 1 PROVE (z \o y)[j] = IF j <= p THEN z[j] ELSE y[j - p]
    BY <1>4
  <2>1. Len(z) = p /\ Len(y) \in Nat /\ j \in 1..Len(z) + Len(y)
    BY <1>1, <1>3, <1>5
  <2>2. (z \o y)[j] = IF j <= Len(z) THEN z[j] ELSE y[j - Len(z)]
    BY <1>3, <1>5, <2>1
  <2> QED
    BY <2>1, <2>2
<1>8. ASSUME NEW j \in 1..n + 1
      PROVE  w[j] = IF j < p THEN l[j] ELSE IF j = p THEN e ELSE l[j - 1]
  <2>1. CASE j < p
    <3>1. j \in 1..p /\ j \in 1..p - 1 /\ j <= p
      BY <1>1, <2>1
    <3> QED
      BY <1>2, <1>5, <1>7, <2>1, <3>1
  <2>2. CASE j = p
    <3>1. j \in 1..p /\ ~(j < p) /\ j <= p
      BY <1>1, <2>2
    <3> QED
      BY <1>5, <1>7, <2>2, <3>1
  <2>3. CASE j > p
    <3>1. j - p \in 1..n + 1 - p /\ p + (j - p) - 1 = j - 1 /\ ~(j <= p) /\ ~(j < p) /\ j # p
      BY <1>1, <2>3
    <3>2. w[j] = y[j - p]
      BY <1>7, <3>1
    <3>3. y[j - p] = l[j - 1]
      BY <1>3, <3>1
    <3> QED
      BY <3>1, <3>2, <3>3
  <2> QED
    BY <1>1, <2>1, <2>2, <2>3
<1> QED
  BY <1>6, <1>8 DEF w, n

\* The signal data with one handler more.
PutIn(d, h) == [d EXCEPT !.handlers = InsertSorted(d.handlers, h), !.next_handler_id = @ + 1]

\* A handler comes, with a number of its own: the list stays in order.
LEMMA InsertedList ==
    ASSUME NEW d \in SignalData, GoodList(d), NEW h \in HandlerData,
           h.id = d.next_handler_id, d.next_handler_id <= MaxHandlerId
    PROVE  /\ PutIn(d, h) \in SignalData /\ GoodList(PutIn(d, h)) /\ Changed(d, PutIn(d, h))
           /\ PutIn(d, h).id = d.id
           /\ \A i \in DOMAIN d.handlers : \E j \in DOMAIN PutIn(d, h).handlers :
                    PutIn(d, h).handlers[j].id = d.handlers[i].id
<1> DEFINE hs == d.handlers
           ns == InsertSorted(hs, h)
           n == Len(hs)
           lim == d.next_handler_id
           new == PutIn(d, h)
           S == {j \in DOMAIN hs : hs[j].priority < h.priority}
           p == Cardinality(S) + 1
<1>0. d \in SignalRange
  BY DEF SignalRange
<1>1. /\ hs \in Seq(HandlerData) /\ lim \in Nat /\ n \in Nat /\ DOMAIN hs = 1..n
      /\ \A i \in DOMAIN hs : hs[i].id \in Nat /\ hs[i].priority \in Nat
  BY <1>0, SignalFields
<1>2. /\ \A i, j \in DOMAIN hs : hs[i].id = hs[j].id => i = j
      /\ \A i, j \in DOMAIN hs : i < j => hs[i].priority <= hs[j].priority
      /\ \A i \in DOMAIN hs : hs[i].id < lim
  BY DEF GoodList
<1>3. h.priority \in Nat /\ h.id = lim
  BY HandlerFields
<1> HIDE DEF hs, n
<1>4. /\ S \in SUBSET (1..n)
      /\ \A j \in S, i \in 1..n : i < j => i \in S
  <2> SUFFICES ASSUME NEW j \in S, NEW i \in 1..n, i < j PROVE i \in S
    BY <1>1
  <2>1. i \in DOMAIN hs /\ j \in DOMAIN hs /\ hs[j].priority < h.priority
    BY <1>1
  <2>2. hs[i].priority <= hs[j].priority
    BY <1>2, <2>1
  <2>3. hs[i].priority \in Nat /\ hs[j].priority \in Nat
    BY <1>1, <2>1
  <2>4. hs[i].priority < h.priority
    BY <1>3, <2>1, <2>2, <2>3
  <2> QED
    BY <2>1, <2>4
<1>5. Cardinality(S) \in 0..n /\ S = 1..Cardinality(S)
  <2> HIDE DEF S
  <2> QED
    BY <1>1, <1>4, LowerPart
<1>6. p \in 1..n + 1 /\ \A j \in DOMAIN hs : j < p <=> hs[j].priority < h.priority
  <2>1. \A j \in DOMAIN hs : j \in S <=> hs[j].priority < h.priority
    OBVIOUS
  <2> HIDE DEF S
  <2>2. p \in 1..n + 1 /\ \A j \in 1..n : j \in S <=> j < p
    BY <1>1, <1>5
  <2> QED
    BY <1>1, <2>1, <2>2
<1>7. ns = InsertAt(hs, p, h)
  BY DEF InsertSorted
<1> HIDE DEF S, p, ns
<1>8. /\ ns \in Seq(HandlerData) /\ Len(ns) = n + 1 /\ DOMAIN ns = 1..n + 1
      /\ \A j \in 1..n + 1 : ns[j] = IF j < p THEN hs[j] ELSE IF j = p THEN h ELSE hs[j - 1]
  <2>1. p \in 1..Len(hs) + 1 /\ n = Len(hs)
    BY <1>6 DEF n
  <2> DEFINE w == InsertAt(hs, p, h)
  <2>2. /\ w \in Seq(HandlerData) /\ Len(w) = Len(hs) + 1
        /\ \A j \in 1..Len(hs) + 1 :
                w[j] = IF j < p THEN hs[j] ELSE IF j = p THEN h ELSE hs[j - 1]
    <3>1. hs \in Seq(HandlerData) /\ h \in HandlerData /\ p \in 1..Len(hs) + 1
      BY <1>1, <2>1
    <3> HIDE DEF w
    <3>2. /\ InsertAt(hs, p, h) \in Seq(HandlerData) /\ Len(InsertAt(hs, p, h)) = Len(hs) + 1
          /\ \A j \in 1..Len(hs) + 1 :
                InsertAt(hs, p, h)[j] = IF j < p THEN hs[j] ELSE IF j = p THEN h ELSE hs[j - 1]
      BY ONLY <3>1, InsertAtIs
    <3> QED
      BY ONLY <3>2, Zenon DEF w
  <2>3. ns = w
    BY <1>7
  <2> HIDE DEF w
  <2> QED
    BY <2>1, <2>2, <2>3
<1> DEFINE f == [k \in 1..n + 1 |-> IF k < p THEN k ELSE k - 1]
<1>9. \A k \in 1..n + 1 :
        /\ k # p => f[k] \in DOMAIN hs /\ ns[k] = hs[f[k]]
        /\ k = p => ns[k] = h
        /\ k < p => f[k] = k
        /\ ~(k < p) => f[k] = k - 1
  BY <1>1, <1>6, <1>8
<1>10. \A k, m \in 1..n + 1 : k < m /\ k # p /\ m # p => f[k] < f[m]
  BY <1>1, <1>6
<1> HIDE DEF f
<1>11. /\ new \in SignalData /\ new.id = d.id /\ new.handlers = ns /\ new.next_handler_id = lim + 1
  <2>1. lim + 1 \in 1..(MaxHandlerId + 1)
    BY <1>1, SignalsAssumption
  <2>2. \A x \in Seq(HandlerData), y \in 1..(MaxHandlerId + 1) :
            /\ [d EXCEPT !.handlers = x, !.next_handler_id = y] \in SignalData
            /\ [d EXCEPT !.handlers = x, !.next_handler_id = y].id = d.id
            /\ [d EXCEPT !.handlers = x, !.next_handler_id = y].handlers = x
            /\ [d EXCEPT !.handlers = x, !.next_handler_id = y].next_handler_id = y
    BY DEF SignalData
  <2>3. new = [d EXCEPT !.handlers = ns, !.next_handler_id = lim + 1]
    <3>1. \A x : [d EXCEPT !.handlers = x, !.next_handler_id = @ + 1]
                    = [d EXCEPT !.handlers = x, !.next_handler_id = lim + 1]
      BY DEF SignalData
    <3> QED
      BY <3>1 DEF PutIn, ns, hs
  <2> HIDE DEF lim, new
  <2> QED
    BY <1>8, <2>1, <2>2, <2>3
<1> HIDE DEF new, lim
<1>12. \A k \in 1..n + 1 : k # p => ns[k].id < lim /\ ns[k].id \in Nat
  BY <1>1, <1>2, <1>9
<1>13. \A k, m \in 1..n + 1 : ns[k].id = ns[m].id => k = m
  <2> SUFFICES ASSUME NEW k \in 1..n + 1, NEW m \in 1..n + 1, ns[k].id = ns[m].id PROVE k = m
    OBVIOUS
  <2>1. CASE k # p /\ m # p
    <3>1. f[k] = f[m]
      BY <1>2, <1>9, <2>1
    <3>2. ~(k < m) /\ ~(m < k)
      <4>1. \A i \in DOMAIN hs : i \in Int
        BY <1>1
      <4>2. f[k] \in Int /\ f[m] \in Int
        BY <1>9, <2>1, <4>1
      <4> QED
        BY <1>10, <2>1, <3>1, <4>2
    <3> QED
      BY <1>1, <3>2
  <2>2. CASE k = p /\ m # p
    <3>1. ns[m].id < lim /\ ns[m].id \in Nat /\ ns[k].id = lim
      BY <1>3, <1>9, <1>12, <2>2
    <3> QED
      BY <1>1, <3>1
  <2>3. CASE m = p /\ k # p
    <3>1. ns[k].id < lim /\ ns[k].id \in Nat /\ ns[m].id = lim
      BY <1>3, <1>9, <1>12, <2>3
    <3> QED
      BY <1>1, <3>1
  <2> QED
    BY <2>1, <2>2, <2>3
<1>14. \A k, m \in 1..n + 1 : k < m => ns[k].priority <= ns[m].priority
  <2> SUFFICES ASSUME NEW k \in 1..n + 1, NEW m \in 1..n + 1, k < m
               PROVE  ns[k].priority <= ns[m].priority
    OBVIOUS
  <2>0. p \in Int /\ k \in Int /\ m \in Int
    BY <1>1, <1>6
  <2>1. CASE k # p /\ m # p
    BY <1>2, <1>9, <1>10, <2>1
  <2>2. CASE k = p
    <3>1. m # p /\ ~(m < p) /\ f[m] = m - 1 /\ ~(f[m] < p) /\ f[m] \in DOMAIN hs
      BY <1>9, <2>0, <2>2
    <3>2. ~(hs[f[m]].priority < h.priority)
      BY <1>6, <3>1
    <3>3. hs[f[m]].priority \in Nat
      BY <1>1, <3>1
    <3> QED
      BY <1>3, <1>9, <2>2, <3>1, <3>2, <3>3
  <2>3. CASE m = p
    <3>1. k # p /\ k < p /\ f[k] = k /\ f[k] \in DOMAIN hs
      BY <1>9, <2>0, <2>3
    <3>2. hs[k].priority < h.priority /\ hs[k].priority \in Nat
      BY <1>1, <1>6, <3>1
    <3> QED
      BY <1>3, <1>9, <2>3, <3>1, <3>2
  <2> QED
    BY <2>1, <2>2, <2>3
<1>15. \A k \in 1..n + 1 : ns[k].id < lim + 1
  <2> SUFFICES ASSUME NEW k \in 1..n + 1 PROVE ns[k].id < lim + 1
    OBVIOUS
  <2>1. CASE k = p
    BY <1>1, <1>3, <1>9, <2>1
  <2>2. CASE k # p
    BY <1>1, <1>12, <2>2
  <2> QED
    BY <2>1, <2>2
<1>16. GoodList(new)
  BY <1>8, <1>11, <1>13, <1>14, <1>15 DEF GoodList
<1>17. Changed(d, new)
  <2>1. \A k \in DOMAIN ns : ns[k].id < lim => k # p
    <3> SUFFICES ASSUME NEW k \in DOMAIN ns, ns[k].id < lim, k = p PROVE FALSE
      OBVIOUS
    <3>1. ns[k].id = lim
      BY <1>3, <1>8, <1>9
    <3> QED
      BY <1>1, <3>1
  <2>2. /\ \A k \in DOMAIN ns : ns[k].id < lim => f[k] \in DOMAIN hs /\ hs[f[k]].id = ns[k].id
        /\ \A k, m \in DOMAIN ns : ns[k].id < lim /\ ns[m].id < lim /\ k < m => f[k] < f[m]
    BY <1>8, <1>9, <1>10, <2>1
  <2>3. new.id = d.id /\ lim <= lim + 1
    BY <1>1, <1>11
  <2> QED
    BY <1>11, <2>2, <2>3, Zenon DEF Changed, hs, lim
<1>18. ASSUME NEW i \in DOMAIN hs PROVE \E j \in DOMAIN ns : ns[j].id = hs[i].id
  <2>1. CASE i < p
    <3>1. i \in 1..n + 1 /\ i # p /\ f[i] = i
      BY <1>1, <1>6, <1>9, <2>1
    <3> QED
      BY <1>8, <1>9, <3>1
  <2>2. CASE ~(i < p)
    <3>1. i + 1 \in 1..n + 1 /\ i + 1 # p /\ ~(i + 1 < p) /\ (i + 1) - 1 = i
      BY <1>1, <1>6, <2>2
    <3>2. f[i + 1] = i
      BY <1>9, <3>1
    <3> QED
      BY <1>8, <1>9, <3>1, <3>2
  <2> QED
    BY <2>1, <2>2
<1> QED
  BY <1>11, <1>16, <1>17, <1>18 DEF new, hs

-----------------------------------------------------------------------------
(* The registry                                                             *)

Key(e) == <<e.instance, e.signal>>
Data(e) == signals[Key(e)]

\* The invariant: lists in order, and every emission under way walks through one of them,
\* no two through the same, and has called the handler it is in.
SigInv ==
    /\ SignalsTypeOK
    /\ \A k \in Instance \X Signal : GoodList(signals[k])
    /\ emissions \in Seq(EmissionData)
    /\ \A n \in DOMAIN emissions :
        /\ Walk(emissions[n], Data(emissions[n]))
        /\ \E m \in DOMAIN emissions[n].called : emissions[n].called[m] = emissions[n].current
    /\ \A m, n \in DOMAIN emissions : Key(emissions[m]) = Key(emissions[n]) => m = n

LEMMA SignalsAre ==
    ASSUME SignalsTypeOK
    PROVE  /\ signals \in [Instance \X Signal -> SignalRange]
           /\ \A k \in Instance \X Signal : signals[k] \in SignalRange
BY DEF SignalsTypeOK, SignalRange

LEMMA RangeId ==
    ASSUME NEW d \in SignalRange
    PROVE  d = Absent <=> d.id = 0
<1>1. Absent.id = 0
  BY DEF Absent
<1>2. d \in SignalData => d.id \in 1..MaxSignalId
  BY DEF SignalData
<1>3. d.id \in 1..MaxSignalId => d.id # 0
  BY SignalsAssumption
<1> QED
  BY <1>1, <1>2, <1>3 DEF SignalRange

\* A change of handlers only leaves the counts alone.
LEMMA SameCounts ==
    ASSUME SignalsTypeOK, UNCHANGED instance_table,
           signals' \in [Instance \X Signal -> SignalRange],
           \A k \in Instance \X Signal : signals'[k].id = signals[k].id
    PROVE  SignalsTypeOK'
<1>1. signals \in [Instance \X Signal -> SignalRange]
  BY SignalsAre
<1>2. ASSUME NEW i \in Instance, NEW s \in Signal PROVE Registered(i, s)' <=> Registered(i, s)
  <2>1. signals[<<i, s>>] \in SignalRange /\ signals'[<<i, s>>] \in SignalRange
        /\ signals'[<<i, s>>].id = signals[<<i, s>>].id
    BY <1>1
  <2> QED
    BY <2>1, RangeId DEF Registered
<1>3. \A i \in Instance : {s \in Signal : Registered(i, s)}' = {s \in Signal : Registered(i, s)}
  BY <1>2
<1> QED
  BY <1>3 DEF SignalsTypeOK, SignalRange

LEMMA EmissionsAre ==
    ASSUME SigInv, NEW n \in DOMAIN emissions
    PROVE  /\ emissions[n] \in EmissionData /\ Key(emissions[n]) \in Instance \X Signal
           /\ Data(emissions[n]) \in SignalRange /\ GoodList(Data(emissions[n]))
           /\ Walk(emissions[n], Data(emissions[n]))
<1>1. emissions[n] \in EmissionData
  BY DEF SigInv
<1>2. Key(emissions[n]) \in Instance \X Signal
  BY <1>1, EmissionFields DEF Key
<1>3. SignalsTypeOK
  BY DEF SigInv
<1> QED
  BY <1>1, <1>2, <1>3, SignalsAre DEF SigInv, Data

\* The list stays as it is, or changes and leaves the node the walk kept.
Leaves(e, d, new) ==
    \/ new = d
    \/ /\ Changed(d, new)
       /\ e.next = NoNode \/ \E j \in DOMAIN new.handlers : new.handlers[j].id = e.next

LEMMA WalkStays ==
    ASSUME NEW e \in EmissionData, NEW d \in SignalRange, NEW new \in SignalRange,
           GoodList(d), Walk(e, d), Leaves(e, d, new)
    PROVE  Walk(e, new)
BY WalkGoesOn DEF Leaves

\* Lists change while emissions are under way.
LEMMA ListsChange ==
    ASSUME SigInv, SignalsTypeOK', UNCHANGED emissions,
           \A k \in Instance \X Signal : GoodList(signals'[k]),
           \A n \in DOMAIN emissions :
              Leaves(emissions[n], Data(emissions[n]), signals'[Key(emissions[n])])
    PROVE  SigInv'
<1>1. ASSUME NEW n \in DOMAIN emissions PROVE Walk(emissions[n], signals'[Key(emissions[n])])
  <2>1. /\ emissions[n] \in EmissionData /\ Key(emissions[n]) \in Instance \X Signal
        /\ Data(emissions[n]) \in SignalRange /\ GoodList(Data(emissions[n]))
        /\ Walk(emissions[n], Data(emissions[n]))
    BY EmissionsAre
  <2>2. signals'[Key(emissions[n])] \in SignalRange
    BY <2>1 DEF SignalsTypeOK, SignalRange
  <2>3. Leaves(emissions[n], Data(emissions[n]), signals'[Key(emissions[n])])
    OBVIOUS
  <2> QED
    BY <2>1, <2>2, <2>3, WalkStays
<1>2. \A n \in DOMAIN emissions' : Walk(emissions'[n], Data(emissions[n])')
  BY <1>1 DEF Data, Key
<1> QED
  BY <1>2 DEF SigInv, Key

\* One list changes.
LEMMA OneList ==
    ASSUME SigInv, NEW k \in Instance \X Signal, NEW new \in SignalRange,
           GoodList(new), new.id = signals[k].id,
           signals' = [signals EXCEPT ![k] = new], UNCHANGED <<instance_table, emissions>>,
           \A n \in DOMAIN emissions :
              Key(emissions[n]) = k => Leaves(emissions[n], signals[k], new)
    PROVE  SigInv'
<1>1. /\ SignalsTypeOK /\ signals \in [Instance \X Signal -> SignalRange]
      /\ \A j \in Instance \X Signal : GoodList(signals[j])
  BY SignalsAre DEF SigInv
<1>2. /\ signals' \in [Instance \X Signal -> SignalRange]
      /\ signals'[k] = new
      /\ \A j \in Instance \X Signal : j # k => signals'[j] = signals[j]
  BY <1>1
<1>3. SignalsTypeOK'
  BY <1>1, <1>2, SameCounts
<1>4. \A j \in Instance \X Signal : GoodList(signals'[j])
  BY <1>1, <1>2
<1>5. ASSUME NEW n \in DOMAIN emissions
      PROVE  Leaves(emissions[n], Data(emissions[n]), signals'[Key(emissions[n])])
  <2>1. Key(emissions[n]) \in Instance \X Signal
    BY EmissionsAre
  <2>2. CASE Key(emissions[n]) = k
    BY <1>2, <2>2 DEF Data
  <2>3. CASE Key(emissions[n]) # k
    BY <1>2, <2>1, <2>3 DEF Data, Leaves
  <2> QED
    BY <2>2, <2>3
<1> QED
  BY <1>3, <1>4, <1>5, ListsChange

\* A node that is to be visited next is in the list.
LEMMA NextListed ==
    ASSUME SigInv, NEW n \in DOMAIN emissions
    PROVE  emissions[n].next = NoNode \/ \E j \in DOMAIN Data(emissions[n]).handlers :
                Data(emissions[n]).handlers[j].id = emissions[n].next
BY EmissionsAre DEF Walk

\* signal_connect_common: wherever the handler comes to stand, walks go on.
LEMMA ConnectStep ==
    ASSUME SigInv, NEW i \in Instance, NEW s \in Signal, NEW handle \in Handle,
           NEW priority \in Priority, Connect(i, s, handle, priority)
    PROVE  SigInv'
<1> DEFINE k == <<i, s>>
           d == signals[k]
           h == [id |-> d.next_handler_id, handle |-> handle, priority |-> priority]
           new == PutIn(d, h)
<1>1. k \in Instance \X Signal
  OBVIOUS
<1>2. d \in SignalData /\ GoodList(d)
  <2>1. d \in SignalRange /\ d # Absent
    BY <1>1, SignalsAre DEF SigInv, Connect, Registered
  <2> QED
    BY <1>1, <2>1 DEF SigInv, SignalRange
<1>3. /\ d.next_handler_id <= MaxHandlerId
      /\ UNCHANGED <<instance_table, emissions>>
      /\ signals' = [signals EXCEPT ![k] =
                [d EXCEPT !.handlers = InsertSorted(@, h), !.next_handler_id = @ + 1]]
  BY DEF Connect
<1>4. h \in HandlerData /\ h.id = d.next_handler_id
  <2>1. d.next_handler_id \in 1..(MaxHandlerId + 1)
    BY <1>2 DEF SignalData
  <2>2. d.next_handler_id \in 1..MaxHandlerId
    BY <1>3, <2>1, SignalsAssumption
  <2> QED
    BY <2>2 DEF HandlerData
<1>5. signals' = [signals EXCEPT ![k] = new]
  <2>1. \A x : [d EXCEPT !.handlers = InsertSorted(@, x), !.next_handler_id = @ + 1] = PutIn(d, x)
    BY <1>2 DEF PutIn, SignalData
  <2>2. k \in DOMAIN signals
    BY <1>1, SignalsAre DEF SigInv
  <2> DEFINE w == [d EXCEPT !.handlers = InsertSorted(@, h), !.next_handler_id = @ + 1]
  <2> HIDE DEF h, k
  <2>3. signals' = [signals EXCEPT ![k] = w]
    BY <1>3, <2>2
  <2>4. w = new
    BY <2>1, Zenon
  <2> HIDE DEF w, new
  <2> QED
    BY <2>3, <2>4
<1> HIDE DEF h, new, k
<1>6. /\ new \in SignalData /\ GoodList(new) /\ Changed(d, new) /\ new.id = d.id
      /\ \A a \in DOMAIN d.handlers : \E j \in DOMAIN new.handlers :
                    new.handlers[j].id = d.handlers[a].id
  BY <1>2, <1>3, <1>4, InsertedList DEF new
<1>7. ASSUME NEW n \in DOMAIN emissions, Key(emissions[n]) = k
      PROVE  Leaves(emissions[n], d, new)
  <2>1. Data(emissions[n]) = d
    BY <1>7 DEF Data
  <2>2. emissions[n].next = NoNode \/ \E j \in DOMAIN d.handlers : d.handlers[j].id = emissions[n].next
    BY <2>1, NextListed
  <2>3. emissions[n].next = NoNode
         \/ \E j \in DOMAIN new.handlers : new.handlers[j].id = emissions[n].next
    BY <1>6, <2>2
  <2> QED
    BY <1>6, <2>3 DEF Leaves
<1>8. new \in SignalRange
  BY <1>6 DEF SignalRange
<1> HIDE DEF d
<1>9. new.id = signals[k].id /\ \A n \in DOMAIN emissions :
              Key(emissions[n]) = k => Leaves(emissions[n], signals[k], new)
  BY <1>6, <1>7 DEF d
<1> QED
  BY <1>1, <1>3, <1>5, <1>6, <1>8, <1>9, OneList

\* oul_signal_disconnect: a handler that disconnects itself is not before the one found,
\* and the node kept is behind it.
LEMMA DisconnectStep ==
    ASSUME SigInv, NEW i \in Instance, NEW s \in Signal, NEW handle \in Handle,
           Disconnect(i, s, handle)
    PROVE  SigInv'
<1> DEFINE k == <<i, s>>
           d == signals[k]
           ns == Disconnected(d.handlers, handle)
           new == Put(d, ns)
<1>1. k \in Instance \X Signal
  OBVIOUS
<1>2. d \in SignalRange /\ GoodList(d)
  BY <1>1, SignalsAre DEF SigInv
<1>3. /\ UNCHANGED <<instance_table, emissions>>
      /\ signals' = [signals EXCEPT ![k].handlers = Disconnected(@, handle)]
      /\ \E a \in DOMAIN d.handlers : d.handlers[a].handle = handle
      /\ UnderWay(i, s) => /\ Inner.instance = i /\ Inner.signal = s
                           /\ Inner.current \in Ids(d.handlers)
                           /\ HandleOf(Inner) = handle
  BY DEF Disconnect, ToSet
<1>4. signals' = [signals EXCEPT ![k] = new]
  <2>1. k \in DOMAIN signals
    BY <1>1, SignalsAre DEF SigInv
  <2> HIDE DEF k
  <2> QED
    BY <1>3, <2>1 DEF Put
<1>5. PICK a \in DOMAIN d.handlers :
              /\ d.handlers[a].handle = handle
              /\ \A j \in DOMAIN d.handlers : d.handlers[j].handle = handle => a <= j
              /\ ns = RemoveAt(d.handlers, a)
  BY <1>2, <1>3, DisconnectedIs
<1>6. /\ d.handlers \in Seq(HandlerData) /\ DOMAIN d.handlers = 1..Len(d.handlers)
      /\ Len(d.handlers) \in Nat
  BY <1>2, SignalFields
<1> DEFINE S == DOMAIN d.handlers \ {a}
<1>7. ns \in Seq(HandlerData) /\ Thinned(ns, d.handlers, S)
  BY <1>5, <1>6, RemoveAtThins
<1>8. S \in SUBSET DOMAIN d.handlers
  OBVIOUS
<1> HIDE DEF k, d, ns, S
<1>9. /\ new \in SignalRange /\ GoodList(new) /\ Changed(d, new) /\ new.id = d.id
      /\ \A b \in S : \E j \in DOMAIN new.handlers : new.handlers[j].id = d.handlers[b].id
  BY <1>2, <1>7, <1>8, ThinnedList
<1> HIDE DEF new
<1>10. ASSUME NEW n \in DOMAIN emissions, Key(emissions[n]) = k
       PROVE  Leaves(emissions[n], d, new)
  <2> DEFINE e == emissions[n]
  <2>1. /\ Data(e) = d /\ e.instance = i /\ e.signal = s /\ e \in EmissionData
    BY <1>10, EmissionsAre DEF Data, Key, k, d
  <2>2. UnderWay(i, s)
    BY <2>1 DEF UnderWay, ToSet
  <2>3. /\ Len(emissions) \in DOMAIN emissions /\ Inner = emissions[Len(emissions)]
    <3>1. emissions \in Seq(EmissionData)
      BY DEF SigInv
    <3> QED
      BY <3>1 DEF Inner, Last
  <2>4. e = Inner
    <3>1. Key(Inner) = Key(e)
      BY <1>3, <2>1, <2>2 DEF Key
    <3> QED
      BY <2>3, <3>1 DEF SigInv
  <2>5. PICK c \in DOMAIN d.handlers : d.handlers[c].id = e.current
    BY <1>3, <2>2, <2>4 DEF Ids, d
  <2>6. d.handlers[c].handle = handle
    <3>1. Position(d.handlers, e.current) = c
      BY <1>2, <2>5, PositionIs
    <3>2. HandleOf(e) = d.handlers[Position(d.handlers, e.current)].handle
      BY <2>1 DEF HandleOf, d, k
    <3> QED
      BY <1>3, <2>2, <2>4, <3>1, <3>2
  <2>7. a <= c
    BY <1>5, <2>6 DEF d
  <2>8. Walk(e, d) /\ \E m \in DOMAIN e.called : e.called[m] = e.current
    BY <2>1, EmissionsAre DEF SigInv
  <2>9. e.next = NoNode \/ \E j \in DOMAIN d.handlers : d.handlers[j].id = e.next
    BY <2>8 DEF Walk
  <2>10. ASSUME NEW j \in DOMAIN d.handlers, d.handlers[j].id = e.next PROVE j \in S
    <3>1. c < j
      <4>1. PICK m \in DOMAIN e.called : e.called[m] = e.current
        BY <2>8
      <4>2. d.handlers[c].id = e.called[m]
        BY <2>5, <4>1
      <4>3. \A x, y \in DOMAIN d.handlers : \A z \in DOMAIN e.called :
            d.handlers[x].id = e.called[z] /\ d.handlers[y].id = e.next => x < y
        BY <2>8 DEF Walk
      <4> QED
        BY <2>10, <4>2, <4>3
    <3>2. a \in Int /\ c \in Int /\ j \in Int
      BY <1>6 DEF d
    <3>3. j # a
      BY <2>7, <3>1, <3>2
    <3> QED
      BY <3>3 DEF S
  <2> HIDE DEF e
  <2>11. e.next = NoNode \/ \E j \in DOMAIN new.handlers : new.handlers[j].id = e.next
    BY <1>9, <2>9, <2>10
  <2>12. Leaves(e, d, new)
    BY <1>9, <2>11 DEF Leaves
  <2> QED
    BY <2>12 DEF e
<1>11. new.id = signals[k].id /\ \A n \in DOMAIN emissions :
              Key(emissions[n]) = k => Leaves(emissions[n], signals[k], new)
  BY <1>9, <1>10 DEF d
<1>12. k \in Instance \X Signal
  BY <1>1 DEF k
<1> QED
  BY <1>3, <1>4, <1>9, <1>11, <1>12, OneList

\* oul_signals_disconnect_by_handle: of the handlers it removes only the one that runs
\* may be in a list that is walked.
LEMMA DisconnectByHandleStep ==
    ASSUME SigInv, NEW handle \in Handle, DisconnectByHandle(handle)
    PROVE  SigInv'
<1> DEFINE Stay(d) == {n \in DOMAIN d.handlers : d.handlers[n].handle # handle}
           Rest(d) == Put(d, Without(d.handlers, handle))
<1>1. /\ UNCHANGED <<instance_table, emissions>>
      /\ signals' = [k \in DOMAIN signals |->
                        [signals[k] EXCEPT !.handlers = Without(@, handle)]]
      /\ \A e \in ToSet(emissions) :
            \A h \in ToSet(signals[<<e.instance, e.signal>>].handlers) :
                h.handle = handle => e = Inner /\ h.id = e.current
  BY DEF DisconnectByHandle
<1>2. DOMAIN signals = Instance \X Signal /\ SignalsTypeOK
  BY SignalsAre DEF SigInv
<1>3. /\ DOMAIN signals' = Instance \X Signal
      /\ \A k \in Instance \X Signal : signals'[k] = Rest(signals[k])
  BY <1>1, <1>2 DEF Put
<1>4. ASSUME NEW d \in SignalRange, GoodList(d)
      PROVE  /\ Rest(d) \in SignalRange /\ GoodList(Rest(d)) /\ Changed(d, Rest(d))
             /\ Rest(d).id = d.id
             /\ \A i \in Stay(d) : \E j \in DOMAIN Rest(d).handlers :
                    Rest(d).handlers[j].id = d.handlers[i].id
  <2> DEFINE ns == Without(d.handlers, handle)
  <2>1. d.handlers \in Seq(HandlerData) /\ Stay(d) \in SUBSET DOMAIN d.handlers
    BY SignalFields
  <2>2. ns = AtPlaces(d.handlers, Stay(d))
    BY DEF Without
  <2> HIDE DEF Stay
  <2>3. ns \in Seq(HandlerData) /\ Thinned(ns, d.handlers, Stay(d))
    BY <2>1, <2>2, AtPlacesIs
  <2> HIDE DEF ns
  <2>4. /\ Put(d, ns) \in SignalRange /\ GoodList(Put(d, ns)) /\ Changed(d, Put(d, ns))
        /\ Put(d, ns).id = d.id
        /\ \A i \in Stay(d) : \E j \in DOMAIN Put(d, ns).handlers :
                    Put(d, ns).handlers[j].id = d.handlers[i].id
    BY <1>4, <2>1, <2>3, ThinnedList
  <2> QED
    BY <2>4 DEF ns
<1> HIDE DEF Rest
<1>5. \A k \in Instance \X Signal : signals[k] \in SignalRange /\ GoodList(signals[k])
  BY <1>2, SignalsAre DEF SigInv
<1>6. \A k \in Instance \X Signal :
        signals'[k] \in SignalRange /\ GoodList(signals'[k]) /\ signals'[k].id = signals[k].id
  BY <1>3, <1>4, <1>5
<1>7. SignalsTypeOK'
  <2>1. signals' \in [Instance \X Signal -> SignalRange]
    <3>1. signals' = [k \in Instance \X Signal |-> signals'[k]]
      BY <1>1, <1>2
    <3> QED
      BY <1>6, <3>1
  <2>2. UNCHANGED instance_table
    BY <1>1
  <2> QED
    BY <1>2, <1>6, <2>1, <2>2, SameCounts
<1>8. ASSUME NEW n \in DOMAIN emissions
      PROVE  Leaves(emissions[n], Data(emissions[n]), signals'[Key(emissions[n])])
  <2> DEFINE e == emissions[n]
             d == Data(e)
  <2>1. /\ Key(e) \in Instance \X Signal /\ d \in SignalRange /\ GoodList(d) /\ Walk(e, d)
        /\ \E m \in DOMAIN e.called : e.called[m] = e.current
    BY EmissionsAre DEF SigInv
  <2>2. signals'[Key(e)] = Rest(d)
    BY <1>3, <2>1 DEF Data
  <2>3. ASSUME NEW j \in DOMAIN d.handlers, d.handlers[j].id = e.next PROVE j \in Stay(d)
    <3>1. SUFFICES ASSUME d.handlers[j].handle = handle PROVE FALSE
      OBVIOUS
    <3>2. e \in ToSet(emissions) /\ d.handlers[j] \in ToSet(d.handlers)
      BY DEF ToSet
    <3>3. d = signals[<<e.instance, e.signal>>]
      BY DEF Data, Key
    <3>4. d.handlers[j].id = e.current
      BY <1>1, <3>1, <3>2, <3>3
    <3>5. PICK m \in DOMAIN e.called : e.called[m] = e.current
      BY <2>1
    <3>6. \A x, y \in DOMAIN d.handlers : \A z \in DOMAIN e.called :
            d.handlers[x].id = e.called[z] /\ d.handlers[y].id = e.next => x < y
      BY <2>1 DEF Walk
    <3>7. j < j
      BY <2>3, <3>4, <3>5, <3>6
    <3>8. j \in Int
      BY <2>1, SignalFields
    <3> QED
      BY <3>7, <3>8
  <2>4. e.next = NoNode \/ \E j \in DOMAIN d.handlers : d.handlers[j].id = e.next
    BY NextListed
  <2> HIDE DEF Stay, d, e
  <2>5. /\ Changed(d, Rest(d))
        /\ \A i \in Stay(d) : \E j \in DOMAIN Rest(d).handlers :
                Rest(d).handlers[j].id = d.handlers[i].id
    BY <1>4, <2>1
  <2>6. e.next = NoNode \/ \E j \in DOMAIN Rest(d).handlers : Rest(d).handlers[j].id = e.next
    BY <2>3, <2>4, <2>5
  <2>7. Leaves(e, d, Rest(d))
    BY <2>5, <2>6 DEF Leaves
  <2> QED
    BY <2>2, <2>7 DEF d, e
<1>9. UNCHANGED emissions
  BY <1>1
<1> QED
  BY <1>6, <1>7, <1>8, <1>9, ListsChange

-----------------------------------------------------------------------------
(* Registering                                                              *)

\* The walks of other signals go on when signals come and go.
LEMMA OthersChange ==
    ASSUME SigInv, SignalsTypeOK', UNCHANGED emissions,
           \A k \in Instance \X Signal : signals'[k] = signals[k] \/ signals'[k].handlers = <<>>,
           \A n \in DOMAIN emissions : signals'[Key(emissions[n])] = signals[Key(emissions[n])]
    PROVE  SigInv'
<1>1. \A k \in Instance \X Signal : GoodList(signals[k])
  BY DEF SigInv
<1>2. ASSUME NEW k \in Instance \X Signal PROVE GoodList(signals'[k])
  <2>1. CASE signals'[k] = signals[k]
    BY <1>1, <2>1
  <2>2. CASE signals'[k].handlers = <<>>
    BY <2>2 DEF GoodList
  <2> QED
    BY <2>1, <2>2
<1>3. \A n \in DOMAIN emissions :
              Leaves(emissions[n], Data(emissions[n]), signals'[Key(emissions[n])])
  BY DEF Leaves, Data
<1> QED
  BY <1>2, <1>3, ListsChange

LEMMA CountsFinite ==
    ASSUME NEW S \in SUBSET Signal
    PROVE  /\ IsFiniteSet(S) /\ Cardinality(S) \in 0..Cardinality(Signal)
           /\ Cardinality(Signal) \in Nat
<1>1. IsFiniteSet(Signal)
  BY SignalsAssumption
<1>2. IsFiniteSet(S) /\ Cardinality(S) <= Cardinality(Signal)
  BY <1>1, FS_Subset
<1>3. Cardinality(S) \in Nat /\ Cardinality(Signal) \in Nat
  BY <1>1, <1>2, FS_CardinalityType
<1> QED
  BY <1>2, <1>3

LEMMA InstanceFields ==
    ASSUME NEW t \in {Gone} \cup InstanceData
    PROVE  /\ t.signal_count \in Nat /\ (t = Gone <=> t.signal_count = 0)
           /\ t # Gone => t.next_signal_id \in 2..(MaxSignalId + 1)
<1>1. Gone.signal_count = 0
  BY DEF Gone
<1>2. t \in InstanceData => /\ t.signal_count \in 1..Cardinality(Signal)
                            /\ t.next_signal_id \in 2..(MaxSignalId + 1)
  BY DEF InstanceData
<1>3. Cardinality(Signal) \in Nat
  BY CountsFinite
<1> QED
  BY <1>1, <1>2, <1>3

\* One signal comes or goes: the count of its instance follows.
LEMMA CountsChange ==
    ASSUME SignalsTypeOK, NEW i \in Instance, NEW s \in Signal, NEW new \in SignalRange,
           signals' = [signals EXCEPT ![<<i, s>>] = new], new = Absent <=> Registered(i, s),
           NEW t \in {Gone} \cup InstanceData, instance_table' = [instance_table EXCEPT ![i] = t],
           t.signal_count = instance_table[i].signal_count + IF new = Absent THEN -1 ELSE 1
    PROVE  SignalsTypeOK'
<1>1. /\ signals \in [Instance \X Signal -> SignalRange]
      /\ instance_table \in [Instance -> {Gone} \cup InstanceData]
      /\ \A j \in Instance : instance_table[j].signal_count
                                = Cardinality({r \in Signal : Registered(j, r)})
  BY SignalsAre DEF SignalsTypeOK
<1>2. /\ signals' \in [Instance \X Signal -> SignalRange]
      /\ instance_table' \in [Instance -> {Gone} \cup InstanceData]
  BY <1>1
<1>3. \A j \in Instance, r \in Signal : <<j, r>> # <<i, s>> => (Registered(j, r)' <=> Registered(j, r))
  BY <1>1 DEF Registered
<1>4. Registered(i, s)' <=> new # Absent
  BY <1>1 DEF Registered
<1>5. ASSUME NEW j \in Instance
      PROVE  instance_table'[j].signal_count = Cardinality({r \in Signal : Registered(j, r)'})
  <2> DEFINE R == {r \in Signal : Registered(i, r)}
             N == {r \in Signal : Registered(i, r)'}
  <2>1. CASE j # i
    <3>1. {r \in Signal : Registered(j, r)'} = {r \in Signal : Registered(j, r)}
      BY <1>3, <2>1
    <3> QED
      BY <1>1, <2>1, <3>1
  <2>2. CASE j = i
    <3>1. \A r \in Signal : r # s => (r \in R <=> r \in N)
      BY <1>3
    <3>2. (s \in R <=> new = Absent) /\ (s \in N <=> new # Absent)
      BY <1>4
    <3>3. R \in SUBSET Signal /\ N \in SUBSET Signal
      OBVIOUS
    <3>4. IsFiniteSet(R) /\ Cardinality(R) \in Nat
      BY <3>3, CountsFinite
    <3>5. Cardinality(R) = instance_table[i].signal_count /\ instance_table'[j] = t
      BY <1>1, <2>2
    <3> HIDE DEF R, N
    <3>6. CASE new = Absent
      <4>1. N = R \ {s}
        BY <3>1, <3>2, <3>3, <3>6
      <4>2. Cardinality(N) = Cardinality(R) - 1
        BY <3>2, <3>4, <3>6, <4>1, FS_RemoveElement
      <4>3. t.signal_count = Cardinality(R) - 1
        BY <3>4, <3>5, <3>6
      <4> QED
        BY <2>2, <3>5, <4>2, <4>3 DEF N
    <3>7. CASE new # Absent
      <4>1. N = R \cup {s}
        BY <3>1, <3>2, <3>3, <3>7
      <4>2. Cardinality(N) = Cardinality(R) + 1
        BY <3>2, <3>4, <3>7, <4>1, FS_AddElement
      <4>3. t.signal_count = Cardinality(R) + 1
        BY <3>4, <3>5, <3>7
      <4> QED
        BY <2>2, <3>5, <4>2, <4>3 DEF N
    <3> QED
      BY <3>6, <3>7
  <2> QED
    BY <2>1, <2>2
<1> QED
  BY <1>2, <1>5 DEF SignalsTypeOK, SignalRange

\* An emission that is under way keeps its signal registered.
LEMMA WalkedRegistered ==
    ASSUME SigInv, NEW n \in DOMAIN emissions
    PROVE  /\ signals[Key(emissions[n])] # Absent
           /\ \A i \in Instance, s \in Signal :
                 Key(emissions[n]) = <<i, s>> => Registered(i, s) /\ UnderWay(i, s)
<1>1. signals[Key(emissions[n])].id # 0
  BY EmissionsAre DEF Walk, Data
<1>2. signals[Key(emissions[n])] # Absent
  BY <1>1 DEF Absent
<1>3. ASSUME NEW i \in Instance, NEW s \in Signal, Key(emissions[n]) = <<i, s>>
      PROVE  Registered(i, s) /\ UnderWay(i, s)
  <2>1. emissions[n].instance = i /\ emissions[n].signal = s
    BY <1>3 DEF Key
  <2> QED
    BY <1>2, <1>3, <2>1 DEF Registered, UnderWay, ToSet
<1> QED
  BY <1>2, <1>3

LEMMA RegisterStep ==
    ASSUME SigInv, NEW i \in Instance, NEW s \in Signal, Register(i, s)
    PROVE  SigInv'
<1> DEFINE old == instance_table[i]
           sid == IF Exists(i) THEN old.next_signal_id ELSE 1
           t == [next_signal_id |-> sid + 1, signal_count |-> old.signal_count + 1]
           new == [id |-> sid, handlers |-> <<>>, next_handler_id |-> 1]
<1>1. /\ ~Registered(i, s) /\ sid <= MaxSignalId
      /\ instance_table' = [instance_table EXCEPT ![i] = t]
      /\ signals' = [signals EXCEPT ![<<i, s>>] = new]
      /\ UNCHANGED emissions
  BY DEF Register
<1>2. /\ SignalsTypeOK /\ old \in {Gone} \cup InstanceData
      /\ old.signal_count = Cardinality({r \in Signal : Registered(i, r)})
      /\ signals \in [Instance \X Signal -> SignalRange]
  BY SignalsAre DEF SigInv, SignalsTypeOK
<1>3. old.signal_count \in Nat /\ (old # Gone => old.next_signal_id \in 2..(MaxSignalId + 1))
  BY <1>2, InstanceFields
<1>4. sid \in 1..MaxSignalId /\ sid + 1 \in 2..(MaxSignalId + 1)
  <2>1. sid \in Nat /\ sid >= 1
    BY <1>3, SignalsAssumption DEF Exists
  <2> HIDE DEF sid
  <2> QED
    BY <1>1, <2>1, SignalsAssumption
<1>5. old.signal_count + 1 \in 1..Cardinality(Signal)
  <2> DEFINE R == {r \in Signal : Registered(i, r)}
  <2>1. R \in SUBSET Signal /\ R # Signal
    BY <1>1
  <2>2. IsFiniteSet(Signal) /\ Cardinality(R) <= Cardinality(Signal) /\ Cardinality(R) # Cardinality(Signal)
    <3> HIDE DEF R
    <3> QED
      BY <2>1, FS_Subset, SignalsAssumption
  <2>3. Cardinality(Signal) \in Nat /\ Cardinality(R) \in Nat
    BY <2>1, CountsFinite
  <2> HIDE DEF R
  <2>4. old.signal_count = Cardinality(R)
    BY <1>2 DEF R
  <2> QED
    BY <2>2, <2>3, <2>4
<1>6. t \in {Gone} \cup InstanceData /\ t.signal_count = old.signal_count + 1
  BY <1>4, <1>5 DEF InstanceData
<1>7. new \in SignalRange /\ new # Absent /\ new.handlers = <<>>
  <2>1. 1 \in 1..(MaxHandlerId + 1)
    BY SignalsAssumption
  <2>2. <<>> \in Seq(HandlerData)
    OBVIOUS
  <2>3. new \in SignalData /\ new.id # 0
    BY <1>4, <2>1, <2>2 DEF SignalData
  <2> QED
    BY <2>3 DEF SignalRange, Absent
<1> HIDE DEF t, new
<1>8. SignalsTypeOK'
  BY <1>1, <1>2, <1>6, <1>7, CountsChange
<1>9. \A k \in Instance \X Signal : signals'[k] = signals[k] \/ signals'[k].handlers = <<>>
  BY <1>1, <1>2, <1>7
<1>10. ASSUME NEW n \in DOMAIN emissions
       PROVE  signals'[Key(emissions[n])] = signals[Key(emissions[n])]
  <2>1. Key(emissions[n]) \in Instance \X Signal /\ Key(emissions[n]) # <<i, s>>
    BY <1>1, EmissionsAre, WalkedRegistered
  <2> QED
    BY <1>1, <1>2, <2>1
<1> QED
  BY <1>1, <1>8, <1>9, <1>10, OthersChange

LEMMA UnregisterStep ==
    ASSUME SigInv, NEW i \in Instance, NEW s \in Signal, Unregister(i, s)
    PROVE  SigInv'
<1> DEFINE old == instance_table[i]
           t == IF old.signal_count = 1 THEN Gone ELSE [old EXCEPT !.signal_count = @ - 1]
<1>1. /\ Registered(i, s) /\ ~UnderWay(i, s)
      /\ instance_table' = [instance_table EXCEPT ![i] = t]
      /\ signals' = [signals EXCEPT ![<<i, s>>] = Absent]
      /\ UNCHANGED emissions
  BY DEF Unregister
<1>2. /\ SignalsTypeOK /\ old \in {Gone} \cup InstanceData
      /\ old.signal_count = Cardinality({r \in Signal : Registered(i, r)})
      /\ signals \in [Instance \X Signal -> SignalRange]
  BY SignalsAre DEF SigInv, SignalsTypeOK
<1>3. old.signal_count # 0
  <2> DEFINE R == {r \in Signal : Registered(i, r)}
  <2>1. R \in SUBSET Signal /\ R # {}
    BY <1>1
  <2>2. IsFiniteSet(R)
    BY <2>1, CountsFinite
  <2> HIDE DEF R
  <2>3. Cardinality(R) # 0
    BY <2>1, <2>2, FS_EmptySet
  <2> QED
    BY <1>2, <2>3 DEF R
<1>4. old \in InstanceData /\ old.signal_count \in 1..Cardinality(Signal) /\ Cardinality(Signal) \in Nat
  BY <1>2, <1>3, CountsFinite DEF Gone, InstanceData
<1>5. t \in {Gone} \cup InstanceData /\ t.signal_count = old.signal_count + -1
  <2>1. CASE old.signal_count = 1
    BY <2>1 DEF Gone
  <2>2. CASE old.signal_count # 1
    <3>1. old.signal_count - 1 \in 1..Cardinality(Signal) /\ old.signal_count - 1 = old.signal_count + -1
      BY <1>4, <2>2
    <3>2. \A x \in 1..Cardinality(Signal) :
            [old EXCEPT !.signal_count = x] \in InstanceData /\ [old EXCEPT !.signal_count = x].signal_count = x
      BY <1>4 DEF InstanceData
    <3>3. t = [old EXCEPT !.signal_count = old.signal_count - 1]
      BY <2>2
    <3> HIDE DEF old, t
    <3> QED
      BY <3>1, <3>2, <3>3
  <2> QED
    BY <2>1, <2>2
<1> HIDE DEF t
<1>6. Absent \in SignalRange /\ Absent.handlers = <<>>
  BY DEF SignalRange, Absent
<1>7. SignalsTypeOK'
  BY <1>1, <1>2, <1>5, <1>6, CountsChange
<1>8. \A k \in Instance \X Signal : signals'[k] = signals[k] \/ signals'[k].handlers = <<>>
  BY <1>1, <1>2, <1>6
<1>9. ASSUME NEW n \in DOMAIN emissions
       PROVE  signals'[Key(emissions[n])] = signals[Key(emissions[n])]
  <2>1. Key(emissions[n]) \in Instance \X Signal /\ Key(emissions[n]) # <<i, s>>
    BY <1>1, EmissionsAre, WalkedRegistered
  <2> QED
    BY <1>1, <1>2, <2>1
<1> QED
  BY <1>1, <1>7, <1>8, <1>9, OthersChange

LEMMA UnregisterByInstanceStep ==
    ASSUME SigInv, NEW i \in Instance, UnregisterByInstance(i)
    PROVE  SigInv'
<1>1. /\ \A s \in Signal : ~UnderWay(i, s)
      /\ instance_table' = [instance_table EXCEPT ![i] = Gone]
      /\ signals' = [k \in DOMAIN signals |-> IF k[1] = i THEN Absent ELSE signals[k]]
      /\ UNCHANGED emissions
  BY DEF UnregisterByInstance
<1>2. /\ instance_table \in [Instance -> {Gone} \cup InstanceData]
      /\ \A j \in Instance : instance_table[j].signal_count
                                = Cardinality({r \in Signal : Registered(j, r)})
      /\ signals \in [Instance \X Signal -> SignalRange]
  BY SignalsAre DEF SigInv, SignalsTypeOK
<1>3. Absent \in SignalRange /\ Absent.handlers = <<>>
  BY DEF SignalRange, Absent
<1>4. /\ signals' \in [Instance \X Signal -> SignalRange]
      /\ \A j \in Instance, s \in Signal :
            signals'[<<j, s>>] = IF j = i THEN Absent ELSE signals[<<j, s>>]
  BY <1>1, <1>2, <1>3
<1>5. ASSUME NEW j \in Instance
      PROVE  instance_table'[j].signal_count = Cardinality({r \in Signal : Registered(j, r)'})
  <2>1. CASE j # i
    <3>1. {r \in Signal : Registered(j, r)'} = {r \in Signal : Registered(j, r)}
      BY <1>4, <2>1 DEF Registered
    <3> QED
      BY <1>1, <1>2, <2>1, <3>1
  <2>2. CASE j = i
    <3>1. {r \in Signal : Registered(j, r)'} = {}
      BY <1>4, <2>2 DEF Registered
    <3>2. instance_table'[j].signal_count = 0
      BY <1>1, <1>2, <2>2 DEF Gone
    <3> QED
      BY <3>1, <3>2, FS_EmptySet
  <2> QED
    BY <2>1, <2>2
<1>6. SignalsTypeOK'
  BY <1>1, <1>2, <1>4, <1>5 DEF SignalsTypeOK, SignalRange
<1>7. \A k \in Instance \X Signal : signals'[k] = signals[k] \/ signals'[k].handlers = <<>>
  BY <1>1, <1>2, <1>3
<1>8. ASSUME NEW n \in DOMAIN emissions
       PROVE  signals'[Key(emissions[n])] = signals[Key(emissions[n])]
  <2>1. emissions[n].instance \in Instance /\ emissions[n].signal \in Signal
        /\ Key(emissions[n]) = <<emissions[n].instance, emissions[n].signal>>
    BY EmissionsAre, EmissionFields DEF Key
  <2>2. emissions[n].instance # i
    BY <1>1, <2>1, WalkedRegistered
  <2> QED
    BY <1>4, <2>1, <2>2
<1> QED
  BY <1>1, <1>6, <1>7, <1>8, OthersChange

-----------------------------------------------------------------------------
(* Emitting                                                                 *)

\* An emission that walks, as the list of emissions may hold it.
Walking(v) ==
    /\ v \in EmissionData /\ Walk(v, signals[Key(v)])
    /\ \E m \in DOMAIN v.called : v.called[m] = v.current

\* The emissions under way are some of the earlier ones.
LEMMA EmissionsShrink ==
    ASSUME SigInv, UNCHANGED <<instance_table, signals>>,
           emissions' \in Seq(EmissionData), DOMAIN emissions' \subseteq DOMAIN emissions,
           \A n \in DOMAIN emissions' : emissions'[n] = emissions[n]
    PROVE  SigInv'
<1>1. SignalsTypeOK' /\ \A k \in Instance \X Signal : GoodList(signals[k])'
  BY DEF SigInv, SignalsTypeOK, Registered
<1>2. /\ \A n \in DOMAIN emissions :
            /\ Walk(emissions[n], signals[Key(emissions[n])])
            /\ \E m \in DOMAIN emissions[n].called : emissions[n].called[m] = emissions[n].current
      /\ \A m, n \in DOMAIN emissions : Key(emissions[m]) = Key(emissions[n]) => m = n
  BY DEF SigInv, Data
<1>3. \A n \in DOMAIN emissions' :
            /\ Walk(emissions'[n], signals[Key(emissions'[n])])
            /\ \E m \in DOMAIN emissions'[n].called : emissions'[n].called[m] = emissions'[n].current
  BY <1>2
<1>4. \A m, n \in DOMAIN emissions' : Key(emissions'[m]) = Key(emissions'[n]) => m = n
  BY <1>2
<1>5. \A n \in DOMAIN emissions' : Data(emissions[n])' = signals[Key(emissions'[n])]
  BY DEF Data, Key
<1> QED
  BY <1>1, <1>3, <1>4, <1>5 DEF SigInv, Key

\* One emission comes behind some of the earlier ones.
LEMMA EmissionsGrow ==
    ASSUME SigInv, UNCHANGED <<instance_table, signals>>,
           NEW base \in Seq(EmissionData), DOMAIN base \subseteq DOMAIN emissions,
           \A n \in DOMAIN base : base[n] = emissions[n],
           NEW v, Walking(v), emissions' = Append(base, v),
           \A n \in DOMAIN base : Key(base[n]) # Key(v)
    PROVE  SigInv'
<1> DEFINE l == Len(base)
<1>0. v \in EmissionData
  BY DEF Walking
<1>1. /\ l \in Nat /\ DOMAIN base = 1..l
      /\ emissions' \in Seq(EmissionData) /\ DOMAIN emissions' = 1..l + 1
      /\ \A n \in 1..l + 1 : emissions'[n] = IF n = l + 1 THEN v ELSE base[n]
  BY <1>0
<1> HIDE DEF l
<1>2. SignalsTypeOK' /\ \A k \in Instance \X Signal : GoodList(signals[k])'
  BY DEF SigInv, SignalsTypeOK, Registered
<1>3. /\ \A n \in DOMAIN emissions :
            /\ Walk(emissions[n], signals[Key(emissions[n])])
            /\ \E m \in DOMAIN emissions[n].called : emissions[n].called[m] = emissions[n].current
      /\ \A m, n \in DOMAIN emissions : Key(emissions[m]) = Key(emissions[n]) => m = n
  BY DEF SigInv, Data
<1>4. \A n \in 1..l + 1 : n = l + 1 \/ n \in DOMAIN base
  BY <1>1
<1>5. ASSUME NEW n \in 1..l + 1
      PROVE  /\ Walk(emissions'[n], signals[Key(emissions'[n])])
             /\ \E m \in DOMAIN emissions'[n].called : emissions'[n].called[m] = emissions'[n].current
  <2>1. CASE n = l + 1
    <3>1. emissions'[n] = v
      BY <1>1, <2>1
    <3> QED
      BY <3>1 DEF Walking
  <2>2. CASE n # l + 1
    <3>1. n \in DOMAIN base /\ emissions'[n] = emissions[n] /\ n \in DOMAIN emissions
      BY <1>1, <1>4, <2>2
    <3> QED
      BY <1>3, <3>1
  <2> QED
    BY <2>1, <2>2
<1>6. ASSUME NEW m \in 1..l + 1, NEW n \in 1..l + 1, Key(emissions'[m]) = Key(emissions'[n])
      PROVE  m = n
  <2>1. CASE m # l + 1 /\ n # l + 1
    <3>1. /\ m \in DOMAIN base /\ emissions'[m] = emissions[m] /\ m \in DOMAIN emissions
          /\ n \in DOMAIN base /\ emissions'[n] = emissions[n] /\ n \in DOMAIN emissions
      BY <1>1, <1>4, <2>1
    <3> QED
      BY <1>3, <1>6, <3>1
  <2>2. CASE m = l + 1 /\ n # l + 1
    <3>1. n \in DOMAIN base /\ emissions'[n] = base[n] /\ emissions'[m] = v
      BY <1>1, <1>4, <2>2
    <3> QED
      BY <1>6, <3>1
  <2>3. CASE n = l + 1 /\ m # l + 1
    <3>1. m \in DOMAIN base /\ emissions'[m] = base[m] /\ emissions'[n] = v
      BY <1>1, <1>4, <2>3
    <3> QED
      BY <1>6, <3>1
  <2> QED
    BY <2>1, <2>2, <2>3
<1>7. \A n \in DOMAIN emissions' : Data(emissions[n])' = signals[Key(emissions'[n])]
  BY DEF Data, Key
<1>8. \A n \in DOMAIN emissions' :
            /\ Walk(emissions'[n], signals[Key(emissions'[n])])
            /\ \E m \in DOMAIN emissions'[n].called : emissions'[n].called[m] = emissions'[n].current
  BY <1>1, <1>5, Zenon
<1>9. \A m, n \in DOMAIN emissions' : Key(emissions'[m]) = Key(emissions'[n]) => m = n
  BY <1>1, <1>6, Zenon
<1>10. emissions' \in Seq(EmissionData)
  BY <1>1
<1> QED
  BY <1>2, <1>7, <1>8, <1>9, <1>10 DEF SigInv, Key

LEMMA FrontIs ==
    ASSUME NEW E, NEW l \in Seq(E), l # <<>>
    PROVE  /\ Front(l) \in Seq(E) /\ Len(l) \in DOMAIN l /\ Last(l) = l[Len(l)]
           /\ DOMAIN Front(l) = 1..(Len(l) - 1) /\ DOMAIN Front(l) \subseteq DOMAIN l
           /\ \A n \in DOMAIN Front(l) : Front(l)[n] = l[n] /\ n # Len(l)
<1>1. Len(l) \in Nat /\ Len(l) # 0 /\ \A n \in 1..Len(l) : l[n] \in E
  OBVIOUS
<1>2. /\ SubSeq(l, 1, Len(l) - 1) \in Seq(E) /\ Len(SubSeq(l, 1, Len(l) - 1)) = Len(l) - 1
      /\ \A n \in 1..(Len(l) - 1) : SubSeq(l, 1, Len(l) - 1)[n] = l[n]
  <2> DEFINE k == Len(l) - 1
  <2>1. k \in Nat /\ 1 \in 1..(Len(l) + 1) /\ k \in 0..Len(l)
    BY <1>1
  <2> HIDE DEF k
  <2>2. \A n \in 1 .. k - 1 + 1 : n \in 1..Len(l)
    BY <1>1, <2>1
  <2>3. /\ SubSeq(l, 1, k) \in Seq(E)
        /\ Len(SubSeq(l, 1, k)) = IF 1 <= k THEN k - 1 + 1 ELSE 0
        /\ \A n \in 1 .. k - 1 + 1 : SubSeq(l, 1, k)[n] = l[1 + n - 1]
    <3>1. \A n \in 1 .. k : l[n] \in E
      BY <1>1, <2>1 DEF k
    <3> QED
      BY <2>1, <3>1, SubSeqProperties
  <2>4. 1 .. k - 1 + 1 = 1..k /\ \A n \in 1..k : 1 + n - 1 = n
    BY <2>1
  <2>5. Len(SubSeq(l, 1, k)) = k /\ \A n \in 1..k : SubSeq(l, 1, k)[n] = l[n]
    BY <2>1, <2>3, <2>4
  <2> QED
    BY <2>3, <2>5 DEF k
<1>3. DOMAIN SubSeq(l, 1, Len(l) - 1) = 1..(Len(l) - 1)
  BY <1>2
<1> QED
  BY <1>1, <1>2, <1>3 DEF Front, Last

\* Emissions with the same fields are the same.
LEMMA SameEmission ==
    ASSUME NEW e \in EmissionData, NEW f \in EmissionData,
           e.instance = f.instance, e.signal = f.signal, e.data = f.data,
           e.returns = f.returns, e.current = f.current, e.next = f.next,
           e.atStart = f.atStart, e.called = f.called
    PROVE  e = f
BY DEF EmissionData

\* An emission begins with the first handler.
LEMMA EmitStep ==
    ASSUME SigInv, NEW i \in Instance, NEW s \in Signal, NEW r \in BOOLEAN, Emit(i, s, r)
    PROVE  SigInv'
<1> DEFINE d == signals[<<i, s>>]
           hs == d.handlers
           id == Head(hs).id
           e == [instance |-> i, signal |-> s, data |-> d.id,
                 returns |-> r, current |-> NoNode, next |-> NoNode,
                 atStart |-> Ids(hs), called |-> <<>>]
           e1 == [instance |-> i, signal |-> s, data |-> d.id,
                 returns |-> r, current |-> NoNode, next |-> id,
                 atStart |-> Ids(hs), called |-> <<>>]
           v == Visit(e1, hs, id)
<1>1. /\ Registered(i, s) /\ ~UnderWay(i, s) /\ hs # <<>>
      /\ emissions' = Append(emissions, Visit(e, hs, id))
      /\ UNCHANGED <<instance_table, signals>>
  BY DEF Emit
<1>2. d \in SignalRange /\ GoodList(d) /\ d # Absent
  BY <1>1, SignalsAre DEF SigInv, Registered
<1>3. /\ d.id \in Nat /\ d.id # 0 /\ d.next_handler_id \in Nat /\ hs \in Seq(HandlerData)
      /\ DOMAIN hs = 1..Len(hs) /\ Len(hs) \in Nat
      /\ \A a \in DOMAIN hs : hs[a].id \in Nat /\ hs[a].id # 0
  BY <1>2, SignalFields, RangeId
<1>4. 1 \in DOMAIN hs /\ id = hs[1].id
  <2>1. Len(hs) # 0
    BY <1>1, <1>3
  <2> QED
    BY <1>3, <2>1
<1>5. id \in Nat /\ id # NoNode /\ Ids(hs) \in SUBSET Nat
  BY <1>3, <1>4 DEF NoNode, Ids
<1>7. e1 \in EmissionData
  <2>1. <<>> \in Seq(Nat) /\ NoNode \in Nat
    BY DEF NoNode
  <2> HIDE DEF id, d, hs
  <2> QED
    BY <1>3, <1>5, <2>1 DEF EmissionData, d
<1>8. /\ e1.data = d.id /\ e1.next = id /\ e1.called = <<>> /\ e1.atStart = Ids(hs)
      /\ e1.instance = i /\ e1.signal = s
  OBVIOUS
<1> HIDE DEF e1, e
<1>9. Walk(e1, d)
  <2>1. d.id = e1.data /\ e1.data # 0
    BY <1>3, <1>8
  <2>2. \E j \in DOMAIN hs : hs[j].id = e1.next
    BY <1>4, <1>8
  <2>3. DOMAIN e1.called = {}
    BY <1>8
  <2>4. \A x \in e1.atStart : x < d.next_handler_id
    BY <1>2, <1>8 DEF Ids, GoodList
  <2>5. \A a \in DOMAIN hs : \E j \in DOMAIN hs : hs[j].id = e1.next /\ j <= a
    BY <1>3, <1>4, <1>8
  <2> HIDE DEF d
  <2> QED
    BY <2>1, <2>2, <2>3, <2>4, <2>5, Zenon DEF Walk
<1>10. v \in EmissionData /\ Walk(v, d)
  <2>1. e1.next # NoNode
    BY <1>5, <1>8
  <2> QED
    BY <1>2, <1>7, <1>8, <1>9, <2>1, WalkVisits
<1>6. NodeAfter(hs, id) \in Nat
  <2>1. NodeAfter(hs, id) = IF 1 = Len(hs) THEN NoNode ELSE hs[1 + 1].id
    BY <1>2, <1>4, NodeAfterIs
  <2>2. 1 # Len(hs) => 1 + 1 \in DOMAIN hs
    <3> HIDE DEF hs
    <3>1. DOMAIN hs = 1..Len(hs) /\ Len(hs) \in Nat /\ 1 \in DOMAIN hs
      BY <1>3, <1>4
    <3> QED
      BY <3>1
  <2> QED
    BY <1>3, <2>1, <2>2 DEF NoNode
<1>11. /\ v.instance = i /\ v.signal = s /\ v.current = id /\ v.called = Append(<<>>, id)
  <2> HIDE DEF id, hs, d
  <2> QED
    BY <1>5, <1>6, <1>7, <1>8, VisitFields
<1> HIDE DEF v
<1>12. Walking(v)
  <2>1. Key(v) = <<i, s>>
    BY <1>11 DEF Key
  <2>2. 1 \in DOMAIN v.called /\ v.called[1] = v.current
    BY <1>5, <1>11
  <2> QED
    BY <1>10, <2>1, <2>2 DEF Walking
<1>13. \A n \in DOMAIN emissions : Key(emissions[n]) # Key(v)
  <2>1. Key(v) = <<i, s>>
    BY <1>11 DEF Key
  <2> QED
    BY <1>1, <2>1, WalkedRegistered
<1>14. emissions \in Seq(EmissionData)
  BY DEF SigInv
<1>15. emissions' = Append(emissions, v)
  <2> DEFINE u == Visit(e, hs, id)
  <2>1. e \in EmissionData
    <3>1. <<>> \in Seq(Nat) /\ NoNode \in Nat
      BY DEF NoNode
    <3> HIDE DEF hs, d
    <3> QED
      BY <1>3, <1>5, <3>1 DEF EmissionData, d, e
  <2>2. /\ e.instance = e1.instance /\ e.signal = e1.signal /\ e.data = e1.data
        /\ e.returns = e1.returns /\ e.atStart = e1.atStart /\ e.called = e1.called
    BY DEF e, e1
  <2> HIDE DEF id, hs, d
  <2>3. /\ u \in EmissionData
        /\ u.instance = e.instance /\ u.signal = e.signal /\ u.data = e.data
        /\ u.returns = e.returns /\ u.atStart = e.atStart /\ u.called = Append(e.called, id)
        /\ u.current = id /\ u.next = NodeAfter(hs, id)
    BY <1>5, <1>6, <2>1, VisitFields
  <2>4. /\ v.instance = e1.instance /\ v.signal = e1.signal /\ v.data = e1.data
        /\ v.returns = e1.returns /\ v.atStart = e1.atStart /\ v.called = Append(e1.called, id)
        /\ v.current = id /\ v.next = NodeAfter(hs, id)
    BY <1>5, <1>6, <1>7, VisitFields DEF v
  <2> HIDE DEF u
  <2>5. u = v
    BY <1>10, <2>2, <2>3, <2>4, SameEmission
  <2> QED
    BY <1>1, <2>5 DEF u
<1>16. UNCHANGED <<instance_table, signals>>
  BY <1>1
<1> QED
  BY <1>12, <1>13, <1>14, <1>15, <1>16, EmissionsGrow

\* The innermost emission.
LEMMA InnerIs ==
    ASSUME SigInv, ~Idle
    PROVE  /\ emissions \in Seq(EmissionData) /\ emissions # <<>>
           /\ Len(emissions) \in DOMAIN emissions /\ Inner = emissions[Len(emissions)]
           /\ Front(emissions) \in Seq(EmissionData)
           /\ DOMAIN Front(emissions) \subseteq DOMAIN emissions
           /\ \A n \in DOMAIN Front(emissions) :
                 Front(emissions)[n] = emissions[n] /\ n # Len(emissions)
<1>1. emissions \in Seq(EmissionData) /\ emissions # <<>>
  BY DEF SigInv, Idle
<1>2. Inner = Last(emissions)
  BY DEF Inner
<1> QED
  BY <1>1, <1>2, FrontIs

LEMMA GoOnStep ==
    ASSUME SigInv, Step
    PROVE  SigInv'
<1> DEFINE e == Inner
           d == signals[<<e.instance, e.signal>>]
           v == Visit(e, d.handlers, e.next)
<1>1. /\ ~Idle /\ e.next # NoNode
      /\ emissions' = Append(Front(emissions), v)
      /\ UNCHANGED <<instance_table, signals>>
  BY DEF Step
<1>2. /\ Len(emissions) \in DOMAIN emissions /\ e = emissions[Len(emissions)]
      /\ Front(emissions) \in Seq(EmissionData)
      /\ DOMAIN Front(emissions) \subseteq DOMAIN emissions
      /\ \A n \in DOMAIN Front(emissions) :
            Front(emissions)[n] = emissions[n] /\ n # Len(emissions)
  BY <1>1, InnerIs
<1>3. /\ e \in EmissionData /\ d \in SignalRange /\ GoodList(d) /\ Walk(e, d)
      /\ d = Data(e)
  BY <1>2, EmissionsAre DEF Data, Key
<1> HIDE DEF e, d
<1>4. v \in EmissionData /\ Walk(v, d)
  BY <1>1, <1>3, WalkVisits
<1>5. /\ e.next \in Nat /\ e.called \in Seq(Nat)
      /\ v.instance = e.instance /\ v.signal = e.signal
      /\ v.current = e.next /\ v.called = Append(e.called, e.next)
  <2>1. e.next \in Nat /\ e.called \in Seq(Nat)
    BY <1>3, EmissionFields
  <2>2. NodeAfter(d.handlers, e.next) \in Nat
    <3>1. PICK p \in DOMAIN d.handlers : d.handlers[p].id = e.next
      BY <1>1, <1>3 DEF Walk
    <3>2. NodeAfter(d.handlers, e.next)
                = IF p = Len(d.handlers) THEN NoNode ELSE d.handlers[p + 1].id
      BY <1>3, <3>1, NodeAfterIs
    <3>3. /\ DOMAIN d.handlers = 1..Len(d.handlers) /\ Len(d.handlers) \in Nat
          /\ \A a \in DOMAIN d.handlers : d.handlers[a].id \in Nat
      BY <1>3, SignalFields
    <3>4. p # Len(d.handlers) => p + 1 \in DOMAIN d.handlers
      BY <3>1, <3>3
    <3> QED
      BY <3>2, <3>3, <3>4 DEF NoNode
  <2> QED
    BY <1>3, <2>1, <2>2, VisitFields, SMTT(30)
<1> HIDE DEF v
<1>6. Walking(v)
  <2>1. signals[Key(v)] = d
    BY <1>5 DEF Key, d
  <2>2. \E m \in DOMAIN v.called : v.called[m] = v.current
    <3>1. Len(e.called) + 1 \in DOMAIN Append(e.called, e.next)
          /\ Append(e.called, e.next)[Len(e.called) + 1] = e.next
      BY <1>5
    <3> QED
      BY <1>5, <3>1
  <2> QED
    BY <1>4, <2>1, <2>2 DEF Walking
<1>7. \A n \in DOMAIN Front(emissions) : Key(Front(emissions)[n]) # Key(v)
  <2>1. Key(v) = Key(emissions[Len(emissions)])
    BY <1>2, <1>5 DEF Key
  <2>2. \A m, n \in DOMAIN emissions : Key(emissions[m]) = Key(emissions[n]) => m = n
    BY DEF SigInv
  <2> QED
    BY <1>2, <2>1, <2>2
<1> QED
  BY <1>1, <1>2, <1>6, <1>7, EmissionsGrow

LEMMA EndStep ==
    ASSUME SigInv, Finish \/ Answer
    PROVE  SigInv'
<1>1. ~Idle /\ emissions' = Front(emissions) /\ UNCHANGED <<instance_table, signals>>
  BY DEF Finish, Answer
<1>2. /\ emissions' \in Seq(EmissionData) /\ DOMAIN emissions' \subseteq DOMAIN emissions
      /\ \A n \in DOMAIN emissions' : emissions'[n] = emissions[n]
  BY <1>1, InnerIs
<1> QED
  BY <1>1, <1>2, EmissionsShrink

LEMMA SignalsStart ==
    ASSUME SignalsInit
    PROVE  SigInv
<1>1. /\ instance_table = [i \in Instance |-> Gone]
      /\ signals = [k \in Instance \X Signal |-> Absent] /\ emissions = <<>>
  BY DEF SignalsInit
<1>2. ASSUME NEW i \in Instance
      PROVE  instance_table[i].signal_count = Cardinality({s \in Signal : Registered(i, s)})
  <2>1. {s \in Signal : Registered(i, s)} = {}
    BY <1>1 DEF Registered
  <2> QED
    BY <1>1, <2>1, FS_EmptySet DEF Gone
<1>3. SignalsTypeOK
  BY <1>1, <1>2 DEF SignalsTypeOK
<1>4. \A k \in Instance \X Signal : GoodList(signals[k])
  BY <1>1 DEF GoodList, Absent
<1>5. emissions \in Seq(EmissionData) /\ DOMAIN emissions = {}
  BY <1>1
<1> QED
  BY <1>3, <1>4, <1>5 DEF SigInv

LEMMA SignalsKept ==
    ASSUME SigInv, [SignalsNext]_signalVars
    PROVE  SigInv'
<1>1. ASSUME UNCHANGED signalVars PROVE SigInv'
  <2>1. /\ UNCHANGED <<instance_table, signals>> /\ emissions' = emissions
        /\ emissions \in Seq(EmissionData)
    BY <1>1 DEF signalVars, SigInv
  <2> QED
    BY <2>1, EmissionsShrink
<1>2. ASSUME NEW i \in Instance, NEW s \in Signal,
             \/ Register(i, s) \/ Unregister(i, s)
             \/ \E h \in Handle : Disconnect(i, s, h) \/ \E p \in Priority : Connect(i, s, h, p)
             \/ \E r \in BOOLEAN : Emit(i, s, r)
      PROVE  SigInv'
  BY <1>2, RegisterStep, UnregisterStep, DisconnectStep, ConnectStep, EmitStep
<1>3. ASSUME NEW i \in Instance, UnregisterByInstance(i) PROVE SigInv'
  BY <1>3, UnregisterByInstanceStep
<1>4. ASSUME NEW h \in Handle, DisconnectByHandle(h) PROVE SigInv'
  BY <1>4, DisconnectByHandleStep
<1>5. ASSUME Step \/ Finish \/ Answer PROVE SigInv'
  BY <1>5, GoOnStep, EndStep
<1> QED
  BY <1>1, <1>2, <1>3, <1>4, <1>5 DEF SignalsNext

\* The members of a list without repetitions are as many as it is long.
LEMMA DistinctCount ==
    ASSUME NEW l \in Seq(Nat), \A m, n \in DOMAIN l : l[m] = l[n] => m = n
    PROVE  Cardinality(ToSet(l)) = Len(l)
<1>1. Len(l) \in Nat /\ DOMAIN l = 1..Len(l)
  OBVIOUS
<1>2. l \in Bijection(1..Len(l), ToSet(l))
  <2>1. l \in [1..Len(l) -> ToSet(l)]
    BY <1>1 DEF ToSet
  <2> QED
    BY <1>1, <2>1 DEF Bijection, Injection, Surjection, IsInjective, ToSet
<1>3. IsFiniteSet(1..Len(l)) /\ Cardinality(1..Len(l)) = Len(l)
  BY <1>1, FS_Interval
<1> QED
  BY <1>2, <1>3, FS_Bijection DEF ExistsBijection

LEMMA SafeEmissions ==
    ASSUME SigInv
    PROVE  EmissionsAreSafe
<1>1. ASSUME NEW e \in ToSet(emissions)
      PROVE  /\ signals[<<e.instance, e.signal>>].id = e.data
             /\ e.next \in {NoNode} \cup Ids(signals[<<e.instance, e.signal>>].handlers)
             /\ Cardinality(ToSet(e.called)) = Len(e.called)
             /\ e.next = NoNode => e.atStart \cap Ids(signals[<<e.instance, e.signal>>].handlers)
                                        \subseteq ToSet(e.called)
  <2> DEFINE d == signals[<<e.instance, e.signal>>]
  <2>1. PICK n \in DOMAIN emissions : emissions[n] = e
    BY DEF ToSet
  <2>2. e \in EmissionData /\ d \in SignalRange /\ GoodList(d) /\ Walk(e, d)
    BY <2>1, EmissionsAre DEF Data, Key
  <2> HIDE DEF d
  <2>3. d.id = e.data /\ e.next \in {NoNode} \cup Ids(d.handlers)
    BY <2>2 DEF Walk, Ids
  <2>4. Cardinality(ToSet(e.called)) = Len(e.called)
    BY <2>2, EmissionFields, DistinctCount DEF Walk
  <2>5. ASSUME e.next = NoNode, NEW i \in DOMAIN d.handlers, d.handlers[i].id \in e.atStart
        PROVE  d.handlers[i].id \in ToSet(e.called)
    <3>1. \A j \in DOMAIN d.handlers : d.handlers[j].id # e.next
      BY <2>2, <2>5, SignalFields DEF NoNode
    <3>2. \E m \in DOMAIN e.called : d.handlers[i].id = e.called[m]
      BY <2>2, <2>5, <3>1 DEF Walk
    <3> QED
      BY <3>2 DEF ToSet
  <2>6. e.next = NoNode => e.atStart \cap Ids(d.handlers) \subseteq ToSet(e.called)
    BY <2>5 DEF Ids
  <2> QED
    BY <2>3, <2>4, <2>6 DEF d
<1>2. ASSUME NEW e \in ToSet(emissions), NEW hs, hs = signals[<<e.instance, e.signal>>].handlers
      PROVE  /\ \A a, b \in Ids(hs) \cap ToSet(e.called) :
                    Position(hs, a) < Position(hs, b)
                        => \E m, n \in DOMAIN e.called : m < n /\ e.called[m] = a /\ e.called[n] = b
             /\ \A k \in DOMAIN hs : \A m \in 1..(k - 1) : hs[m].priority <= hs[k].priority
  <2> DEFINE d == signals[<<e.instance, e.signal>>]
  <2>1. PICK n \in DOMAIN emissions : emissions[n] = e
    BY DEF ToSet
  <2>2. e \in EmissionData /\ d \in SignalRange /\ GoodList(d) /\ Walk(e, d) /\ d.handlers = hs
    BY <1>2, <2>1, EmissionsAre DEF Data, Key
  <2> HIDE DEF d
  <2>3. DOMAIN hs = 1..Len(hs) /\ Len(hs) \in Nat
    BY <2>2, SignalFields
  <2>4. ASSUME NEW a \in Ids(hs) \cap ToSet(e.called), NEW b \in Ids(hs) \cap ToSet(e.called),
               Position(hs, a) < Position(hs, b)
        PROVE  \E m, k \in DOMAIN e.called : m < k /\ e.called[m] = a /\ e.called[k] = b
    <3>1. PICK i \in DOMAIN hs : hs[i].id = a
      BY DEF Ids
    <3>2. PICK j \in DOMAIN hs : hs[j].id = b
      BY DEF Ids
    <3>3. Position(hs, a) = i /\ Position(hs, b) = j
      BY <2>2, <3>1, <3>2, PositionIs
    <3>4. PICK m \in DOMAIN e.called : e.called[m] = a
      BY DEF ToSet
    <3>5. PICK k \in DOMAIN e.called : e.called[k] = b
      BY DEF ToSet
    <3>6. \A x, y \in DOMAIN hs : \A z, w \in DOMAIN e.called :
            hs[x].id = e.called[z] /\ hs[y].id = e.called[w] /\ x < y => z < w
      BY <2>2 DEF Walk
    <3>7. m < k
      BY <2>4, <3>1, <3>2, <3>3, <3>4, <3>5, <3>6
    <3> QED
      BY <3>4, <3>5, <3>7
  <2>5. ASSUME NEW k \in DOMAIN hs, NEW m \in 1..(k - 1) PROVE hs[m].priority <= hs[k].priority
    <3>1. m \in DOMAIN hs /\ m < k
      BY <2>3
    <3> QED
      BY <2>2, <3>1 DEF GoodList
  <2> QED
    BY <2>4, <2>5
<1>3. WalkStaysLinked
  BY <1>1 DEF WalkStaysLinked, SigInv
<1>4. EachCalledOnce
  <2> SUFFICES ASSUME NEW e \in ToSet(emissions)
      PROVE  LET hs == signals[<<e.instance, e.signal>>].handlers
                 still == Ids(hs) \cap ToSet(e.called)
             IN /\ Cardinality(ToSet(e.called)) = Len(e.called)
                /\ e.next = NoNode => e.atStart \cap Ids(hs) \subseteq ToSet(e.called)
                /\ \A a, b \in still :
                     Position(hs, a) < Position(hs, b)
                         => \E m, n \in DOMAIN e.called :
                              m < n /\ e.called[m] = a /\ e.called[n] = b
                /\ \A k \in DOMAIN hs :
                      \A m \in 1..(k - 1) : hs[m].priority <= hs[k].priority
    BY Zenon DEF EachCalledOnce
  <2> DEFINE hs == signals[<<e.instance, e.signal>>].handlers
             still == Ids(hs) \cap ToSet(e.called)
  <2>1. Cardinality(ToSet(e.called)) = Len(e.called)
    BY <1>1, Zenon
  <2>2. e.next = NoNode => e.atStart \cap Ids(hs) \subseteq ToSet(e.called)
    BY <1>1, Zenon
  <2>3. hs = signals[<<e.instance, e.signal>>].handlers
    OBVIOUS
  <2> HIDE DEF hs
  <2>4. /\ \A a, b \in still :
              Position(hs, a) < Position(hs, b)
                  => \E m, n \in DOMAIN e.called : m < n /\ e.called[m] = a /\ e.called[n] = b
        /\ \A k \in DOMAIN hs : \A m \in 1..(k - 1) : hs[m].priority <= hs[k].priority
    BY <1>2, <2>3
  <2> QED
    BY <2>1, <2>2, <2>4, Zenon DEF hs
<1> QED
  BY <1>3, <1>4 DEF EmissionsAreSafe

\* An emission survives what its handlers do: its signal stays registered, the node it
\* visits next stays linked, and every handler that was there and stays is called once, in
\* the order of the list (oul_signal_emit_vargs), for any number of signals and handlers
\* and any depth of emissions, as long as callbacks keep the contract.
THEOREM EmissionsSafe == SignalsSpec => []EmissionsAreSafe
<1>1. SignalsInit => SigInv
  BY SignalsStart
<1>2. SigInv /\ [SignalsNext]_signalVars => SigInv'
  BY SignalsKept
<1>3. SigInv => EmissionsAreSafe
  BY SafeEmissions
<1> QED
  BY <1>1, <1>2, <1>3, PTL DEF SignalsSpec

-----------------------------------------------------------------------------
(* The tray icon                                                            *)

LEMMA TrayKept ==
    ASSUME TrayIconIsTrue, [TrayNext]_trayVars
    PROVE  TrayIconIsTrue'
<1>1. CASE TrayStart
  BY <1>1 DEF TrayIconIsTrue, TrayStart, TrayEmbedded
<1>2. CASE TrayTakesIn
  BY <1>2 DEF TrayIconIsTrue, TrayTakesIn, TrayEmbedded
<1>3. CASE EmbedTimeout
  BY <1>3 DEF TrayIconIsTrue, EmbedTimeout, TrayRemoved, NoTray
<1>4. CASE TrayDies
  BY <1>4 DEF TrayIconIsTrue, TrayDies, TrayRemoved, NoTray
<1>5. CASE Recreate
  BY <1>5 DEF TrayIconIsTrue, Recreate
<1>6. CASE TrayQuit
  BY <1>6 DEF TrayIconIsTrue, TrayQuit, TrayRemoved, NoTray
<1>7. ASSUME NEW h \in TrayHeight, TrayResizes(h) PROVE TrayIconIsTrue'
  BY <1>7 DEF TrayIconIsTrue, TrayResizes
<1>8. ASSUME NEW type \in StatusType, StatusChanges(type) PROVE TrayIconIsTrue'
  BY <1>8 DEF TrayIconIsTrue, StatusChanges
<1>9. CASE UNCHANGED trayVars
  BY <1>9 DEF TrayIconIsTrue, trayVars
<1> QED
  BY <1>1, <1>2, <1>3, <1>4, <1>5, <1>6, <1>7, <1>8, <1>9 DEF TrayNext

\* An icon in the tray counts as visible and shows the status last heard of in the size of
\* the tray, and the timer of its start cannot take it down, whenever the tray takes it in,
\* resizes it or dies (docklet_x11_embedded_cb, docklet_x11_destroyed_cb).
THEOREM TrueIcon == TraySpec => []TrayIconIsTrue
<1>1. TrayInit => TrayIconIsTrue
  BY DEF TrayInit, TrayIconIsTrue, NoTray
<1> QED
  BY <1>1, TrayKept, PTL DEF TraySpec

-----------------------------------------------------------------------------
(* The registry of ciphers                                                  *)

CipherNames == ToSet(Builtin) \cup {"freed"}
CipherData == [name : CipherNames, ref : Nat]
ContextData == [cipher : Cipher \cup {"none"}, hash : Context \cup {"none"}]
Registries == [list : SUBSET Cipher, mem : [Cipher -> CipherData],
               ctx : [Context -> ContextData]]
HashOrNone == Context \cup {"none"}
Uses(m, c) == {x \in Context : m.ctx[x].cipher = c}

\* A registry in order: what a cipher counts are its contexts, no two listed ciphers
\* have a name, and a place of memory without a cipher is no context.
Orderly(m) ==
    /\ m \in Registries
    /\ \A c \in Cipher : m.mem[c].ref = Cardinality(Uses(m, c))
    /\ \A c, d \in m.list : c # d => m.mem[c].name # m.mem[d].name
    /\ \A x \in Context : m.ctx[x].cipher = "none" => m.ctx[x] = NoContext

\* The contexts in memory are those held and their hashes, and every hash has one owner.
Owned(m, H) ==
    /\ H \subseteq Context
    /\ \A x \in Context : m.ctx[x].cipher # "none" <=> (x \in H \/ \E y \in H : m.ctx[y].hash = x)
    /\ \A x \in H : m.ctx[x].hash # "none" =>
           /\ m.ctx[x].hash \notin H /\ m.ctx[m.ctx[x].hash].hash = "none"
           /\ \A y \in H : m.ctx[y].hash = m.ctx[x].hash => y = x

\* The fields of a registry.
LEMMA RegistryFields ==
    ASSUME NEW m \in Registries
    PROVE  /\ m.list \subseteq Cipher
           /\ m.mem \in [Cipher -> CipherData] /\ m.ctx \in [Context -> ContextData]
           /\ m = [list |-> m.list, mem |-> m.mem, ctx |-> m.ctx]
           /\ \A c \in Cipher : /\ m.mem[c].name \in CipherNames /\ m.mem[c].ref \in Nat
                                /\ m.mem[c] = [name |-> m.mem[c].name, ref |-> m.mem[c].ref]
           /\ \A x \in Context : /\ m.ctx[x].cipher \in Cipher \cup {"none"}
                                 /\ m.ctx[x].hash \in Context \cup {"none"}
                                 /\ m.ctx[x] = [cipher |-> m.ctx[x].cipher, hash |-> m.ctx[x].hash]
<1>1. /\ m.list \subseteq Cipher
      /\ m.mem \in [Cipher -> CipherData] /\ m.ctx \in [Context -> ContextData]
      /\ m = [list |-> m.list, mem |-> m.mem, ctx |-> m.ctx]
  BY DEF Registries
<1>2. \A c \in Cipher : /\ m.mem[c].name \in CipherNames /\ m.mem[c].ref \in Nat
                        /\ m.mem[c] = [name |-> m.mem[c].name, ref |-> m.mem[c].ref]
  BY <1>1 DEF CipherData
<1>3. \A x \in Context : /\ m.ctx[x].cipher \in Cipher \cup {"none"}
                         /\ m.ctx[x].hash \in Context \cup {"none"}
                         /\ m.ctx[x] = [cipher |-> m.ctx[x].cipher, hash |-> m.ctx[x].hash]
  BY <1>1 DEF ContextData
<1> QED
  BY <1>1, <1>2, <1>3

\* What a context changes: the count of its cipher and its place in memory.
LEMMA ContextNewIs ==
    ASSUME NEW m \in Registries, NEW c \in Cipher, NEW x \in Context
    PROVE  ContextNew(m, c, x) =
             [list |-> m.list,
              mem |-> [m.mem EXCEPT ![c] = [name |-> m.mem[c].name, ref |-> m.mem[c].ref + 1]],
              ctx |-> [m.ctx EXCEPT ![x] = [cipher |-> c, hash |-> "none"]]]
<1> DEFINE mem == m.mem
           ctx == m.ctx
           l == m.list
<1>1. /\ mem \in [Cipher -> CipherData] /\ ctx \in [Context -> ContextData]
      /\ m = [list |-> l, mem |-> mem, ctx |-> ctx]
      /\ mem[c] = [name |-> mem[c].name, ref |-> mem[c].ref]
  BY RegistryFields, Zenon
<1>2. [mem EXCEPT ![c].ref = @ + 1] = [mem EXCEPT ![c] = [name |-> mem[c].name, ref |-> mem[c].ref + 1]]
  BY <1>1
<1>3. ContextNew(m, c, x) = [m EXCEPT !.mem = [mem EXCEPT ![c].ref = @ + 1],
                                      !.ctx = [ctx EXCEPT ![x] = [cipher |-> c, hash |-> "none"]]]
  BY DEF ContextNew, NoHash
<1> HIDE DEF mem, ctx, l
<1> QED
  BY <1>1, <1>2, <1>3 DEF mem, ctx, l

LEMMA DroppedIs ==
    ASSUME NEW m \in Registries, NEW x \in Context, m.ctx[x].cipher \in Cipher
    PROVE  Dropped(m, x) =
             [list |-> m.list,
              mem |-> [m.mem EXCEPT ![m.ctx[x].cipher] =
                          [name |-> m.mem[m.ctx[x].cipher].name,
                           ref |-> m.mem[m.ctx[x].cipher].ref - 1]],
              ctx |-> [m.ctx EXCEPT ![x] = NoContext]]
<1> DEFINE mem == m.mem
           ctx == m.ctx
           l == m.list
           c == m.ctx[x].cipher
<1>1. /\ mem \in [Cipher -> CipherData] /\ ctx \in [Context -> ContextData] /\ c \in Cipher
      /\ m = [list |-> l, mem |-> mem, ctx |-> ctx]
      /\ mem[c] = [name |-> mem[c].name, ref |-> mem[c].ref]
  BY RegistryFields, Zenon
<1>3. Dropped(m, x) = [m EXCEPT !.mem = [mem EXCEPT ![c].ref = @ - 1],
                                !.ctx = [ctx EXCEPT ![x] = NoContext]]
  BY DEF Dropped
<1> HIDE DEF mem, ctx, l, c
<1>2. [mem EXCEPT ![c].ref = @ - 1] = [mem EXCEPT ![c] = [name |-> mem[c].name, ref |-> mem[c].ref - 1]]
  <2>1. [mem[c] EXCEPT !.ref = @ - 1] = [name |-> mem[c].name, ref |-> mem[c].ref - 1]
    <3>1. mem[c] \in CipherData
      BY <1>1
    <3> QED
      BY <3>1 DEF CipherData
  <2> QED
    BY <2>1
<1> QED
  BY <1>1, <1>2, <1>3 DEF mem, ctx, l, c

\* What giving the context at x the hash h, or none, changes.
Hashed(m, x, h) == [m EXCEPT !.ctx[x].hash = h]

LEMMA HashIs ==
    ASSUME NEW m \in Registries, NEW x \in Context, NEW h
    PROVE  Hashed(m, x, h) =
             [list |-> m.list, mem |-> m.mem,
              ctx |-> [m.ctx EXCEPT ![x] = [cipher |-> m.ctx[x].cipher, hash |-> h]]]
<1> DEFINE mem == m.mem
           ctx == m.ctx
           l == m.list
<1>1. /\ ctx \in [Context -> ContextData]
      /\ m = [list |-> l, mem |-> mem, ctx |-> ctx]
      /\ ctx[x] = [cipher |-> ctx[x].cipher, hash |-> ctx[x].hash]
  BY RegistryFields, Zenon
<1>3. Hashed(m, x, h) = [m EXCEPT !.ctx = [ctx EXCEPT ![x].hash = h]]
  BY DEF Hashed
<1> HIDE DEF mem, ctx, l
<1>2. [ctx EXCEPT ![x].hash = h] = [ctx EXCEPT ![x] = [cipher |-> ctx[x].cipher, hash |-> h]]
  <2>1. [ctx[x] EXCEPT !.hash = h] = [cipher |-> ctx[x].cipher, hash |-> h]
    <3>1. ctx[x] \in ContextData
      BY <1>1
    <3> QED
      BY <3>1 DEF ContextData
  <2> QED
    BY <2>1
<1> QED
  BY <1>1, <1>2, <1>3 DEF mem, ctx, l

\* A context made and destroyed leaves the registry as it was, and so does one
\* inside of which another is made and destroyed.
LEMMA UsedIsGone ==
    ASSUME NEW m \in Registries, NEW c \in Cipher, NEW x \in Context, m.ctx[x] = NoContext
    PROVE  ContextDestroy(ContextNew(m, c, x), x) = m
<1> DEFINE n == ContextNew(m, c, x)
<1>1. /\ n.list = m.list
      /\ n.mem = [m.mem EXCEPT ![c] = [name |-> m.mem[c].name, ref |-> m.mem[c].ref + 1]]
      /\ n.ctx = [m.ctx EXCEPT ![x] = [cipher |-> c, hash |-> "none"]]
  BY ContextNewIs
<1>2. /\ m.mem \in [Cipher -> CipherData] /\ m.ctx \in [Context -> ContextData]
      /\ m = [list |-> m.list, mem |-> m.mem, ctx |-> m.ctx]
      /\ m.mem[c].name \in CipherNames /\ m.mem[c].ref \in Nat
      /\ m.mem[c] = [name |-> m.mem[c].name, ref |-> m.mem[c].ref]
  BY RegistryFields, Zenon
<1>3. n \in Registries /\ n.ctx[x].cipher = c /\ n.ctx[x].hash = "none"
  <2>1. n.mem \in [Cipher -> CipherData]
    <3>1. [name |-> m.mem[c].name, ref |-> m.mem[c].ref + 1] \in CipherData
      BY <1>2 DEF CipherData
    <3> QED
      BY <1>1, <1>2, <3>1
  <2>2. n.ctx \in [Context -> ContextData] /\ n.ctx[x].cipher = c /\ n.ctx[x].hash = "none"
    <3>1. [cipher |-> c, hash |-> "none"] \in ContextData
      BY DEF ContextData
    <3> QED
      BY <1>1, <1>2, <3>1
  <2>3. n = [list |-> n.list, mem |-> n.mem, ctx |-> n.ctx]
    BY ContextNewIs
  <2>4. n.list \in SUBSET Cipher
    BY <1>1, RegistryFields
  <2> HIDE DEF n
  <2> QED
    BY <2>1, <2>2, <2>3, <2>4 DEF Registries
<1> HIDE DEF n
<1>4. ContextDestroy(n, x) = Dropped(n, x)
  BY <1>3 DEF ContextDestroy, ContextReset, NoHash
<1>5. Dropped(n, x) = [list |-> n.list,
                       mem |-> [n.mem EXCEPT ![c] = [name |-> n.mem[c].name, ref |-> n.mem[c].ref - 1]],
                       ctx |-> [n.ctx EXCEPT ![x] = NoContext]]
  BY <1>3, DroppedIs
<1>6. [n.mem EXCEPT ![c] = [name |-> n.mem[c].name, ref |-> n.mem[c].ref - 1]] = m.mem
  <2>1. n.mem[c] = [name |-> m.mem[c].name, ref |-> m.mem[c].ref + 1]
    BY <1>1, <1>2
  <2>2. n.mem[c].name = m.mem[c].name /\ n.mem[c].ref - 1 = m.mem[c].ref
    BY <1>2, <2>1
  <2>3. [name |-> n.mem[c].name, ref |-> n.mem[c].ref - 1] = m.mem[c]
    BY <1>2, <2>2
  <2> QED
    BY <1>1, <1>2, <2>3
<1>7. [n.ctx EXCEPT ![x] = NoContext] = m.ctx
  BY <1>1, <1>2
<1> QED
  BY <1>1, <1>2, <1>4, <1>5, <1>6, <1>7 DEF n

\* n is m but for the count of the cipher c, which is k, and the context at x, which is e.
Recounted(m, n, c, x, k, e) ==
    n = [list |-> m.list,
         mem |-> [m.mem EXCEPT ![c] = [name |-> m.mem[c].name, ref |-> k]],
         ctx |-> [m.ctx EXCEPT ![x] = e]]

\* It is in order again when the count is right.
LEMMA OrderlyAgain ==
    ASSUME NEW m, Orderly(m), NEW n, NEW c \in Cipher, NEW x \in Context, NEW k \in Nat,
           NEW e \in ContextData, e.cipher = "none" => e = NoContext,
           Recounted(m, n, c, x, k, e), k = Cardinality(Uses(n, c)),
           e.cipher \in {c, "none"}, m.ctx[x].cipher \in {c, "none"}
    PROVE  Orderly(n) /\ n.list = m.list
<1>1. /\ m \in Registries
      /\ \A d \in Cipher : m.mem[d].ref = Cardinality(Uses(m, d))
      /\ \A d, b \in m.list : d # b => m.mem[d].name # m.mem[b].name
      /\ \A y \in Context : m.ctx[y].cipher = "none" => m.ctx[y] = NoContext
  BY DEF Orderly
<1>2. /\ m.mem \in [Cipher -> CipherData] /\ m.ctx \in [Context -> ContextData]
      /\ m.list \subseteq Cipher
      /\ \A d \in Cipher : m.mem[d].name \in CipherNames
  BY <1>1, RegistryFields, Zenon
<1> DEFINE r == [name |-> m.mem[c].name, ref |-> k]
<1>3. r \in CipherData /\ r.name = m.mem[c].name /\ r.ref = k
  BY <1>2 DEF CipherData
<1> HIDE DEF r
<1>4. /\ n.list = m.list
      /\ n.mem = [m.mem EXCEPT ![c] = r] /\ n.ctx = [m.ctx EXCEPT ![x] = e]
      /\ n = [list |-> n.list, mem |-> n.mem, ctx |-> n.ctx]
  BY DEF Recounted, r
<1>5. /\ \A y \in Context : n.ctx[y] = IF y = x THEN e ELSE m.ctx[y]
      /\ \A d \in Cipher : n.mem[d] = IF d = c THEN r ELSE m.mem[d]
      /\ n.ctx \in [Context -> ContextData] /\ n.mem \in [Cipher -> CipherData]
  BY <1>2, <1>3, <1>4
<1>6. n \in Registries
  BY <1>2, <1>4, <1>5 DEF Registries
<1>7. ASSUME NEW d \in Cipher PROVE n.mem[d].ref = Cardinality(Uses(n, d))
  <2>1. CASE d = c
    BY <1>3, <1>5, <2>1
  <2>2. CASE d # c
    <3>1. d # "none"
      BY CiphersAssumption
    <3>2. \A y \in Context : n.ctx[y].cipher = d <=> m.ctx[y].cipher = d
      BY <1>5, <2>2, <3>1
    <3>3. Uses(n, d) = Uses(m, d)
      BY <3>2 DEF Uses
    <3> QED
      BY <1>1, <1>5, <2>2, <3>3
  <2> QED
    BY <2>1, <2>2
<1>8. \A d, b \in n.list : d # b => n.mem[d].name # n.mem[b].name
  <2>1. \A d \in n.list : n.mem[d].name = m.mem[d].name
    BY <1>2, <1>3, <1>4, <1>5
  <2> QED
    BY <1>1, <1>4, <2>1
<1>9. \A y \in Context : n.ctx[y].cipher = "none" => n.ctx[y] = NoContext
  BY <1>1, <1>5
<1> QED
  BY <1>4, <1>5, <1>6, <1>7, <1>8, <1>9 DEF Orderly

LEMMA ContextNewOrderly ==
    ASSUME NEW m, Orderly(m), NEW c \in Cipher, NEW x \in Context, m.ctx[x] = NoContext
    PROVE  /\ Orderly(ContextNew(m, c, x)) /\ ContextNew(m, c, x).list = m.list
           /\ ContextNew(m, c, x).ctx[x] = [cipher |-> c, hash |-> "none"]
           /\ \A y \in Context : y # x => ContextNew(m, c, x).ctx[y] = m.ctx[y]
<1> DEFINE n == ContextNew(m, c, x)
           e == [cipher |-> c, hash |-> "none"]
           k == m.mem[c].ref + 1
<1>1. /\ m \in Registries /\ m.mem[c].ref = Cardinality(Uses(m, c))
      /\ m.mem[c].ref \in Nat /\ m.ctx \in [Context -> ContextData]
  BY RegistryFields DEF Orderly
<1>2. n = [list |-> m.list,
           mem |-> [m.mem EXCEPT ![c] = [name |-> m.mem[c].name, ref |-> k]],
           ctx |-> [m.ctx EXCEPT ![x] = e]]
  BY <1>1, ContextNewIs
<1>3. c # "none" /\ IsFiniteSet(Context)
  BY CiphersAssumption
<1>4. e \in ContextData /\ e.cipher = c /\ m.ctx[x].cipher = "none"
  BY DEF ContextData, NoContext
<1> HIDE DEF n, e
<1>5. k = Cardinality(Uses(n, c))
  <2>1. \A y \in Context : n.ctx[y] = IF y = x THEN e ELSE m.ctx[y]
    BY <1>1, <1>2
  <2>2. Uses(n, c) = Uses(m, c) \cup {x}
    BY <1>4, <2>1 DEF Uses
  <2>3. IsFiniteSet(Uses(m, c)) /\ x \notin Uses(m, c)
    <3>1. IsFiniteSet(Uses(m, c))
      BY <1>3, FS_Subset DEF Uses
    <3> QED
      BY <1>3, <1>4, <3>1 DEF Uses
  <2>4. Cardinality(Uses(m, c) \cup {x}) = Cardinality(Uses(m, c)) + 1
    BY <2>3, FS_AddElement
  <2> QED
    BY <1>1, <2>2, <2>4
<1>6. k \in Nat /\ (e.cipher = "none" => e = NoContext)
  BY <1>1, <1>3, <1>4
<1> HIDE DEF k
<1>7. e.cipher \in {c, "none"} /\ m.ctx[x].cipher \in {c, "none"}
  BY <1>4
<1>8. Recounted(m, n, c, x, k, e)
  BY <1>2, Zenon DEF Recounted
<1>9. /\ Orderly(n) /\ n.list = m.list
      /\ n.ctx[x] = e /\ \A y \in Context : y # x => n.ctx[y] = m.ctx[y]
  <2>1. /\ k \in Nat /\ e \in ContextData /\ (e.cipher = "none" => e = NoContext)
        /\ Recounted(m, n, c, x, k, e) /\ k = Cardinality(Uses(n, c))
        /\ e.cipher \in {c, "none"} /\ m.ctx[x].cipher \in {c, "none"}
    BY <1>4, <1>5, <1>6, <1>7, <1>8, Zenon
  <2>2. Orderly(n)
    BY <2>1, OrderlyAgain, Zenon
  <2>3. n.list = m.list
    BY <2>1, OrderlyAgain, Zenon
  <2>4. n.ctx[x] = e /\ \A y \in Context : y # x => n.ctx[y] = m.ctx[y]
    BY <1>1, <1>2
  <2> QED
    BY <2>2, <2>3, <2>4, Zenon
<1> QED
  BY <1>9, Zenon DEF n, e

LEMMA DroppedOrderly ==
    ASSUME NEW m, Orderly(m), NEW x \in Context, m.ctx[x].cipher # "none",
           NEW n, n = Dropped(m, x)
    PROVE  /\ Orderly(n) /\ n.list = m.list
           /\ n.ctx[x] = NoContext /\ \A y \in Context : y # x => n.ctx[y] = m.ctx[y]
<1> DEFINE c == m.ctx[x].cipher
           e == NoContext
           k == m.mem[c].ref - 1
<1>1. m \in Registries /\ c \in Cipher
  BY RegistryFields DEF Orderly
<1>2. n = [list |-> m.list,
           mem |-> [m.mem EXCEPT ![c] = [name |-> m.mem[c].name, ref |-> k]],
           ctx |-> [m.ctx EXCEPT ![x] = e]]
  BY <1>1, DroppedIs
<1> HIDE DEF c
<1>3. m.mem[c].ref = Cardinality(Uses(m, c)) /\ m.ctx \in [Context -> ContextData]
  BY <1>1, RegistryFields DEF Orderly
<1>4. c # "none" /\ IsFiniteSet(Context)
  BY <1>1, CiphersAssumption
<1>5. e \in ContextData /\ e.cipher = "none"
  BY DEF ContextData, NoContext
<1> HIDE DEF e
<1>6. \A y \in Context : n.ctx[y] = IF y = x THEN e ELSE m.ctx[y]
  BY <1>2, <1>3
<1>7. Uses(n, c) = Uses(m, c) \ {x} /\ x \in Uses(m, c)
  BY <1>4, <1>5, <1>6 DEF Uses, c
<1>8. IsFiniteSet(Uses(m, c))
  BY <1>4, FS_Subset DEF Uses
<1>9. Cardinality(Uses(m, c)) \in Nat /\ Cardinality(Uses(m, c) \ {x}) = Cardinality(Uses(m, c)) - 1
  BY <1>7, <1>8, FS_RemoveElement, FS_CardinalityType
<1>10. Cardinality(Uses(n, c)) \in Nat /\ k = Cardinality(Uses(n, c))
  <2>1. IsFiniteSet(Uses(n, c))
    BY <1>7, <1>8, FS_Subset
  <2> QED
    BY <1>3, <1>7, <1>9, <2>1, FS_CardinalityType
<1> HIDE DEF k
<1>11. e.cipher \in {c, "none"} /\ m.ctx[x].cipher \in {c, "none"} /\ (e.cipher = "none" => e = NoContext)
  BY <1>5 DEF c, e
<1>12. Recounted(m, n, c, x, k, e)
  BY <1>2, Zenon DEF Recounted
<1>13. /\ Orderly(n) /\ n.list = m.list
       /\ n.ctx[x] = e /\ \A y \in Context : y # x => n.ctx[y] = m.ctx[y]
  <2>1. /\ k \in Nat /\ e \in ContextData /\ (e.cipher = "none" => e = NoContext)
        /\ Recounted(m, n, c, x, k, e) /\ k = Cardinality(Uses(n, c))
        /\ e.cipher \in {c, "none"} /\ m.ctx[x].cipher \in {c, "none"}
    BY <1>5, <1>10, <1>11, <1>12, Zenon
  <2>2. Orderly(n)
    BY <1>1, <2>1, OrderlyAgain, Zenon
  <2>3. n.list = m.list
    BY <1>1, <2>1, OrderlyAgain, Zenon
  <2>4. n.ctx[x] = e /\ \A y \in Context : y # x => n.ctx[y] = m.ctx[y]
    BY <1>2, <1>3
  <2> QED
    BY <2>2, <2>3, <2>4, Zenon
<1> QED
  BY <1>13, Zenon DEF e

LEMMA HashOrderly ==
    ASSUME NEW m, Orderly(m), NEW x \in Context, m.ctx[x].cipher # "none",
           NEW h \in HashOrNone
    PROVE  /\ Orderly(Hashed(m, x, h)) /\ Hashed(m, x, h).list = m.list
           /\ Hashed(m, x, h).ctx[x].cipher = m.ctx[x].cipher
           /\ Hashed(m, x, h).ctx[x].hash = h
           /\ \A y \in Context : y # x => Hashed(m, x, h).ctx[y] = m.ctx[y]
<1> DEFINE n == Hashed(m, x, h)
           e == [cipher |-> m.ctx[x].cipher, hash |-> h]
<1>1. /\ m \in Registries
      /\ \A c \in Cipher : m.mem[c].ref = Cardinality(Uses(m, c))
      /\ \A c, d \in m.list : c # d => m.mem[c].name # m.mem[d].name
      /\ \A y \in Context : m.ctx[y].cipher = "none" => m.ctx[y] = NoContext
  BY DEF Orderly
<1>2. /\ m.mem \in [Cipher -> CipherData] /\ m.ctx \in [Context -> ContextData]
      /\ m.list \subseteq Cipher /\ m.ctx[x].cipher \in Cipher \cup {"none"}
  BY <1>1, RegistryFields, Zenon
<1>3. n = [list |-> m.list, mem |-> m.mem, ctx |-> [m.ctx EXCEPT ![x] = e]]
  BY <1>1, HashIs
<1>4. e \in ContextData /\ e.cipher = m.ctx[x].cipher /\ e.hash = h
  BY <1>2 DEF ContextData, HashOrNone
<1> HIDE DEF n, e
<1>5. /\ n.list = m.list /\ n.mem = m.mem /\ n.ctx \in [Context -> ContextData]
      /\ n.ctx[x] = e /\ \A y \in Context : y # x => n.ctx[y] = m.ctx[y]
      /\ n = [list |-> n.list, mem |-> n.mem, ctx |-> n.ctx]
  <2>1. /\ n.list = m.list /\ n.mem = m.mem /\ n.ctx = [m.ctx EXCEPT ![x] = e]
        /\ n = [list |-> n.list, mem |-> n.mem, ctx |-> n.ctx]
    BY <1>3
  <2>2. /\ n.ctx \in [Context -> ContextData] /\ n.ctx[x] = e
        /\ \A y \in Context : y # x => n.ctx[y] = m.ctx[y]
    BY <1>2, <1>4, <2>1, Zenon
  <2> QED
    BY <2>1, <2>2, Zenon
<1>6. n \in Registries
  BY <1>2, <1>5 DEF Registries
<1>7. \A c : Uses(n, c) = Uses(m, c)
  BY <1>4, <1>5 DEF Uses
<1>8. \A y \in Context : n.ctx[y].cipher = "none" => n.ctx[y] = NoContext
  BY <1>1, <1>4, <1>5
<1> QED
  <2>1. Orderly(n)
    BY <1>1, <1>5, <1>6, <1>7, <1>8 DEF Orderly
  <2>2. n.ctx[x].cipher = m.ctx[x].cipher /\ n.ctx[x].hash = h
    BY <1>4, <1>5
  <2> QED
    BY <1>5, <2>1, <2>2, Zenon DEF n

\* A reset lets go of the hash.
LEMMA ResetOwned ==
    ASSUME NEW m, Orderly(m), NEW H, Owned(m, H), NEW x \in H
    PROVE  /\ Orderly(ContextReset(m, x)) /\ Owned(ContextReset(m, x), H)
           /\ ContextReset(m, x).list = m.list
           /\ ContextReset(m, x).ctx[x].cipher # "none"
           /\ ContextReset(m, x).ctx[x].hash = "none"
           /\ m.ctx[x].hash # "none" => FreeContexts(ContextReset(m, x)) # {}
<1> DEFINE n == ContextReset(m, x)
<1>1. n = ContextReset(m, x)
  OBVIOUS
<1> HIDE DEF n
<1>2. /\ H \subseteq Context /\ x \in Context /\ m.ctx[x].cipher # "none"
      /\ m \in Registries
  BY DEF Owned, Orderly
<1>3. CASE m.ctx[x].hash = "none"
  BY <1>2, <1>3, <1>1 DEF ContextReset, NoHash
<1>4. CASE m.ctx[x].hash # "none"
  <2> DEFINE h == m.ctx[x].hash
             k == Dropped(m, h)
  <2>1. /\ h \in Context /\ h \notin H /\ m.ctx[h].cipher # "none" /\ m.ctx[h].hash = "none"
        /\ \A y \in H : m.ctx[y].hash = h => y = x
    <3>1. h \in Context
      BY <1>2, <1>4, RegistryFields
    <3> QED
      BY <1>4, <3>1 DEF Owned
  <2>2. n = Hashed(k, x, "none")
    BY <1>4, <1>1 DEF ContextReset, NoHash, Hashed
  <2>3. /\ Orderly(k) /\ k.list = m.list
        /\ k.ctx[h] = NoContext /\ \A y \in Context : y # h => k.ctx[y] = m.ctx[y]
    BY <2>1, DroppedOrderly
  <2> HIDE DEF k, h
  <2>4. k.ctx[x] = m.ctx[x] /\ x # h
    BY <1>2, <2>1, <2>3
  <2>5. /\ Orderly(n) /\ n.list = k.list
        /\ n.ctx[x].cipher = k.ctx[x].cipher /\ n.ctx[x].hash = "none"
        /\ \A y \in Context : y # x => n.ctx[y] = k.ctx[y]
    <3>1. k.ctx[x].cipher # "none" /\ "none" \in HashOrNone
      BY <1>2, <2>4 DEF HashOrNone
    <3> DEFINE g == Hashed(k, x, "none")
    <3>2. /\ Orderly(g) /\ g.list = k.list
          /\ g.ctx[x].cipher = k.ctx[x].cipher /\ g.ctx[x].hash = "none"
          /\ \A y \in Context : y # x => g.ctx[y] = k.ctx[y]
      BY <1>2, <2>3, <3>1, HashOrderly, ZenonT(60)
    <3> HIDE DEF g
    <3> QED
      BY <2>2, <3>2, Zenon DEF g
  <2>6. NoContext.cipher = "none" /\ NoContext.hash = "none"
    BY DEF NoContext
  <2>7. n.ctx[h] = NoContext /\ \A y \in Context : y \notin {x, h} => n.ctx[y] = m.ctx[y]
    BY <2>1, <2>3, <2>4, <2>5
  <2>8. \A y \in H \ {x} : n.ctx[y] = m.ctx[y]
    BY <1>2, <2>1, <2>7
  <2>9. "none" \notin Context
    BY CiphersAssumption
  <2>10. ASSUME NEW y \in Context
         PROVE  n.ctx[y].cipher # "none" <=> (y \in H \/ \E z \in H : n.ctx[z].hash = y)
    <3>1. m.ctx[y].cipher # "none" <=> (y \in H \/ \E z \in H : m.ctx[z].hash = y)
      BY DEF Owned
    <3>2. CASE y = x
      BY <1>2, <2>4, <2>5, <3>2
    <3>3. CASE y = h
      BY <2>1, <2>5, <2>6, <2>7, <2>8, <2>9, <3>3
    <3>4. CASE y \notin {x, h}
      <4>1. n.ctx[y].cipher = m.ctx[y].cipher
        BY <2>7, <3>4
      <4>2. \A z \in H : n.ctx[z].hash = y <=> m.ctx[z].hash = y
        BY <2>5, <2>8, <2>9, <3>4 DEF h
      <4> QED
        BY <3>1, <4>1, <4>2
    <3> QED
      BY <3>2, <3>3, <3>4
  <2>11. ASSUME NEW y \in H, n.ctx[y].hash # "none"
         PROVE  /\ n.ctx[y].hash \notin H /\ n.ctx[n.ctx[y].hash].hash = "none"
                /\ \A z \in H : n.ctx[z].hash = n.ctx[y].hash => z = y
    <3>1. y # x /\ n.ctx[y] = m.ctx[y]
      BY <2>5, <2>8, <2>11
    <3>2. /\ m.ctx[y].hash \notin H /\ m.ctx[m.ctx[y].hash].hash = "none"
          /\ \A z \in H : m.ctx[z].hash = m.ctx[y].hash => z = y
      BY <2>11, <3>1 DEF Owned
    <3>3. m.ctx[y].hash \in Context /\ m.ctx[y].hash # h /\ m.ctx[y].hash # x
      <4>1. y \in Context
        BY <1>2
      <4>2. m.ctx[y].hash \in Context \cup {"none"}
        BY <1>2, <4>1, RegistryFields
      <4> QED
        BY <2>1, <2>11, <3>1, <3>2, <4>2
    <3>4. n.ctx[n.ctx[y].hash].hash = "none"
      BY <2>7, <3>1, <3>2, <3>3
    <3>5. \A z \in H : n.ctx[z].hash = n.ctx[y].hash => z = y
      BY <2>5, <2>8, <2>11, <3>1, <3>2
    <3> QED
      BY <3>1, <3>2, <3>4, <3>5
  <2>12. Owned(n, H)
    BY <1>2, <2>10, <2>11 DEF Owned
  <2>13. FreeContexts(n) # {}
    BY <2>1, <2>7 DEF FreeContexts
  <2> QED
    BY <1>2, <1>1, <2>3, <2>4, <2>5, <2>12, <2>13
<1> QED
  BY <1>3, <1>4

\* A context that is destroyed is nobody's, and its hash went with it.
LEMMA DestroyOwned ==
    ASSUME NEW m, Orderly(m), NEW H, Owned(m, H), NEW x \in H
    PROVE  Orderly(ContextDestroy(m, x)) /\ Owned(ContextDestroy(m, x), H \ {x})
<1> DEFINE w == ContextReset(m, x)
           n == Dropped(w, x)
<1>1. /\ Orderly(w) /\ Owned(w, H)
      /\ w.ctx[x].cipher # "none" /\ w.ctx[x].hash = "none"
  BY ResetOwned, Zenon
<1>2. H \subseteq Context /\ x \in Context /\ "none" \notin Context
  BY CiphersAssumption DEF Owned
<1> HIDE DEF w
<1>3. /\ Orderly(n)
      /\ n.ctx[x] = NoContext /\ \A y \in Context : y # x => n.ctx[y] = w.ctx[y]
  BY <1>1, <1>2, DroppedOrderly
<1> HIDE DEF n
<1>4. NoContext.cipher = "none" /\ NoContext.hash = "none"
  BY DEF NoContext
<1>5. \A y \in H : w.ctx[y].hash # x
  BY <1>1, <1>2 DEF Owned
<1>6. ASSUME NEW y \in Context
      PROVE  n.ctx[y].cipher # "none" <=>
             (y \in H \ {x} \/ \E z \in H \ {x} : n.ctx[z].hash = y)
  <2>1. w.ctx[y].cipher # "none" <=> (y \in H \/ \E z \in H : w.ctx[z].hash = y)
    BY <1>1 DEF Owned
  <2>2. CASE y = x
    BY <1>2, <1>3, <1>4, <1>5, <2>2
  <2>3. CASE y # x
    BY <1>1, <1>2, <1>3, <2>1, <2>3
  <2> QED
    BY <2>2, <2>3
<1>7. ASSUME NEW y \in H \ {x}, n.ctx[y].hash # "none"
      PROVE  /\ n.ctx[y].hash \notin H \ {x} /\ n.ctx[n.ctx[y].hash].hash = "none"
             /\ \A z \in H \ {x} : n.ctx[z].hash = n.ctx[y].hash => z = y
  <2>1. n.ctx[y] = w.ctx[y] /\ y \in H /\ y \in Context
    BY <1>2, <1>3
  <2>2. /\ w.ctx[y].hash \notin H /\ w.ctx[w.ctx[y].hash].hash = "none"
        /\ \A z \in H : w.ctx[z].hash = w.ctx[y].hash => z = y
    BY <1>1, <1>7, <2>1 DEF Owned
  <2>3. w.ctx[y].hash \in Context
    <3>1. w.ctx[y].hash \in Context \cup {"none"}
      BY <1>1, <2>1, RegistryFields DEF Orderly
    <3> QED
      BY <1>7, <2>1, <3>1
  <2>4. \A z \in H \ {x} : n.ctx[z].hash = n.ctx[y].hash => z = y
    BY <1>2, <1>3, <2>1, <2>2
  <2>5. n.ctx[w.ctx[y].hash].hash = "none"
    BY <1>3, <1>5, <2>1, <2>2, <2>3
  <2> QED
    BY <2>1, <2>2, <2>4, <2>5
<1>8. Owned(n, H \ {x})
  BY <1>2, <1>6, <1>7 DEF Owned
<1>9. ContextDestroy(m, x) = n
  BY Zenon DEF ContextDestroy, n, w
<1> QED
  BY <1>3, <1>8, <1>9

\* A context that is made is its maker's.
LEMMA NewOwned ==
    ASSUME NEW m, Orderly(m), NEW H, Owned(m, H), NEW c \in Cipher,
           NEW x \in Context, m.ctx[x] = NoContext
    PROVE  Orderly(ContextNew(m, c, x)) /\ Owned(ContextNew(m, c, x), H \cup {x})
<1> DEFINE n == ContextNew(m, c, x)
<1>1. /\ Orderly(n)
      /\ n.ctx[x] = [cipher |-> c, hash |-> "none"]
      /\ \A y \in Context : y # x => n.ctx[y] = m.ctx[y]
  BY ContextNewOrderly
<1> HIDE DEF n
<1>2. H \subseteq Context /\ "none" \notin Context /\ c # "none"
  BY CiphersAssumption DEF Owned
<1>3. n.ctx[x].cipher = c /\ n.ctx[x].hash = "none"
  BY <1>1
<1>4. m.ctx[x].cipher = "none"
  BY DEF NoContext
<1>5. x \notin H /\ \A y \in H : m.ctx[y].hash # x
  BY <1>4 DEF Owned
<1>6. ASSUME NEW y \in Context
      PROVE  n.ctx[y].cipher # "none" <=>
             (y \in H \cup {x} \/ \E z \in H \cup {x} : n.ctx[z].hash = y)
  <2>1. m.ctx[y].cipher # "none" <=> (y \in H \/ \E z \in H : m.ctx[z].hash = y)
    BY DEF Owned
  <2>2. CASE y = x
    BY <1>2, <1>3, <2>2
  <2>3. CASE y # x
    BY <1>1, <1>2, <1>3, <1>5, <2>1, <2>3
  <2> QED
    BY <2>2, <2>3
<1>7. ASSUME NEW y \in H \cup {x}, n.ctx[y].hash # "none"
      PROVE  /\ n.ctx[y].hash \notin H \cup {x} /\ n.ctx[n.ctx[y].hash].hash = "none"
             /\ \A z \in H \cup {x} : n.ctx[z].hash = n.ctx[y].hash => z = y
  <2>1. n.ctx[y] = m.ctx[y] /\ y \in H /\ y \in Context
    BY <1>1, <1>2, <1>3, <1>7
  <2>2. /\ m.ctx[y].hash \notin H /\ m.ctx[m.ctx[y].hash].hash = "none"
        /\ \A z \in H : m.ctx[z].hash = m.ctx[y].hash => z = y
    BY <1>7, <2>1 DEF Owned
  <2>3. m.ctx[y].hash \in Context
    <3>1. m.ctx[y].hash \in Context \cup {"none"}
      BY <2>1, RegistryFields DEF Orderly
    <3> QED
      BY <1>7, <2>1, <3>1
  <2>4. \A z \in H \cup {x} : n.ctx[z].hash = n.ctx[y].hash => z = y
    BY <1>1, <1>2, <1>3, <1>5, <1>7, <2>1, <2>2
  <2>5. n.ctx[m.ctx[y].hash].hash = "none" /\ m.ctx[y].hash # x
    BY <1>1, <1>5, <2>1, <2>2, <2>3
  <2> QED
    BY <2>1, <2>2, <2>4, <2>5
<1>8. Owned(n, H \cup {x})
  BY <1>2, <1>6, <1>7 DEF Owned
<1> QED
  BY <1>1, <1>8 DEF n

\* HMAC told of a hash owns one context of it, and of no other.
LEMMA SetHashOwned ==
    ASSUME NEW m, Orderly(m), NEW H, Owned(m, H), NEW x \in H, NEW name,
           m.ctx[x].hash = "none" => FreeContexts(m) # {}
    PROVE  Orderly(SetHash(m, x, name)) /\ Owned(SetHash(m, x, name), H)
<1> DEFINE w == ContextReset(m, x)
           h == CHOOSE h \in FreeContexts(w) : TRUE
           d == CHOOSE d \in Find(m, name) : TRUE
           k == ContextNew(w, d, h)
           n == Hashed(k, x, h)
<1>1. /\ Orderly(w) /\ Owned(w, H) /\ w.list = m.list
      /\ w.ctx[x].cipher # "none" /\ w.ctx[x].hash = "none"
      /\ m.ctx[x].hash # "none" => FreeContexts(w) # {}
  BY ResetOwned, Zenon
<1>2. H \subseteq Context /\ x \in Context /\ "none" \notin Context
  BY CiphersAssumption DEF Owned
<1>3. CASE Find(m, name) = {}
  <2>1. SetHash(m, x, name) = w
    BY <1>3, Zenon DEF SetHash
  <2> QED
    BY <1>1, <2>1
<1>4. CASE Find(m, name) # {}
  <2>1. SetHash(m, x, name) = n
    BY <1>4, Zenon DEF SetHash, Hashed
  <2>2. FreeContexts(w) # {}
    BY <1>1 DEF ContextReset, NoHash
  <2>3. h \in FreeContexts(w) /\ d \in Find(m, name)
    BY <1>4, <2>2
  <2>4. h \in Context /\ w.ctx[h] = NoContext /\ d \in Cipher
    <3>1. m.list \subseteq Cipher
      BY RegistryFields DEF Orderly
    <3> QED
      BY <2>3, <3>1 DEF FreeContexts, Find
  <2> HIDE DEF w, h, d
  <2>5. /\ Orderly(k)
        /\ k.ctx[h] = [cipher |-> d, hash |-> "none"]
        /\ \A y \in Context : y # h => k.ctx[y] = w.ctx[y]
    BY <1>1, <2>4, ContextNewOrderly
  <2> HIDE DEF k
  <2>6. k.ctx[h].hash = "none" /\ k.ctx[h].cipher = d /\ w.ctx[h].cipher = "none" /\ d # "none"
    BY <2>4, <2>5, CiphersAssumption DEF NoContext
  <2>7. x # h /\ k.ctx[x] = w.ctx[x]
    BY <1>1, <1>2, <2>5, <2>6
  <2>8. /\ Orderly(n) /\ n.ctx[x].cipher = k.ctx[x].cipher /\ n.ctx[x].hash = h
        /\ \A y \in Context : y # x => n.ctx[y] = k.ctx[y]
    <3>1. h \in HashOrNone /\ k.ctx[x].cipher # "none"
      BY <1>1, <2>4, <2>7 DEF HashOrNone
    <3> QED
      BY <1>2, <2>5, <3>1, HashOrderly, ZenonT(60)
  <2> HIDE DEF n
  <2>9. h \notin H /\ \A y \in H : w.ctx[y].hash # h
    BY <1>1, <2>4, <2>6 DEF Owned
  <2>10. n.ctx[h].cipher = d /\ n.ctx[h].hash = "none"
    BY <2>4, <2>6, <2>7, <2>8
  <2>11. \A y \in Context : y \notin {x, h} => n.ctx[y] = w.ctx[y]
    BY <2>5, <2>8
  <2>12. ASSUME NEW y \in Context
         PROVE  n.ctx[y].cipher # "none" <=> (y \in H \/ \E z \in H : n.ctx[z].hash = y)
    <3>1. w.ctx[y].cipher # "none" <=> (y \in H \/ \E z \in H : w.ctx[z].hash = y)
      BY <1>1 DEF Owned
    <3>2. CASE y = h
      BY <2>6, <2>8, <2>10, <3>2
    <3>3. CASE y = x
      BY <1>1, <2>7, <2>8, <3>3
    <3>4. CASE y \notin {x, h}
      <4>1. n.ctx[y] = w.ctx[y]
        BY <2>11, <3>4
      <4>2. \A z \in H : n.ctx[z].hash = y <=> w.ctx[z].hash = y
        BY <1>1, <1>2, <2>8, <2>9, <2>11, <3>4
      <4> QED
        BY <3>1, <4>1, <4>2
    <3> QED
      BY <3>2, <3>3, <3>4
  <2>13. ASSUME NEW y \in H, n.ctx[y].hash # "none"
         PROVE  /\ n.ctx[y].hash \notin H /\ n.ctx[n.ctx[y].hash].hash = "none"
                /\ \A z \in H : n.ctx[z].hash = n.ctx[y].hash => z = y
    <3>1. CASE y = x
      <4>1. \A z \in H : n.ctx[z].hash = h => z = x
        BY <1>2, <2>9, <2>11
      <4> QED
        BY <2>8, <2>9, <2>10, <3>1, <4>1
    <3>2. CASE y # x
      <4>1. y \in Context /\ n.ctx[y] = w.ctx[y]
        BY <1>2, <2>9, <2>11, <3>2
      <4>2. /\ w.ctx[y].hash \notin H /\ w.ctx[w.ctx[y].hash].hash = "none"
            /\ \A z \in H : w.ctx[z].hash = w.ctx[y].hash => z = y
        BY <1>1, <2>13, <4>1 DEF Owned
      <4>3. w.ctx[y].hash \in Context /\ w.ctx[y].hash # h
        <5>1. w.ctx[y].hash \in Context \cup {"none"}
          BY <1>1, <4>1, RegistryFields DEF Orderly
        <5> QED
          BY <2>9, <2>13, <4>1, <5>1
      <4>4. n.ctx[w.ctx[y].hash].hash = "none"
        BY <2>11, <4>2, <4>3
      <4>5. \A z \in H : n.ctx[z].hash = n.ctx[y].hash => z = y
        BY <1>2, <2>8, <2>9, <2>11, <4>1, <4>2, <4>3
      <4> QED
        BY <4>1, <4>2, <4>4, <4>5
    <3> QED
      BY <3>1, <3>2
  <2>14. Owned(n, H)
    BY <1>2, <2>12, <2>13 DEF Owned
  <2> QED
    BY <2>1, <2>8, <2>14
<1> QED
  BY <1>3, <1>4

\* Whose the contexts are depends on the contexts alone.
LEMMA OwnedByContexts ==
    ASSUME NEW m, NEW n, n.ctx = m.ctx, NEW H, Owned(m, H)
    PROVE  Owned(n, H)
BY DEF Owned

\* A cipher freed or not in use takes another name, or none.
LEMMA RenamedOrderly ==
    ASSUME NEW m, Orderly(m), NEW n,
           n = [list |-> n.list, mem |-> n.mem, ctx |-> m.ctx],
           n.list \subseteq Cipher, n.mem \in [Cipher -> CipherData],
           \A c \in Cipher : n.mem[c].ref = m.mem[c].ref,
           \A c, d \in n.list : c # d => n.mem[c].name # n.mem[d].name
    PROVE  Orderly(n) /\ n.ctx = m.ctx
<1>1. /\ m \in Registries
      /\ \A c \in Cipher : m.mem[c].ref = Cardinality(Uses(m, c))
      /\ \A x \in Context : m.ctx[x].cipher = "none" => m.ctx[x] = NoContext
  BY DEF Orderly
<1>2. n.ctx = m.ctx /\ m.ctx \in [Context -> ContextData]
  BY <1>1, RegistryFields
<1>3. n \in Registries
  BY <1>2 DEF Registries
<1>4. \A c : Uses(n, c) = Uses(m, c)
  BY <1>2 DEF Uses
<1> QED
  BY <1>1, <1>2, <1>3, <1>4 DEF Orderly

LEMMA RegisterOrderly ==
    ASSUME NEW m, Orderly(m), NEW name \in ToSet(Builtin), FreeCiphers(m) # {}
    PROVE  /\ Orderly(RegisterCipher(m, name)) /\ RegisterCipher(m, name).ctx = m.ctx
           /\ \E c : FreeCiphers(m) \ {c} \subseteq FreeCiphers(RegisterCipher(m, name))
<1> DEFINE n == RegisterCipher(m, name)
           c == CHOOSE c \in FreeCiphers(m) : TRUE
           r == [name |-> name, ref |-> 0]
<1>1. /\ m.mem \in [Cipher -> CipherData] /\ m.list \subseteq Cipher
      /\ m = [list |-> m.list, mem |-> m.mem, ctx |-> m.ctx]
      /\ \A a, b \in m.list : a # b => m.mem[a].name # m.mem[b].name
  BY RegistryFields DEF Orderly
<1>2. CASE Find(m, name) # {}
  BY <1>2 DEF RegisterCipher
<1>3. CASE Find(m, name) = {}
  <2>1. n = [m EXCEPT !.list = @ \cup {c}, !.mem[c] = r]
    BY <1>3, Zenon DEF RegisterCipher
  <2>2. c \in Cipher /\ m.mem[c] = Freed
    <3>1. c \in FreeCiphers(m)
      OBVIOUS
    <3> QED
      BY <3>1 DEF FreeCiphers
  <2>3. r \in CipherData /\ r.name = name /\ r.ref = 0
    BY DEF CipherData, CipherNames
  <2>4. \A a \in m.list : m.mem[a].name # name
    BY <1>3 DEF Find
  <2> HIDE DEF n, c, r
  <2>5. /\ n.list = m.list \cup {c} /\ n.mem = [m.mem EXCEPT ![c] = r] /\ n.ctx = m.ctx
        /\ n = [list |-> n.list, mem |-> n.mem, ctx |-> m.ctx]
    BY <1>1, <2>1
  <2>6. /\ n.mem \in [Cipher -> CipherData] /\ n.mem[c] = r
        /\ \A a \in Cipher : a # c => n.mem[a] = m.mem[a]
    BY <1>1, <2>2, <2>3, <2>5
  <2>7. \A a \in Cipher : n.mem[a].ref = m.mem[a].ref
    BY <2>2, <2>3, <2>6 DEF Freed
  <2>8. \A a, b \in n.list : a # b => n.mem[a].name # n.mem[b].name
    BY <1>1, <2>2, <2>3, <2>4, <2>5, <2>6
  <2>9. n.list \subseteq Cipher
    BY <1>1, <2>2, <2>5
  <2>10. Orderly(n)
    BY <2>5, <2>6, <2>7, <2>8, <2>9, RenamedOrderly
  <2>11. FreeCiphers(m) \ {c} \subseteq FreeCiphers(n)
    BY <2>6 DEF FreeCiphers
  <2> QED
    BY <2>5, <2>10, <2>11 DEF n
<1> QED
  BY <1>2, <1>3

\* The registries oul_ciphers_init goes through exist.
LEMMA RegisteredExists ==
    ASSUME NEW m
    PROVE  \E f : f = [i \in 0..Len(Builtin) |->
                         IF i = 0 THEN m ELSE RegisterCipher(f[i - 1], Builtin[i])]
<1> DEFINE S == {n \in Nat : \E f : f = [i \in 0..n |->
                                 IF i = 0 THEN m ELSE RegisterCipher(f[i - 1], Builtin[i])]}
<1>1. 0 \in S
  <2> DEFINE f == [i \in 0..0 |-> m]
  <2>1. f = [i \in 0..0 |-> IF i = 0 THEN m ELSE RegisterCipher(f[i - 1], Builtin[i])]
    OBVIOUS
  <2> QED
    BY <2>1
<1>2. ASSUME NEW n \in Nat, n \in S PROVE n + 1 \in S
  <2>1. PICK f : f = [i \in 0..n |-> IF i = 0 THEN m ELSE RegisterCipher(f[i - 1], Builtin[i])]
    BY <1>2
  <2> DEFINE g == [i \in 0..n + 1 |-> IF i <= n THEN f[i] ELSE RegisterCipher(f[n], Builtin[n + 1])]
  <2>2. \A i \in 0..n + 1 : g[i] = IF i = 0 THEN m ELSE RegisterCipher(g[i - 1], Builtin[i])
    <3>1. \A i \in 0..n : g[i] = f[i]
      OBVIOUS
    <3>2. \A i \in 0..n : f[i] = IF i = 0 THEN m ELSE RegisterCipher(f[i - 1], Builtin[i])
      BY <2>1
    <3>3. g[n + 1] = RegisterCipher(f[n], Builtin[n + 1])
      OBVIOUS
    <3> HIDE DEF g
    <3> SUFFICES ASSUME NEW i \in 0..n + 1
                 PROVE  g[i] = IF i = 0 THEN m ELSE RegisterCipher(g[i - 1], Builtin[i])
      OBVIOUS
    <3>4. CASE i = n + 1
      <4>1. i # 0 /\ i - 1 = n /\ g[n] = f[n]
        BY <3>1, <3>4
      <4> QED
        BY <3>3, <3>4, <4>1
    <3>5. CASE i \in 0..n /\ i # 0
      <4>1. g[i] = f[i] /\ g[i - 1] = f[i - 1]
        BY <3>1, <3>5
      <4> QED
        BY <3>2, <3>5, <4>1
    <3>6. CASE i = 0
      BY <3>1, <3>2, <3>6
    <3> QED
      BY <3>4, <3>5, <3>6
  <2>3. g = [i \in 0..n + 1 |-> IF i = 0 THEN m ELSE RegisterCipher(g[i - 1], Builtin[i])]
    <3>1. g = [i \in 0..n + 1 |-> g[i]]
      OBVIOUS
    <3> HIDE DEF g
    <3> QED
      BY <2>2, <3>1
  <2> HIDE DEF g
  <2> QED
    BY <2>3
<1> HIDE DEF S
<1>3. \A n \in Nat : n \in S
  BY <1>1, <1>2, Induct
<1>4. Len(Builtin) \in Nat
  BY CiphersAssumption
<1> QED
  BY <1>3, <1>4 DEF S

LEMMA RegisterAllOrderly ==
    ASSUME NEW m, Orderly(m), Cardinality(FreeCiphers(m)) >= Len(Builtin)
    PROVE  Orderly(RegisterAll(m)) /\ RegisterAll(m).ctx = m.ctx
<1> DEFINE L == Len(Builtin)
           f == CHOOSE f : f = [i \in 0..L |->
                                  IF i = 0 THEN m ELSE RegisterCipher(f[i - 1], Builtin[i])]
<1>1. L \in Nat /\ IsFiniteSet(Cipher)
  BY CiphersAssumption
<1>2. RegisterAll(m) = f[L]
  BY Zenon DEF RegisterAll
<1>3. f = [i \in 0..L |-> IF i = 0 THEN m ELSE RegisterCipher(f[i - 1], Builtin[i])]
  BY RegisteredExists, Zenon
<1> HIDE DEF f
<1>4. f[0] = m /\ \A i \in 1..L : f[i] = RegisterCipher(f[i - 1], Builtin[i])
  BY <1>1, <1>3
<1> DEFINE S == {i \in Nat : i <= L => /\ Orderly(f[i]) /\ f[i].ctx = m.ctx
                                       /\ Cardinality(FreeCiphers(f[i])) >= L - i}
<1>5. 0 \in S
  BY <1>1, <1>4
<1>6. ASSUME NEW i \in Nat, i \in S PROVE i + 1 \in S
  <2> SUFFICES ASSUME i + 1 <= L
               PROVE  /\ Orderly(f[i + 1]) /\ f[i + 1].ctx = m.ctx
                      /\ Cardinality(FreeCiphers(f[i + 1])) >= L - (i + 1)
    OBVIOUS
  <2>1. /\ Orderly(f[i]) /\ f[i].ctx = m.ctx
        /\ Cardinality(FreeCiphers(f[i])) >= L - i
    BY <1>1, <1>6
  <2>2. f[i + 1] = RegisterCipher(f[i], Builtin[i + 1])
    BY <1>1, <1>4
  <2>3. Builtin[i + 1] \in ToSet(Builtin)
    BY <1>1, CiphersAssumption DEF ToSet
  <2>4. \A n : IsFiniteSet(FreeCiphers(n)) /\ Cardinality(FreeCiphers(n)) \in Nat
    <3>1. \A n : IsFiniteSet(FreeCiphers(n))
      BY <1>1, FS_Subset DEF FreeCiphers
    <3> QED
      BY <3>1, FS_CardinalityType
  <2>5. FreeCiphers(f[i]) # {}
    <3>1. Cardinality(FreeCiphers(f[i])) # 0
      BY <1>1, <2>1, <2>4
    <3> QED
      BY <3>1, FS_EmptySet
  <2> DEFINE g == f[i]
             n == RegisterCipher(g, Builtin[i + 1])
  <2>6. Orderly(g) /\ FreeCiphers(g) # {}
    BY <2>1, <2>5
  <2> HIDE DEF g
  <2>7. /\ Orderly(n) /\ n.ctx = g.ctx
        /\ \E c : FreeCiphers(g) \ {c} \subseteq FreeCiphers(n)
    BY <2>3, <2>6, RegisterOrderly
  <2> HIDE DEF n
  <2>8. PICK c : FreeCiphers(g) \ {c} \subseteq FreeCiphers(n)
    BY <2>7
  <2>9. Cardinality(FreeCiphers(g)) - 1 <= Cardinality(FreeCiphers(g) \ {c})
    <3>1. IsFiniteSet(FreeCiphers(g)) /\ Cardinality(FreeCiphers(g)) \in Nat
      BY <2>4
    <3>2. Cardinality(FreeCiphers(g) \ {c}) =
             IF c \in FreeCiphers(g) THEN Cardinality(FreeCiphers(g)) - 1
             ELSE Cardinality(FreeCiphers(g))
      BY <3>1, FS_RemoveElement
    <3> QED
      BY <3>1, <3>2
  <2>10. Cardinality(FreeCiphers(g) \ {c}) <= Cardinality(FreeCiphers(n))
    BY <2>4, <2>8, FS_Subset
  <2>11. IsFiniteSet(FreeCiphers(g) \ {c})
    BY <2>4, FS_Subset
  <2>12. Cardinality(FreeCiphers(g) \ {c}) \in Nat
    BY <2>11, FS_CardinalityType
  <2>13. Cardinality(FreeCiphers(n)) >= L - (i + 1)
    BY <1>1, <2>1, <2>4, <2>9, <2>10, <2>12 DEF g
  <2>14. f[i + 1] = n
    BY <2>2, Zenon DEF n, g
  <2> QED
    BY <2>1, <2>7, <2>13, <2>14 DEF g
<1> HIDE DEF S
<1>7. \A i \in Nat : i \in S
  BY <1>5, <1>6, Induct
<1> QED
  BY <1>1, <1>2, <1>7 DEF S

LEMMA UnregisterOrderly ==
    ASSUME NEW m, Orderly(m), NEW c \in Cipher
    PROVE  Orderly(UnregisterCipher(m, c)) /\ UnregisterCipher(m, c).ctx = m.ctx
<1> DEFINE n == UnregisterCipher(m, c)
<1>1. /\ m.mem \in [Cipher -> CipherData] /\ m.list \subseteq Cipher
      /\ m = [list |-> m.list, mem |-> m.mem, ctx |-> m.ctx]
      /\ \A a, b \in m.list : a # b => m.mem[a].name # m.mem[b].name
  BY RegistryFields DEF Orderly
<1>2. CASE m.mem[c].ref # 0
  BY <1>2 DEF UnregisterCipher
<1>3. CASE m.mem[c].ref = 0
  <2>1. n = [m EXCEPT !.list = @ \ {c}, !.mem[c] = Freed]
    BY <1>3 DEF UnregisterCipher
  <2>2. Freed \in CipherData /\ Freed.ref = 0
    BY DEF CipherData, CipherNames, Freed
  <2> HIDE DEF n
  <2>3. /\ n.list = m.list \ {c} /\ n.mem = [m.mem EXCEPT ![c] = Freed] /\ n.ctx = m.ctx
        /\ n = [list |-> n.list, mem |-> n.mem, ctx |-> m.ctx]
    BY <1>1, <2>1
  <2>4. /\ n.mem \in [Cipher -> CipherData] /\ n.mem[c] = Freed
        /\ \A a \in Cipher : a # c => n.mem[a] = m.mem[a]
    BY <1>1, <2>2, <2>3
  <2>5. \A a \in Cipher : n.mem[a].ref = m.mem[a].ref
    BY <1>3, <2>2, <2>4
  <2>6. \A a, b \in n.list : a # b => n.mem[a].name # n.mem[b].name
    BY <1>1, <2>3, <2>4
  <2>7. n.list \subseteq Cipher
    BY <1>1, <2>3
  <2>8. Orderly(n)
    BY <2>3, <2>4, <2>5, <2>6, <2>7, RenamedOrderly
  <2> QED
    BY <2>3, <2>8 DEF n
<1> QED
  BY <1>2, <1>3

LEMMA UnregisterAllOrderly ==
    ASSUME NEW m, Orderly(m)
    PROVE  Orderly(UnregisterAll(m)) /\ UnregisterAll(m).ctx = m.ctx
<1> DEFINE n == UnregisterAll(m)
           g == [c \in Cipher |-> IF c \in m.list THEN UnregisterCipher(m, c).mem[c] ELSE m.mem[c]]
<1>1. /\ m.mem \in [Cipher -> CipherData]
      /\ m = [list |-> m.list, mem |-> m.mem, ctx |-> m.ctx]
  BY RegistryFields DEF Orderly
<1>2. n = [m EXCEPT !.list = {}, !.mem = g]
  BY Zenon DEF UnregisterAll
<1>3. ASSUME NEW c \in Cipher
      PROVE  /\ UnregisterCipher(m, c).mem[c] \in CipherData
             /\ UnregisterCipher(m, c).mem[c].ref = m.mem[c].ref
  <2>1. CASE m.mem[c].ref # 0
    BY <1>1, <2>1 DEF UnregisterCipher
  <2>2. CASE m.mem[c].ref = 0
    <3>1. UnregisterCipher(m, c).mem = [m.mem EXCEPT ![c] = Freed]
      BY <1>1, <2>2 DEF UnregisterCipher
    <3>2. UnregisterCipher(m, c).mem[c] = Freed
      BY <1>1, <3>1
    <3> QED
      BY <2>2, <3>2 DEF Freed, CipherData, CipherNames
  <2> QED
    BY <2>1, <2>2
<1>4. g \in [Cipher -> CipherData] /\ \A c \in Cipher : g[c].ref = m.mem[c].ref
  BY <1>1, <1>3
<1> HIDE DEF n, g
<1>5. /\ n.list = {} /\ n.mem = g
      /\ n = [list |-> n.list, mem |-> n.mem, ctx |-> m.ctx]
  BY <1>1, <1>2
<1> QED
  BY <1>4, <1>5, RenamedOrderly DEF n

-----------------------------------------------------------------------------
(* Computations with a context of their own                                 *)

LEMMA UsedIs ==
    ASSUME NEW m, Orderly(m), NEW c \in Cipher, FreeContexts(m) # {}
    PROVE  Used(m, c) = m
<1> DEFINE x == CHOOSE x \in FreeContexts(m) : TRUE
<1>1. x \in Context /\ m.ctx[x] = NoContext
  <2>1. x \in FreeContexts(m)
    OBVIOUS
  <2> QED
    BY <2>1 DEF FreeContexts
<1>2. Used(m, c) = ContextDestroy(ContextNew(m, c, x), x)
  BY Zenon DEF Used
<1>3. m \in Registries
  BY DEF Orderly
<1> HIDE DEF x
<1> QED
  BY <1>1, <1>2, <1>3, UsedIsGone

LEMMA UsedTwiceIs ==
    ASSUME NEW m, Orderly(m), NEW c \in Cipher, Cardinality(FreeContexts(m)) >= 2
    PROVE  UsedTwice(m, c) = m
<1> DEFINE x == CHOOSE x \in FreeContexts(m) : TRUE
           n == ContextNew(m, c, x)
<1>1. IsFiniteSet(FreeContexts(m)) /\ Cardinality(FreeContexts(m)) \in Nat
  <2>1. IsFiniteSet(FreeContexts(m))
    BY CiphersAssumption, FS_Subset DEF FreeContexts
  <2> QED
    BY <2>1, FS_CardinalityType
<1>2. FreeContexts(m) # {}
  BY <1>1, FS_EmptySet
<1>3. x \in Context /\ m.ctx[x] = NoContext /\ x \in FreeContexts(m)
  <2>1. x \in FreeContexts(m)
    BY <1>2
  <2> QED
    BY <2>1 DEF FreeContexts
<1>4. UsedTwice(m, c) = ContextDestroy(Used(n, c), x)
  BY Zenon DEF UsedTwice
<1>5. m \in Registries
  BY DEF Orderly
<1> HIDE DEF x
<1>6. Orderly(n) /\ \A y \in Context : y # x => n.ctx[y] = m.ctx[y]
  BY <1>3, ContextNewOrderly, Zenon
<1>7. FreeContexts(n) # {}
  <2>1. FreeContexts(m) \ {x} # {}
    <3>1. Cardinality(FreeContexts(m) \ {x}) = Cardinality(FreeContexts(m)) - 1
      BY <1>1, <1>3, FS_RemoveElement
    <3>2. Cardinality(FreeContexts(m) \ {x}) # 0
      BY <1>1, <3>1
    <3> QED
      BY <3>2, FS_EmptySet
  <2> QED
    BY <1>6, <2>1 DEF FreeContexts
<1>8. Used(n, c) = n
  BY <1>6, <1>7, UsedIs
<1> QED
  BY <1>3, <1>4, <1>5, <1>8, UsedIsGone

\* Every computation leaves the registry as it found it, on all of its ways out.
LEMMA ComputeLeaves ==
    ASSUME Orderly(Registry), Compute
    PROVE  UNCHANGED <<ciphers, cipher_mem, contexts, held>>
<1> DEFINE m == Registry
<1>1. Cardinality(FreeContexts(m)) >= 2
  BY DEF Compute
<1>2. FreeContexts(m) # {}
  <2>1. IsFiniteSet(FreeContexts(m))
    BY CiphersAssumption, FS_Subset DEF FreeContexts
  <2> QED
    BY <1>1, FS_EmptySet
<1>3. m.list \subseteq Cipher
  BY RegistryFields DEF Orderly
<1>4. \A name : Find(m, name) # {} => (CHOOSE c \in Find(m, name) : TRUE) \in Cipher
  <2>1. \A name : Find(m, name) \subseteq Cipher
    BY <1>3 DEF Find
  <2> QED
    BY <2>1
<1>5. \A r : Computes(r) /\ r.registry = m => UNCHANGED <<ciphers, cipher_mem, contexts, held>>
  BY DEF Computes, RegistryBecomes, Registry
<1> HIDE DEF m
<1>6. Orderly(m)
  BY DEF m
<1>7. \A n, a : Returns(n, a).registry = n
  BY DEF Returns
<1>8. \A c \in Cipher : Used(m, c) = m /\ UsedTwice(m, c) = m
  BY <1>1, <1>2, <1>6, UsedIs, UsedTwiceIs
<1>9. ASSUME NEW name PROVE DigestRegion(m, name).registry = m
  BY <1>4, <1>7, <1>8 DEF DigestRegion
<1>10. ASSUME NEW sess \in BOOLEAN, NEW nonce \in BOOLEAN
       PROVE  SessionKey(m, sess, nonce).registry = m
  <2>1. CASE Find(m, "md5") = {}
    BY <1>7, <2>1 DEF SessionKey
  <2>2. CASE Find(m, "md5") # {}
    <3> DEFINE c == CHOOSE c \in Find(m, "md5") : TRUE
    <3>1. Used(m, c) = m
      BY <1>4, <1>8, <2>2
    <3>2. SessionKey(m, sess, nonce) =
            CASE ~sess -> Returns(Used(m, c), "key")
              [] sess /\ ~nonce -> Returns(Used(m, c), "none")
              [] OTHER -> Returns(Used(Used(m, c), c), "key")
      BY <2>2, Zenon DEF SessionKey
    <3> HIDE DEF c
    <3> QED
      BY <1>7, <3>1, <3>2
  <2> QED
    BY <2>1, <2>2
<1>11. ASSUME NEW qop, NEW entity \in BOOLEAN, NEW count \in BOOLEAN, NEW nonce \in BOOLEAN
       PROVE  HttpResponse(m, qop, entity, count, nonce).registry = m
  <2>1. CASE Find(m, "md5") = {}
    BY <1>7, <2>1 DEF HttpResponse
  <2>2. CASE Find(m, "md5") # {}
    <3> DEFINE c == CHOOSE c \in Find(m, "md5") : TRUE
               first == IF qop = "auth-int" /\ entity THEN UsedTwice(m, c) ELSE Used(m, c)
    <3>1. Used(m, c) = m /\ first = m
      BY <1>4, <1>8, <2>2
    <3>2. HttpResponse(m, qop, entity, count, nonce) =
            CASE qop = "auth-int" /\ ~entity -> Returns(first, "none")
              [] qop # "" /\ ~(count /\ nonce) -> Returns(Used(first, c), "none")
              [] OTHER -> Returns(Used(first, c), "response")
      BY <2>2, Zenon DEF HttpResponse
    <3> HIDE DEF c, first
    <3> QED
      BY <1>7, <3>1, <3>2
  <2> QED
    BY <2>1, <2>2
<1> QED
  BY <1>5, <1>9, <1>10, <1>11 DEF Compute, m

-----------------------------------------------------------------------------
(* The registry and its users                                               *)

CiphersInv == Orderly(Registry) /\ Owned(Registry, held)

LEMMA CiphersStart ==
    ASSUME CiphersInit
    PROVE  CiphersInv
<1> DEFINE m == Registry
<1>1. /\ ciphers = {} /\ cipher_mem = [c \in Cipher |-> Freed]
      /\ contexts = [x \in Context |-> NoContext] /\ held = {}
  BY DEF CiphersInit
<1>2. m = [list |-> {}, mem |-> [c \in Cipher |-> Freed], ctx |-> [x \in Context |-> NoContext]]
  BY <1>1 DEF Registry
<1> HIDE DEF m
<1>3. /\ Freed \in CipherData /\ Freed.ref = 0
      /\ NoContext \in ContextData /\ NoContext.cipher = "none" /\ NoContext.hash = "none"
  BY DEF CipherData, CipherNames, Freed, ContextData, NoContext
<1>4. /\ m.list = {} /\ \A c \in Cipher : m.mem[c] = Freed
      /\ \A x \in Context : m.ctx[x] = NoContext
  BY <1>2
<1>5. m \in Registries
  BY <1>2, <1>3 DEF Registries
<1>6. \A c \in Cipher : Uses(m, c) = {}
  BY <1>3, <1>4, CiphersAssumption DEF Uses
<1>7. Orderly(m)
  BY <1>3, <1>4, <1>5, <1>6, FS_EmptySet DEF Orderly
<1>8. Owned(m, held)
  BY <1>1, <1>3, <1>4 DEF Owned
<1> QED
  BY <1>7, <1>8 DEF CiphersInv, m

\* What an action makes of the registry.
LEMMA BecomesIs ==
    ASSUME NEW m, m \in Registries, RegistryBecomes(m)
    PROVE  Registry' = m
<1>1. Registry' = [list |-> m.list, mem |-> m.mem, ctx |-> m.ctx]
  BY DEF RegistryBecomes, Registry
<1> QED
  BY <1>1, RegistryFields

\* A step of the registry alone, and one that leaves whose the contexts are.
LEMMA BecomesOrderly ==
    ASSUME NEW m, Orderly(m), NEW H, Owned(m, H), RegistryBecomes(m), held' = H
    PROVE  CiphersInv'
<1>1. Registry' = m
  BY BecomesIs DEF Orderly
<1> QED
  BY <1>1 DEF CiphersInv

LEMMA CiphersStep ==
    ASSUME CiphersInv, CiphersNext
    PROVE  CiphersInv'
<1> DEFINE m == Registry
<1>1. Orderly(m) /\ Owned(m, held)
  BY DEF CiphersInv
<1>2. m.ctx = contexts /\ held \subseteq Context
  BY <1>1 DEF Registry, Owned
<1> HIDE DEF m
<1>3. \A name : Find(m, name) # {} => (CHOOSE c \in Find(m, name) : TRUE) \in Cipher
  <2>1. m.list \subseteq Cipher
    BY <1>1, RegistryFields DEF Orderly
  <2>2. \A name : Find(m, name) \subseteq Cipher
    BY <2>1 DEF Find
  <2> QED
    BY <2>2
<1>4. CASE InitCiphers
  <2>1. /\ RegistryBecomes(RegisterAll(m)) /\ held' = held
        /\ Cardinality(FreeCiphers(m)) >= Len(Builtin)
    BY <1>4 DEF InitCiphers, m
  <2>2. Orderly(RegisterAll(m)) /\ RegisterAll(m).ctx = m.ctx
    BY <1>1, <2>1, RegisterAllOrderly
  <2>3. Owned(RegisterAll(m), held)
    BY <1>1, <2>2, OwnedByContexts
  <2> QED
    BY <2>1, <2>2, <2>3, BecomesOrderly
<1>5. CASE UninitCiphers
  <2>1. RegistryBecomes(UnregisterAll(m)) /\ held' = held
    BY <1>5 DEF UninitCiphers, m
  <2>2. Orderly(UnregisterAll(m)) /\ UnregisterAll(m).ctx = m.ctx
    BY <1>1, UnregisterAllOrderly
  <2>3. Owned(UnregisterAll(m), held)
    BY <1>1, <2>2, OwnedByContexts
  <2> QED
    BY <2>1, <2>2, <2>3, BecomesOrderly
<1>6. CASE Compute
  <2>1. UNCHANGED <<ciphers, cipher_mem, contexts, held>>
    BY <1>1, <1>6, ComputeLeaves DEF m
  <2> QED
    BY <2>1 DEF CiphersInv, Registry
<1>7. ASSUME NEW c \in Cipher, UnregisterByUser(c) PROVE CiphersInv'
  <2>1. RegistryBecomes(UnregisterCipher(m, c)) /\ held' = held
    BY <1>7 DEF UnregisterByUser, m
  <2>2. Orderly(UnregisterCipher(m, c)) /\ UnregisterCipher(m, c).ctx = m.ctx
    BY <1>1, UnregisterOrderly
  <2>3. Owned(UnregisterCipher(m, c), held)
    BY <1>1, <2>2, OwnedByContexts
  <2> QED
    BY <2>1, <2>2, <2>3, BecomesOrderly
<1>8. ASSUME NEW name \in ToSet(Builtin), RegisterByUser(name) PROVE CiphersInv'
  <2>1. /\ RegistryBecomes(RegisterCipher(m, name)) /\ held' = held
        /\ FreeCiphers(m) # {}
    BY <1>8 DEF RegisterByUser, m
  <2>2. Orderly(RegisterCipher(m, name)) /\ RegisterCipher(m, name).ctx = m.ctx
    BY <1>1, <2>1, RegisterOrderly
  <2>3. Owned(RegisterCipher(m, name), held)
    BY <1>1, <2>2, OwnedByContexts
  <2> QED
    BY <2>1, <2>2, <2>3, BecomesOrderly
<1>9. ASSUME NEW name \in ToSet(Builtin), NewContextByName(name) PROVE CiphersInv'
  <2> DEFINE c == CHOOSE c \in Find(m, name) : TRUE
             x == CHOOSE x \in FreeContexts(m) : TRUE
  <2>1. /\ RegistryBecomes(ContextNew(m, c, x)) /\ held' = held \cup {x}
        /\ Find(m, name) # {} /\ FreeContexts(m) # {}
    BY <1>9, Zenon DEF NewContextByName, m
  <2>2. x \in FreeContexts(m) /\ c \in Cipher
    BY <1>3, <2>1
  <2>3. x \in Context /\ m.ctx[x] = NoContext
    BY <2>2 DEF FreeContexts
  <2> HIDE DEF c, x
  <2>4. Orderly(ContextNew(m, c, x)) /\ Owned(ContextNew(m, c, x), held \cup {x})
    BY <1>1, <2>2, <2>3, NewOwned
  <2> QED
    BY <2>1, <2>4, BecomesOrderly
<1>10. ASSUME NEW x \in Context, ResetHeld(x) PROVE CiphersInv'
  <2>1. RegistryBecomes(ContextReset(m, x)) /\ held' = held /\ x \in held
    BY <1>10 DEF ResetHeld, m
  <2>2. Orderly(ContextReset(m, x)) /\ Owned(ContextReset(m, x), held)
    BY <1>1, <2>1, ResetOwned, Zenon
  <2> QED
    BY <2>1, <2>2, BecomesOrderly
<1>11. ASSUME NEW x \in Context, DestroyHeld(x) PROVE CiphersInv'
  <2>1. RegistryBecomes(ContextDestroy(m, x)) /\ held' = held \ {x} /\ x \in held
    BY <1>11 DEF DestroyHeld, m
  <2>2. Orderly(ContextDestroy(m, x)) /\ Owned(ContextDestroy(m, x), held \ {x})
    BY <1>1, <2>1, DestroyOwned
  <2> QED
    BY <2>1, <2>2, BecomesOrderly
<1>12. ASSUME NEW x \in Context, DigestHeld(x) PROVE CiphersInv'
  BY <1>1, <1>12 DEF DigestHeld, CiphersInv, Registry
<1>13. ASSUME NEW x \in Context, NEW name \in Hashes, SetOption(x, name) PROVE CiphersInv'
  <2>1. /\ RegistryBecomes(SetHash(m, x, name)) /\ held' = held /\ x \in held
        /\ m.ctx[x].hash = "none" => FreeContexts(m) # {}
    BY <1>2, <1>13 DEF SetOption, NoHash, m
  <2>2. Orderly(SetHash(m, x, name)) /\ Owned(SetHash(m, x, name), held)
    BY <1>1, <2>1, SetHashOwned
  <2> QED
    BY <2>1, <2>2, BecomesOrderly
<1> QED
  BY <1>4, <1>5, <1>6, <1>7, <1>8, <1>9, <1>10, <1>11, <1>12, <1>13 DEF CiphersNext

LEMMA CiphersAlong == CiphersInv /\ [CiphersNext]_cipherVars => CiphersInv'
<1> SUFFICES ASSUME CiphersInv, [CiphersNext]_cipherVars
             PROVE  CiphersInv'
  OBVIOUS
<1>1. CASE CiphersNext
  BY <1>1, CiphersStep
<1>2. CASE UNCHANGED cipherVars
  BY <1>2 DEF cipherVars, CiphersInv, Registry
<1> QED
  BY <1>1, <1>2

LEMMA CiphersGive ==
    ASSUME CiphersInv
    PROVE  InUseIsAlive
<1> DEFINE m == Registry
<1>1. Orderly(m) /\ Owned(m, held)
  BY DEF CiphersInv
<1>2. m.ctx = contexts /\ m.mem = cipher_mem /\ m.list = ciphers
  BY DEF Registry
<1> HIDE DEF m
<1>3. /\ \A c \in Cipher : cipher_mem[c].ref = Cardinality(Uses(m, c))
      /\ \A c, d \in ciphers : c # d => cipher_mem[c].name # cipher_mem[d].name
      /\ \A x \in Context : contexts[x].cipher = "none" => contexts[x] = NoContext
      /\ m \in Registries
  BY <1>1, <1>2 DEF Orderly
<1>4. \A x \in Context : /\ contexts[x].cipher \in Cipher \cup {"none"}
                         /\ contexts[x].hash \in Context \cup {"none"}
  BY <1>2, <1>3, RegistryFields
<1>5. IsFiniteSet(Context) /\ "none" \notin Context
  BY CiphersAssumption
<1>6. \A c : Uses(m, c) = {x \in Context : contexts[x].cipher = c}
  BY <1>2 DEF Uses
<1>7. ASSUME NEW x \in Context, contexts[x] # NoContext
      PROVE  cipher_mem[contexts[x].cipher] # Freed
  <2> DEFINE c == contexts[x].cipher
  <2>1. c \in Cipher
    BY <1>3, <1>4, <1>7
  <2>2. x \in Uses(m, c) /\ IsFiniteSet(Uses(m, c))
    <3>1. IsFiniteSet(Uses(m, c))
      BY <1>5, <1>6, FS_Subset
    <3> QED
      BY <1>6, <3>1
  <2>3. Cardinality(Uses(m, c)) # 0
    BY <2>2, FS_EmptySet
  <2>4. Freed.ref = 0
    BY DEF Freed
  <2> QED
    BY <1>3, <2>1, <2>3, <2>4
<1>8. {x \in Context : contexts[x] # NoContext}
         = held \cup ({contexts[x].hash : x \in held} \ {NoHash})
  <2>1. \A x \in Context : contexts[x] # NoContext
                           <=> (x \in held \/ \E y \in held : contexts[y].hash = x)
    <3>1. \A x \in Context : contexts[x] = NoContext <=> contexts[x].cipher = "none"
      BY <1>3 DEF NoContext
    <3>2. \A x \in Context : contexts[x].cipher # "none"
                             <=> (x \in held \/ \E y \in held : contexts[y].hash = x)
      BY <1>1, <1>2 DEF Owned
    <3> QED
      BY <3>1, <3>2
  <2>2. held \subseteq Context
    BY <1>1 DEF Owned
  <2>3. \A y \in held : contexts[y].hash # NoHash => contexts[y].hash \in Context
    BY <1>4, <2>2 DEF NoHash
  <2> QED
    BY <1>5, <2>1, <2>2, <2>3 DEF NoHash
<1> QED
  BY <1>3, <1>6, <1>7, <1>8 DEF InUseIsAlive

\* A cipher in use is in memory and counts its contexts, no two ciphers have a name, and
\* nobody's context is left, however many ciphers and contexts there are and however
\* often ciphers are registered, unregistered and the subsystem is stopped and started
\* (cipher.c:2141, 2162, 2218, 2278, 2321).
THEOREM UsedCiphers == CiphersSpec => []InUseIsAlive
<1>1. CiphersInit => CiphersInv
  BY CiphersStart
<1>2. CiphersInv /\ [CiphersNext]_cipherVars => CiphersInv'
  BY CiphersAlong
<1>3. CiphersInv => InUseIsAlive
  BY CiphersGive
<1> QED
  BY <1>1, <1>2, <1>3, PTL DEF CiphersSpec

\* A computation that makes contexts of its own - a digest of a region, the session key
\* and the response of HTTP authentication - has destroyed them all when it returns, on
\* every way out: the registry, the contexts and who has them are as before
\* (cipher.c:2090, 2631, 2693).
THEOREM ComputationsLeaveNothing ==
    CiphersSpec => [][Compute => UNCHANGED <<ciphers, cipher_mem, contexts, held>>]_cipherVars
<1>1. CiphersInit => CiphersInv
  BY CiphersStart
<1>2. CiphersInv /\ [CiphersNext]_cipherVars => CiphersInv'
  BY CiphersAlong
<1>3. CiphersInv => (Compute => UNCHANGED <<ciphers, cipher_mem, contexts, held>>)
  BY ComputeLeaves DEF CiphersInv
<1> QED
  BY <1>1, <1>2, <1>3, PTL DEF CiphersSpec

-----------------------------------------------------------------------------
(* Saved statuses: the lists                                                *)

Words == STRING \cup Nat
StatusData == [addr : Status \cup {"none"}, title : Seq(Words), type : STRING,
               created : Nat, lastused : Nat, usage : Nat]

Listing(l) == l \in Seq(StatusData) /\ IsInjective(l)

LEMMA StatusFields ==
    ASSUME NEW s \in StatusData
    PROVE  /\ s.addr \in Status \cup {"none"} /\ s.title \in Seq(Words) /\ s.type \in STRING
           /\ s.created \in Nat /\ s.lastused \in Nat /\ s.usage \in Nat
BY DEF StatusData

\* A list has as many elements as places.
LEMMA ElementsAre ==
    ASSUME NEW S, NEW l \in Seq(S)
    PROVE  /\ ToSet(l) = {l[i] : i \in 1..Len(l)} /\ ToSet(l) \subseteq S
           /\ \A x : x \in ToSet(l) <=> \E i \in 1..Len(l) : l[i] = x
BY DEF ToSet

LEMMA PrependedIs ==
    ASSUME NEW l, NEW s \in StatusData, Listing(l), s \notin ToSet(l)
    PROVE  /\ Listing(<<s>> \o l) /\ ToSet(<<s>> \o l) = ToSet(l) \cup {s}
           /\ Len(<<s>> \o l) = Len(l) + 1
<1> DEFINE w == <<s>> \o l
           n == Len(l)
<1>1. l \in Seq(StatusData) /\ n \in Nat /\ DOMAIN l = 1..n
  BY DEF Listing
<1>2. w \in Seq(StatusData) /\ Len(w) = n + 1 /\ DOMAIN w = 1..n + 1
  BY <1>1
<1>3. w[1] = s /\ \A j \in 2..n + 1 : w[j] = l[j - 1]
  BY <1>1
<1> HIDE DEF w, n
<1>4. \A j \in 2..n + 1 : j - 1 \in 1..n
  BY <1>1
<1>5. \A i \in 1..n : i + 1 \in 2..n + 1 /\ (i + 1) - 1 = i
  BY <1>1
<1>6. \A x : x \in ToSet(l) <=> \E i \in 1..n : l[i] = x
  BY <1>1, ElementsAre DEF n
<1>7. \A x : x \in ToSet(w) <=> \E i \in 1..n + 1 : w[i] = x
  BY <1>2, ElementsAre
<1>8. 1..n + 1 = {1} \cup (2..n + 1)
  BY <1>1
<1>9. \A j \in 2..n + 1 : w[j] \in ToSet(l)
  BY <1>3, <1>4, <1>6
<1>10. ToSet(w) = ToSet(l) \cup {s}
  <2>1. \A x \in ToSet(w) : x \in ToSet(l) \/ x = s
    BY <1>3, <1>7, <1>8, <1>9
  <2>2. s \in ToSet(w)
    BY <1>3, <1>7, <1>8
  <2>3. ASSUME NEW x \in ToSet(l) PROVE x \in ToSet(w)
    <3>1. PICK i \in 1..n : l[i] = x
      BY <1>6
    <3>2. i + 1 \in 1..n + 1 /\ w[i + 1] = x
      BY <1>3, <1>5, <1>8, <3>1
    <3> QED
      BY <1>7, <3>2
  <2> QED
    BY <2>1, <2>2, <2>3
<1>11. IsInjective(w)
  <2>1. \A i, j \in 1..n : l[i] = l[j] => i = j
    BY <1>1 DEF Listing, IsInjective
  <2> SUFFICES ASSUME NEW i \in 1..n + 1, NEW j \in 1..n + 1, w[i] = w[j], i # j
               PROVE  FALSE
    BY <1>2 DEF IsInjective
  <2>2. CASE i = 1 \/ j = 1
    BY <1>3, <1>8, <1>9, <2>2
  <2>3. CASE i # 1 /\ j # 1
    <3>1. i \in 2..n + 1 /\ j \in 2..n + 1
      BY <1>8, <2>3
    <3>2. i - 1 = j - 1
      BY <1>3, <1>4, <2>1, <3>1
    <3> QED
      BY <3>1, <3>2
  <2> QED
    BY <2>2, <2>3
<1> QED
  BY <1>2, <1>10, <1>11 DEF Listing, w, n

LEMMA InsertedIs ==
    ASSUME NEW l, NEW s \in StatusData, Listing(l), s \notin ToSet(l), NEW p \in 1..Len(l) + 1
    PROVE  Listing(InsertAt(l, p, s)) /\ ToSet(InsertAt(l, p, s)) = ToSet(l) \cup {s}
<1> DEFINE w == InsertAt(l, p, s)
           n == Len(l)
<1>1. l \in Seq(StatusData) /\ n \in Nat /\ DOMAIN l = 1..n
  BY DEF Listing
<1>2. /\ w \in Seq(StatusData) /\ Len(w) = n + 1
      /\ \A j \in 1..n + 1 : w[j] = IF j < p THEN l[j] ELSE IF j = p THEN s ELSE l[j - 1]
  BY <1>1, InsertAtIs
<1>3. DOMAIN w = 1..n + 1
  BY <1>2
<1>4. p \in 1..n + 1
  OBVIOUS
<1> HIDE DEF w, n
<1>5. \A j \in 1..n + 1 : (j < p => j \in 1..n) /\ (j > p => j - 1 \in 1..n)
  BY <1>1, <1>4
<1>6. \A x : x \in ToSet(l) <=> \E i \in 1..n : l[i] = x
  BY <1>1, ElementsAre DEF n
<1>7. \A x : x \in ToSet(w) <=> \E i \in 1..n + 1 : w[i] = x
  BY <1>2, ElementsAre
<1>8. w[p] = s
  BY <1>2, <1>4
<1>9. \A j \in 1..n + 1 : j # p => w[j] \in ToSet(l)
  BY <1>2, <1>4, <1>5, <1>6
<1>10. \A i \in 1..n : IF i < p THEN i \in 1..n + 1 /\ w[i] = l[i]
                       ELSE i + 1 \in 1..n + 1 /\ w[i + 1] = l[i]
  BY <1>1, <1>2, <1>4
<1>11. ToSet(w) = ToSet(l) \cup {s}
  <2>1. \A x \in ToSet(w) : x \in ToSet(l) \/ x = s
    BY <1>7, <1>8, <1>9
  <2>2. s \in ToSet(w)
    BY <1>4, <1>7, <1>8
  <2>3. \A x \in ToSet(l) : x \in ToSet(w)
    BY <1>6, <1>7, <1>10
  <2> QED
    BY <2>1, <2>2, <2>3
<1>12. IsInjective(w)
  <2>1. \A i, j \in 1..n : l[i] = l[j] => i = j
    BY <1>1 DEF Listing, IsInjective
  <2> SUFFICES ASSUME NEW i \in 1..n + 1, NEW j \in 1..n + 1, w[i] = w[j], i < j
               PROVE  FALSE
    BY <1>1, <1>3 DEF IsInjective
  <2>2. CASE i = p \/ j = p
    BY <1>8, <1>9, <2>2
  <2>3. CASE i # p /\ j # p
    <3>1. PICK u \in 1..n, v \in 1..n : w[i] = l[u] /\ w[j] = l[v] /\ u # v
      <4>1. w[i] = IF i < p THEN l[i] ELSE l[i - 1]
        BY <1>2, <2>3
      <4>2. w[j] = IF j < p THEN l[j] ELSE l[j - 1]
        BY <1>2, <2>3
      <4>3. CASE j < p
        <5>1. i < p /\ i \in 1..n /\ j \in 1..n /\ i # j
          BY <1>4, <1>5, <4>3
        <5>2. w[i] = l[i] /\ w[j] = l[j]
          BY <4>1, <4>2, <4>3, <5>1
        <5> QED
          BY <5>1, <5>2, Zenon
      <4>4. CASE i < p /\ j > p
        <5>1. i # j - 1 /\ ~(j < p) /\ i \in 1..n /\ j - 1 \in 1..n
          BY <1>4, <1>5, <4>4
        <5>2. w[i] = l[i] /\ w[j] = l[j - 1]
          BY <4>1, <4>2, <4>4, <5>1
        <5> QED
          BY <5>1, <5>2, Zenon
      <4>5. CASE i > p /\ j > p
        <5>1. i - 1 # j - 1 /\ ~(i < p) /\ ~(j < p) /\ i - 1 \in 1..n /\ j - 1 \in 1..n
          BY <1>4, <1>5, <4>5
        <5>2. w[i] = l[i - 1] /\ w[j] = l[j - 1]
          BY <4>1, <4>2, <5>1
        <5> QED
          BY <5>1, <5>2, Zenon
      <4> QED
        BY <1>4, <2>3, <4>3, <4>4, <4>5
    <3> QED
      BY <2>1, <3>1
  <2> QED
    BY <2>2, <2>3
<1> QED
  BY <1>2, <1>11, <1>12 DEF Listing, w

LEMMA TakenOutIs ==
    ASSUME NEW l, Listing(l), NEW i \in DOMAIN l
    PROVE  Listing(RemoveAt(l, i)) /\ ToSet(RemoveAt(l, i)) = ToSet(l) \ {l[i]}
<1> DEFINE w == RemoveAt(l, i)
           n == Len(l)
<1>1. l \in Seq(StatusData) /\ n \in Nat /\ DOMAIN l = 1..n /\ i \in 1..n
  BY DEF Listing
<1>2. /\ w \in Seq(StatusData) /\ Len(w) = n - 1
      /\ \A j \in DOMAIN w : w[j] = IF j < i THEN l[j] ELSE l[j + 1]
  BY <1>1, RemoveAtIs
<1>3. DOMAIN w = 1..n - 1
  BY <1>2
<1> HIDE DEF w, n
<1>4. \A x : x \in ToSet(l) <=> \E k \in 1..n : l[k] = x
  BY <1>1, ElementsAre DEF n
<1>5. \A x : x \in ToSet(w) <=> \E k \in 1..n - 1 : w[k] = x
  BY <1>2, ElementsAre
<1>6. \A j, k \in 1..n : l[j] = l[k] => j = k
  BY <1>1 DEF Listing, IsInjective
<1> DEFINE from(j) == IF j < i THEN j ELSE j + 1
<1>7. \A j \in 1..n - 1 : from(j) \in 1..n /\ from(j) # i /\ w[j] = l[from(j)]
  BY <1>1, <1>2, <1>3
<1>8. \A k \in 1..n : k # i => \E j \in 1..n - 1 : from(j) = k
  <2> SUFFICES ASSUME NEW k \in 1..n, k # i PROVE \E j \in 1..n - 1 : from(j) = k
    OBVIOUS
  <2>1. CASE k < i
    <3>1. k \in 1..n - 1 /\ from(k) = k
      BY <1>1, <2>1
    <3> QED
      BY <3>1
  <2>2. CASE k > i
    <3>1. k - 1 \in 1..n - 1 /\ from(k - 1) = k
      BY <1>1, <2>2
    <3> QED
      BY <3>1
  <2> QED
    BY <1>1, <2>1, <2>2
<1>9. \A j, k \in 1..n - 1 : from(j) = from(k) => j = k
  BY <1>1
<1> HIDE DEF from
<1>10. ToSet(w) = ToSet(l) \ {l[i]}
  <2>1. \A x \in ToSet(w) : x \in ToSet(l) /\ x # l[i]
    BY <1>1, <1>4, <1>5, <1>6, <1>7
  <2>2. ASSUME NEW x \in ToSet(l), x # l[i] PROVE x \in ToSet(w)
    <3>1. PICK k \in 1..n : l[k] = x
      BY <1>4
    <3>2. PICK j \in 1..n - 1 : from(j) = k
      BY <1>8, <2>2, <3>1
    <3> QED
      BY <1>5, <1>7, <3>1, <3>2
  <2> QED
    BY <2>1, <2>2
<1>11. IsInjective(w)
  <2> SUFFICES ASSUME NEW j \in 1..n - 1, NEW k \in 1..n - 1, w[j] = w[k] PROVE j = k
    BY <1>3 DEF IsInjective
  <2>1. from(j) = from(k)
    BY <1>6, <1>7
  <2> QED
    BY <1>9, <2>1
<1> QED
  BY <1>2, <1>10, <1>11 DEF Listing, w

StatusPut(l, i, s) == [l EXCEPT ![i] = s]

LEMMA ReplacedIs ==
    ASSUME NEW l, Listing(l), NEW i \in DOMAIN l, NEW s \in StatusData,
           s \notin ToSet(l) \ {l[i]}
    PROVE  /\ Listing(StatusPut(l, i, s)) /\ Len(StatusPut(l, i, s)) = Len(l)
           /\ ToSet(StatusPut(l, i, s)) = (ToSet(l) \ {l[i]}) \cup {s}
<1> DEFINE w == StatusPut(l, i, s)
           n == Len(l)
<1>1. l \in Seq(StatusData) /\ n \in Nat /\ DOMAIN l = 1..n /\ i \in 1..n
  BY DEF Listing
<1>2. w \in Seq(StatusData) /\ Len(w) = n /\ DOMAIN w = 1..n
  BY <1>1 DEF StatusPut
<1>3. w[i] = s /\ \A j \in 1..n : j # i => w[j] = l[j]
  BY <1>1 DEF StatusPut
<1> HIDE DEF w, n
<1>4. \A x : x \in ToSet(l) <=> \E k \in 1..n : l[k] = x
  BY <1>1, ElementsAre DEF n
<1>5. \A x : x \in ToSet(w) <=> \E k \in 1..n : w[k] = x
  BY <1>2, ElementsAre
<1>6. \A j, k \in 1..n : l[j] = l[k] => j = k
  BY <1>1 DEF Listing, IsInjective
<1>7. \A j \in 1..n : j # i => l[j] \in ToSet(l) \ {l[i]}
  BY <1>1, <1>4, <1>6
<1>8. ToSet(w) = (ToSet(l) \ {l[i]}) \cup {s}
  <2>1. \A x \in ToSet(w) : x \in (ToSet(l) \ {l[i]}) \cup {s}
    BY <1>3, <1>5, <1>7
  <2>2. \A x \in ToSet(l) \ {l[i]} : x \in ToSet(w)
    BY <1>3, <1>4, <1>5
  <2>3. s \in ToSet(w)
    BY <1>1, <1>3, <1>5
  <2> QED
    BY <2>1, <2>2, <2>3
<1>9. IsInjective(w)
  <2> SUFFICES ASSUME NEW j \in 1..n, NEW k \in 1..n, w[j] = w[k], j # k PROVE FALSE
    BY <1>2 DEF IsInjective
  <2> QED
    BY <1>3, <1>6, <1>7
<1> QED
  BY <1>2, <1>8, <1>9 DEF Listing, w, n

LEMMA UpToIs ==
    ASSUME NEW n \in Nat
    PROVE  IsFiniteSet(1..n) /\ Cardinality(1..n) = n
<1>1. 1 \in Int /\ n \in Int /\ (1 > n => n = 0) /\ n - 1 + 1 = n
  OBVIOUS
<1> QED
  BY <1>1, FS_Interval

\* Places in a one-to-one correspondence with 1..n give a list of the elements at them.
LEMMA ArrangedIs ==
    ASSUME NEW l \in Seq(StatusData), NEW D \in SUBSET (DOMAIN l),
           NEW place \in [D -> 1..Cardinality(D)], \A i, j \in D : place[i] = place[j] => i = j
    PROVE  /\ Arranged(l, place) \in Seq(StatusData) /\ Len(Arranged(l, place)) = Cardinality(D)
           /\ Cardinality(D) \in Nat /\ Cardinality(D) <= Len(l)
           /\ ToSet(Arranged(l, place)) = {l[i] : i \in D}
           /\ IsInjective(l) => IsInjective(Arranged(l, place))
<1> DEFINE w == Arranged(l, place)
           n == Cardinality(D)
<1>1. DOMAIN l = 1..Len(l) /\ Len(l) \in Nat /\ DOMAIN place = D
  OBVIOUS
<1>2. IsFiniteSet(1..Len(l)) /\ Cardinality(1..Len(l)) = Len(l)
  BY <1>1, UpToIs
<1>3. IsFiniteSet(D) /\ n \in Nat /\ n <= Len(l)
  BY <1>1, <1>2, FS_Subset, FS_CardinalityType
<1>4. IsFiniteSet(1..n) /\ Cardinality(1..n) = n
  BY <1>3, UpToIs
<1>5. place \in Injection(D, 1..n)
  BY DEF Injection, IsInjective
<1>6. place \in Surjection(D, 1..n)
  BY <1>3, <1>4, <1>5, FS_Injection
<1>7. \A k \in 1..n : \E i \in D : place[i] = k
  BY <1>6 DEF Surjection
<1> DEFINE at == [k \in 1..n |-> CHOOSE i \in D : place[i] = k]
<1>8. \A k \in 1..n : at[k] \in D /\ place[at[k]] = k
  BY <1>7
<1>9. \A i \in D : place[i] \in 1..n /\ at[place[i]] = i
  BY <1>8
<1>10. w = [k \in 1..n |-> l[at[k]]]
  BY <1>1 DEF Arranged
<1> HIDE DEF w, n, at
<1>11. \A k \in 1..n : l[at[k]] \in StatusData
  BY <1>1, <1>8
<1>12. w \in Seq(StatusData) /\ Len(w) = n /\ DOMAIN w = 1..n
  BY <1>3, <1>10, <1>11
<1>13. ToSet(w) = {l[i] : i \in D}
  <2>1. \A x : x \in ToSet(w) <=> \E k \in 1..n : w[k] = x
    BY <1>12, ElementsAre
  <2>2. \A k \in 1..n : w[k] = l[at[k]]
    BY <1>10
  <2>3. \A x \in ToSet(w) : \E i \in D : x = l[i]
    BY <1>8, <2>1, <2>2
  <2>4. \A i \in D : l[i] \in ToSet(w)
    BY <1>9, <2>1, <2>2
  <2> QED
    BY <2>3, <2>4
<1>14. IsInjective(l) => IsInjective(w)
  BY <1>1, <1>8, <1>10, <1>12 DEF IsInjective
<1> QED
  BY <1>3, <1>12, <1>13, <1>14 DEF w, n

\* To count what comes before each element in a strict order enumerates the elements.
LEMMA RanksAre ==
    ASSUME NEW D, IsFiniteSet(D), NEW R,
           \A i \in D : <<i, i>> \notin R,
           \A i, j, k \in D : <<i, j>> \in R /\ <<j, k>> \in R => <<i, k>> \in R,
           \A i, j \in D : i # j => <<i, j>> \in R \/ <<j, i>> \in R
    PROVE  /\ \A i \in D : 1 + Cardinality({j \in D : <<j, i>> \in R}) \in 1..Cardinality(D)
           /\ \A i, k \in D : Cardinality({j \in D : <<j, i>> \in R})
                                = Cardinality({j \in D : <<j, k>> \in R}) => i = k
<1> DEFINE low(i) == {j \in D : <<j, i>> \in R}
<1>1. Cardinality(D) \in Nat
  BY FS_CardinalityType
<1>2. \A i \in D : IsFiniteSet(low(i)) /\ Cardinality(low(i)) \in Nat
  BY FS_Subset, FS_CardinalityType
<1>3. ASSUME NEW i \in D PROVE Cardinality(low(i)) < Cardinality(D)
  <2>1. low(i) \in SUBSET D /\ low(i) # D
    OBVIOUS
  <2>2. Cardinality(low(i)) <= Cardinality(D) /\ Cardinality(low(i)) # Cardinality(D)
    BY <2>1, FS_Subset
  <2> QED
    BY <1>1, <1>2, <2>2
<1>4. ASSUME NEW i \in D, NEW k \in D, <<i, k>> \in R
      PROVE  Cardinality(low(i)) # Cardinality(low(k))
  <2>1. low(i) \in SUBSET low(k) /\ i \in low(k) /\ i \notin low(i)
    BY <1>4
  <2>2. low(i) # low(k)
    BY <2>1
  <2> QED
    BY <1>2, <2>1, <2>2, FS_Subset
<1> HIDE DEF low
<1>5. \A i \in D : 1 + Cardinality(low(i)) \in 1..Cardinality(D)
  BY <1>1, <1>2, <1>3
<1>6. \A i, k \in D : Cardinality(low(i)) = Cardinality(low(k)) => i = k
  BY <1>4
<1> QED
  BY <1>5, <1>6 DEF low

LEMMA SortedIs ==
    ASSUME NEW l, Listing(l), StatusesAssumption
    PROVE  /\ Listing(Sorted(l)) /\ ToSet(Sorted(l)) = ToSet(l)
<1> DEFINE D == DOMAIN l
           place == [i \in D |-> 1 + Cardinality({j \in D : Precedes(l, j, i)})]
           R == {p \in D \X D : Precedes(l, p[1], p[2])}
<1>1. l \in Seq(StatusData) /\ Len(l) \in Nat /\ D = 1..Len(l)
  BY DEF Listing
<1>2. IsFiniteSet(D) /\ Cardinality(D) = Len(l) /\ D \subseteq Int
  BY <1>1, UpToIs
<1>3. ASSUME NEW i \in D PROVE Magic(l[i]) \in Int
  <2>0. l[i] \in StatusData
    BY <1>1
  <2>1. l[i].lastused \in Nat /\ l[i].usage \in Nat
    BY <2>0, StatusFields
  <2>2. Day \in Nat /\ UsesThatCount \in Nat
    BY DEF StatusesAssumption
  <2> QED
    BY <2>1, <2>2 DEF Magic
<1>4. \A i, j \in D : <<j, i>> \in R <=> Precedes(l, j, i)
  OBVIOUS
<1>5. \A i \in D : {j \in D : <<j, i>> \in R} = {j \in D : Precedes(l, j, i)}
  BY <1>4
<1>6. \A i \in D : ~Precedes(l, i, i)
  BY <1>2, <1>3 DEF Precedes
<1>7. \A i, j, k \in D : Precedes(l, i, j) /\ Precedes(l, j, k) => Precedes(l, i, k)
  BY <1>2, <1>3 DEF Precedes
<1>8. \A i, j \in D : i # j => Precedes(l, i, j) \/ Precedes(l, j, i)
  BY <1>2, <1>3 DEF Precedes
<1> HIDE DEF R, D
<1>9. /\ \A i \in D : 1 + Cardinality({j \in D : <<j, i>> \in R}) \in 1..Cardinality(D)
      /\ \A i, k \in D : Cardinality({j \in D : <<j, i>> \in R})
                            = Cardinality({j \in D : <<j, k>> \in R}) => i = k
  <2>1. \A i \in D : <<i, i>> \notin R
    BY <1>4, <1>6
  <2>2. \A i, j, k \in D : <<i, j>> \in R /\ <<j, k>> \in R => <<i, k>> \in R
    BY <1>4, <1>7
  <2>3. \A i, j \in D : i # j => <<i, j>> \in R \/ <<j, i>> \in R
    BY <1>4, <1>8
  <2> QED
    BY <1>2, <2>1, <2>2, <2>3, RanksAre, Zenon
<1> DEFINE before(i) == Cardinality({j \in D : Precedes(l, j, i)})
<1>10. /\ \A i \in D : 1 + before(i) \in 1..Cardinality(D)
       /\ \A i, k \in D : before(i) = before(k) => i = k
  BY <1>5, <1>9
<1>11. \A i \in D : before(i) \in Nat
  <2> SUFFICES ASSUME NEW i \in D PROVE before(i) \in Nat
    OBVIOUS
  <2>1. {j \in D : Precedes(l, j, i)} \in SUBSET D
    OBVIOUS
  <2> QED
    BY <1>2, <2>1, FS_Subset, FS_CardinalityType
<1>12. place = [i \in D |-> 1 + before(i)]
  OBVIOUS
<1> HIDE DEF before, place
<1>13. \A i, j \in D : place[i] = place[j] => i = j
  BY <1>10, <1>11, <1>12
<1>14. place \in [D -> 1..Cardinality(D)]
  BY <1>10, <1>12
<1>15. Sorted(l) = Arranged(l, place)
  BY DEF Sorted, place, D
<1>16. /\ Sorted(l) \in Seq(StatusData) /\ ToSet(Sorted(l)) = {l[i] : i \in D}
       /\ IsInjective(Sorted(l))
  <2>1. D \in SUBSET (DOMAIN l) /\ IsInjective(l)
    BY DEF D, Listing
  <2>2. /\ Arranged(l, place) \in Seq(StatusData) /\ ToSet(Arranged(l, place)) = {l[i] : i \in D}
        /\ IsInjective(l) => IsInjective(Arranged(l, place))
    BY <1>1, <1>13, <1>14, <2>1, ArrangedIs, Zenon
  <2> QED
    BY <1>15, <2>1, <2>2, Zenon
<1>17. ToSet(l) = {l[i] : i \in D}
  BY <1>1, ElementsAre
<1> QED
  BY <1>16, <1>17 DEF Listing

\* The statuses that stay, in their order.
LEMMA StayingIs ==
    ASSUME NEW l, Listing(l), NEW D \in SUBSET (DOMAIN l)
    PROVE  /\ Arranged(l, [i \in D |-> Cardinality({j \in D : j <= i})]) \in Seq(StatusData)
           /\ Len(Arranged(l, [i \in D |-> Cardinality({j \in D : j <= i})])) \in 0..Len(l)
<1> DEFINE place == [i \in D |-> Cardinality({j \in D : j <= i})]
           R == {p \in D \X D : p[1] < p[2]}
           low(i) == {j \in D : j < i}
<1>1. l \in Seq(StatusData) /\ Len(l) \in Nat /\ DOMAIN l = 1..Len(l)
  BY DEF Listing
<1>2. IsFiniteSet(D) /\ D \subseteq Int
  <2>1. IsFiniteSet(DOMAIN l)
    BY <1>1, UpToIs
  <2> QED
    BY <1>1, <2>1, FS_Subset
<1>3. \A i, j \in D : <<j, i>> \in R <=> j < i
  OBVIOUS
<1>4. \A i \in D : {j \in D : <<j, i>> \in R} = low(i)
  BY <1>3
<1> HIDE DEF R
<1>5. /\ \A i \in D : 1 + Cardinality({j \in D : <<j, i>> \in R}) \in 1..Cardinality(D)
      /\ \A i, k \in D : Cardinality({j \in D : <<j, i>> \in R})
                            = Cardinality({j \in D : <<j, k>> \in R}) => i = k
  <2>1. \A i \in D : <<i, i>> \notin R
    BY <1>2, <1>3
  <2>2. \A i, j, k \in D : <<i, j>> \in R /\ <<j, k>> \in R => <<i, k>> \in R
    BY <1>2, <1>3
  <2>3. \A i, j \in D : i # j => <<i, j>> \in R \/ <<j, i>> \in R
    BY <1>2, <1>3
  <2> QED
    BY <1>2, <2>1, <2>2, <2>3, RanksAre, Zenon
<1>6. ASSUME NEW i \in D PROVE place[i] = 1 + Cardinality(low(i)) /\ Cardinality(low(i)) \in Nat
  <2>1. {j \in D : j <= i} = low(i) \cup {i} /\ i \notin low(i) /\ low(i) \in SUBSET D
    BY <1>2
  <2>2. IsFiniteSet(low(i))
    BY <1>2, <2>1, FS_Subset
  <2>3. Cardinality(low(i) \cup {i}) = Cardinality(low(i)) + 1 /\ Cardinality(low(i)) \in Nat
    BY <2>1, <2>2, FS_AddElement, FS_CardinalityType
  <2> QED
    BY <2>1, <2>3
<1>7. place = [i \in D |-> place[i]]
  OBVIOUS
<1> HIDE DEF low, place
<1>8. \A i \in D : place[i] \in 1..Cardinality(D)
  BY <1>4, <1>5, <1>6
<1>9. \A i, j \in D : place[i] = place[j] => i = j
  <2> SUFFICES ASSUME NEW i \in D, NEW j \in D, place[i] = place[j] PROVE i = j
    OBVIOUS
  <2>1. Cardinality(low(i)) = Cardinality(low(j))
    BY <1>6
  <2> QED
    BY <1>4, <1>5, <2>1
<1>10. place \in [D -> 1..Cardinality(D)]
  BY <1>7, <1>8
<1>11. /\ Arranged(l, place) \in Seq(StatusData) /\ Len(Arranged(l, place)) = Cardinality(D)
       /\ Cardinality(D) \in Nat /\ Cardinality(D) <= Len(l)
  BY <1>1, <1>9, <1>10, ArrangedIs
<1>12. Len(Arranged(l, place)) \in 0..Len(l)
  BY <1>1, <1>11
<1> QED
  BY <1>11, <1>12 DEF place

-----------------------------------------------------------------------------
(* The statuses with the table that finds them                              *)

\* The statuses E, with the table of creation times.
Filed(E, times) ==
    /\ E \subseteq StatusData
    /\ \A s, u \in E : s.addr = u.addr => s = u
    /\ \A s \in E : s.addr \in Status /\ s.created \in DOMAIN times /\ times[s.created] = s.addr
    /\ \A t \in DOMAIN times : t \in Nat \ {0} /\ \E s \in E : s.created = t
    /\ \A s, u \in E : s # u => IsTransient(s) \/ s.title # u.title
Shelved(l, times) == Listing(l) /\ Filed(ToSet(l), times)

LEMMA FiledMore ==
    ASSUME NEW E, NEW times, Filed(E, times), NEW s \in StatusData, s.addr \in Status,
           \A u \in E : u.addr # s.addr, s.created \in Nat \ {0}, s.created \notin DOMAIN times,
           IsTransient(s) \/ \A u \in E : s.title # u.title
    PROVE  Filed(E \cup {s}, PutTime(times, s.created, s.addr))
<1> DEFINE new == PutTime(times, s.created, s.addr)
<1>1. /\ DOMAIN new = DOMAIN times \cup {s.created} /\ new[s.created] = s.addr
      /\ \A t \in DOMAIN times : new[t] = times[t]
  BY DEF PutTime
<1> HIDE DEF new
<1>2. E \cup {s} \subseteq StatusData
  BY DEF Filed
<1>3. \A t, u \in E \cup {s} : t.addr = u.addr => t = u
  BY DEF Filed
<1>4. \A u \in E \cup {s} : u.addr \in Status /\ u.created \in DOMAIN new /\ new[u.created] = u.addr
  BY <1>1 DEF Filed
<1>5. \A t \in DOMAIN new : t \in Nat \ {0} /\ \E u \in E \cup {s} : u.created = t
  BY <1>1 DEF Filed
<1>6. \A t, u \in E \cup {s} : t # u => IsTransient(t) \/ t.title # u.title
  BY DEF Filed, IsTransient
<1> QED
  BY <1>2, <1>3, <1>4, <1>5, <1>6 DEF Filed, new

LEMMA CreatedOnce ==
    ASSUME NEW E, NEW times, Filed(E, times), NEW s \in E, NEW u \in E, s.created = u.created
    PROVE  s = u
BY DEF Filed

LEMMA FiledLess ==
    ASSUME NEW E, NEW times, Filed(E, times), NEW s \in E
    PROVE  Filed(E \ {s}, DropTime(times, s.created))
<1> DEFINE new == DropTime(times, s.created)
<1>1. /\ DOMAIN new = DOMAIN times \ {s.created}
      /\ \A t \in DOMAIN times \ {s.created} : new[t] = times[t]
  BY DEF DropTime
<1> HIDE DEF new
<1>2. \A u \in E \ {s} : u.created # s.created
  BY CreatedOnce
<1>3. \A u \in E \ {s} : u.addr \in Status /\ u.created \in DOMAIN new /\ new[u.created] = u.addr
  BY <1>1, <1>2 DEF Filed
<1>4. \A t \in DOMAIN new : t \in Nat \ {0} /\ \E u \in E \ {s} : u.created = t
  BY <1>1, <1>2 DEF Filed
<1> QED
  BY <1>3, <1>4 DEF Filed, new

LEMMA FiledOther ==
    ASSUME NEW E, NEW times, Filed(E, times), NEW s \in E, NEW n \in StatusData,
           n.addr = s.addr, n.created = s.created,
           n.title = s.title \/ IsTransient(n) \/ \A u \in E : n.title # u.title
    PROVE  Filed((E \ {s}) \cup {n}, times) /\ n \notin E \ {s}
<1> DEFINE F == (E \ {s}) \cup {n}
<1>1. F \subseteq StatusData /\ n \notin E \ {s}
  BY DEF Filed
<1>2. \A t, u \in F : t.addr = u.addr => t = u
  BY DEF Filed
<1>3. \A u \in F : u.addr \in Status /\ u.created \in DOMAIN times /\ times[u.created] = u.addr
  BY DEF Filed
<1>4. ASSUME NEW t \in DOMAIN times PROVE t \in Nat \ {0} /\ \E u \in F : u.created = t
  <2>1. t \in Nat \ {0} /\ \E u \in E : u.created = t
    BY DEF Filed
  <2> QED
    BY <2>1
<1>5. ASSUME NEW t \in F, NEW u \in F, t # u PROVE IsTransient(t) \/ t.title # u.title
  <2>1. CASE t # n /\ u # n
    BY <1>5, <2>1 DEF Filed
  <2>2. CASE n.title = s.title
    <3>1. \A v \in E \ {s} : IsTransient(v) \/ v.title # s.title
      BY DEF Filed
    <3> QED
      BY <1>5, <2>1, <2>2, <3>1 DEF IsTransient
  <2>3. CASE IsTransient(n) \/ \A v \in E : n.title # v.title
    BY <1>5, <2>1, <2>3 DEF IsTransient
  <2> QED
    BY <2>2, <2>3
<1> HIDE DEF F
<1>6. Filed(F, times)
  BY <1>1, <1>2, <1>3, <1>4, <1>5 DEF Filed
<1> QED
  BY <1>1, <1>6 DEF F

\* The addresses in use are as many as the statuses, and no more than there are.
LEMMA AddrsAre ==
    ASSUME NEW l, NEW times, Shelved(l, times), StatusesAssumption
    PROVE  /\ Addrs(l) \subseteq Status /\ IsFiniteSet(Addrs(l)) /\ Cardinality(Addrs(l)) = Len(l)
           /\ Len(l) \in Nat /\ Cardinality(Status) \in Nat /\ Len(l) <= Cardinality(Status)
           /\ Addrs(l) = {s.addr : s \in ToSet(l)}
<1> DEFINE f == [i \in 1..Len(l) |-> l[i].addr]
<1>1. l \in Seq(StatusData) /\ Len(l) \in Nat /\ DOMAIN l = 1..Len(l)
  BY DEF Shelved, Listing
<1>2. \A x : x \in ToSet(l) <=> \E i \in 1..Len(l) : l[i] = x
  BY <1>1, ElementsAre
<1>3. \A i \in 1..Len(l) : l[i] \in ToSet(l)
  BY <1>2
<1>4. \A i, j \in 1..Len(l) : l[i].addr = l[j].addr => i = j
  BY <1>1, <1>3 DEF Shelved, Filed, Listing, IsInjective
<1>5. Addrs(l) = {l[i].addr : i \in 1..Len(l)}
  BY <1>1 DEF Addrs
<1>6. f \in Bijection(1..Len(l), Addrs(l))
  <2>1. f \in [1..Len(l) -> Addrs(l)]
    BY <1>5
  <2>2. \A i, j \in 1..Len(l) : f[i] = f[j] => i = j
    BY <1>4
  <2>3. \A a \in Addrs(l) : \E i \in 1..Len(l) : f[i] = a
    BY <1>5
  <2> HIDE DEF f
  <2> QED
    BY <2>1, <2>2, <2>3 DEF Bijection, Injection, Surjection, IsInjective
<1>7. IsFiniteSet(1..Len(l)) /\ Cardinality(1..Len(l)) = Len(l)
  BY <1>1, UpToIs
<1>8. IsFiniteSet(Addrs(l)) /\ Cardinality(Addrs(l)) = Len(l)
  BY <1>6, <1>7, FS_Bijection DEF ExistsBijection
<1>9. Addrs(l) \subseteq Status
  BY <1>3, <1>5 DEF Shelved, Filed
<1>10. Cardinality(Status) \in Nat /\ Len(l) <= Cardinality(Status)
  BY <1>8, <1>9, FS_Subset, FS_CardinalityType DEF StatusesAssumption
<1>11. Addrs(l) = {s.addr : s \in ToSet(l)}
  BY <1>2, <1>3, <1>5
<1> QED
  BY <1>1, <1>8, <1>9, <1>10, <1>11

LEMMA FreshIs ==
    ASSUME NEW l, NEW times, Shelved(l, times), StatusesAssumption, Len(l) < Cardinality(Status)
    PROVE  Fresh(l) \in Status /\ \A s \in ToSet(l) : s.addr # Fresh(l)
<1>1. /\ Addrs(l) \subseteq Status /\ IsFiniteSet(Addrs(l)) /\ Cardinality(Addrs(l)) = Len(l)
      /\ Len(l) \in Nat /\ Addrs(l) = {s.addr : s \in ToSet(l)}
  BY AddrsAre
<1>2. \E a \in Status : a \notin Addrs(l)
  <2> SUFFICES ASSUME Status = Addrs(l) PROVE FALSE
    BY <1>1
  <2> QED
    BY <1>1
<1>3. Fresh(l) \in Status /\ Fresh(l) \notin Addrs(l)
  <2>1. Fresh(l) = CHOOSE a \in Status : a \notin Addrs(l)
    BY DEF Fresh, Addrs
  <2> QED
    BY <1>2, <2>1
<1> QED
  BY <1>1, <1>3

\* The table is finite, so a time that is free is found.
LEMMA UniqueTimeIs ==
    ASSUME NEW l, NEW times, Shelved(l, times), StatusesAssumption, NEW t \in Nat
    PROVE  UniqueTime(times, t) \in Nat \ {0} /\ UniqueTime(times, t) \notin DOMAIN times
<1> DEFINE D == DOMAIN times
           n == Cardinality(D)
           from == IF t = 0 THEN 1 ELSE t
           free == {u \in from..(from + n) : u \notin D}
           f == [u \in D |-> times[u]]
<1>1. IsFiniteSet(D)
  <2>1. f \in [D -> Status]
    BY DEF Shelved, Filed
  <2>2. ASSUME NEW u \in D, NEW v \in D, f[u] = f[v] PROVE u = v
    <3>1. PICK s \in ToSet(l), r \in ToSet(l) : s.created = u /\ r.created = v
      BY DEF Shelved, Filed
    <3>2. s.addr = times[u] /\ r.addr = times[v]
      BY <3>1 DEF Shelved, Filed
    <3>3. s.addr = r.addr
      BY <2>2, <3>2
    <3>4. s = r
      BY <3>3 DEF Shelved, Filed
    <3> QED
      BY <3>1, <3>4
  <2> HIDE DEF f, D
  <2>3. f \in Injection(D, Status)
    BY <2>1, <2>2 DEF Injection, IsInjective
  <2>4. IsFiniteSet(Status)
    BY DEF StatusesAssumption
  <2> QED
    BY <2>3, <2>4, FS_Injection
<1>2. n \in Nat /\ from \in Nat \ {0}
  BY <1>1, FS_CardinalityType
<1> HIDE DEF n, from
<1>3. free # {}
  <2> SUFFICES ASSUME from..(from + n) \subseteq D PROVE FALSE
    OBVIOUS
  <2>1. IsFiniteSet(from..(from + n)) /\ Cardinality(from..(from + n)) = n + 1
    <3>1. from \in Int /\ from + n \in Int /\ ~(from > from + n) /\ (from + n) - from + 1 = n + 1
      BY <1>2
    <3> QED
      BY <3>1, FS_Interval
  <2>2. Cardinality(from..(from + n)) <= Cardinality(D)
    BY <1>1, FS_Subset
  <2>3. n = Cardinality(D)
    BY DEF n
  <2> QED
    BY <1>2, <2>1, <2>2, <2>3
<1>4. PICK u \in free : \A v \in free : u <= v
  <2>1. free \in SUBSET Nat
    BY <1>2
  <2> QED
    BY <1>3, <2>1, Least
<1>5. u \in from..(from + n) /\ u \notin D /\ \A v \in from..(u - 1) : v \in D
  <2>1. u \in from..(from + n) /\ u \notin D
    OBVIOUS
  <2>2. ASSUME NEW v \in from..(u - 1) PROVE v \in D
    <3>1. v \in from..(from + n) /\ ~(u <= v)
      BY <1>2, <2>1
    <3> QED
      BY <1>4, <3>1
  <2> QED
    BY <2>1, <2>2
<1>6. UniqueTime(times, t) = CHOOSE w \in from..(from + n) : w \notin D /\ \A v \in from..(w - 1) : v \in D
  BY DEF UniqueTime, from, n
<1> HIDE DEF D
<1>7. UniqueTime(times, t) \in from..(from + n) /\ UniqueTime(times, t) \notin D
  BY <1>5, <1>6
<1> QED
  BY <1>2, <1>7 DEF D

\* A number is found that makes a title unique.
LEMMA UniqueTitleIs ==
    ASSUME NEW l \in Seq(StatusData), NEW t \in Seq(Words)
    PROVE  /\ UniqueTitle(l, t) \in Seq(Words)
           /\ UniqueTitle(l, t) = Transient \/ \A i \in DOMAIN l : l[i].title # UniqueTitle(l, t)
<1> DEFINE ns == 2..(Len(l) + 2)
           taken(n) == FindTitle(l, Append(t, n)) # {}
           free == {n \in ns : ~taken(n)}
<1>1. Len(l) \in Nat /\ DOMAIN l = 1..Len(l)
  OBVIOUS
<1>2. CASE t = Transient \/ FindTitle(l, t) = {}
  <2>1. UniqueTitle(l, t) = t
    BY <1>2 DEF UniqueTitle
  <2> QED
    BY <1>2, <2>1 DEF FindTitle
<1>3. CASE ~(t = Transient \/ FindTitle(l, t) = {})
  <2>1. \A n, m \in ns : Append(t, n) = Append(t, m) => n = m
    <3> SUFFICES ASSUME NEW n \in ns, NEW m \in ns, Append(t, n) = Append(t, m) PROVE n = m
      OBVIOUS
    <3>1. n \in Words /\ m \in Words
      BY <1>1 DEF Words
    <3>2. Append(t, n)[Len(t) + 1] = n /\ Append(t, m)[Len(t) + 1] = m
      BY <3>1
    <3> QED
      BY <3>2
  <2>2. free # {}
    <3> SUFFICES ASSUME \A n \in ns : taken(n) PROVE FALSE
      OBVIOUS
    <3> DEFINE f == [n \in ns |-> CHOOSE i \in DOMAIN l : l[i].title = Append(t, n)]
    <3>1. \A n \in ns : \E i \in DOMAIN l : l[i].title = Append(t, n)
      BY DEF FindTitle
    <3>2. \A n \in ns : f[n] \in DOMAIN l /\ l[f[n]].title = Append(t, n)
      BY <3>1
    <3>4. f \in [ns -> DOMAIN l]
      BY <3>2
    <3> HIDE DEF f
    <3>5. \A n, m \in ns : f[n] = f[m] => n = m
      BY <2>1, <3>2
    <3>6. f \in Injection(ns, DOMAIN l)
      BY <3>4, <3>5 DEF Injection, IsInjective
    <3>7. IsFiniteSet(DOMAIN l) /\ Cardinality(DOMAIN l) = Len(l)
      BY <1>1, UpToIs
    <3>8. Cardinality(ns) = Len(l) + 1
      <4>1. 2 \in Int /\ Len(l) + 2 \in Int /\ ~(2 > Len(l) + 2) /\ (Len(l) + 2) - 2 + 1 = Len(l) + 1
        BY <1>1
      <4> QED
        BY <4>1, FS_Interval
    <3>9. Cardinality(ns) <= Len(l)
      BY <3>6, <3>7, FS_Injection
    <3> QED
      BY <1>1, <3>8, <3>9
  <2>3. PICK n \in free : \A m \in free : n <= m
    <3>1. free \in SUBSET Nat
      BY <1>1
    <3> QED
      BY <2>2, <3>1, Least
  <2>4. /\ n \in ns /\ FindTitle(l, Append(t, n)) = {}
        /\ \A m \in 2..(n - 1) : FindTitle(l, Append(t, m)) # {}
    <3>1. \A m \in 2..(n - 1) : m \in ns /\ ~(n <= m)
      BY <1>1
    <3> QED
      BY <2>3, <3>1
  <2> DEFINE k == CHOOSE k \in ns : /\ FindTitle(l, Append(t, k)) = {}
                                    /\ \A m \in 2..(k - 1) : FindTitle(l, Append(t, m)) # {}
  <2>5. k \in ns /\ FindTitle(l, Append(t, k)) = {}
    BY <2>4
  <2>6. UniqueTitle(l, t) = Append(t, k)
    BY <1>3, Zenon DEF UniqueTitle
  <2> HIDE DEF k
  <2>7. k \in Words
    BY <1>1, <2>5 DEF Words
  <2>8. Append(t, k) \in Seq(Words)
    BY <2>7
  <2> QED
    BY <2>5, <2>6, <2>8 DEF FindTitle
<1> QED
  BY <1>2, <1>3

-----------------------------------------------------------------------------
(* The operations on them                                                   *)

Mem(l, times, x, d) == [list |-> l, times |-> times, timer |-> x, default |-> d]
MemDue(l, times, d) == [list |-> l, times |-> times, timer |-> TRUE, default |-> d]
Sound(m) ==
    /\ m = Mem(m.list, m.times, m.timer, m.default)
    /\ Shelved(m.list, m.times)
MakesStatus(title, type, l) ==
    /\ type \in Type /\ title \in Title \cup {Transient}
    /\ title # Transient => FindTitle(l, title) = {}

LEMMA PlaceIs ==
    ASSUME NEW l, NEW times, Shelved(l, times), NEW s \in ToSet(l)
    PROVE  PlaceOf(l, s.addr) \in DOMAIN l /\ l[PlaceOf(l, s.addr)] = s
<1>1. DOMAIN l = 1..Len(l) /\ l \in Seq(StatusData)
  BY DEF Shelved, Listing
<1>2. \A x : x \in ToSet(l) <=> \E i \in DOMAIN l : l[i] = x
  BY <1>1, ElementsAre
<1> DEFINE p == PlaceOf(l, s.addr)
<1>3. p \in DOMAIN l /\ l[p].addr = s.addr
  BY <1>2, Zenon DEF PlaceOf
<1> HIDE DEF p
<1>4. l[p] = s
  BY <1>2, <1>3 DEF Shelved, Filed
<1> QED
  BY <1>3, <1>4 DEF p

LEMMA AddrPlaceIs ==
    ASSUME NEW l, NEW times, Shelved(l, times), NEW a \in Addrs(l)
    PROVE  /\ PlaceOf(l, a) \in DOMAIN l /\ l[PlaceOf(l, a)].addr = a
           /\ l[PlaceOf(l, a)] \in ToSet(l)
<1>1. DOMAIN l = 1..Len(l) /\ l \in Seq(StatusData)
  BY DEF Shelved, Listing
<1>2. \A x : x \in ToSet(l) <=> \E i \in DOMAIN l : l[i] = x
  BY <1>1, ElementsAre
<1>3. PICK i \in DOMAIN l : l[i].addr = a
  BY DEF Addrs
<1>4. PlaceOf(l, l[i].addr) \in DOMAIN l /\ l[PlaceOf(l, l[i].addr)] = l[i]
  BY <1>2, PlaceIs
<1> QED
  BY <1>2, <1>3, <1>4

LEMMA InsertIs ==
    ASSUME NEW l, NEW s \in StatusData, Listing(l), s \notin ToSet(l)
    PROVE  Listing(Insert(l, s)) /\ ToSet(Insert(l, s)) = ToSet(l) \cup {s}
<1> DEFINE c == Cardinality({i \in DOMAIN l : Magic(l[i]) > Magic(s)})
<1>1. Len(l) \in Nat /\ DOMAIN l = 1..Len(l)
  BY DEF Listing
<1>2. IsFiniteSet(DOMAIN l) /\ Cardinality(DOMAIN l) = Len(l)
  BY <1>1, UpToIs
<1>3. c \in Nat /\ c <= Len(l)
  <2>1. {i \in DOMAIN l : Magic(l[i]) > Magic(s)} \in SUBSET (DOMAIN l)
    OBVIOUS
  <2> QED
    BY <1>2, <2>1, FS_Subset, FS_CardinalityType
<1>4. Insert(l, s) = InsertAt(l, 1 + c, s)
  BY DEF Insert
<1> HIDE DEF c
<1>5. 1 + c \in 1..Len(l) + 1
  BY <1>1, <1>3
<1> QED
  BY <1>4, <1>5, InsertedIs

LEMMA MemIs ==
    ASSUME NEW l, NEW times, NEW x, NEW d, Shelved(l, times)
    PROVE  /\ Sound(Mem(l, times, x, d))
           /\ Mem(l, times, x, d).list = l /\ Mem(l, times, x, d).times = times
           /\ Mem(l, times, x, d).timer = x /\ Mem(l, times, x, d).default = d
<1>1. /\ Mem(l, times, x, d).list = l /\ Mem(l, times, x, d).times = times
      /\ Mem(l, times, x, d).timer = x /\ Mem(l, times, x, d).default = d
  BY DEF Mem
<1> QED
  BY <1>1 DEF Sound

LEMMA MemDueIs ==
    ASSUME NEW l, NEW times, NEW d, Shelved(l, times)
    PROVE  /\ Sound(MemDue(l, times, d)) /\ MemDue(l, times, d).timer = TRUE
           /\ MemDue(l, times, d).list = l /\ MemDue(l, times, d).default = d
           /\ MemDue(l, times, d).times = times
<1>1. /\ MemDue(l, times, d).list = l /\ MemDue(l, times, d).default = d
      /\ MemDue(l, times, d).times = times
  BY DEF MemDue
<1>2. MemDue(l, times, d).timer = TRUE
  BY DEF MemDue
<1>3. MemDue(l, times, d) = Mem(l, times, MemDue(l, times, d).timer, d)
  BY Zenon DEF MemDue, Mem
<1> QED
  BY <1>1, <1>2, <1>3 DEF Sound

\* oul_savedstatus_new
LEMMA NewIs ==
    ASSUME NEW m, NEW title, NEW type, Sound(m), StatusesAssumption, clock \in Nat,
           Len(m.list) < Cardinality(Status), MakesStatus(title, type, m.list)
    PROVE  /\ Sound(New(m, title, type)) /\ New(m, title, type).timer = TRUE
           /\ New(m, title, type).default = m.default
           /\ \E s \in ToSet(New(m, title, type).list) : s.addr = Fresh(m.list)
           /\ ToSet(m.list) \subseteq ToSet(New(m, title, type).list)
<1> DEFINE l == m.list
           t == UniqueTime(m.times, clock)
           a == Fresh(l)
           s == [addr |-> a, title |-> title, type |-> type, created |-> t,
                 lastused |-> 0, usage |-> 0]
           new == MemDue(Insert(l, s), PutTime(m.times, t, a), m.default)
<1>1. t \in Nat \ {0} /\ t \notin DOMAIN m.times
  BY UniqueTimeIs DEF Sound
<1>2. a \in Status /\ \A u \in ToSet(l) : u.addr # a
  BY FreshIs DEF Sound
<1>3. New(m, title, type) = new
  <2>1. New(m, title, type) = [m EXCEPT !.list = Insert(@, s), !.times = PutTime(@, t, a), !.timer = TRUE]
    BY DEF New
  <2>2. m = [list |-> l, times |-> m.times, timer |-> m.timer, default |-> m.default]
    BY DEF Sound, Mem
  <2> HIDE DEF s, t, a, l
  <2> QED
    BY <2>1, <2>2 DEF MemDue, l
<1>4. s \in StatusData
  <2>1. title \in Seq(Words) /\ type \in STRING
    <3>1. Title \subseteq Seq(STRING) /\ Type \subseteq STRING /\ STRING \subseteq Words
      BY DEF StatusesAssumption, Words
    <3>2. title \in Seq(STRING)
      <4>1. <<>> \in Seq(STRING)
        OBVIOUS
      <4> QED
        BY <3>1, <4>1, Zenon DEF MakesStatus, Transient
    <3>3. Seq(STRING) \subseteq Seq(Words)
      <4> SUFFICES ASSUME NEW q \in Seq(STRING) PROVE q \in Seq(Words)
        OBVIOUS
      <4>1. PICK n \in Nat : q \in [1..n -> STRING]
        BY SeqDef
      <4>2. q \in [1..n -> Words]
        BY <3>1, <4>1
      <4> QED
        BY <4>2, SeqDef
    <3> QED
      BY <3>1, <3>2, <3>3, Zenon DEF MakesStatus
  <2> HIDE DEF t, a
  <2> QED
    BY <1>1, <1>2, <2>1 DEF StatusData
<1>5. IsTransient(s) \/ \A u \in ToSet(l) : s.title # u.title
  <2>1. DOMAIN l = 1..Len(l) /\ l \in Seq(StatusData)
    BY DEF Sound, Shelved, Listing
  <2>2. \A u : u \in ToSet(l) <=> \E i \in DOMAIN l : l[i] = u
    BY <2>1, ElementsAre
  <2> QED
    BY <2>2 DEF MakesStatus, IsTransient, FindTitle
<1>6. s.addr = a /\ s.created = t
  OBVIOUS
<1> HIDE DEF s, t
<1>7. s \notin ToSet(l)
  BY <1>2, <1>6
<1>8. Listing(Insert(l, s)) /\ ToSet(Insert(l, s)) = ToSet(l) \cup {s}
  BY <1>4, <1>7, InsertIs DEF Sound, Shelved
<1>9. Filed(ToSet(l) \cup {s}, PutTime(m.times, t, a))
  BY <1>1, <1>2, <1>4, <1>5, <1>6, FiledMore DEF Sound, Shelved
<1>10. Shelved(Insert(l, s), PutTime(m.times, t, a)) /\ s \in ToSet(Insert(l, s)) /\ s.addr = Fresh(m.list)
  BY <1>6, <1>8, <1>9 DEF Shelved
<1>11. Sound(new) /\ new.list = Insert(l, s) /\ new.timer = TRUE /\ new.default = m.default
  <2> DEFINE q == Insert(l, s)
             u == PutTime(m.times, t, a)
             d == m.default
  <2>1. Shelved(q, u)
    BY <1>10
  <2>2. new = MemDue(q, u, d)
    OBVIOUS
  <2> HIDE DEF q, u, d, new
  <2> HIDE DEF a, l
  <2>3. Sound(MemDue(q, u, d))
    BY <2>1, MemDueIs, Zenon
  <2>4. MemDue(q, u, d).timer = TRUE
    BY <2>1, MemDueIs, Zenon
  <2>7. MemDue(q, u, d).list = q /\ MemDue(q, u, d).default = d
    BY DEF MemDue
  <2>5. Sound(new) /\ new.timer = TRUE
    BY <2>2, <2>3, <2>4, Zenon
  <2>6. new.list = q /\ new.default = d
    BY <2>2, <2>7, Zenon
  <2> QED
    BY <2>5, <2>6 DEF q, d
<1>12. ToSet(m.list) \subseteq ToSet(Insert(l, s))
  BY <1>8
<1> HIDE DEF new
<1> QED
  BY <1>3, <1>10, <1>11, <1>12

\* oul_savedstatus_get_default
LEMMA WithCurrentIs ==
    ASSUME NEW m, Sound(m), StatusesAssumption, clock \in Nat,
           Len(m.list) < Cardinality(Status) \/ m.default \in DOMAIN m.times
    PROVE  /\ Sound(WithCurrent(m))
           /\ WithCurrent(m).default \in DOMAIN WithCurrent(m).times
           /\ WithCurrent(m).timer = TRUE \/ WithCurrent(m) = m
           /\ ToSet(m.list) \subseteq ToSet(WithCurrent(m).list)
<1> DEFINE n == New(m, Transient, Offline)
<1>2. CASE m.default \in DOMAIN m.times
  <2>1. WithCurrent(m) = m
    BY <1>2 DEF WithCurrent
  <2> QED
    BY <1>2, <2>1
<1>3. CASE m.default \notin DOMAIN m.times
  <2>1. MakesStatus(Transient, Offline, m.list)
    BY DEF MakesStatus, StatusesAssumption
  <2>2. PICK s \in ToSet(n.list) : s.addr = Fresh(m.list)
    BY <1>3, <2>1, NewIs
  <2>3. Sound(n) /\ n.timer = TRUE /\ ToSet(m.list) \subseteq ToSet(n.list)
    BY <1>3, <2>1, NewIs
  <2>4. WithCurrent(m) = [n EXCEPT !.default = n.list[PlaceOf(n.list, Fresh(m.list))].created]
    BY <1>3, Zenon DEF WithCurrent
  <2> HIDE DEF n
  <2>5. n.list[PlaceOf(n.list, Fresh(m.list))] = s
    BY <2>2, <2>3, PlaceIs DEF Sound
  <2>6. WithCurrent(m) = Mem(n.list, n.times, n.timer, s.created)
    <3>1. WithCurrent(m) = [n EXCEPT !.default = s.created]
      BY <2>4, <2>5
    <3>2. n = [list |-> n.list, times |-> n.times, timer |-> n.timer, default |-> n.default]
      BY <2>3 DEF Sound, Mem
    <3> QED
      BY <3>1, <3>2 DEF Mem
  <2>7. s.created \in DOMAIN n.times
    BY <2>2, <2>3 DEF Sound, Shelved, Filed
  <2>8. Shelved(n.list, n.times)
    BY <2>3 DEF Sound
  <2> QED
    BY <2>3, <2>6, <2>7, <2>8, MemIs
<1> QED
  BY <1>2, <1>3

\* oul_savedstatus_delete_by_status
LEMMA DeletedIs ==
    ASSUME NEW m, Sound(m), NEW a \in Addrs(m.list)
    PROVE  Sound(Deleted(m, a)) /\ Deleted(m, a).timer = TRUE
<1> DEFINE l == m.list
           p == PlaceOf(l, a)
           t == l[p].created
           d == IF m.default = t THEN 0 ELSE m.default
<1>1. p \in DOMAIN l /\ l[p] \in ToSet(l)
  BY AddrPlaceIs DEF Sound
<1>2. Deleted(m, a) = MemDue(RemoveAt(l, p), DropTime(m.times, t), d)
  <2>1. Deleted(m, a) = [m EXCEPT !.list = WithoutStatus(@, a), !.times = DropTime(@, t), !.timer = TRUE,
                                  !.default = IF @ = t THEN 0 ELSE @]
    BY DEF Deleted
  <2>2. m = [list |-> l, times |-> m.times, timer |-> m.timer, default |-> m.default]
    BY DEF Sound, Mem
  <2>3. WithoutStatus(l, a) = RemoveAt(l, p)
    BY DEF WithoutStatus
  <2> HIDE DEF t, p, l
  <2> QED
    BY <2>1, <2>2, <2>3 DEF MemDue, l
<1> HIDE DEF p
<1>3. Listing(RemoveAt(l, p)) /\ ToSet(RemoveAt(l, p)) = ToSet(l) \ {l[p]}
  BY <1>1, TakenOutIs DEF Sound, Shelved
<1>4. Filed(ToSet(l) \ {l[p]}, DropTime(m.times, t))
  BY <1>1, FiledLess DEF Sound, Shelved
<1>5. Shelved(RemoveAt(l, p), DropTime(m.times, t))
  BY <1>3, <1>4 DEF Shelved
<1> HIDE DEF d, t
<1> QED
  <2> DEFINE q == RemoveAt(l, p)
             u == DropTime(m.times, t)
  <2>1. Shelved(q, u)
    BY <1>5
  <2>2. Deleted(m, a) = MemDue(q, u, d)
    BY <1>2
  <2> HIDE DEF q, u
  <2>3. Sound(MemDue(q, u, d))
    BY <2>1, MemDueIs, Zenon
  <2>4. MemDue(q, u, d).timer = TRUE
    BY <2>1, MemDueIs, Zenon
  <2> QED
    BY <2>2, <2>3, <2>4, Zenon

LEMMA GivenKept ==
    ASSUME NEW k, NEW l, NEW s \in ToSet(l), NEW n, ToSet(k) = (ToSet(l) \ {s}) \cup {n},
           n.title = s.title, n.type = s.type
    PROVE  Given(k) = Given(l)
BY DEF Given

\* oul_savedstatus_activate
LEMMA ActivatedIs ==
    ASSUME NEW m, Sound(m), StatusesAssumption, clock \in Nat, NEW a \in Addrs(m.list)
    PROVE  /\ Sound(Activated(m, a)) /\ Activated(m, a).timer = m.timer
           /\ Given(Activated(m, a).list) = Given(m.list)
<1> DEFINE l == m.list
           p == PlaceOf(l, a)
           s == l[p]
           u == IF s.usage < UsesThatCount THEN s.usage + 1 ELSE s.usage
           used == [s EXCEPT !.lastused = clock, !.usage = u]
           k == Insert(WithoutStatus(l, a), used)
<1>1. p \in DOMAIN l /\ s \in ToSet(l)
  BY AddrPlaceIs DEF Sound
<1>2. Activated(m, a) = Mem(k, m.times, m.timer, s.created)
  <2>1. Activated(m, a) = [m EXCEPT !.list = k, !.default = s.created]
    BY DEF Activated
  <2>2. m = [list |-> l, times |-> m.times, timer |-> m.timer, default |-> m.default]
    BY DEF Sound, Mem
  <2> HIDE DEF l, k, s
  <2> QED
    BY <2>1, <2>2 DEF Mem
<1>3. WithoutStatus(l, a) = RemoveAt(l, p)
  BY DEF WithoutStatus
<1>4. s \in StatusData
  BY <1>1 DEF Sound, Shelved, Filed
<1> HIDE DEF l, p
<1>5. Listing(RemoveAt(l, p)) /\ ToSet(RemoveAt(l, p)) = ToSet(l) \ {s}
  BY <1>1, TakenOutIs DEF Sound, Shelved, l
<1> HIDE DEF s
<1>6. u \in Nat
  BY <1>4, StatusFields
<1> HIDE DEF u
<1>7. used \in StatusData
  BY <1>4, <1>6 DEF StatusData
<1>8. /\ used.addr = s.addr /\ used.created = s.created
      /\ used.title = s.title /\ used.type = s.type
  BY <1>4 DEF StatusData
<1> HIDE DEF used
<1>9. Filed((ToSet(l) \ {s}) \cup {used}, m.times) /\ used \notin ToSet(l) \ {s}
  <2>1. Filed(ToSet(l), m.times)
    BY DEF Sound, Shelved, l
  <2> QED
    BY <1>1, <1>7, <1>8, <2>1, FiledOther
<1>10. Listing(k) /\ ToSet(k) = (ToSet(l) \ {s}) \cup {used}
  BY <1>3, <1>5, <1>7, <1>9, InsertIs
<1> HIDE DEF k
<1>11. Given(k) = Given(l)
  BY <1>1, <1>8, <1>10, GivenKept
<1>12. Shelved(k, m.times)
  BY <1>9, <1>10 DEF Shelved
<1>13. Sound(Mem(k, m.times, m.timer, s.created))
  BY <1>12, MemIs
<1>14. /\ Mem(k, m.times, m.timer, s.created).list = k
       /\ Mem(k, m.times, m.timer, s.created).timer = m.timer
  BY DEF Mem
<1> QED
  BY <1>2, <1>11, <1>13, <1>14 DEF l

LEMMA StringsAreWords == \A q \in Seq(STRING) : q \in Seq(Words)
<1> SUFFICES ASSUME NEW q \in Seq(STRING) PROVE q \in Seq(Words)
  OBVIOUS
<1>1. PICK n \in Nat : q \in [1..n -> STRING]
  BY SeqDef
<1>2. STRING \subseteq Words
  BY DEF Words
<1>3. q \in [1..n -> Words]
  BY <1>1, <1>2
<1> QED
  BY <1>3, SeqDef

LEMMA NothingShelved == Shelved(<<>>, <<>>) /\ Len(<<>>) = 0
<1>1. <<>> \in Seq(StatusData) /\ DOMAIN <<>> = {} /\ Len(<<>>) = 0
  OBVIOUS
<1>2. ToSet(<<>>) = {}
  <2>1. \A x : x \in ToSet(<<>>) <=> \E i \in 1..Len(<<>>) : <<>>[i] = x
    BY <1>1, ElementsAre, Zenon
  <2>2. 1..Len(<<>>) = {}
    BY <1>1
  <2> QED
    BY <2>1, <2>2
<1>3. IsInjective(<<>>)
  BY <1>1 DEF IsInjective
<1> QED
  BY <1>1, <1>2, <1>3 DEF Shelved, Listing, Filed

LEMMA SetListIs ==
    ASSUME NEW k, NEW l, NEW times, NEW x, NEW d
    PROVE  [[list |-> k, times |-> times, timer |-> x, default |-> d] EXCEPT !.list = l]
                = [list |-> l, times |-> times, timer |-> x, default |-> d]
OBVIOUS

\* oul_savedstatus_set_title, _set_type and _set_message
LEMMA ModifiedIs ==
    ASSUME NEW l, NEW times, NEW d, NEW x, Shelved(l, times), StatusesAssumption,
           NEW i \in DOMAIN l, NEW title \in Title \cup {Transient}, NEW type \in Type,
           title = l[i].title \/ (title # Transient /\ FindTitle(l, title) = {})
    PROVE  /\ Sound([Mem(l, times, x, d) EXCEPT !.list[i].title = title, !.list[i].type = type,
                                              !.timer = TRUE])
           /\ [Mem(l, times, x, d) EXCEPT !.list[i].title = title, !.list[i].type = type,
                                              !.timer = TRUE].timer = TRUE
<1> DEFINE s == [l[i] EXCEPT !.title = title, !.type = type]
           k == StatusPut(l, i, s)
           new == [Mem(l, times, x, d) EXCEPT !.list[i].title = title, !.list[i].type = type,
                                              !.timer = TRUE]
<1>1. new = MemDue(k, times, d)
  <2> DEFINE l1 == [l EXCEPT ![i].title = title]
  <2>1. l1 = [l EXCEPT ![i] = [l[i] EXCEPT !.title = title]]
    OBVIOUS
  <2>2. [l1 EXCEPT ![i].type = type] = [l1 EXCEPT ![i] = [l1[i] EXCEPT !.type = type]]
    OBVIOUS
  <2>3. l1[i] = [l[i] EXCEPT !.title = title] /\ DOMAIN l1 = DOMAIN l
    BY <2>1
  <2>4. [l1 EXCEPT ![i].type = type] = k
    BY <2>1, <2>2, <2>3 DEF StatusPut
  <2>5. new = [list |-> [l1 EXCEPT ![i].type = type], times |-> times, timer |-> TRUE, default |-> d]
    <3> DEFINE m0 == Mem(l, times, x, d)
               m1 == [m0 EXCEPT !.list = l1]
               m2 == [m1 EXCEPT !.list = [l1 EXCEPT ![i].type = type]]
    <3>1. m0 = [list |-> l, times |-> times, timer |-> x, default |-> d]
      BY DEF Mem
    <3>2. new = [m2 EXCEPT !.timer = TRUE]
      BY <3>1
    <3> HIDE DEF l1, new, m0
    <3> DEFINE l2 == [l1 EXCEPT ![i].type = type]
    <3> HIDE DEF l2
    <3>3. m1 = [list |-> l1, times |-> times, timer |-> x, default |-> d]
      <4> HIDE DEF k
      <4> QED
        BY <3>1, SetListIs
    <3>4. [m1 EXCEPT !.list = l2] = [list |-> l2, times |-> times, timer |-> x, default |-> d]
      <4> HIDE DEF m1, k
      <4> QED
        BY <3>3, SetListIs
    <3>5. m2 = [list |-> l2, times |-> times, timer |-> x, default |-> d]
      BY <3>4, Zenon DEF l2
    <3> HIDE DEF m2, m1
    <3>6. new = [list |-> l2, times |-> times, timer |-> TRUE, default |-> d]
      BY <3>2, <3>5
    <3> QED
      BY <3>6 DEF l2
  <2> QED
    BY <2>4, <2>5, Zenon DEF MemDue
<1>2. l[i] \in ToSet(l) /\ l[i] \in StatusData
  <2>1. DOMAIN l = 1..Len(l) /\ l \in Seq(StatusData)
    BY DEF Shelved, Listing
  <2> QED
    BY <2>1, ElementsAre
<1>3. title \in Seq(Words) /\ type \in STRING
  <2>1. l[i].title \in Seq(Words)
    BY <1>2, StatusFields
  <2>2. title # Transient => title \in Seq(STRING)
    BY DEF StatusesAssumption
  <2>3. Transient \in Seq(Words) /\ \A q \in Seq(STRING) : q \in Seq(Words)
    BY StringsAreWords DEF Transient
  <2> QED
    BY <2>1, <2>2, <2>3 DEF StatusesAssumption
<1>4. s \in StatusData
  BY <1>2, <1>3 DEF StatusData
<1>5. s.addr = l[i].addr /\ s.created = l[i].created /\ s.title = title
  BY <1>2 DEF StatusData
<1>6. title = l[i].title \/ IsTransient(s) \/ \A u \in ToSet(l) : title # u.title
  <2>1. DOMAIN l = 1..Len(l) /\ l \in Seq(StatusData)
    BY DEF Shelved, Listing
  <2>2. \A u : u \in ToSet(l) <=> \E j \in DOMAIN l : l[j] = u
    BY <2>1, ElementsAre
  <2> QED
    BY <2>2 DEF FindTitle
<1> HIDE DEF s, new
<1>7. Filed((ToSet(l) \ {l[i]}) \cup {s}, times) /\ s \notin ToSet(l) \ {l[i]}
  <2>1. Filed(ToSet(l), times)
    BY DEF Shelved
  <2> QED
    BY <1>2, <1>4, <1>5, <1>6, <2>1, FiledOther
<1>8. Listing(k) /\ ToSet(k) = (ToSet(l) \ {l[i]}) \cup {s}
  <2>1. Listing(l)
    BY DEF Shelved
  <2> QED
    <3> HIDE DEF k
    <3>1. Listing(StatusPut(l, i, s)) /\ ToSet(StatusPut(l, i, s)) = (ToSet(l) \ {l[i]}) \cup {s}
      BY <1>4, <1>7, <2>1, ReplacedIs
    <3> QED
      BY <3>1, Zenon DEF k
<1> HIDE DEF k
<1>9. Shelved(k, times)
  BY <1>7, <1>8 DEF Shelved
<1>10. Sound(MemDue(k, times, d))
  BY <1>9, MemDueIs, Zenon
<1>11. MemDue(k, times, d).timer = TRUE
  BY <1>9, MemDueIs, Zenon
<1>12. Sound(new) /\ new.timer = TRUE
  BY <1>1, <1>10, <1>11, Zenon
<1> QED
  BY <1>12 DEF new

-----------------------------------------------------------------------------
(* Reading                                                                  *)

\* parse_status
LEMMA ParsedIs ==
    ASSUME NEW acc, Shelved(acc.list, acc.times), StatusesAssumption,
           Len(acc.list) < Cardinality(Status), NEW x \in StatusData
    PROVE  /\ Shelved(Parsed(acc, x).list, Parsed(acc, x).times)
           /\ Len(Parsed(acc, x).list) = Len(acc.list) + 1
<1> DEFINE l == acc.list
           a == Fresh(l)
           t == UniqueTime(acc.times, x.created)
           title == UniqueTitle(l, x.title)
           s == [x EXCEPT !.addr = a, !.title = title, !.created = t]
<1>1. Parsed(acc, x).list = <<s>> \o l /\ Parsed(acc, x).times = PutTime(acc.times, t, a)
  BY DEF Parsed
<1>2. x.created \in Nat /\ x.title \in Seq(Words)
  BY StatusFields
<1>3. t \in Nat \ {0} /\ t \notin DOMAIN acc.times
  BY <1>2, UniqueTimeIs
<1>4. a \in Status /\ \A u \in ToSet(l) : u.addr # a
  BY FreshIs
<1>5. l \in Seq(StatusData) /\ DOMAIN l = 1..Len(l)
  BY DEF Shelved, Listing
<1>6. title \in Seq(Words) /\ (title = Transient \/ \A i \in DOMAIN l : l[i].title # title)
  BY <1>2, <1>5, UniqueTitleIs
<1> HIDE DEF t, a, title
<1>7. s \in StatusData
  BY <1>3, <1>4, <1>6 DEF StatusData
<1>8. s.addr = a /\ s.created = t /\ s.title = title
  BY DEF StatusData
<1>9. \A u : u \in ToSet(l) <=> \E i \in 1..Len(l) : l[i] = u
  BY <1>5, ElementsAre
<1> HIDE DEF s
<1>10. IsTransient(s) \/ \A u \in ToSet(l) : s.title # u.title
  BY <1>5, <1>6, <1>8, <1>9 DEF IsTransient
<1>11. s \notin ToSet(l)
  BY <1>4, <1>8
<1>12. Filed(ToSet(l) \cup {s}, PutTime(acc.times, t, a))
  BY <1>3, <1>4, <1>7, <1>8, <1>10, FiledMore DEF Shelved
<1>13. /\ Listing(<<s>> \o l) /\ ToSet(<<s>> \o l) = ToSet(l) \cup {s}
       /\ Len(<<s>> \o l) = Len(l) + 1
  BY <1>7, <1>11, PrependedIs DEF Shelved
<1>14. Shelved(<<s>> \o l, PutTime(acc.times, t, a))
  BY <1>12, <1>13 DEF Shelved
<1> QED
  BY <1>1, <1>13, <1>14

\* What load_statuses reads after each status.
LEMMA ReadExists ==
    ASSUME NEW xml, Len(xml) \in Nat
    PROVE  \E f : f = [i \in 0..Len(xml) |->
                         IF i = 0 THEN [list |-> <<>>, times |-> <<>>]
                         ELSE Parsed(f[i - 1], xml[i])]
<1> DEFINE m == [list |-> <<>>, times |-> <<>>]
           S == {n \in Nat : \E f : f = [i \in 0..n |->
                                 IF i = 0 THEN m ELSE Parsed(f[i - 1], xml[i])]}
<1> HIDE DEF m
<1>1. 0 \in S
  <2> DEFINE f == [i \in 0..0 |-> m]
  <2>1. f = [i \in 0..0 |-> IF i = 0 THEN m ELSE Parsed(f[i - 1], xml[i])]
    OBVIOUS
  <2> QED
    BY <2>1
<1>2. ASSUME NEW n \in Nat, n \in S PROVE n + 1 \in S
  <2>1. PICK f : f = [i \in 0..n |-> IF i = 0 THEN m ELSE Parsed(f[i - 1], xml[i])]
    BY <1>2
  <2> DEFINE g == [i \in 0..n + 1 |-> IF i <= n THEN f[i] ELSE Parsed(f[n], xml[n + 1])]
  <2>2. \A i \in 0..n + 1 : g[i] = IF i = 0 THEN m ELSE Parsed(g[i - 1], xml[i])
    <3>1. \A i \in 0..n : g[i] = f[i]
      OBVIOUS
    <3>2. \A i \in 0..n : f[i] = IF i = 0 THEN m ELSE Parsed(f[i - 1], xml[i])
      BY <2>1
    <3>3. g[n + 1] = Parsed(f[n], xml[n + 1])
      OBVIOUS
    <3> HIDE DEF g
    <3> SUFFICES ASSUME NEW i \in 0..n + 1
                 PROVE  g[i] = IF i = 0 THEN m ELSE Parsed(g[i - 1], xml[i])
      OBVIOUS
    <3>4. CASE i = n + 1
      <4>1. i # 0 /\ i - 1 = n /\ g[n] = f[n]
        BY <3>1, <3>4
      <4> QED
        BY <3>3, <3>4, <4>1
    <3>5. CASE i \in 0..n /\ i # 0
      <4>1. g[i] = f[i] /\ g[i - 1] = f[i - 1]
        BY <3>1, <3>5
      <4> QED
        BY <3>2, <3>5, <4>1
    <3>6. CASE i = 0
      <4>1. 0 \in 0..n
        OBVIOUS
      <4>2. g[0] = f[0] /\ f[0] = m
        BY <3>1, <3>2, <4>1
      <4> QED
        BY <3>6, <4>2
    <3> QED
      BY <3>4, <3>5, <3>6
  <2>3. g = [i \in 0..n + 1 |-> IF i = 0 THEN m ELSE Parsed(g[i - 1], xml[i])]
    <3>1. g = [i \in 0..n + 1 |-> g[i]]
      OBVIOUS
    <3> HIDE DEF g
    <3> QED
      BY <2>2, <3>1
  <2> HIDE DEF g
  <2> QED
    BY <2>3
<1> HIDE DEF S
<1>3. \A n \in Nat : n \in S
  BY <1>1, <1>2, Induct
<1> QED
  BY <1>3 DEF S, m

\* load_statuses
LEMMA LoadIs ==
    ASSUME NEW xml \in Seq(StatusData), Len(xml) <= Cardinality(Status), StatusesAssumption
    PROVE  Shelved(Load(xml).list, Load(xml).times)
<1> DEFINE L == Len(xml)
           m == [list |-> <<>>, times |-> <<>>]
           f == CHOOSE f : f = [i \in 0..Len(xml) |->
                                  IF i = 0 THEN [list |-> <<>>, times |-> <<>>]
                                  ELSE Parsed(f[i - 1], xml[i])]
<1>1. L \in Nat /\ Cardinality(Status) \in Nat /\ \A i \in 1..L : xml[i] \in StatusData
  BY FS_CardinalityType DEF StatusesAssumption
<1>2. Load(xml) = f[L]
  BY Zenon DEF Load
<1>3. f = [i \in 0..L |-> IF i = 0 THEN m ELSE Parsed(f[i - 1], xml[i])]
  BY <1>1, ReadExists, Zenon
<1> HIDE DEF f
<1>4. f[0] = m /\ \A i \in 1..L : f[i] = Parsed(f[i - 1], xml[i])
  <2> HIDE DEF m
  <2> QED
    BY <1>1, <1>3
<1> DEFINE S == {i \in Nat : i <= L => Shelved(f[i].list, f[i].times) /\ Len(f[i].list) = i}
<1>5. 0 \in S
  <2>1. f[0].list = <<>> /\ f[0].times = <<>>
    BY <1>4
  <2> QED
    BY <2>1, NothingShelved
<1>6. ASSUME NEW n \in Nat, n \in S PROVE n + 1 \in S
  <2> SUFFICES ASSUME n + 1 <= L
               PROVE  Shelved(f[n + 1].list, f[n + 1].times) /\ Len(f[n + 1].list) = n + 1
    OBVIOUS
  <2>1. Shelved(f[n].list, f[n].times) /\ Len(f[n].list) = n /\ n < Cardinality(Status)
    BY <1>1, <1>6
  <2>2. n + 1 \in 1..L /\ (n + 1) - 1 = n
    BY <1>1
  <2>3. f[n + 1] = Parsed(f[n], xml[n + 1]) /\ xml[n + 1] \in StatusData
    BY <1>1, <1>4, <2>2
  <2> QED
    BY <2>1, <2>3, ParsedIs
<1> HIDE DEF S
<1>7. \A n \in Nat : n \in S
  BY <1>5, <1>6, Induct
<1> QED
  BY <1>1, <1>2, <1>7 DEF S

-----------------------------------------------------------------------------
(* Writing                                                                  *)

\* remove_old_transient_statuses leaves a part of the list.
LEMMA ExpiredIs ==
    ASSUME NEW m, Sound(m)
    PROVE  /\ Expired(m).list \in Seq(StatusData)
           /\ Len(Expired(m).list) \in 0..Len(m.list)
<1> DEFINE transients(i) == Cardinality({j \in 1..i : IsTransient(m.list[j])})
           stay == {i \in DOMAIN m.list : \/ ~IsTransient(m.list[i])
                                          \/ transients(i) <= MaxTransients
                                          \/ m.list[i].addr = Current(m)}
           k == Arranged(m.list, [i \in stay |-> Cardinality({j \in stay : j <= i})])
<1>1. Expired(m).list = k
  <2>1. m = [list |-> m.list, times |-> m.times, timer |-> m.timer, default |-> m.default]
    BY DEF Sound, Mem
  <2> DEFINE times == [t \in {t \in DOMAIN m.times : m.times[t] \in {m.list[i].addr : i \in stay}}
                            |-> m.times[t]]
             timer == m.timer \/ transients(Len(m.list)) >= MaxTransients
  <2>2. Expired(m) = [m EXCEPT !.list = k, !.times = times, !.timer = timer]
    BY DEF Expired
  <2> HIDE DEF k, times, timer
  <2> QED
    BY <2>1, <2>2
<1>2. stay \in SUBSET (DOMAIN m.list)
  OBVIOUS
<1>3. Listing(m.list)
  BY DEF Sound, Shelved
<1> HIDE DEF stay
<1>4. k \in Seq(StatusData) /\ Len(k) \in 0..Len(m.list)
  BY <1>2, <1>3, StayingIs
<1> HIDE DEF k
<1> QED
  BY <1>1, <1>4

LEMMA WrittenIs ==
    ASSUME NEW l \in Seq(StatusData)
    PROVE  /\ StatusesToXml(l) \in Seq(StatusData) /\ Len(StatusesToXml(l)) = Len(l)
           /\ Given(StatusesToXml(l)) = Given(l)
<1> DEFINE w == StatusesToXml(l)
           n == Len(l)
<1>1. n \in Nat /\ DOMAIN l = 1..n /\ \A i \in 1..n : l[i] \in StatusData
  OBVIOUS
<1>2. w = [i \in 1..n |-> [l[i] EXCEPT !.addr = Nowhere]]
  BY <1>1 DEF StatusesToXml
<1>3. ASSUME NEW s \in StatusData
      PROVE  /\ [s EXCEPT !.addr = Nowhere] \in StatusData
             /\ [s EXCEPT !.addr = Nowhere].title = s.title
             /\ [s EXCEPT !.addr = Nowhere].type = s.type
  BY DEF StatusData, Nowhere
<1> HIDE DEF w, n
<1>4. \A i \in 1..n : w[i] \in StatusData /\ w[i].title = l[i].title /\ w[i].type = l[i].type
  BY <1>1, <1>2, <1>3
<1>5. w \in Seq(StatusData) /\ Len(w) = n
  <2>1. w = [i \in 1..n |-> w[i]]
    BY <1>2
  <2>2. w \in [1..n -> StatusData]
    BY <1>4, <2>1
  <2>3. w \in Seq(StatusData) /\ DOMAIN w = 1..n
    BY <1>1, <2>2, SeqDef
  <2> QED
    BY <1>1, <2>3
<1>6. \A x : x \in ToSet(l) <=> \E i \in 1..n : l[i] = x
  BY <1>1, ElementsAre DEF n
<1>7. \A x : x \in ToSet(w) <=> \E i \in 1..n : w[i] = x
  BY <1>5, ElementsAre
<1>8. Given(l) = {<<l[i].title, l[i].type>> : i \in 1..n}
  BY <1>6 DEF Given
<1>9. Given(w) = {<<w[i].title, w[i].type>> : i \in 1..n}
  BY <1>7 DEF Given
<1>10. Given(w) = Given(l)
  BY <1>4, <1>8, <1>9
<1> QED
  BY <1>5, <1>10 DEF w, n

-----------------------------------------------------------------------------
(* The invariant                                                            *)

StatusesInv ==
    /\ Shelved(saved_statuses, creation_times)
    /\ status_xml \in Seq(StatusData) /\ Len(status_xml) <= Cardinality(Status)
    /\ clock \in Nat
    /\ StatusesAreScheduled

\* A list with its table can be searched by the time of creation.
LEMMA ShelvedIsFound ==
    ASSUME StatusesAssumption, Shelved(saved_statuses, creation_times)
    PROVE  FoundByKey
<1> DEFINE l == saved_statuses
           E == ToSet(l)
<1>1. DOMAIN l = 1..Len(l) /\ l \in Seq(StatusData)
  BY DEF Shelved, Listing
<1>2. \A x : x \in E <=> \E i \in DOMAIN l : l[i] = x
  BY <1>1, ElementsAre
<1>3. Filed(E, creation_times)
  BY DEF Shelved
<1>4. {<<t, creation_times[t]>> : t \in DOMAIN creation_times}
            = {<<l[i].created, l[i].addr>> : i \in DOMAIN l}
  <2>1. ASSUME NEW t \in DOMAIN creation_times
        PROVE  \E i \in DOMAIN l : l[i].created = t /\ l[i].addr = creation_times[t]
    <3>1. PICK s \in E : s.created = t
      BY <1>3 DEF Filed
    <3>2. s.addr = creation_times[t]
      BY <1>3, <3>1 DEF Filed
    <3> QED
      BY <1>2, <3>1, <3>2
  <2>2. ASSUME NEW i \in DOMAIN l
        PROVE  l[i].created \in DOMAIN creation_times /\ creation_times[l[i].created] = l[i].addr
    <3>1. l[i] \in E
      BY <1>2
    <3> QED
      BY <1>3, <3>1 DEF Filed
  <2> HIDE DEF l
  <2> QED
    BY <2>1, <2>2
<1>5. 0 \notin DOMAIN creation_times
  BY <1>3 DEF Filed
<1>6. Cardinality(Addrs(l)) = Len(l)
  BY AddrsAre
<1>7. ASSUME NEW i \in DOMAIN l, NEW j \in DOMAIN l, i # j
      PROVE  IsTransient(l[i]) \/ l[i].title # l[j].title
  <2>1. l[i] \in E /\ l[j] \in E
    BY <1>2
  <2>2. l[i] # l[j]
    BY <1>7 DEF Shelved, Listing, IsInjective
  <2> QED
    BY <1>3, <2>1, <2>2 DEF Filed
<1> QED
  BY <1>4, <1>5, <1>6, <1>7 DEF FoundByKey

LEMMA SoundMemory ==
    ASSUME StatusesInv
    PROVE  /\ Sound(Memory) /\ Memory.list = saved_statuses /\ Memory.times = creation_times
           /\ Memory.timer = status_timer /\ Memory.default = default_status
<1>1. Memory = Mem(saved_statuses, creation_times, status_timer, default_status)
  BY DEF Memory, Mem
<1>2. Shelved(saved_statuses, creation_times)
  BY DEF StatusesInv
<1> QED
  BY <1>1, <1>2, MemIs

\* An operation that schedules a save, or leaves what the user gave.
LEMMA Done ==
    ASSUME StatusesInv, NEW m, Sound(m), Do(m),
           \/ m.timer = TRUE
           \/ m.timer = status_timer /\ Given(m.list) = Given(saved_statuses)
    PROVE  StatusesInv'
<1>1. /\ saved_statuses' = m.list /\ creation_times' = m.times /\ status_timer' = m.timer
      /\ status_xml' = status_xml /\ clock' = clock /\ session' = session /\ On
  BY DEF Do, MemoryBecomes
<1>2. Shelved(saved_statuses', creation_times')
  BY <1>1 DEF Sound
<1>3. StatusesAreScheduled'
  <2>1. CASE m.timer = TRUE
    BY <1>1, <2>1 DEF StatusesAreScheduled
  <2>2. CASE m.timer = status_timer /\ Given(m.list) = Given(saved_statuses)
    <3>1. \/ status_timer \/ Given(saved_statuses) = Given(status_xml)
          \/ Given(saved_statuses) = Given(Load(status_xml).list)
      BY <1>1 DEF StatusesInv, StatusesAreScheduled
    <3> QED
      BY <1>1, <2>2, <3>1 DEF StatusesAreScheduled
  <2> QED
    BY <2>1, <2>2
<1> QED
  BY <1>1, <1>2, <1>3 DEF StatusesInv

LEMMA ThereIsRoom ==
    ASSUME StatusesInv, StatusesAssumption
    PROVE  /\ ~Full(saved_statuses) => Len(saved_statuses) < Cardinality(Status)
           /\ RoomForDefault => \/ Len(saved_statuses) < Cardinality(Status)
                                \/ default_status \in DOMAIN creation_times
<1>1. /\ Len(saved_statuses) \in Nat /\ Cardinality(Status) \in Nat
      /\ Len(saved_statuses) <= Cardinality(Status)
  BY AddrsAre DEF StatusesInv
<1>2. ~Full(saved_statuses) => Len(saved_statuses) < Cardinality(Status)
  BY <1>1 DEF Full
<1> QED
  BY <1>2 DEF RoomForDefault

LEMMA CurrentFromMemory ==
    ASSUME StatusesInv, StatusesAssumption, RoomForDefault
    PROVE  /\ Sound(WithCurrent(Memory))
           /\ WithCurrent(Memory).timer = TRUE \/ WithCurrent(Memory) = Memory
           /\ ToSet(saved_statuses) \subseteq ToSet(WithCurrent(Memory).list)
<1>1. Len(Memory.list) < Cardinality(Status) \/ Memory.default \in DOMAIN Memory.times
  BY SoundMemory, ThereIsRoom
<1>2. Sound(Memory) /\ clock \in Nat /\ Memory.list = saved_statuses
  BY SoundMemory DEF StatusesInv
<1>3. /\ Sound(WithCurrent(Memory))
      /\ WithCurrent(Memory).timer = TRUE \/ WithCurrent(Memory) = Memory
      /\ ToSet(Memory.list) \subseteq ToSet(WithCurrent(Memory).list)
  BY <1>1, <1>2, WithCurrentIs
<1> QED
  BY <1>2, <1>3

LEMMA InListing ==
    ASSUME NEW l, NEW times, Shelved(l, times)
    PROVE  \A s : s \in ToSet(l) <=> \E i \in DOMAIN l : l[i] = s
<1>1. DOMAIN l = 1..Len(l) /\ l \in Seq(StatusData)
  BY DEF Shelved, Listing
<1> QED
  BY <1>1, ElementsAre

LEMMA LoadStep ==
    ASSUME StatusesInv, StatusesAssumption, InitStatuses
    PROVE  StatusesInv'
<1> DEFINE read == Load(status_xml)
<1>1. /\ saved_statuses' = Sorted(read.list) /\ creation_times' = read.times
      /\ status_xml' = status_xml /\ clock' = clock
  BY DEF InitStatuses
<1>2. Shelved(read.list, read.times)
  BY LoadIs DEF StatusesInv
<1> HIDE DEF read
<1>3. Listing(Sorted(read.list)) /\ ToSet(Sorted(read.list)) = ToSet(read.list)
  BY <1>2, SortedIs DEF Shelved
<1>4. Shelved(saved_statuses', creation_times')
  BY <1>1, <1>2, <1>3 DEF Shelved
<1>5. Given(saved_statuses') = Given(Load(status_xml).list)
  BY <1>1, <1>3 DEF Given, read
<1>6. StatusesAreScheduled'
  BY <1>1, <1>5 DEF StatusesAreScheduled
<1> QED
  BY <1>1, <1>4, <1>6 DEF StatusesInv

LEMMA NewStep ==
    ASSUME StatusesInv, StatusesAssumption, NEW title \in Title \cup {Transient}, NEW type \in Type,
           NewStatus(title, type)
    PROVE  StatusesInv'
<1>1. Sound(Memory) /\ Memory.list = saved_statuses /\ clock \in Nat
  BY SoundMemory DEF StatusesInv
<1>2. Len(Memory.list) < Cardinality(Status)
  BY <1>1, ThereIsRoom DEF NewStatus
<1>3. MakesStatus(title, type, Memory.list)
  BY <1>1 DEF NewStatus, MakesStatus
<1>4. Sound(New(Memory, title, type)) /\ New(Memory, title, type).timer = TRUE
  BY <1>1, <1>2, <1>3, NewIs
<1>5. Do(New(Memory, title, type))
  BY DEF NewStatus
<1> QED
  BY <1>4, <1>5, Done

LEMMA ModifyStep ==
    ASSUME StatusesInv, StatusesAssumption, NEW title \in Title \cup {Transient}, NEW type \in Type,
           NEW a \in Status, Modify(a, title, type)
    PROVE  StatusesInv'
<1> DEFINE i == PlaceOf(saved_statuses, a)
           new == [Memory EXCEPT !.list[i].title = title, !.list[i].type = type, !.timer = TRUE]
<1>1. Shelved(saved_statuses, creation_times)
  BY DEF StatusesInv
<1>2. i \in DOMAIN saved_statuses
  BY <1>1, AddrPlaceIs DEF Modify
<1>3. /\ \/ title = saved_statuses[i].title
         \/ title # Transient /\ FindTitle(saved_statuses, title) = {}
      /\ Do(new)
  BY DEF Modify
<1>4. Memory = Mem(saved_statuses, creation_times, status_timer, default_status)
  BY DEF Memory, Mem
<1> HIDE DEF i
<1>5. Sound(new) /\ new.timer = TRUE
  BY <1>1, <1>2, <1>3, <1>4, ModifiedIs
<1> HIDE DEF new
<1> QED
  BY <1>3, <1>5, Done

LEMMA DueAtOnce ==
    ASSUME NEW l, NEW times, NEW x, NEW d
    PROVE  [Mem(l, times, x, d) EXCEPT !.timer = TRUE] = MemDue(l, times, d)
<1> DEFINE m == Mem(l, times, x, d)
           new == [m EXCEPT !.timer = TRUE]
<1>1. m = [list |-> l, times |-> times, timer |-> x, default |-> d]
  BY DEF Mem
<1>2. new = [m EXCEPT !.timer = TRUE]
  OBVIOUS
<1> HIDE DEF m, new
<1>3. new = [list |-> l, times |-> times, timer |-> TRUE, default |-> d]
  BY <1>1, <1>2
<1> QED
  BY <1>3, Zenon DEF MemDue, m, new

LEMMA SubstatusStep ==
    ASSUME StatusesInv, SetSubstatus
    PROVE  StatusesInv'
<1> DEFINE new == MemDue(saved_statuses, creation_times, default_status)
<1>1. [Memory EXCEPT !.timer = TRUE] = new
  <2>1. Memory = Mem(saved_statuses, creation_times, status_timer, default_status)
    BY DEF Memory, Mem
  <2> QED
    BY <2>1, DueAtOnce
<1>2. Shelved(saved_statuses, creation_times)
  BY DEF StatusesInv
<1>3. Sound(new)
  BY <1>2, MemDueIs
<1>4. new.timer = TRUE
  BY <1>2, MemDueIs
<1>5. Do(new)
  BY <1>1, Zenon DEF SetSubstatus
<1> HIDE DEF new
<1> QED
  BY <1>3, <1>4, <1>5, Done

LEMMA DeleteTitleStep ==
    ASSUME StatusesInv, StatusesAssumption, NEW title \in Title, DeleteTitle(title)
    PROVE  StatusesInv'
<1> DEFINE m == WithCurrent(Memory)
           i == CHOOSE i \in FindTitle(m.list, title) : TRUE
           a == m.list[i].addr
<1>1. /\ RoomForDefault /\ FindTitle(saved_statuses, title) # {}
      /\ Do(IF Current(m) = a THEN m ELSE Deleted(m, a))
  BY DEF DeleteTitle
<1>2. /\ Sound(m)
      /\ m.timer = TRUE \/ m = Memory
      /\ ToSet(saved_statuses) \subseteq ToSet(m.list)
  BY <1>1, CurrentFromMemory
<1>3. Shelved(saved_statuses, creation_times)
  BY DEF StatusesInv
<1> HIDE DEF m
<1>4. a \in Addrs(m.list)
  <2>1. PICK k \in DOMAIN saved_statuses : saved_statuses[k].title = title
    BY <1>1 DEF FindTitle
  <2>2. saved_statuses[k] \in ToSet(m.list)
    BY <1>2, <1>3, InListing
  <2>3. PICK j \in DOMAIN m.list : m.list[j] = saved_statuses[k]
    <3>1. Shelved(m.list, m.times)
      BY <1>2 DEF Sound
    <3> QED
      BY <2>2, <3>1, InListing
  <2>4. j \in FindTitle(m.list, title)
    BY <2>1, <2>3 DEF FindTitle
  <2>5. i \in DOMAIN m.list
    BY <2>4 DEF FindTitle
  <2> HIDE DEF i
  <2> QED
    BY <2>5 DEF Addrs
<1> HIDE DEF i, a
<1>5. CASE Current(m) = a
  <2>1. Do(m)
    BY <1>1, <1>5
  <2> QED
    BY <1>2, <2>1, SoundMemory, Done
<1>6. CASE Current(m) # a
  <2>1. Do(Deleted(m, a))
    BY <1>1, <1>6
  <2>2. Sound(Deleted(m, a)) /\ Deleted(m, a).timer = TRUE
    BY <1>2, <1>4, DeletedIs
  <2> QED
    BY <2>1, <2>2, Done
<1> QED
  BY <1>5, <1>6

LEMMA DeleteStep ==
    ASSUME StatusesInv, NEW a \in Status, DeleteByStatus(a)
    PROVE  StatusesInv'
<1>1. Sound(Memory) /\ Memory.list = saved_statuses
  BY SoundMemory
<1>2. a \in Addrs(Memory.list) /\ Do(Deleted(Memory, a))
  BY <1>1 DEF DeleteByStatus
<1>3. Sound(Deleted(Memory, a)) /\ Deleted(Memory, a).timer = TRUE
  BY <1>1, <1>2, DeletedIs
<1> QED
  BY <1>2, <1>3, Done

LEMMA ActivateStep ==
    ASSUME StatusesInv, StatusesAssumption, NEW a \in Status, Activate(a)
    PROVE  StatusesInv'
<1> DEFINE m == WithCurrent(Memory)
<1>1. RoomForDefault /\ a \in Addrs(saved_statuses) /\ Do(Activated(m, a))
  BY DEF Activate
<1>2. /\ Sound(m)
      /\ m.timer = TRUE \/ m = Memory
      /\ ToSet(saved_statuses) \subseteq ToSet(m.list)
  BY <1>1, CurrentFromMemory
<1>3. Shelved(saved_statuses, creation_times) /\ clock \in Nat
  BY DEF StatusesInv
<1> HIDE DEF m
<1>4. a \in Addrs(m.list)
  <2>1. PICK k \in DOMAIN saved_statuses : saved_statuses[k].addr = a
    BY <1>1 DEF Addrs
  <2>2. saved_statuses[k] \in ToSet(m.list)
    BY <1>2, <1>3, InListing
  <2>3. PICK j \in DOMAIN m.list : m.list[j] = saved_statuses[k]
    <3>1. Shelved(m.list, m.times)
      BY <1>2 DEF Sound
    <3> QED
      BY <2>2, <3>1, InListing
  <2> QED
    BY <2>1, <2>3 DEF Addrs
<1> DEFINE n == Activated(m, a)
<1>5. Sound(n) /\ n.timer = m.timer /\ Given(n.list) = Given(m.list)
  BY <1>2, <1>3, <1>4, ActivatedIs
<1>6. Do(n)
  BY <1>1
<1> HIDE DEF n
<1>7. n.timer = TRUE \/ (n.timer = status_timer /\ Given(n.list) = Given(saved_statuses))
  BY <1>2, <1>5, SoundMemory
<1> QED
  BY <1>5, <1>6, <1>7, Done

LEMMA SaveStep ==
    ASSUME StatusesInv, StatusesAssumption, SaveStatuses
    PROVE  StatusesInv'
<1>1. /\ status_xml' = StatusesToXml(saved_statuses) /\ saved_statuses' = saved_statuses
      /\ creation_times' = creation_times /\ clock' = clock
  BY DEF SaveStatuses
<1>2. /\ saved_statuses \in Seq(StatusData) /\ Len(saved_statuses) <= Cardinality(Status)
  BY AddrsAre DEF StatusesInv, Shelved, Listing
<1>3. /\ StatusesToXml(saved_statuses) \in Seq(StatusData)
      /\ Len(StatusesToXml(saved_statuses)) = Len(saved_statuses)
      /\ Given(StatusesToXml(saved_statuses)) = Given(saved_statuses)
  BY <1>2, WrittenIs
<1>4. StatusesAreScheduled'
  BY <1>1, <1>3 DEF StatusesAreScheduled
<1> QED
  BY <1>1, <1>2, <1>3, <1>4 DEF StatusesInv

LEMMA EndedStep ==
    ASSUME SessionEnded, clock \in Nat, clock' = clock,
           status_xml' \in Seq(StatusData), Len(status_xml') <= Cardinality(Status)
    PROVE  StatusesInv'
<1>1. saved_statuses' = <<>> /\ creation_times' = <<>> /\ session' = "off"
  BY DEF SessionEnded
<1>2. Shelved(saved_statuses', creation_times')
  BY <1>1, NothingShelved
<1>3. StatusesAreScheduled'
  BY <1>1 DEF StatusesAreScheduled, On
<1> QED
  BY <1>2, <1>3 DEF StatusesInv

LEMMA UninitStep ==
    ASSUME StatusesInv, StatusesAssumption, UninitStatuses
    PROVE  StatusesInv'
<1> DEFINE m == WithCurrent(Memory)
           l == Expired(m).list
<1>1. /\ RoomForDefault /\ SessionEnded /\ clock' = clock
      /\ status_xml' = IF Expired(m).timer THEN StatusesToXml(l) ELSE status_xml
  BY DEF UninitStatuses
<1>2. Sound(m)
  BY <1>1, CurrentFromMemory
<1> HIDE DEF m
<1>3. /\ Len(m.list) \in Nat /\ Cardinality(Status) \in Nat /\ Len(m.list) <= Cardinality(Status)
  BY <1>2, AddrsAre DEF Sound
<1>4. l \in Seq(StatusData) /\ Len(l) \in 0..Len(m.list)
  BY <1>2, ExpiredIs
<1> HIDE DEF l
<1>5. StatusesToXml(l) \in Seq(StatusData) /\ Len(StatusesToXml(l)) = Len(l)
  BY <1>4, WrittenIs
<1>6. status_xml' \in Seq(StatusData) /\ Len(status_xml') <= Cardinality(Status)
  <2>1. status_xml' = StatusesToXml(l) \/ status_xml' = status_xml
    BY <1>1
  <2> QED
    BY <1>3, <1>4, <1>5, <2>1 DEF StatusesInv
<1> QED
  BY <1>1, <1>6, EndedStep DEF StatusesInv

LEMMA StatusesStart ==
    ASSUME StatusesInit, StatusesAssumption
    PROVE  StatusesInv
<1>1. /\ saved_statuses = <<>> /\ creation_times = <<>> /\ session = "off" /\ clock = 1
      /\ status_xml \in OldFiles
  BY DEF StatusesInit
<1>2. /\ status_xml \in Seq([addr : {"none"}, title : Seq(STRING), type : STRING,
                             created : Nat, lastused : Nat, usage : Nat])
      /\ Len(status_xml) <= Cardinality(Status)
  BY <1>1 DEF StatusesAssumption
<1>3. ASSUME NEW s \in [addr : {"none"}, title : Seq(STRING), type : STRING,
                        created : Nat, lastused : Nat, usage : Nat]
      PROVE  s \in StatusData
  <2>1. s.title \in Seq(Words)
    BY StringsAreWords
  <2> QED
    BY <2>1 DEF StatusData
<1>4. status_xml \in Seq(StatusData)
  <2> DEFINE Old == [addr : {"none"}, title : Seq(STRING), type : STRING,
                     created : Nat, lastused : Nat, usage : Nat]
  <2>1. status_xml \in Seq(Old) /\ Old \subseteq StatusData
    BY <1>2, <1>3
  <2> HIDE DEF Old
  <2>2. PICK n \in Nat : status_xml \in [1..n -> Old]
    BY <2>1, SeqDef
  <2>3. status_xml \in [1..n -> StatusData]
    BY <2>1, <2>2
  <2> QED
    BY <2>3, SeqDef
<1>5. Shelved(saved_statuses, creation_times)
  BY <1>1, NothingShelved
<1>6. StatusesAreScheduled
  BY <1>1 DEF StatusesAreScheduled, On
<1> QED
  BY <1>1, <1>2, <1>4, <1>5, <1>6 DEF StatusesInv

LEMMA StatusesStep ==
    ASSUME StatusesInv, StatusesAssumption, [StatusesNext]_statusVars
    PROVE  StatusesInv'
<1>1. CASE InitStatuses
  BY <1>1, LoadStep
<1>2. CASE GetCurrent
  <2>1. RoomForDefault /\ Do(WithCurrent(Memory))
    BY <1>2 DEF GetCurrent
  <2>2. /\ Sound(WithCurrent(Memory))
        /\ WithCurrent(Memory).timer = TRUE \/ WithCurrent(Memory) = Memory
    BY <2>1, CurrentFromMemory
  <2>3. Memory.timer = status_timer /\ Memory.list = saved_statuses
    BY SoundMemory
  <2> QED
    BY <2>1, <2>2, <2>3, Done
<1>3. CASE Tick
  <2>1. /\ clock' \in Nat /\ UNCHANGED <<saved_statuses, creation_times, status_xml, status_timer, session>>
    BY <1>3 DEF Tick, StatusesInv
  <2>2. StatusesAreScheduled'
    BY <2>1 DEF StatusesInv, StatusesAreScheduled, On
  <2> QED
    BY <2>1, <2>2 DEF StatusesInv
<1>4. CASE \E title \in Title \cup {Transient}, type \in Type :
             NewStatus(title, type) \/ \E a \in Status : Modify(a, title, type)
  BY <1>4, NewStep, ModifyStep
<1>5. CASE \E title \in Title : DeleteTitle(title)
  BY <1>5, DeleteTitleStep
<1>6. CASE \E a \in Status : DeleteByStatus(a) \/ Activate(a)
  BY <1>6, DeleteStep, ActivateStep
<1>7. CASE SetSubstatus
  BY <1>7, SubstatusStep
<1>8. CASE SaveStatuses
  BY <1>8, SaveStep
<1>9. CASE UninitStatuses
  BY <1>9, UninitStep
<1>10. CASE ExitStatuses
  BY <1>10, EndedStep DEF ExitStatuses, StatusesInv
<1>11. CASE UNCHANGED statusVars
  <2>1. UNCHANGED <<saved_statuses, creation_times, status_xml, status_timer, session, clock>>
    BY <1>11 DEF statusVars
  <2>2. StatusesAreScheduled'
    BY <2>1 DEF StatusesInv, StatusesAreScheduled, On
  <2> QED
    BY <2>1, <2>2 DEF StatusesInv
<1> QED
  BY <1>1, <1>2, <1>3, <1>4, <1>5, <1>6, <1>7, <1>8, <1>9, <1>10, <1>11 DEF StatusesNext

\* Every status is found by its creation time and by its title, and what the user
\* gave is written or on its way (savedstatuses.c), whatever the file held.
THEOREM StatusesKept == StatusesSpec => []StatusesAreKept
<1>1. StatusesInit => StatusesInv
  BY StatusesAssumption, StatusesStart
<1>2. StatusesInv /\ [StatusesNext]_statusVars => StatusesInv'
  BY StatusesAssumption, StatusesStep
<1>3. StatusesInv => StatusesAreKept
  BY StatusesAssumption, ShelvedIsFound DEF StatusesInv, StatusesAreKept
<1> QED
  BY <1>1, <1>2, <1>3, PTL DEF StatusesSpec

-----------------------------------------------------------------------------
(* The lists of themes                                                      *)

ThemeData == [file : Paths, version : Version]
ThemeLists == [probed : Seq(Paths), loaded : Seq(ThemeData)]

Once(l) == \A i, j \in DOMAIN l : l[i] = l[j] => i = j
ThemeList(l) == l \in Seq(ThemeData) /\ \A i, j \in DOMAIN l : l[i].file = l[j].file => i = j
PathList(l) == l \in Seq(Paths) /\ Once(l)
\* The file f is loaded as the version v.
LoadedAs(l, f, v) == \E i \in DOMAIN l : l[i].file = f /\ l[i].version = v

LEMMA ThemeFields ==
    ASSUME NEW x \in ThemeData
    PROVE  x.file \in Paths /\ x.version \in Version
BY DEF ThemeData

LEMMA LoadedMeans ==
    ASSUME NEW l, ThemeList(l), NEW f
    PROVE  IsLoaded(l, f) <=> \E v \in Version : LoadedAs(l, f, v)
<1>1. \A i \in DOMAIN l : l[i] \in ThemeData
  BY DEF ThemeList
<1> QED
  BY <1>1, ThemeFields DEF IsLoaded, LoadedAs

\* gtkntf_theme_unload
LEMMA UnloadedIs ==
    ASSUME NEW l, ThemeList(l), NEW f, IsLoaded(l, f)
    PROVE  LET w == Unloaded(l, f) IN
           /\ ThemeList(w) /\ ~IsLoaded(w, f)
           /\ \A g, v : g # f => (LoadedAs(w, g, v) <=> LoadedAs(l, g, v))
<1> DEFINE k == CHOOSE i \in DOMAIN l : l[i].file = f /\ \A j \in 1..i - 1 : l[j].file # f
           w == RemoveAt(l, k)
<1>1. l \in Seq(ThemeData) /\ \A i, j \in DOMAIN l : l[i].file = l[j].file => i = j
  BY DEF ThemeList
<1>2. \E i \in DOMAIN l : l[i].file = f /\ \A j \in 1..i - 1 : l[j].file # f
  <2>1. PICK i \in DOMAIN l : l[i].file = f
    BY DEF IsLoaded
  <2>2. \A j \in 1..i - 1 : j \in DOMAIN l /\ j # i
    BY <1>1, <2>1
  <2> QED
    BY <1>1, <2>1, <2>2
<1>3. k \in DOMAIN l /\ l[k].file = f
  BY <1>2
<1>4. Unloaded(l, f) = w
  BY Zenon DEF Unloaded
<1> HIDE DEF k
<1>5. /\ w \in Seq(ThemeData) /\ Len(w) = Len(l) - 1
      /\ \A j \in DOMAIN w : w[j] = IF j < k THEN l[j] ELSE l[j + 1]
  BY <1>1, <1>3, RemoveAtIs
<1> HIDE DEF w
<1>6. \A j \in DOMAIN w : j \in DOMAIN l /\ j + 1 \in DOMAIN l /\ j \in Nat
  BY <1>1, <1>5
<1>7. k \in Nat
  BY <1>1, <1>3
<1>8. ASSUME NEW i \in DOMAIN w, NEW j \in DOMAIN w, w[i].file = w[j].file PROVE i = j
  BY <1>1, <1>5, <1>6, <1>7, <1>8
<1>9. ASSUME NEW i \in DOMAIN w PROVE w[i].file # f
  BY <1>1, <1>3, <1>5, <1>6, <1>7
<1>10. ASSUME NEW i \in DOMAIN l, i # k PROVE \E j \in DOMAIN w : w[j] = l[i]
  <2>1. CASE i < k
    <3>1. i \in DOMAIN w
      BY <1>1, <1>3, <1>5, <2>1
    <3> QED
      BY <1>5, <2>1, <3>1
  <2>2. CASE i > k
    <3>1. i - 1 \in DOMAIN w /\ ~(i - 1 < k) /\ (i - 1) + 1 = i
      BY <1>1, <1>3, <1>5, <2>2
    <3> QED
      BY <1>5, <3>1
  <2> QED
    BY <1>1, <1>7, <1>10, <2>1, <2>2
<1>11. \A j \in DOMAIN w : \E i \in DOMAIN l : w[j] = l[i]
  BY <1>5, <1>6
<1>12. ASSUME NEW g, NEW v, g # f PROVE LoadedAs(w, g, v) <=> LoadedAs(l, g, v)
  BY <1>3, <1>10, <1>11, <1>12 DEF LoadedAs
<1> QED
  BY <1>4, <1>5, <1>8, <1>9, <1>12 DEF ThemeList, IsLoaded

\* What can be read is appended.
LEMMA WithThemeIs ==
    ASSUME NEW l, ThemeList(l), NEW f \in Paths, ~IsLoaded(l, f), NEW d
    PROVE  LET w == l \o ThemeIn(d, f) IN
           /\ ThemeList(w)
           /\ \A g, v : g # f => (LoadedAs(w, g, v) <=> LoadedAs(l, g, v))
           /\ \A v : LoadedAs(w, f, v) <=> d[f] \in Version /\ v = d[f]
           /\ d[f] \notin Version => w = l
           /\ d[f] \in Version =>
                /\ Len(w) = Len(l) + 1 /\ w[Len(l) + 1].file = f
                /\ \A i \in DOMAIN l : w[i] = l[i]
<1>1. l \in Seq(ThemeData) /\ \A i, j \in DOMAIN l : l[i].file = l[j].file => i = j
  BY DEF ThemeList
<1>2. CASE d[f] \notin Version
  <2>1. l \o ThemeIn(d, f) = l
    BY <1>1, <1>2 DEF ThemeIn
  <2>2. \A v : ~LoadedAs(l, f, v)
    BY DEF IsLoaded, LoadedAs
  <2> QED
    BY <1>2, <2>1, <2>2
<1>3. CASE d[f] \in Version
  <2> DEFINE x == [file |-> f, version |-> d[f]]
             w == l \o <<x>>
  <2>1. l \o ThemeIn(d, f) = w
    BY <1>3 DEF ThemeIn
  <2>2. x \in ThemeData /\ x.file = f /\ x.version = d[f]
    BY <1>3 DEF ThemeData
  <2> HIDE DEF x
  <2>3. /\ w \in Seq(ThemeData) /\ Len(w) = Len(l) + 1 /\ w[Len(l) + 1] = x
        /\ \A i \in 1..Len(l) : w[i] = l[i]
    BY <1>1, <2>2
  <2>4. DOMAIN w = DOMAIN l \cup {Len(l) + 1} /\ DOMAIN l = 1..Len(l)
    BY <1>1, <2>3
  <2> HIDE DEF w
  <2>5. \A i \in DOMAIN l : l[i].file # f
    BY DEF IsLoaded
  <2>6. ASSUME NEW i \in DOMAIN w, NEW j \in DOMAIN w, w[i].file = w[j].file PROVE i = j
    BY <1>1, <2>2, <2>3, <2>4, <2>5, <2>6
  <2>7. ASSUME NEW g, NEW v, g # f PROVE LoadedAs(w, g, v) <=> LoadedAs(l, g, v)
    BY <2>2, <2>3, <2>4, <2>7 DEF LoadedAs
  <2>8. ASSUME NEW v PROVE LoadedAs(w, f, v) <=> v = d[f]
    BY <2>2, <2>3, <2>4, <2>5 DEF LoadedAs
  <2> QED
    BY <1>3, <2>1, <2>2, <2>3, <2>4, <2>6, <2>7, <2>8 DEF ThemeList
<1> QED
  BY <1>2, <1>3

-----------------------------------------------------------------------------
(* Probing files                                                            *)

\* Without the first occurrence of an element that occurs once it does not occur.
LEMMA RemoveFirstIs ==
    ASSUME NEW S, NEW l \in Seq(S), Once(l), NEW e
    PROVE  LET w == RemoveFirst(l, e) IN
           /\ w \in Seq(S) /\ Once(w)
           /\ \A x : Contains(w, x) <=> Contains(l, x) /\ x # e
<1>1. CASE ~ \E i \in 1..Len(l) : l[i] = e
  <2>1. RemoveFirst(l, e) = l
    BY <1>1, Zenon DEF RemoveFirst
  <2> QED
    BY <1>1, <2>1 DEF Contains
<1>2. CASE \E i \in 1..Len(l) : l[i] = e
  <2> DEFINE I == {i \in 1..Len(l) : l[i] = e}
             k == Min(I)
             w == RemoveAt(l, k)
  <2>1. I # {} /\ I \in SUBSET Nat
    BY <1>2
  <2>2. k \in I
    <3>1. \E m \in I : \A n \in I : m <= n
      BY <2>1, Least
    <3>2. Min(I) \in I
      BY <3>1 DEF Min
    <3> QED
      BY <3>2
  <2>3. SelectInSeq(l, LAMBDA v : v = e) = k
    BY <2>1 DEF SelectInSeq
  <2>4. RemoveFirst(l, e) = w
    BY <1>2, <2>3 DEF RemoveFirst
  <2> HIDE DEF k
  <2>5. k \in DOMAIN l /\ l[k] = e /\ k \in Nat
    BY <2>2
  <2>6. /\ w \in Seq(S) /\ Len(w) = Len(l) - 1
        /\ \A j \in DOMAIN w : w[j] = IF j < k THEN l[j] ELSE l[j + 1]
    BY <2>5, RemoveAtIs
  <2> HIDE DEF w
  <2>7. \A j \in DOMAIN w : j \in DOMAIN l /\ j + 1 \in DOMAIN l /\ j \in Nat
    BY <2>6
  <2>8. Once(w)
    <3> SUFFICES ASSUME NEW i \in DOMAIN w, NEW j \in DOMAIN w, w[i] = w[j] PROVE i = j
      BY DEF Once
    <3> QED
      BY <2>5, <2>6, <2>7 DEF Once
  <2>9. ASSUME NEW j \in DOMAIN w PROVE Contains(l, w[j]) /\ w[j] # e
    BY <2>5, <2>6, <2>7 DEF Once, Contains
  <2>10. ASSUME NEW j \in DOMAIN l, l[j] # e PROVE \E i \in DOMAIN w : w[i] = l[j]
    <3>1. CASE j < k
      <4>1. j \in DOMAIN w
        BY <2>5, <2>6, <3>1
      <4> QED
        BY <2>6, <3>1, <4>1
    <3>2. CASE j > k
      <4>1. j - 1 \in DOMAIN w /\ ~(j - 1 < k) /\ (j - 1) + 1 = j
        BY <2>5, <2>6, <3>2
      <4> QED
        BY <2>6, <4>1
    <3> QED
      BY <2>5, <2>10, <3>1, <3>2
  <2>11. DOMAIN w = 1..Len(w) /\ DOMAIN l = 1..Len(l)
    BY <2>6
  <2>12. ASSUME NEW x PROVE Contains(w, x) <=> Contains(l, x) /\ x # e
    BY <2>9, <2>10, <2>11 DEF Contains
  <2> QED
    BY <2>4, <2>6, <2>8, <2>12
<1> QED
  BY <1>1, <1>2

LEMMA AppendOnce ==
    ASSUME NEW S, NEW l \in Seq(S), Once(l), NEW e \in S, ~Contains(l, e)
    PROVE  LET w == Append(l, e) IN
           /\ w \in Seq(S) /\ Once(w)
           /\ \A x : Contains(w, x) <=> Contains(l, x) \/ x = e
<1> DEFINE w == Append(l, e)
<1>1. /\ w \in Seq(S) /\ Len(w) = Len(l) + 1 /\ w[Len(l) + 1] = e
      /\ \A i \in 1..Len(l) : w[i] = l[i]
  BY AppendProperties
<1> HIDE DEF w
<1>2. DOMAIN w = DOMAIN l \cup {Len(l) + 1} /\ DOMAIN l = 1..Len(l) /\ DOMAIN w = 1..Len(w)
  BY <1>1
<1>3. \A x : Contains(w, x) <=> Contains(l, x) \/ x = e
  BY <1>1, <1>2 DEF Contains
<1>4. Once(w)
  BY <1>1, <1>2 DEF Once, Contains
<1> QED
  BY <1>1, <1>3, <1>4 DEF w

\* What probing a file, of which d tells the contents, makes of the lists.
ProbedOne(s, t, d, f) ==
    /\ ThemeList(t.loaded) /\ PathList(t.probed)
    /\ \A g \in Paths : Contains(t.probed, g) <=> IF g = f THEN d[f] \in Version ELSE Contains(s.probed, g)
    /\ \A g, v : LoadedAs(t.loaded, g, v) <=> IF g = f THEN IsLoaded(s.loaded, f) /\ d[f] \in Version /\ v = d[f]
                                              ELSE LoadedAs(s.loaded, g, v)

\* gtkntf_theme_probe
LEMMA ProbeIs ==
    ASSUME NEW s, ThemeList(s.loaded), PathList(s.probed), NEW d, NEW f \in Paths
    PROVE  ProbedOne(s, Probe(d, s, f), d, f) /\ Probe(d, s, f) \in ThemeLists
<1> DEFINE t == Probe(d, s, f)
           kept == IF IsLoaded(s.loaded, f) THEN Unloaded(s.loaded, f) ELSE s.loaded
           rest == RemoveFirst(s.probed, f)
           found == ThemeIn(d, f)
<1>1. /\ t.probed = IF found = <<>> THEN rest ELSE Append(rest, f)
      /\ t.loaded = IF IsLoaded(s.loaded, f) THEN kept \o found ELSE kept
      /\ t = [probed |-> t.probed, loaded |-> t.loaded]
  BY DEF Probe
<1>2. found = <<>> <=> d[f] \notin Version
  BY DEF ThemeIn
<1> HIDE DEF t
<1>3. /\ ThemeList(kept) /\ ~IsLoaded(kept, f)
      /\ \A g, v : g # f => (LoadedAs(kept, g, v) <=> LoadedAs(s.loaded, g, v))
  BY UnloadedIs
<1>4. \A v : ~LoadedAs(kept, f, v)
  BY <1>3 DEF LoadedAs, IsLoaded
<1>5. rest \in Seq(Paths) /\ Once(rest) /\ \A x : Contains(rest, x) <=> Contains(s.probed, x) /\ x # f
  BY RemoveFirstIs DEF PathList
<1> HIDE DEF rest, kept
<1>6. /\ ThemeList(kept \o found)
      /\ \A g, v : g # f => (LoadedAs(kept \o found, g, v) <=> LoadedAs(kept, g, v))
      /\ \A v : LoadedAs(kept \o found, f, v) <=> d[f] \in Version /\ v = d[f]
  BY <1>3, WithThemeIs
<1>7. /\ Append(rest, f) \in Seq(Paths) /\ Once(Append(rest, f))
      /\ \A x : Contains(Append(rest, f), x) <=> Contains(rest, x) \/ x = f
  <2>1. ~Contains(rest, f)
    BY <1>5
  <2> QED
    BY <1>5, <2>1, AppendOnce
<1> HIDE DEF found
<1>8. PathList(t.probed) /\ \A g \in Paths : Contains(t.probed, g) <=> IF g = f THEN d[f] \in Version ELSE Contains(s.probed, g)
  <2>1. CASE found = <<>>
    BY <1>1, <1>2, <1>5, <2>1 DEF PathList
  <2>2. CASE found # <<>>
    BY <1>1, <1>2, <1>5, <1>7, <2>2 DEF PathList
  <2> QED
    BY <2>1, <2>2
<1>9. /\ ThemeList(t.loaded)
      /\ \A g, v : LoadedAs(t.loaded, g, v) <=> IF g = f THEN IsLoaded(s.loaded, f) /\ d[f] \in Version /\ v = d[f]
                                                ELSE LoadedAs(s.loaded, g, v)
  <2>1. CASE IsLoaded(s.loaded, f)
    BY <1>1, <1>3, <1>6, <2>1
  <2>2. CASE ~IsLoaded(s.loaded, f)
    BY <1>1, <1>3, <1>4, <2>2
  <2> QED
    BY <2>1, <2>2
<1>10. t \in ThemeLists
  BY <1>1, <1>8, <1>9 DEF ThemeLists, PathList, ThemeList
<1> QED
  BY <1>8, <1>9, <1>10 DEF ProbedOne, t

-----------------------------------------------------------------------------
(* Loops                                                                    *)

\* A loop of n turns from s: turn i, which is F[i], makes elements of D[i] of those of D[i - 1].
Looping(D, F, s, n) == n \in Nat /\ s \in D[0] /\ \A i \in 1..n : \A r \in D[i - 1] : F[i][r] \in D[i]
Looped(f, F, s, n) == DOMAIN f = 0..n /\ f = [i \in 0..n |-> f[i]] /\ f[0] = s /\ \A i \in 1..n : f[i] = F[i][f[i - 1]]

LEMMA LoopExists ==
    ASSUME NEW D, NEW F, NEW s, NEW n, Looping(D, F, s, n)
    PROVE  \E f : Looped(f, F, s, n) /\ \A i \in 0..n : f[i] \in D[i]
<1>0. n \in Nat /\ s \in D[0] /\ \A i \in 1..n : \A r \in D[i - 1] : F[i][r] \in D[i]
  BY DEF Looping
<1> DEFINE U == UNION {D[i] : i \in 0..n}
           Fits(f, m) == f[0] = s /\ (\A i \in 1..m : f[i] = F[i][f[i - 1]]) /\ \A i \in 0..m : f[i] \in D[i]
           S == {m \in Nat : m <= n => \E f \in [0..m -> U] : Fits(f, m)}
<1>9. \A i \in 0..n : \A x \in D[i] : x \in U
  OBVIOUS
<1> HIDE DEF U
<1>1. 0 \in S
  <2> DEFINE f == [i \in 0..0 |-> s]
  <2>1. s \in U
    BY <1>0, <1>9
  <2>2. f \in [0..0 -> U] /\ Fits(f, 0)
    BY <1>0, <2>1
  <2> QED
    BY <2>2
<1>2. ASSUME NEW m \in Nat, m \in S PROVE m + 1 \in S
  <2> SUFFICES ASSUME m + 1 <= n PROVE \E g \in [0..m + 1 -> U] : Fits(g, m + 1)
    <3> HIDE DEF Fits
    <3> QED
      OBVIOUS
  <2>0. m <= n
    BY <1>0
  <2>1. PICK f \in [0..m -> U] : Fits(f, m)
    BY <1>2, <2>0
  <2> DEFINE e == F[m + 1][f[m]]
             g == [i \in 0..m + 1 |-> IF i <= m THEN f[i] ELSE e]
  <2>2. m + 1 \in 1..n /\ m + 1 \in 0..n /\ f[m] \in D[m] /\ (m + 1) - 1 = m
    BY <1>0, <2>1
  <2>3. e \in D[m + 1]
    BY <1>0, <2>2
  <2>4. e \in U
    BY <1>9, <2>2, <2>3
  <2>5. g[m + 1] = e /\ \A i \in 0..m : g[i] = f[i]
    OBVIOUS
  <2>6. g \in [0..m + 1 -> U]
    BY <2>4
  <2>7. e = F[m + 1][f[m]]
    OBVIOUS
  <2> HIDE DEF g, e
  <2>8. g[0] = s
    BY <2>1, <2>5
  <2>9. ASSUME NEW i \in 1..m + 1 PROVE g[i] = F[i][g[i - 1]]
    <3>1. CASE i = m + 1
      <4>1. i - 1 = m /\ g[m] = f[m]
        BY <2>5, <3>1
      <4> QED
        BY <2>5, <2>7, <3>1, <4>1, Zenon
    <3>2. CASE i \in 1..m
      <4>1. g[i] = f[i] /\ g[i - 1] = f[i - 1]
        BY <2>5, <3>2
      <4>2. f[i] = F[i][f[i - 1]]
        BY <2>1, <3>2
      <4> QED
        BY <4>1, <4>2, Zenon
    <3> QED
      BY <3>1, <3>2
  <2>10. ASSUME NEW i \in 0..m + 1 PROVE g[i] \in D[i]
    <3>1. CASE i = m + 1
      BY <2>3, <2>5, <3>1
    <3>2. CASE i \in 0..m
      BY <2>1, <2>5, <3>2
    <3> QED
      BY <3>1, <3>2
  <2> QED
    BY <2>6, <2>8, <2>9, <2>10
<1>3. \A m \in Nat : m \in S
  <2> HIDE DEF S
  <2> QED
    BY <1>1, <1>2, Induct
<1>4. PICK f \in [0..n -> U] : Fits(f, n)
  <2>1. n \in S /\ n <= n
    BY <1>0, <1>3
  <2> QED
    BY <2>1
<1>5. f = [i \in 0..n |-> f[i]]
  BY <1>4
<1> QED
  BY <1>4, <1>5 DEF Looped

-----------------------------------------------------------------------------
(* Reading the directories                                                  *)

\* The first i files of the directories have f among them.
Seen(f, i) == \E j \in 1..i : ThemePath[j] = f

\* What holds after i turns of the loop of gtkntf_themes_probe, from lists with nothing probed.
Probing(s, t, d, i) ==
    /\ ThemeList(t.loaded) /\ PathList(t.probed)
    /\ \A g \in Paths : Contains(t.probed, g) <=> Seen(g, i) /\ d[g] \in Version
    /\ \A g \in Paths : \A v : LoadedAs(t.loaded, g, v) <=>
          IF Seen(g, i) /\ d[g] # "none" THEN IsLoaded(s.loaded, g) /\ d[g] \in Version /\ v = d[g]
          ELSE LoadedAs(s.loaded, g, v)

LEMMA PathsAre ==
    /\ ThemePath \in Seq(Paths) /\ Len(ThemePath) \in Nat
    /\ \A i \in 1..Len(ThemePath) : ThemePath[i] \in Paths /\ ~Seen(ThemePath[i], i - 1)
    /\ \A g : ~Seen(g, 0)
    /\ \A i \in 1..Len(ThemePath) : \A g : Seen(g, i) <=> Seen(g, i - 1) \/ g = ThemePath[i]
    /\ \A g \in Paths : Seen(g, Len(ThemePath))
<1>1. ThemePath \in Seq(Paths) /\ \A i, j \in DOMAIN ThemePath : ThemePath[i] = ThemePath[j] => i = j
  BY ThemesAssumption DEF Paths
<1>2. Len(ThemePath) \in Nat /\ DOMAIN ThemePath = 1..Len(ThemePath)
  BY <1>1
<1>3. ASSUME NEW i \in 1..Len(ThemePath) PROVE ThemePath[i] \in Paths /\ ~Seen(ThemePath[i], i - 1)
  <2>1. \A j \in 1..i - 1 : j \in 1..Len(ThemePath) /\ j # i
    BY <1>2
  <2> QED
    BY <1>1, <1>2, <2>1 DEF Seen
<1>4. \A g : ~Seen(g, 0)
  BY DEF Seen
<1>5. ASSUME NEW i \in 1..Len(ThemePath), NEW g PROVE Seen(g, i) <=> Seen(g, i - 1) \/ g = ThemePath[i]
  <2>1. 1..i = (1..i - 1) \cup {i}
    BY <1>2
  <2> QED
    BY <2>1 DEF Seen
<1>6. ASSUME NEW g \in Paths PROVE Seen(g, Len(ThemePath))
  BY <1>2 DEF Seen, Paths, ToSet
<1> QED
  BY <1>1, <1>2, <1>3, <1>4, <1>5, <1>6

LEMMA ProbingGoesOn ==
    ASSUME NEW s, ThemeList(s.loaded), NEW d, NEW i \in 1..Len(ThemePath),
           NEW t \in ThemeLists, Probing(s, t, d, i - 1)
    PROVE  LET u == ProbedIfThere(d, t, ThemePath[i]) IN u \in ThemeLists /\ Probing(s, u, d, i)
<1> DEFINE f == ThemePath[i]
           u == ProbedIfThere(d, t, f)
<1>1. f \in Paths /\ ~Seen(f, i - 1) /\ \A g : Seen(g, i) <=> Seen(g, i - 1) \/ g = f
  BY PathsAre
<1>2. \A g \in Paths : \A v : LoadedAs(t.loaded, g, v) <=>
         IF Seen(g, i - 1) /\ d[g] # "none" THEN IsLoaded(s.loaded, g) /\ d[g] \in Version /\ v = d[g]
         ELSE LoadedAs(s.loaded, g, v)
  BY DEF Probing
<1>3. \A g \in Paths : Contains(t.probed, g) <=> Seen(g, i - 1) /\ d[g] \in Version
  BY DEF Probing
<1>4. ThemeList(t.loaded) /\ PathList(t.probed)
  BY DEF Probing
<1>5. IsLoaded(t.loaded, f) <=> IsLoaded(s.loaded, f)
  BY <1>1, <1>2, <1>4, LoadedMeans
<1> HIDE DEF f
<1>6. CASE d[f] = "none"
  <2>1. u = t
    BY <1>6 DEF ProbedIfThere
  <2>2. d[f] \notin Version
    BY <1>6, ThemesAssumption
  <2>3. \A g \in Paths : Contains(t.probed, g) <=> Seen(g, i) /\ d[g] \in Version
    BY <1>1, <1>3, <2>2
  <2>4. \A g \in Paths : Seen(g, i) /\ d[g] # "none" <=> Seen(g, i - 1) /\ d[g] # "none"
    BY <1>1, <1>6
  <2>5. \A g \in Paths : \A v : LoadedAs(t.loaded, g, v) <=>
           IF Seen(g, i) /\ d[g] # "none" THEN IsLoaded(s.loaded, g) /\ d[g] \in Version /\ v = d[g]
           ELSE LoadedAs(s.loaded, g, v)
    BY <1>2, <2>4
  <2> HIDE DEF u
  <2>6. u \in ThemeLists /\ Probing(s, u, d, i)
    BY <1>4, <2>1, <2>3, <2>5 DEF Probing
  <2> QED
    BY <2>6 DEF u, f
<1>7. CASE d[f] # "none"
  <2>1. u = Probe(d, t, f)
    BY <1>7 DEF ProbedIfThere
  <2>2. ProbedOne(t, u, d, f) /\ u \in ThemeLists
    BY <1>1, <1>4, <2>1, ProbeIs
  <2> HIDE DEF u
  <2>3. ASSUME NEW g \in Paths PROVE Contains(u.probed, g) <=> Seen(g, i) /\ d[g] \in Version
    BY <1>1, <1>3, <2>2 DEF ProbedOne
  <2>4. ASSUME NEW g \in Paths, NEW v
        PROVE  LoadedAs(u.loaded, g, v) <=>
                  IF Seen(g, i) /\ d[g] # "none" THEN IsLoaded(s.loaded, g) /\ d[g] \in Version /\ v = d[g]
                  ELSE LoadedAs(s.loaded, g, v)
    <3>1. LoadedAs(u.loaded, g, v) <=> IF g = f THEN IsLoaded(t.loaded, f) /\ d[f] \in Version /\ v = d[f]
                                       ELSE LoadedAs(t.loaded, g, v)
      BY <2>2 DEF ProbedOne
    <3>2. CASE g = f
      BY <1>1, <1>5, <1>7, <3>1, <3>2
    <3>3. CASE g # f
      <4>1. Seen(g, i) <=> Seen(g, i - 1)
        BY <1>1, <3>3
      <4> QED
        BY <1>2, <3>1, <3>3, <4>1
    <3> QED
      BY <3>2, <3>3
  <2>5. u \in ThemeLists /\ Probing(s, u, d, i)
    BY <2>2, <2>3, <2>4 DEF Probing, ProbedOne
  <2> QED
    BY <2>5 DEF u, f
<1> QED
  BY <1>6, <1>7

\* gtkntf_themes_probe
LEMMA ProbedAllIs ==
    ASSUME NEW s \in ThemeLists, ThemeList(s.loaded), s.probed = <<>>, NEW d
    PROVE  Probing(s, ProbedAll(d, s), d, Len(ThemePath))
<1> DEFINE n == Len(ThemePath)
           Turn(r, i) == ProbedIfThere(d, r, ThemePath[i])
           D == [i \in 0..n |-> {t \in ThemeLists : Probing(s, t, d, i)}]
           F == [i \in 1..n |-> [r \in ThemeLists |-> Turn(r, i)]]
           after == CHOOSE f : f = [i \in 0..Len(ThemePath) |-> IF i = 0 THEN s ELSE ProbedIfThere(d, f[i - 1], ThemePath[i])]
<1>1. n \in Nat
  BY PathsAre
<1>2. Probing(s, s, d, 0)
  <2>1. PathList(<<>>) /\ \A g : ~Contains(<<>>, g)
    BY DEF PathList, Once, Contains
  <2>2. \A g : ~Seen(g, 0)
    BY PathsAre
  <2> QED
    BY <2>1, <2>2 DEF Probing
<1>3. ASSUME NEW i \in 1..n, NEW r \in ThemeLists, Probing(s, r, d, i - 1)
      PROVE  Turn(r, i) \in ThemeLists /\ Probing(s, Turn(r, i), d, i)
  BY <1>3, ProbingGoesOn
<1> HIDE DEF n, Turn
<1>4. \A i \in 0..n : \A t : t \in D[i] <=> t \in ThemeLists /\ Probing(s, t, d, i)
  OBVIOUS
<1>5. \A i \in 1..n : \A r \in ThemeLists : F[i][r] = Turn(r, i)
  OBVIOUS
<1> HIDE DEF D, F
<1>6. \A i \in 1..n : i - 1 \in 0..n /\ i \in 0..n /\ 0 \in 0..n
  BY <1>1
<1>7. Looping(D, F, s, n)
  <2>1. ASSUME NEW i \in 1..n, NEW r \in D[i - 1] PROVE F[i][r] \in D[i]
    BY <1>3, <1>4, <1>5, <1>6
  <2> QED
    BY <1>1, <1>2, <1>4, <2>1 DEF Looping
<1>8. PICK g : Looped(g, F, s, n) /\ \A i \in 0..n : g[i] \in D[i]
  BY <1>7, LoopExists, Zenon
<1>9. g = [i \in 0..n |-> IF i = 0 THEN s ELSE Turn(g[i - 1], i)]
  <2>1. ASSUME NEW i \in 1..n PROVE g[i] = Turn(g[i - 1], i)
    <3>1. g[i - 1] \in ThemeLists
      BY <1>4, <1>6, <1>8
    <3> QED
      BY <1>5, <1>8, <3>1 DEF Looped
  <2>2. \A i \in 0..n : g[i] = IF i = 0 THEN s ELSE Turn(g[i - 1], i)
    <3>1. g[0] = s
      BY <1>8 DEF Looped
    <3>2. \A i \in 0..n : i = 0 \/ i \in 1..n
      BY <1>1
    <3> QED
      BY <2>1, <3>1, <3>2
  <2>3. g = [i \in 0..n |-> g[i]]
    BY <1>8 DEF Looped
  <2> QED
    BY <2>2, <2>3
<1>10. \E f : f = [i \in 0..Len(ThemePath) |-> IF i = 0 THEN s ELSE ProbedIfThere(d, f[i - 1], ThemePath[i])]
  BY <1>9 DEF n, Turn
<1>11. after = [i \in 0..Len(ThemePath) |-> IF i = 0 THEN s ELSE ProbedIfThere(d, after[i - 1], ThemePath[i])]
  BY <1>10, Zenon
<1>12. ProbedAll(d, s) = after[n]
  BY Zenon DEF ProbedAll, n
<1> HIDE DEF after
<1>13. after = [i \in 0..n |-> IF i = 0 THEN s ELSE Turn(after[i - 1], i)]
  BY <1>11 DEF n, Turn
<1> DEFINE S == {i \in Nat : i <= n => after[i] \in D[i]}
<1>14. 0 \in S
  <2>1. after[0] = s
    BY <1>1, <1>13
  <2> QED
    BY <1>1, <1>7, <2>1 DEF Looping
<1>15. ASSUME NEW i \in Nat, i \in S PROVE i + 1 \in S
  <2> SUFFICES ASSUME i + 1 <= n PROVE after[i + 1] \in D[i + 1]
    OBVIOUS
  <2>1. i + 1 \in 1..n /\ i + 1 \in 0..n /\ i \in 0..n /\ i + 1 # 0 /\ (i + 1) - 1 = i /\ after[i] \in D[i]
    BY <1>1, <1>15
  <2>2. after[i + 1] = Turn(after[i], i + 1)
    BY <1>13, <2>1
  <2>3. after[i] \in ThemeLists /\ Probing(s, after[i], d, i)
    BY <1>4, <2>1
  <2>4. Turn(after[i], i + 1) \in ThemeLists /\ Probing(s, Turn(after[i], i + 1), d, i + 1)
    BY <1>3, <2>1, <2>3
  <2> QED
    BY <1>4, <2>1, <2>2, <2>4
<1>16. \A i \in Nat : i \in S
  <2> HIDE DEF S
  <2> QED
    BY <1>14, <1>15, Induct
<1>17. after[n] \in D[n]
  BY <1>1, <1>16
<1>18. n \in 0..n
  BY <1>1
<1> QED
  BY <1>4, <1>12, <1>17, <1>18 DEF n

-----------------------------------------------------------------------------
(* What was saved comes back                                                *)

\* What holds after i turns of the loop of gtkntf_themes_load_saved.
Loading(l, i) ==
    /\ ThemeList(l)
    /\ \A g : IsLoaded(l, g) <=> \E m \in 1..i : savedThemes[m] = g /\ disk[g] \in Version
    /\ \A a, b \in DOMAIN l : \A m, k \in 1..i :
          l[a].file = savedThemes[m] /\ l[b].file = savedThemes[k] => (a < b <=> m < k)

\* What could be read was probed.
ReadableProbed(names) == \A g \in Paths : Contains(names, g) <=> disk[g] \in Version

LEMMA LoadingGoesOn ==
    ASSUME PathList(savedThemes), NEW names, ReadableProbed(names),
           NEW i \in 1..Len(savedThemes), NEW l, Loading(l, i - 1)
    PROVE  Loading(LoadedIfProbed(l, names, savedThemes[i]), i)
<1> DEFINE f == savedThemes[i]
           u == LoadedIfProbed(l, names, f)
<1>1. savedThemes \in Seq(Paths) /\ \A j, k \in DOMAIN savedThemes : savedThemes[j] = savedThemes[k] => j = k
  BY DEF PathList, Once
<1>2. i \in Nat /\ i \in DOMAIN savedThemes /\ 1..i = (1..i - 1) \cup {i} /\ \A j \in 1..i : j \in DOMAIN savedThemes /\ j \in Nat
  BY <1>1
<1>3. f \in Paths /\ \A j \in 1..i - 1 : savedThemes[j] # f
  BY <1>1, <1>2
<1>4. ThemeList(l)
  BY DEF Loading
<1>5. \A g : IsLoaded(l, g) <=> \E m \in 1..i - 1 : savedThemes[m] = g /\ disk[g] \in Version
  BY DEF Loading
<1>6. \A a, b \in DOMAIN l : \A m, k \in 1..i - 1 :
         l[a].file = savedThemes[m] /\ l[b].file = savedThemes[k] => (a < b <=> m < k)
  BY DEF Loading
<1>7. ~IsLoaded(l, f)
  BY <1>3, <1>5
<1>8. f = savedThemes[i]
  OBVIOUS
<1> HIDE DEF f
<1>9. \A j \in 1..i : savedThemes[j] = f <=> j = i
  BY <1>2, <1>3, <1>8
<1>10. CASE disk[f] \notin Version
  <2>1. u = l
    BY <1>3, <1>10 DEF LoadedIfProbed, ReadableProbed
  <2>2. \A g : IsLoaded(l, g) <=> \E m \in 1..i : savedThemes[m] = g /\ disk[g] \in Version
    BY <1>2, <1>5, <1>8, <1>10
  <2>3. \A a \in DOMAIN l : l[a].file # f
    BY <1>7 DEF IsLoaded
  <2>4. \A a, b \in DOMAIN l : \A m, k \in 1..i :
           l[a].file = savedThemes[m] /\ l[b].file = savedThemes[k] => (a < b <=> m < k)
    BY <1>2, <1>6, <1>8, <2>3
  <2> HIDE DEF u
  <2>5. Loading(u, i)
    BY <1>4, <2>1, <2>2, <2>4 DEF Loading
  <2> QED
    BY <2>5 DEF u, f
<1>11. CASE disk[f] \in Version
  <2> DEFINE n == Len(l)
  <2>1. u = l \o ThemeIn(disk, f)
    BY <1>3, <1>11 DEF LoadedIfProbed, ReadableProbed
  <2>2. /\ ThemeList(u)
        /\ \A g, v : g # f => (LoadedAs(u, g, v) <=> LoadedAs(l, g, v))
        /\ \A v : LoadedAs(u, f, v) <=> v = disk[f]
        /\ Len(u) = Len(l) + 1 /\ u[Len(l) + 1].file = f
        /\ \A a \in DOMAIN l : u[a] = l[a]
    BY <1>3, <1>4, <1>7, <1>11, <2>1, WithThemeIs
  <2> HIDE DEF u
  <2>3. l \in Seq(ThemeData) /\ u \in Seq(ThemeData)
    BY <1>4, <2>2 DEF ThemeList
  <2>4. /\ n \in Nat /\ DOMAIN l = 1..n /\ DOMAIN u = (1..n) \cup {n + 1} /\ u[n + 1].file = f
        /\ \A a \in 1..n : u[a] = l[a]
    BY <2>2, <2>3
  <2> HIDE DEF n
  <2>5. ASSUME NEW g PROVE IsLoaded(u, g) <=> \E m \in 1..i : savedThemes[m] = g /\ disk[g] \in Version
    <3>1. IsLoaded(u, g) <=> IsLoaded(l, g) \/ g = f
      BY <2>4 DEF IsLoaded
    <3> QED
      BY <1>2, <1>5, <1>8, <1>11, <3>1
  <2>6. \A a \in 1..n : u[a].file # f
    BY <1>7, <2>4 DEF IsLoaded
  <2>7. ASSUME NEW a \in DOMAIN u, NEW b \in DOMAIN u, NEW m \in 1..i, NEW k \in 1..i,
               u[a].file = savedThemes[m], u[b].file = savedThemes[k]
        PROVE  a < b <=> m < k
    <3>1. (a = n + 1 <=> m = i) /\ (b = n + 1 <=> k = i)
      BY <1>9, <2>4, <2>6, <2>7
    <3>2. CASE a \in 1..n /\ b \in 1..n
      <4>1. m \in 1..i - 1 /\ k \in 1..i - 1
        BY <1>2, <2>4, <3>1, <3>2
      <4> QED
        BY <1>6, <2>4, <2>7, <3>2, <4>1
    <3>3. CASE a = n + 1
      BY <1>2, <2>4, <3>1, <3>3
    <3>4. CASE b = n + 1
      BY <1>2, <2>4, <3>1, <3>4
    <3> QED
      BY <2>4, <3>2, <3>3, <3>4
  <2>8. Loading(u, i)
    BY <2>2, <2>5, <2>7 DEF Loading
  <2> QED
    BY <2>8 DEF u, f
<1> QED
  BY <1>10, <1>11

\* gtkntf_themes_load_saved
LEMMA LoadSavedIs ==
    ASSUME PathList(savedThemes), NEW s, ReadableProbed(s.probed), ThemeList(s.loaded),
           \A g : ~IsLoaded(s.loaded, g)
    PROVE  Loading(LoadSaved(s), Len(savedThemes))
<1> DEFINE n == Len(savedThemes)
           Turn(r, i) == LoadedIfProbed(r, s.probed, savedThemes[i])
           D == [i \in 0..n |-> {l \in Seq(ThemeData) : Loading(l, i)}]
           F == [i \in 1..n |-> [r \in Seq(ThemeData) |-> Turn(r, i)]]
           after == CHOOSE f : f = [i \in 0..Len(savedThemes) |->
                        IF i = 0 THEN s.loaded ELSE LoadedIfProbed(f[i - 1], s.probed, savedThemes[i])]
<1>1. n \in Nat
  BY DEF PathList
<1>2. Loading(s.loaded, 0)
  <2>1. DOMAIN s.loaded = {}
    BY DEF IsLoaded
  <2> QED
    BY <2>1 DEF Loading
<1>3. ASSUME NEW i \in 1..n, NEW r, Loading(r, i - 1) PROVE Loading(Turn(r, i), i)
  BY <1>3, LoadingGoesOn
<1>4. \A i, l : Loading(l, i) => l \in Seq(ThemeData)
  BY DEF Loading, ThemeList
<1> HIDE DEF n, Turn
<1>5. \A i \in 0..n : \A l : l \in D[i] <=> Loading(l, i)
  BY <1>4
<1>6. \A i \in 1..n : \A r \in Seq(ThemeData) : F[i][r] = Turn(r, i)
  OBVIOUS
<1> HIDE DEF D, F
<1>7. \A i \in 1..n : i - 1 \in 0..n /\ i \in 0..n /\ 0 \in 0..n
  BY <1>1
<1>8. 0 \in 0..n /\ n \in 0..n
  BY <1>1
<1> DEFINE e == s.loaded
<1> HIDE DEF e
<1>9. Looping(D, F, e, n)
  <2>1. ASSUME NEW i \in 1..n, NEW r \in D[i - 1] PROVE F[i][r] \in D[i]
    BY <1>3, <1>4, <1>5, <1>6, <1>7
  <2> QED
    BY <1>1, <1>2, <1>5, <1>8, <2>1 DEF Looping, e
<1>10. PICK g : Looped(g, F, e, n) /\ \A i \in 0..n : g[i] \in D[i]
  BY <1>9, LoopExists, Zenon
<1>11. g = [i \in 0..n |-> IF i = 0 THEN e ELSE Turn(g[i - 1], i)]
  <2>1. ASSUME NEW i \in 1..n PROVE g[i] = Turn(g[i - 1], i)
    <3>1. g[i - 1] \in Seq(ThemeData)
      BY <1>4, <1>5, <1>7, <1>10
    <3> QED
      BY <1>6, <1>10, <3>1 DEF Looped
  <2>2. \A i \in 0..n : g[i] = IF i = 0 THEN e ELSE Turn(g[i - 1], i)
    <3>1. g[0] = e
      BY <1>10 DEF Looped
    <3>2. \A i \in 0..n : i = 0 \/ i \in 1..n
      BY <1>1
    <3> QED
      BY <2>1, <3>1, <3>2
  <2>3. g = [i \in 0..n |-> g[i]]
    BY <1>10 DEF Looped
  <2> QED
    BY <2>2, <2>3
<1>12. \E f : f = [i \in 0..Len(savedThemes) |->
                    IF i = 0 THEN s.loaded ELSE LoadedIfProbed(f[i - 1], s.probed, savedThemes[i])]
  BY <1>11 DEF n, Turn, e
<1>13. after = [i \in 0..Len(savedThemes) |->
                 IF i = 0 THEN s.loaded ELSE LoadedIfProbed(after[i - 1], s.probed, savedThemes[i])]
  BY <1>12, Zenon
<1>14. LoadSaved(s) = after[n]
  BY Zenon DEF LoadSaved, n
<1> HIDE DEF after
<1>15. after = [i \in 0..n |-> IF i = 0 THEN e ELSE Turn(after[i - 1], i)]
  BY <1>13 DEF n, Turn, e
<1> DEFINE S == {i \in Nat : i <= n => Loading(after[i], i)}
<1>16. 0 \in S
  <2>1. after[0] = s.loaded
    BY <1>8, <1>15 DEF e
  <2> QED
    BY <1>2, <2>1
<1>17. ASSUME NEW i \in Nat, i \in S PROVE i + 1 \in S
  <2> SUFFICES ASSUME i + 1 <= n PROVE Loading(after[i + 1], i + 1)
    OBVIOUS
  <2>1. i + 1 \in 1..n /\ i + 1 \in 0..n /\ i + 1 # 0 /\ (i + 1) - 1 = i /\ Loading(after[i], i)
    BY <1>1, <1>17
  <2>2. after[i + 1] = Turn(after[i], i + 1)
    BY <1>15, <2>1
  <2> QED
    BY <1>3, <2>1, <2>2
<1>18. \A i \in Nat : i \in S
  <2> HIDE DEF S
  <2> QED
    BY <1>16, <1>17, Induct
<1>19. Loading(after[n], n)
  BY <1>1, <1>18
<1> QED
  BY <1>14, <1>19 DEF n

-----------------------------------------------------------------------------
(* The program and the page                                                 *)

DiskData == [Paths -> {"none", "broken"} \cup Version]
RowData == [file : Paths, loaded : BOOLEAN]
\* Each file has a row, and one that says that its theme is not loaded is right.
RowsSound(r, l) ==
    /\ r \in Seq(RowData) /\ \A i, j \in DOMAIN r : r[i].file = r[j].file => i = j
    /\ \A i \in DOMAIN r : ~r[i].loaded => ~IsLoaded(l, r[i].file)

\* What holds between two steps.
ThemesSound ==
    /\ disk \in DiskData /\ themesOn \in BOOLEAN
    /\ ThemeList(loaded) /\ PathList(probed) /\ PathList(savedThemes)
    /\ RowsSound(rows, loaded)
    /\ loaded # <<>> \/ rows # <<>> => themesOn

LEMMA RowFields ==
    ASSUME NEW x \in RowData
    PROVE  x.file \in Paths /\ x.loaded \in BOOLEAN
BY DEF RowData

LEMMA FilesOnce ==
    ASSUME NEW l, ThemeList(l)
    PROVE  /\ PathList(FilesOf(l)) /\ IsInjective(FilesOf(l))
           /\ ToSet(FilesOf(l)) = {g \in Paths : IsLoaded(l, g)}
<1> DEFINE w == FilesOf(l)
<1>1. l \in Seq(ThemeData) /\ \A i, j \in DOMAIN l : l[i].file = l[j].file => i = j
  BY DEF ThemeList
<1>2. \A i \in DOMAIN l : l[i] \in ThemeData
  BY <1>1
<1>3. \A i \in DOMAIN l : l[i].file \in Paths
  BY <1>2, ThemeFields
<1>4. w = [i \in DOMAIN l |-> l[i].file]
  BY DEF FilesOf
<1> HIDE DEF w
<1>5. DOMAIN w = DOMAIN l /\ \A i \in DOMAIN l : w[i] = l[i].file
  BY <1>4
<1>6. w \in Seq(Paths)
  BY <1>1, <1>3, <1>4
<1>7. PathList(w) /\ IsInjective(w)
  BY <1>1, <1>5, <1>6 DEF PathList, Once, IsInjective
<1>8. ToSet(w) = {g \in Paths : IsLoaded(l, g)}
  BY <1>3, <1>5 DEF ToSet, IsLoaded
<1> QED
  BY <1>7, <1>8 DEF w

\* create_theme_store
LEMMA RefreshedIs ==
    ASSUME ThemeList(loaded), NEW d \in DiskData
    PROVE  LET t == Refreshed(d) IN
           /\ ThemeList(t.loaded) /\ PathList(t.probed) /\ RowsSound(RowsOf(t), t.loaded)
           /\ \A g \in Paths : Contains(t.probed, g) <=> d[g] \in Version
           /\ \A g \in Paths : IsLoaded(t.loaded, g) <=> IsLoaded(loaded, g) /\ d[g] # "broken"
           /\ \A g \in Paths : \A v : LoadedAs(t.loaded, g, v) /\ d[g] \in Version => v = d[g]
           /\ (\A g : ~IsLoaded(loaded, g)) => \A g : ~IsLoaded(t.loaded, g)
<1> DEFINE s == [probed |-> <<>>, loaded |-> loaded]
           t == Refreshed(d)
           n == Len(ThemePath)
<1>1. s \in ThemeLists /\ s.loaded = loaded /\ s.probed = <<>>
  BY DEF ThemeLists, ThemeList
<1>2. t = ProbedAll(d, s)
  BY DEF Refreshed
<1> HIDE DEF s
<1>3. Probing(s, t, d, n)
  BY <1>1, <1>2, ProbedAllIs
<1> HIDE DEF t
<1>4. \A g \in Paths : Seen(g, n)
  BY PathsAre
<1>5. ThemeList(t.loaded) /\ PathList(t.probed) /\ \A g \in Paths : Contains(t.probed, g) <=> d[g] \in Version
  BY <1>3, <1>4 DEF Probing
<1>6. \A g \in Paths : \A v : LoadedAs(t.loaded, g, v) <=>
         IF d[g] # "none" THEN IsLoaded(loaded, g) /\ d[g] \in Version /\ v = d[g] ELSE LoadedAs(loaded, g, v)
  BY <1>1, <1>3, <1>4 DEF Probing
<1>7. \A g \in Paths : d[g] \in Version \/ d[g] = "none" \/ d[g] = "broken"
  BY DEF DiskData
<1>8. ASSUME NEW g \in Paths PROVE IsLoaded(t.loaded, g) <=> IsLoaded(loaded, g) /\ d[g] # "broken"
  <2>1. IsLoaded(t.loaded, g) <=> \E v \in Version : LoadedAs(t.loaded, g, v)
    BY <1>5, LoadedMeans
  <2>2. IsLoaded(loaded, g) <=> \E v \in Version : LoadedAs(loaded, g, v)
    BY LoadedMeans
  <2>3. "broken" \notin Version /\ "none" \notin Version
    BY ThemesAssumption
  <2> QED
    BY <1>6, <1>7, <2>1, <2>2, <2>3
<1>9. ASSUME NEW g \in Paths, NEW v, LoadedAs(t.loaded, g, v), d[g] \in Version PROVE v = d[g]
  <2>1. d[g] # "none"
    BY <1>9, ThemesAssumption
  <2> QED
    BY <1>6, <1>9, <2>1
<1>10. RowsSound(RowsOf(t), t.loaded)
  <2> DEFINE r == RowsOf(t)
             Row(f) == [file |-> f, loaded |-> IsLoaded(t.loaded, f)]
  <2>1. t.probed \in Seq(Paths) /\ \A i, j \in DOMAIN t.probed : t.probed[i] = t.probed[j] => i = j
    BY <1>5 DEF PathList, Once
  <2>2. \A f \in Paths : Row(f) \in RowData /\ Row(f).file = f /\ (Row(f).loaded <=> IsLoaded(t.loaded, f))
    BY DEF RowData, IsLoaded
  <2>3. r = [i \in DOMAIN t.probed |-> Row(t.probed[i])]
    BY DEF RowsOf
  <2> HIDE DEF r, Row
  <2>4. \A i \in DOMAIN t.probed : t.probed[i] \in Paths
    BY <2>1
  <2>5. DOMAIN r = DOMAIN t.probed /\ \A i \in DOMAIN r : r[i] = Row(t.probed[i])
    BY <2>3
  <2>6. r \in Seq(RowData)
    BY <2>1, <2>2, <2>3, <2>4
  <2>7. RowsSound(r, t.loaded)
    BY <2>1, <2>2, <2>4, <2>5, <2>6 DEF RowsSound
  <2> QED
    BY <2>7 DEF r
<1>11. ASSUME \A g : ~IsLoaded(loaded, g), NEW g PROVE ~IsLoaded(t.loaded, g)
  <2>1. \A i \in DOMAIN t.loaded : t.loaded[i] \in ThemeData
    BY <1>5 DEF ThemeList
  <2>2. IsLoaded(t.loaded, g) => g \in Paths
    BY <2>1, ThemeFields DEF IsLoaded
  <2> QED
    BY <1>8, <1>11, <2>2
<1> QED
  BY <1>5, <1>8, <1>9, <1>10, <1>11 DEF t

LEMMA NoTheme ==
    ASSUME NEW l, ThemeList(l)
    PROVE  l = <<>> <=> \A g : ~IsLoaded(l, g)
<1>1. l \in Seq(ThemeData)
  BY DEF ThemeList
<1>2. l = <<>> <=> DOMAIN l = {}
  BY <1>1
<1>3. (\A g : ~IsLoaded(l, g)) <=> DOMAIN l = {}
  BY DEF IsLoaded
<1> QED
  BY <1>2, <1>3

\* The page is shown, or shown anew.
LEMMA ShowKeeps ==
    ASSUME ThemesSound, NEW d \in DiskData, ShowRefreshed(d), disk' = d, themesOn' = themesOn, themesOn,
           savedThemes' = savedThemes
    PROVE  ThemesSound'
<1>1. /\ ThemeList(Refreshed(d).loaded) /\ PathList(Refreshed(d).probed)
      /\ RowsSound(RowsOf(Refreshed(d)), Refreshed(d).loaded)
  BY RefreshedIs DEF ThemesSound
<1>2. probed' = Refreshed(d).probed /\ loaded' = Refreshed(d).loaded /\ rows' = RowsOf(Refreshed(d))
  BY DEF ShowRefreshed
<1>3. ThemeList(loaded') /\ PathList(probed') /\ RowsSound(rows', loaded')
  BY <1>1, <1>2
<1> QED
  BY <1>3 DEF ThemesSound

LEMMA EmptyLists ==
    /\ ThemeList(<<>>) /\ PathList(<<>>) /\ \A l : RowsSound(<<>>, l)
    /\ \A g : ~IsLoaded(<<>>, g)
BY DEF ThemeList, PathList, Once, RowsSound, IsLoaded

\* beasy_notify_init
LEMMA StartKeeps ==
    ASSUME ThemesSound, StartPopups
    PROVE  ThemesSound' /\ BroughtBack(loaded', savedThemes)
<1> DEFINE s == ProbedAll(disk, [probed |-> <<>>, loaded |-> <<>>])
           l == LoadSaved(s)
           n == Len(savedThemes)
<1>1. ~themesOn /\ themesOn' = TRUE /\ probed' = s.probed /\ loaded' = l
      /\ disk' = disk /\ savedThemes' = savedThemes /\ rows' = rows
  BY DEF StartPopups
<1>2. rows = <<>> /\ loaded = <<>>
  BY <1>1 DEF ThemesSound
<1>3. s = Refreshed(disk)
  BY <1>2 DEF Refreshed
<1> HIDE DEF s
<1>4. /\ ThemeList(s.loaded) /\ PathList(s.probed) /\ ReadableProbed(s.probed)
      /\ \A g : ~IsLoaded(s.loaded, g)
  BY <1>2, <1>3, RefreshedIs, EmptyLists DEF ThemesSound, ReadableProbed
<1>5. Loading(l, n)
  BY <1>4, LoadSavedIs DEF ThemesSound
<1> HIDE DEF l
<1>6. savedThemes \in Seq(Paths) /\ DOMAIN savedThemes = 1..n /\ \A m \in 1..n : savedThemes[m] \in Paths
  BY DEF ThemesSound, PathList
<1>7. ThemeList(l)
  BY <1>5 DEF Loading
<1>8. ToSet(FilesOf(l)) = {f \in ToSet(savedThemes) : disk[f] \in Version}
  <2>1. ToSet(FilesOf(l)) = {g \in Paths : IsLoaded(l, g)}
    BY <1>7, FilesOnce
  <2>2. \A g : IsLoaded(l, g) <=> \E m \in 1..n : savedThemes[m] = g /\ disk[g] \in Version
    BY <1>5 DEF Loading
  <2>3. ToSet(savedThemes) = {savedThemes[m] : m \in 1..n}
    BY <1>6 DEF ToSet
  <2> QED
    BY <1>6, <2>1, <2>2, <2>3
<1>9. BroughtBack(l, savedThemes)
  BY <1>5, <1>6, <1>8 DEF BroughtBack, Loading
<1>10. ThemesSound'
  BY <1>1, <1>2, <1>4, <1>7, EmptyLists DEF ThemesSound
<1> QED
  BY <1>1, <1>9, <1>10

LEMMA ToggleKeeps ==
    ASSUME ThemesSound, NEW i \in Nat, ToggleRow(i)
    PROVE  ThemesSound'
<1> DEFINE f == rows[i].file
<1>1. /\ i \in DOMAIN rows /\ loaded' = Toggled(rows[i])
      /\ rows' = [rows EXCEPT ![i].loaded = ~@]
      /\ savedThemes' = FilesOf(loaded') /\ disk' = disk /\ themesOn' = themesOn /\ probed' = probed
  BY DEF ToggleRow
<1>2. rows \in Seq(RowData) /\ \A j, k \in DOMAIN rows : rows[j].file = rows[k].file => j = k
  BY DEF ThemesSound, RowsSound
<1>3. \A j \in DOMAIN rows : rows[j] \in RowData
  BY <1>2
<1>4. \A j \in DOMAIN rows : rows[j].file \in Paths /\ rows[j].loaded \in BOOLEAN
  BY <1>3, RowFields
<1>5. /\ rows' \in Seq(RowData) /\ DOMAIN rows' = DOMAIN rows
      /\ \A j \in DOMAIN rows : rows'[j].file = rows[j].file /\ (j # i => rows'[j] = rows[j])
      /\ rows'[i].loaded = ~rows[i].loaded
  <2> DEFINE x == [rows[i] EXCEPT !.loaded = ~@]
  <2>1. x \in RowData /\ x.file = f /\ x.loaded = ~rows[i].loaded
    BY <1>1, <1>3 DEF RowData
  <2>2. rows' = [rows EXCEPT ![i] = x]
    BY <1>1
  <2> HIDE DEF x
  <2> QED
    BY <1>1, <1>2, <2>1, <2>2
<1>6. ThemeList(loaded) /\ \A j \in DOMAIN rows : ~rows[j].loaded => ~IsLoaded(loaded, rows[j].file)
  BY DEF ThemesSound, RowsSound
<1>7. f \in Paths /\ rows[i].loaded \in BOOLEAN
  BY <1>1, <1>4
<1>8. rows # <<>> /\ themesOn
  <2>1. rows # <<>>
    BY <1>1
  <2> QED
    BY <2>1 DEF ThemesSound
<1>9. /\ ThemeList(loaded')
      /\ \A g : g # f => (IsLoaded(loaded', g) <=> IsLoaded(loaded, g))
      /\ rows[i].loaded => ~IsLoaded(loaded', f)
  <2>1. CASE ~rows[i].loaded
    <3>1. loaded' = loaded \o ThemeIn(disk, f)
      BY <1>1, <2>1 DEF Toggled
    <3>2. ~IsLoaded(loaded, f)
      BY <1>1, <1>6, <2>1
    <3>3. ThemeList(loaded') /\ \A g, v : g # f => (LoadedAs(loaded', g, v) <=> LoadedAs(loaded, g, v))
      BY <1>6, <1>7, <3>1, <3>2, WithThemeIs
    <3>4. \A g : g # f => (IsLoaded(loaded', g) <=> IsLoaded(loaded, g))
      BY <1>6, <3>3, LoadedMeans
    <3> QED
      BY <2>1, <3>3, <3>4
  <2>2. CASE rows[i].loaded /\ IsLoaded(loaded, f)
    <3>1. loaded' = Unloaded(loaded, f)
      BY <1>1, <2>2 DEF Toggled
    <3>2. /\ ThemeList(loaded') /\ ~IsLoaded(loaded', f)
          /\ \A g, v : g # f => (LoadedAs(loaded', g, v) <=> LoadedAs(loaded, g, v))
      BY <1>6, <2>2, <3>1, UnloadedIs
    <3>3. \A g : g # f => (IsLoaded(loaded', g) <=> IsLoaded(loaded, g))
      BY <1>6, <3>2, LoadedMeans
    <3> QED
      BY <3>2, <3>3
  <2>3. CASE rows[i].loaded /\ ~IsLoaded(loaded, f)
    BY <1>1, <1>6, <2>3 DEF Toggled
  <2> QED
    BY <1>7, <2>1, <2>2, <2>3
<1>10. ASSUME NEW j \in DOMAIN rows', ~rows'[j].loaded PROVE ~IsLoaded(loaded', rows'[j].file)
  <2>1. CASE j = i
    BY <1>1, <1>5, <1>7, <1>9, <1>10, <2>1
  <2>2. CASE j # i
    <3>1. rows'[j] = rows[j] /\ rows[j].file # f
      BY <1>1, <1>2, <1>5, <2>2
    <3> QED
      BY <1>5, <1>6, <1>9, <1>10, <3>1
  <2> QED
    BY <2>1, <2>2
<1>11. RowsSound(rows', loaded')
  BY <1>2, <1>5, <1>10 DEF RowsSound
<1>12. PathList(savedThemes')
  BY <1>1, <1>9, FilesOnce
<1> QED
  BY <1>1, <1>8, <1>9, <1>11, <1>12 DEF ThemesSound

LEMMA StopKeeps ==
    ASSUME ThemesSound, StopPopups
    PROVE  ThemesSound' /\ savedThemes' = FilesOf(loaded)
<1>1. /\ themesOn /\ rows = <<>> /\ themesOn' = FALSE /\ probed' = <<>> /\ savedThemes' = FilesOf(loaded)
      /\ loaded' = <<>> /\ disk' = disk /\ rows' = rows
  BY DEF StopPopups, QuitSaves
<1>2. PathList(savedThemes')
  BY <1>1, FilesOnce DEF ThemesSound
<1> QED
  BY <1>1, <1>2, EmptyLists DEF ThemesSound

\* The contents of the disk after theme_list_copy_cb.
LEMMA CopyMakes ==
    ASSUME ThemesSound, NEW i, CopyRow(i)
    PROVE  disk' \in DiskData
<1> DEFINE f == rows[i].file
<1>1. i \in DOMAIN rows /\ f \in DOMAIN CopyOf /\ disk' = [disk EXCEPT ![CopyOf[f]] = disk[f]]
  BY DEF CopyRow
<1>2. f \in Paths /\ CopyOf[f] \in Paths
  BY <1>1, ThemesAssumption DEF Paths
<1> HIDE DEF f
<1>3. disk \in DiskData
  BY DEF ThemesSound
<1> QED
  BY <1>1, <1>2, <1>3 DEF DiskData

\* A refresh shows the disk as it then is.
Refreshes == OpenPage \/ InstallTheme \/ \E i \in DOMAIN rows : CopyRow(i)
LEMMA RefreshesAre ==
    ASSUME ThemesSound, Refreshes
    PROVE  /\ disk' \in DiskData /\ ShowRefreshed(disk')
           /\ themesOn /\ themesOn' = themesOn /\ savedThemes' = savedThemes
<1>1. CASE OpenPage
  BY <1>1 DEF OpenPage, ThemesSound
<1>2. CASE InstallTheme
  BY <1>2 DEF InstallTheme, ThemesSound
<1>3. ASSUME NEW i \in DOMAIN rows, CopyRow(i)
      PROVE  /\ disk' \in DiskData /\ ShowRefreshed(disk')
             /\ themesOn /\ themesOn' = themesOn /\ savedThemes' = savedThemes
  <2>1. disk' \in DiskData
    BY <1>3, CopyMakes
  <2>2. rows # <<>>
    BY <1>3
  <2>3. themesOn
    BY <2>2 DEF ThemesSound
  <2> QED
    BY <1>3, <2>1, <2>3 DEF CopyRow
<1> QED
  BY <1>1, <1>2, <1>3 DEF Refreshes

LEMMA FilesStay ==
    ASSUME ThemesSound, Refreshes
    PROVE  /\ ToSet(FilesOf(loaded')) = {f \in ToSet(FilesOf(loaded)) : disk'[f] # "broken"}
           /\ \A i \in DOMAIN loaded' :
                Contains(probed', loaded'[i].file) => loaded'[i].version = disk'[loaded'[i].file]
<1> DEFINE d == disk'
           t == Refreshed(d)
<1>1. d \in DiskData /\ loaded' = t.loaded /\ probed' = t.probed
  BY RefreshesAre DEF ShowRefreshed
<1> HIDE DEF d
<1>2. ThemeList(loaded)
  BY DEF ThemesSound
<1>3. /\ ThemeList(t.loaded)
      /\ \A g \in Paths : Contains(t.probed, g) <=> d[g] \in Version
      /\ \A g \in Paths : IsLoaded(t.loaded, g) <=> IsLoaded(loaded, g) /\ d[g] # "broken"
      /\ \A g \in Paths : \A v : LoadedAs(t.loaded, g, v) /\ d[g] \in Version => v = d[g]
  BY <1>1, <1>2, RefreshedIs
<1> HIDE DEF t
<1>4. ToSet(FilesOf(t.loaded)) = {f \in ToSet(FilesOf(loaded)) : d[f] # "broken"}
  <2>1. ToSet(FilesOf(t.loaded)) = {g \in Paths : IsLoaded(t.loaded, g)}
    BY <1>3, FilesOnce
  <2>2. ToSet(FilesOf(loaded)) = {g \in Paths : IsLoaded(loaded, g)}
    BY <1>2, FilesOnce
  <2> QED
    BY <1>3, <2>1, <2>2
<1>5. ASSUME NEW i \in DOMAIN t.loaded, Contains(t.probed, t.loaded[i].file)
      PROVE  t.loaded[i].version = d[t.loaded[i].file]
  <2> DEFINE g == t.loaded[i].file
             v == t.loaded[i].version
  <2>1. t.loaded[i] \in ThemeData
    BY <1>3 DEF ThemeList
  <2>2. g \in Paths
    BY <2>1, ThemeFields
  <2>3. LoadedAs(t.loaded, g, v)
    BY DEF LoadedAs
  <2> QED
    BY <1>3, <1>5, <2>2, <2>3
<1> QED
  BY <1>1, <1>4, <1>5 DEF d

LEMMA SoundMeansOnce ==
    ASSUME ThemesSound'
    PROVE  LoadedOnce'
<1>1. ThemeList(loaded') /\ PathList(probed') /\ RowsSound(rows', loaded') /\ (loaded' # <<>> => themesOn')
  BY DEF ThemesSound
<1>2. IsInjective(FilesOf(loaded'))
  BY <1>1, FilesOnce
<1>3. IsInjective(probed')
  BY <1>1 DEF PathList, Once, IsInjective
<1>4. \A i \in DOMAIN rows' : ~rows'[i].loaded => ~IsLoaded(loaded', rows'[i].file)
  BY <1>1 DEF RowsSound
<1> QED
  BY <1>1, <1>2, <1>3, <1>4 DEF LoadedOnce

LEMMA ThemesStart == ASSUME ThemesInit PROVE ThemesSound
<1>1. PathList(savedThemes)
  <2>1. CASE savedThemes = <<>>
    BY <2>1, EmptyLists
  <2>2. ASSUME NEW f \in Paths, savedThemes = <<f>> PROVE PathList(savedThemes)
    BY <2>2 DEF PathList, Once
  <2> QED
    BY <2>1, <2>2 DEF ThemesInit
<1> QED
  BY <1>1, EmptyLists DEF ThemesInit, ThemesSound, DiskData

\* Every step keeps the invariant, and only some start or stop.
LEMMA ThemesStep ==
    ASSUME ThemesSound, [ThemesNext]_themesVars
    PROVE  /\ ThemesSound'
           /\ themesOn' /\ ~themesOn => StartPopups
           /\ themesOn /\ ~themesOn' => StopPopups
<1>1. CASE StartPopups
  BY <1>1, StartKeeps DEF StartPopups
<1>2. CASE StopPopups
  BY <1>2, StopKeeps DEF StopPopups
<1>3. CASE Refreshes
  <2>1. /\ disk' \in DiskData /\ ShowRefreshed(disk')
        /\ themesOn /\ themesOn' = themesOn /\ savedThemes' = savedThemes
    BY <1>3, RefreshesAre
  <2> QED
    BY <2>1, ShowKeeps
<1>4. CASE ClosePage
  BY <1>4, EmptyLists DEF ClosePage, ThemesSound
<1>5. ASSUME NEW i \in 1..Len(ThemePath), ToggleRow(i) PROVE ThemesSound' /\ themesOn' = themesOn
  <2>1. i \in Nat
    BY PathsAre
  <2> QED
    BY <1>5, <2>1, ToggleKeeps DEF ToggleRow
<1>6. ASSUME NEW i \in 1..Len(ThemePath), CopyRow(i) PROVE Refreshes
  BY <1>6 DEF CopyRow, Refreshes
<1>7. ASSUME NEW f \in Paths, NEW content \in {"none", "broken"} \cup Version, FileChanges(f, content)
      PROVE  ThemesSound' /\ themesOn' = themesOn
  <2>1. disk' = [disk EXCEPT ![f] = content] /\ disk \in DiskData
    BY <1>7 DEF FileChanges, ThemesSound
  <2>2. disk' \in DiskData
    BY <2>1 DEF DiskData
  <2> QED
    BY <1>7, <2>2 DEF FileChanges, ThemesSound
<1>8. CASE UNCHANGED themesVars
  BY <1>8 DEF themesVars, ThemesSound
<1>9. Refreshes \/ OpenPage \/ InstallTheme => Refreshes
  BY DEF Refreshes
<1>10. themesOn \in BOOLEAN
  BY DEF ThemesSound
<1>11. CASE ThemesSound' /\ themesOn' = themesOn
  BY <1>10, <1>11
<1>12. CASE Refreshes
  BY <1>3, <1>12
<1> QED
  <2>1. CASE ThemesNext
    <3>1. CASE \E i \in 1..Len(ThemePath) : ToggleRow(i) \/ CopyRow(i)
      BY <1>5, <1>6, <1>11, <1>12, <3>1
    <3>2. CASE \E f \in Paths, content \in {"none", "broken"} \cup Version : FileChanges(f, content)
      BY <1>7, <1>11, <3>2
    <3>3. CASE StartPopups \/ StopPopups \/ OpenPage \/ ClosePage \/ InstallTheme
      BY <1>1, <1>2, <1>4, <1>9, <1>12, <3>3, Zenon DEF ClosePage
    <3> QED
      BY <2>1, <3>1, <3>2, <3>3 DEF ThemesNext
  <2> QED
    BY <1>8, <2>1, <1>11 DEF themesVars

\* With any theme files, any of which may change, break or go at any time: no file is loaded
\* twice, a start brings back what the last end saved as far as it can be read, in its order,
\* and a refresh of the page drops broken files only and shows the others as they are
\* (gtkntf_theme_probe, gtkntf_themes_load_saved, gtkpref_theme.c).
THEOREM BackAgain == ThemesSpec => ThemesComeBack
<1>1. ThemesInit => ThemesSound
  BY ThemesStart
<1>2. ThemesSound /\ [ThemesNext]_themesVars => ThemesSound'
  BY ThemesStep
<1>3. ThemesSound /\ ThemesSound' /\ [ThemesNext]_themesVars => ComeBack
  <2> SUFFICES ASSUME ThemesSound, ThemesSound', [ThemesNext]_themesVars PROVE ComeBack
    OBVIOUS
  <2>1. LoadedOnce'
    BY SoundMeansOnce
  <2>2. themesOn' /\ ~themesOn => BroughtBack(loaded', savedThemes)
    BY ThemesStep, StartKeeps
  <2>3. themesOn /\ ~themesOn' => savedThemes' = FilesOf(loaded)
    BY ThemesStep, StopKeeps
  <2> QED
    BY <2>1, <2>2, <2>3, FilesStay DEF Refreshes, ComeBack
<1> QED
  BY <1>1, <1>2, <1>3, PTL DEF ThemesSpec, ThemesComeBack

-----------------------------------------------------------------------------
(* Where the items and the tiles of a popup are drawn                       *)

LEMMA OffsetIsInt ==
    ASSUME NEW offset \in Offsets, NEW size \in Nat
    PROVE  OffsetIn(offset, size) \in Int /\ (offset.value = 0 => OffsetIn(offset, size) = 0)
<1>1. offset.value \in Int /\ offset.percentage \in BOOLEAN
  BY DrawingAssumption DEF Offsets
<1>2. \A v \in Int : size * v \in Int /\ Divided(size * v, 100) \in Int
  BY DEF Divided
<1>3. Divided(size * 0, 100) = 0
  BY DEF Divided
<1> QED
  BY <1>1, <1>2, <1>3 DEF OffsetIn

\* A position is a number, and an item that fits and has no offset lies inside the popup.
LEMMA PositionIsInt ==
    ASSUME NEW end \in {"low", "middle", "high"}, NEW item \in Nat, NEW size \in Nat, NEW offset \in Offsets
    PROVE  /\ RenderPosition(end, item, size, offset) \in Int
           /\ offset.value = 0 /\ item <= size =>
                /\ RenderPosition(end, item, size, offset) >= 0
                /\ RenderPosition(end, item, size, offset) + item <= size
<1> DEFINE o == OffsetIn(offset, size)
<1>1. o \in Int /\ (offset.value = 0 => o = 0)
  BY OffsetIsInt
<1> HIDE DEF o
<1>2. CASE end = "low"
  <2>1. RenderPosition(end, item, size, offset) = o
    BY <1>2 DEF RenderPosition, o
  <2> QED
    BY <1>1, <2>1
<1>3. CASE end = "middle"
  <2>1. RenderPosition(end, item, size, offset) = size \div 2 - item \div 2 + o
    BY <1>3 DEF RenderPosition, o
  <2> QED
    BY <1>1, <2>1
<1>4. CASE end = "high"
  <2>1. RenderPosition(end, item, size, offset) = size - item + o
    BY <1>4 DEF RenderPosition, o
  <2> QED
    BY <1>1, <2>1
<1> QED
  BY <1>2, <1>3, <1>4

\* What is drawn of an item lies inside the popup and is read inside the item.
LEMMA ItemPainted ==
    ASSUME NEW x \in Int, NEW item \in Nat \ {0}, NEW size \in Nat \ {0}, NEW r,
           r = ClipComposite(x, item, size), r # NothingDrawn \/ (x + item > 0 /\ x < size)
    PROVE  /\ r.at >= 0 /\ r.at + r.width <= size
           /\ r.from >= 0 /\ r.from + r.width <= item
           /\ r.width > 0 => r.at = x + r.from
           /\ x >= 0 /\ x + item <= size => r.width = item
           /\ ~(x < 0 /\ x + item > size) /\ x + item > 0 /\ x < size =>
                \A column \in 0 .. size - 1 :
                  (column \in x .. x + item - 1) <=>
                  (column \in r.at .. r.at + r.width - 1)
<1> DEFINE from  == IF x < 0 THEN -x ELSE 0
           at    == IF x < 0 THEN 0 ELSE x
           width == IF x < 0 THEN item + x ELSE item
           visible == IF at + width > size THEN size - (from + at) ELSE width
<1>1. r = IF x >= size \/ x + item <= 0 \/ visible <= 0 THEN NothingDrawn
          ELSE [from |-> from, at |-> at, width |-> visible]
  BY DEF ClipComposite
<1>2. CASE x >= size \/ x + item <= 0
  BY <1>1, <1>2
<1>3. CASE x < size /\ x + item > 0 /\ visible <= 0
  <2>1. x < 0 /\ x + item > size /\ r = NothingDrawn
    BY <1>1, <1>3
  <2> QED
    BY <2>1 DEF NothingDrawn
<1>4. CASE x < size /\ x + item > 0 /\ visible > 0
  <2>1. r = [from |-> from, at |-> at, width |-> visible] /\ visible \in Int
    BY <1>1, <1>4
  <2>2. r.from = from /\ r.at = at /\ r.width = visible
    BY <2>1
  <2> QED
    BY <1>4, <2>2
<1> QED
  BY <1>2, <1>3, <1>4

LEMMA TimesGrows ==
    ASSUME NEW a \in Nat, NEW b \in Nat, NEW t \in Nat, a <= b
    PROVE  a * t <= b * t
<1>1. (b - a) * t \in Nat /\ (b - a) \in Nat
  OBVIOUS
<1>2. b * t = a * t + (b - a) * t
  OBVIOUS
<1> QED
  BY <1>1, <1>2

LEMMA Quotient ==
    ASSUME NEW a \in Nat, NEW b \in Nat \ {0}
    PROVE  \E q \in Nat : q = a \div b /\ q * b <= a /\ a < q * b + b
<1>1. a \div b \in Nat
  OBVIOUS
<1>2. (a \div b) * b <= a
  OBVIOUS
<1>3. a < (a \div b) * b + b
  OBVIOUS
<1> QED
  BY <1>1, <1>2, <1>3

\* Each column of the popup is copied from one tile.
LEMMA TilesCover ==
    ASSUME NEW size \in Nat \ {0}, NEW tile \in Nat \ {0}, NEW r, r = PixbufTile(size, tile),
           NEW column \in 0 .. size - 1
    PROVE  Cardinality({i \in DOMAIN r : column \in r[i].at .. r[i].at + r[i].width - 1}) = 1
<1> DEFINE last == (size + tile - 1) \div tile
           T == {i \in DOMAIN r : column \in r[i].at .. r[i].at + r[i].width - 1}
<1>1. PICK q \in Nat : q * tile <= column /\ column < q * tile + tile
  <2>1. column \in Nat
    OBVIOUS
  <2> QED
    BY <2>1, Quotient
<1>2. last \in Nat /\ last * tile <= size + tile - 1 /\ size + tile - 1 < last * tile + tile
  <2>1. size + tile - 1 \in Nat
    OBVIOUS
  <2>2. PICK l \in Nat : l = last /\ l * tile <= size + tile - 1 /\ size + tile - 1 < l * tile + tile
    BY <2>1, Quotient
  <2> QED
    BY <2>2
<1>3. DOMAIN r = 1 .. last
  BY DEF PixbufTile
<1>4. \A i \in 1 .. last : r[i].at = (i - 1) * tile
                          /\ r[i].width = IF i * tile < size THEN tile ELSE size - (i - 1) * tile
  BY DEF PixbufTile
<1> HIDE DEF last
<1>5. \A i \in Nat \ {0} : i * tile \in Nat /\ (i - 1) * tile = i * tile - tile
  OBVIOUS
<1>6. \A i \in T : i = q + 1
  <2> SUFFICES ASSUME NEW i \in T PROVE i = q + 1
    OBVIOUS
  <2>1. i \in 1 .. last /\ i \in Nat \ {0}
    BY <1>2, <1>3
  <2>2. i * tile - tile <= column /\ column < i * tile
    BY <1>4, <1>5, <2>1
  <2>3. CASE i <= q
    <3>1. i * tile <= q * tile /\ i * tile \in Nat /\ q * tile \in Nat
      BY <2>1, <2>3, TimesGrows
    <3> QED
      BY <1>1, <2>2, <3>1
  <2>4. CASE q + 2 <= i
    <3>1. (q + 2) * tile <= i * tile /\ (q + 2) * tile = q * tile + 2 * tile
      BY <2>1, <2>4, TimesGrows
    <3>2. i * tile \in Nat /\ q * tile \in Nat /\ 2 * tile = tile + tile
      BY <2>1
    <3> QED
      BY <1>1, <2>2, <3>1, <3>2
  <2> QED
    BY <2>1, <2>3, <2>4
<1>7. q + 1 \in T
  <2>1. q + 1 \in 1 .. last
    <3>1. CASE last <= q
      <4>1. last * tile <= q * tile /\ last * tile \in Nat /\ q * tile \in Nat
        BY <1>2, <3>1, TimesGrows
      <4> QED
        BY <1>1, <1>2, <4>1
    <3> QED
      BY <1>2, <3>1
  <2>2. (q + 1) * tile = q * tile + tile /\ (q + 1) - 1 = q /\ q * tile \in Nat
    OBVIOUS
  <2>3. r[q + 1].at = q * tile
        /\ r[q + 1].width = IF q * tile + tile < size THEN tile ELSE size - q * tile
    BY <1>4, <2>1, <2>2
  <2> QED
    BY <1>1, <1>3, <2>1, <2>2, <2>3
<1>8. T = {q + 1}
  BY <1>6, <1>7
<1> HIDE DEF T
<1>9. Cardinality(T) = 1
  BY <1>8, FS_Singleton
<1> QED
  BY <1>9 DEF T

-----------------------------------------------------------------------------
(* The text of a format                                                     *)

NothingRead == [text |-> <<>>, percent |-> FALSE]
Reading(format, tokens) ==
    CHOOSE f : f = [i \in 0 .. Len(format) |->
                      IF i = 0 THEN NothingRead ELSE ReadChar(format[i], tokens, f[i - 1])]

\* The characters are read one after the other.
LEMMA ReadingExists ==
    ASSUME NEW format, Len(format) \in Nat, NEW tokens
    PROVE  LET after == Reading(format, tokens)
           IN  /\ ParseFormat(format, tokens) = after[Len(format)].text
               /\ after[0] = NothingRead
               /\ \A i \in 1 .. Len(format) : after[i] = ReadChar(format[i], tokens, after[i - 1])
<1> DEFINE n == Len(format)
           Further(i, so) == ReadChar(format[i], tokens, so)
           Fits(f, m) == f = [i \in 0 .. m |-> IF i = 0 THEN NothingRead ELSE Further(i, f[i - 1])]
           S == {m \in Nat : \E f : Fits(f, m)}
           after == Reading(format, tokens)
<1>1. after = CHOOSE f : Fits(f, n)
  BY DEF Reading
<1>2. ParseFormat(format, tokens) = after[n].text
  BY Zenon DEF ParseFormat, Reading, NothingRead
<1> HIDE DEF Further, after
<1>3. 0 \in S
  <2>1. Fits([i \in 0 .. 0 |-> NothingRead], 0)
    OBVIOUS
  <2> QED
    BY <2>1
<1>4. ASSUME NEW m \in Nat, m \in S PROVE m + 1 \in S
  <2>1. PICK f : Fits(f, m)
    BY <1>4
  <2> DEFINE e == Further(m + 1, f[m])
             g == [i \in 0 .. m + 1 |-> IF i <= m THEN f[i] ELSE e]
  <2>2. \A i \in 0 .. m : f[i] = IF i = 0 THEN NothingRead ELSE Further(i, f[i - 1])
    BY <2>1
  <2>3. g[m + 1] = e /\ \A i \in 0 .. m : g[i] = f[i]
    OBVIOUS
  <2>4. g = [i \in 0 .. m + 1 |-> g[i]]
    OBVIOUS
  <2>5. e = Further(m + 1, f[m])
    OBVIOUS
  <2> HIDE DEF g, e
  <2>6. ASSUME NEW i \in 0 .. m + 1 PROVE g[i] = IF i = 0 THEN NothingRead ELSE Further(i, g[i - 1])
    <3>1. CASE i = m + 1
      <4>1. i # 0 /\ i - 1 = m /\ g[m] = f[m]
        BY <2>3, <3>1
      <4> QED
        BY <2>3, <2>5, <3>1, <4>1, Zenon
    <3>2. CASE i \in 1 .. m
      <4>1. g[i] = f[i] /\ g[i - 1] = f[i - 1] /\ i # 0 /\ i \in 0 .. m
        BY <2>3, <3>2
      <4> QED
        BY <2>2, <4>1, Zenon
    <3>3. CASE i = 0
      BY <2>2, <2>3, <3>3
    <3> QED
      BY <3>1, <3>2, <3>3
  <2>7. Fits(g, m + 1)
    BY <2>4, <2>6
  <2> QED
    BY <2>7
<1>5. \A m \in Nat : m \in S
  <2> HIDE DEF S
  <2> QED
    BY <1>3, <1>4, Induct
<1>6. \E f : Fits(f, n)
  BY <1>5
<1>7. Fits(after, n)
  BY <1>1, <1>6, Zenon
<1>8. \A i \in 0 .. n : after[i] = IF i = 0 THEN NothingRead ELSE Further(i, after[i - 1])
  BY <1>7
<1>9. after[0] = NothingRead /\ \A i \in 1 .. n : after[i] = Further(i, after[i - 1])
  <2>1. 0 \in 0 .. n /\ \A i \in 1 .. n : i \in 0 .. n /\ i # 0
    OBVIOUS
  <2> QED
    BY <1>8, <2>1
<1> QED
  BY <1>2, <1>9, Zenon DEF Further, after

\* What one character does to what was read before it.
LEMMA ReadCharIs ==
    ASSUME NEW c, NEW tokens, NEW so
    PROVE  LET r == ReadChar(c, tokens, so) IN
           /\ r = [text |-> r.text, percent |-> r.percent] /\ r.percent \in BOOLEAN
           /\ r.percent => c = "%"
BY DEF ReadChar

LEMMA FirstIs ==
    ASSUME NEW T, NEW s \in Seq(T), NEW n \in 0 .. Len(s)
    PROVE  /\ FirstOf(s, n) \in Seq(T) /\ Len(FirstOf(s, n)) = n
           /\ \A i \in 1 .. n : FirstOf(s, n)[i] = s[i]
BY DEF FirstOf

LEMMA LastIs ==
    ASSUME NEW T, NEW s \in Seq(T), NEW n \in 0 .. Len(s)
    PROVE  /\ LastOf(s, n) \in Seq(T) /\ Len(LastOf(s, n)) = n
           /\ \A i \in 1 .. n : LastOf(s, n)[i] = s[Len(s) - n + i]
BY DEF LastOf

LEMMA JoinIs ==
    ASSUME NEW T, NEW s \in Seq(T), NEW t \in Seq(T)
    PROVE  /\ s \o t \in Seq(T) /\ Len(s \o t) = Len(s) + Len(t) /\ Len(s) \in Nat /\ Len(t) \in Nat
           /\ \A i \in 1 .. Len(s) : (s \o t)[i] = s[i]
           /\ \A i \in 1 .. Len(t) : (s \o t)[Len(s) + i] = t[i]
OBVIOUS

\* A token the event does not offer leaves no trace in the text of a format.
LEMMA TokenLeavesNothing ==
    ASSUME NEW T, NEW format \in Seq(T), NEW tokens, NEW i \in 1 .. Len(format) - 1,
           format[i] = "%", format[i + 1] \notin tokens, i > 1 => format[i - 1] # "%"
    PROVE  ParseFormat(format, tokens)
             = ParseFormat(FirstOf(format, i - 1) \o LastOf(format, Len(format) - i - 1), tokens)
<1> DEFINE n == Len(format)
           head == FirstOf(format, i - 1)
           tail == LastOf(format, n - i - 1)
           shorter == head \o tail
           after == Reading(format, tokens)
           short == Reading(shorter, tokens)
<1>1. n \in Nat /\ i \in Nat /\ i - 1 \in 0 .. n /\ n - i - 1 \in 0 .. n
  OBVIOUS
<1>2. head \in Seq(T) /\ Len(head) = i - 1 /\ \A j \in 1 .. i - 1 : head[j] = format[j]
  BY <1>1, FirstIs
<1>3. tail \in Seq(T) /\ Len(tail) = n - i - 1 /\ \A j \in 1 .. n - i - 1 : tail[j] = format[n - (n - i - 1) + j]
  BY <1>1, LastIs
<1> HIDE DEF head, tail
<1>4. /\ shorter \in Seq(T) /\ Len(shorter) = n - 2
      /\ \A j \in 1 .. i - 1 : shorter[j] = format[j]
      /\ \A j \in i .. n - 2 : shorter[j] = format[j + 2]
  <2>1. /\ shorter \in Seq(T) /\ Len(shorter) = (i - 1) + (n - i - 1)
        /\ \A j \in 1 .. i - 1 : shorter[j] = head[j]
        /\ \A j \in 1 .. n - i - 1 : shorter[(i - 1) + j] = tail[j]
    <3>1. head \in Seq(T) /\ tail \in Seq(T)
      BY <1>2, <1>3
    <3>2. /\ head \o tail \in Seq(T) /\ Len(head \o tail) = Len(head) + Len(tail)
          /\ \A j \in 1 .. Len(head) : (head \o tail)[j] = head[j]
          /\ \A j \in 1 .. Len(tail) : (head \o tail)[Len(head) + j] = tail[j]
      BY ONLY <3>1, JoinIs
    <3>3. shorter = head \o tail
      OBVIOUS
    <3> HIDE DEF shorter, n
    <3> QED
      BY <1>2, <1>3, <3>2, <3>3, Zenon
  <2> HIDE DEF shorter
  <2>2. ASSUME NEW j \in i .. n - 2 PROVE shorter[j] = format[j + 2]
    <3> DEFINE k == j - (i - 1)
    <3>1. k \in 1 .. n - i - 1 /\ (i - 1) + k = j /\ n - (n - i - 1) + k = j + 2
      BY <1>1
    <3> QED
      <4> HIDE DEF k
      <4>1. shorter[(i - 1) + k] = tail[k] /\ tail[k] = format[n - (n - i - 1) + k]
        BY <1>3, <2>1, <3>1
      <4> QED
        BY <3>1, <4>1
  <2>3. (i - 1) + (n - i - 1) = n - 2
    BY <1>1
  <2> HIDE DEF n
  <2> QED
    BY <1>1, <1>2, <2>1, <2>2, <2>3
<1> HIDE DEF shorter
<1>5. /\ ParseFormat(format, tokens) = after[n].text /\ after[0] = NothingRead
      /\ \A j \in 1 .. n : after[j] = ReadChar(format[j], tokens, after[j - 1])
  BY <1>1, ReadingExists
<1>6. /\ ParseFormat(shorter, tokens) = short[n - 2].text /\ short[0] = NothingRead
      /\ \A j \in 1 .. n - 2 : short[j] = ReadChar(shorter[j], tokens, short[j - 1])
  <2>1. Len(shorter) \in Nat
    BY <1>1, <1>4
  <2> QED
    BY <1>4, <2>1, ReadingExists
<1> HIDE DEF n, after, short
<1>7. i + 1 \in 1 .. n /\ i \in 1 .. n /\ i - 1 \in 0 .. n /\ n - 2 \in Nat /\ i - 1 <= n - 2 /\ (i + 1) - 1 = i
  BY <1>1 DEF n
<1>8. after[i + 1] = after[i - 1]
  <2>1. after[i - 1] = [text |-> after[i - 1].text, percent |-> FALSE]
    <3>1. CASE i = 1
      <4>1. i - 1 = 0
        BY <3>1
      <4>2. after[i - 1] = [text |-> <<>>, percent |-> FALSE]
        BY <1>5, <4>1 DEF NothingRead
      <4> QED
        BY <4>2
    <3>2. CASE i > 1
      <4>1. i - 1 \in 1 .. n
        BY <1>7, <3>2
      <4>2. after[i - 1] = ReadChar(format[i - 1], tokens, after[i - 1 - 1])
        BY <1>5, <4>1
      <4>3. ~ after[i - 1].percent /\ after[i - 1].percent \in BOOLEAN
            /\ after[i - 1] = [text |-> after[i - 1].text, percent |-> after[i - 1].percent]
        BY <3>2, <4>2, ReadCharIs
      <4> QED
        BY <4>3
    <3> QED
      BY <1>1, <3>1, <3>2
  <2>2. after[i] = [text |-> after[i - 1].text, percent |-> TRUE]
    <3>1. after[i] = ReadChar(format[i], tokens, after[i - 1])
      BY <1>5, <1>7
    <3>2. ~ after[i - 1].percent
      BY <2>1
    <3> QED
      BY <3>1, <3>2 DEF ReadChar
  <2>3. after[i + 1] = ReadChar(format[i + 1], tokens, after[i])
    BY <1>5, <1>7
  <2>4. after[i + 1] = [text |-> after[i].text, percent |-> FALSE]
    <3>1. after[i].percent
      BY <2>2
    <3> QED
      BY <2>3, <3>1 DEF ReadChar
  <2> QED
    BY <2>1, <2>2, <2>4
<1> DEFINE S == {j \in Nat : /\ j <= i - 1 => short[j] = after[j]
                             /\ j >= i - 1 /\ j <= n - 2 => short[j] = after[j + 2]}
<1>9. 0 \in S
  <2>1. short[0] = after[0]
    BY <1>5, <1>6
  <2>2. i - 1 = 0 => short[0] = after[0 + 2]
    BY <1>8, <2>1
  <2> QED
    BY <1>1, <2>1, <2>2
<1>10. ASSUME NEW j \in Nat, j \in S PROVE j + 1 \in S
  <2>1. CASE j + 1 <= i - 1
    <3>1. j + 1 \in 1 .. n /\ j + 1 \in 1 .. n - 2 /\ j + 1 \in 1 .. i - 1 /\ (j + 1) - 1 = j /\ j <= i - 1
      BY <1>1, <1>7, <2>1
    <3>2. short[j + 1] = after[j + 1]
      <4>1. short[j] = after[j]
        BY <1>10, <3>1
      <4> QED
        BY <1>4, <1>5, <1>6, <3>1, <4>1
    <3>3. j + 1 = i - 1 => short[j + 1] = after[j + 1 + 2]
      <4>1. j + 1 = i - 1 => j + 1 + 2 = i + 1
        BY <1>1
      <4> QED
        BY <1>8, <3>2, <4>1
    <3> QED
      BY <1>1, <2>1, <3>2, <3>3
  <2>2. CASE j + 1 > i - 1
    <3> SUFFICES ASSUME j + 1 <= n - 2 PROVE short[j + 1] = after[j + 1 + 2]
      BY <1>1, <2>2
    <3>1. j + 1 \in i .. n - 2 /\ j + 1 \in 1 .. n - 2 /\ (j + 1) - 1 = j /\ j >= i - 1 /\ j <= n - 2
          /\ j + 1 + 2 \in 1 .. n /\ (j + 1 + 2) - 1 = j + 2
      BY <1>1, <1>7, <2>2
    <3>2. short[j] = after[j + 2]
      BY <1>10, <3>1
    <3>3. short[j + 1] = ReadChar(shorter[j + 1], tokens, short[j])
      BY <1>6, <3>1
    <3>4. after[j + 1 + 2] = ReadChar(format[j + 1 + 2], tokens, after[j + 2])
      BY <1>5, <3>1
    <3>5. shorter[j + 1] = format[j + 1 + 2]
      BY <1>4, <3>1
    <3> QED
      BY <3>2, <3>3, <3>4, <3>5
  <2> QED
    BY <1>1, <2>1, <2>2
<1>11. \A j \in Nat : j \in S
  <2> HIDE DEF S
  <2> QED
    BY <1>9, <1>10, Induct
<1>12. short[n - 2] = after[n]
  <2>1. n - 2 \in S /\ n - 2 >= i - 1 /\ (n - 2) + 2 = n
    BY <1>1, <1>7, <1>11
  <2> QED
    BY <1>7, <2>1
<1>13. ParseFormat(format, tokens) = ParseFormat(shorter, tokens)
  BY <1>5, <1>6, <1>12
<1> QED
  BY <1>13 DEF shorter, head, tail, n

-----------------------------------------------------------------------------
(* The width of a text                                                      *)

Widths(s) == CHOOSE f : f = [n \in 0 .. Len(s) |-> IF n = 0 THEN 0 ELSE f[n - 1] + CharWidth(s[n])]

\* The width is a sum from left to right.
LEMMA WidthsExist ==
    ASSUME NEW s, Len(s) \in Nat
    PROVE  /\ TextWidth(s) = Widths(s)[Len(s)] /\ Widths(s)[0] = 0
           /\ \A i \in 1 .. Len(s) : Widths(s)[i] = Widths(s)[i - 1] + CharWidth(s[i])
<1> DEFINE n == Len(s)
           Further(i, w) == w + CharWidth(s[i])
           Fits(f, m) == f = [i \in 0 .. m |-> IF i = 0 THEN 0 ELSE Further(i, f[i - 1])]
           S == {m \in Nat : \E f : Fits(f, m)}
           width == Widths(s)
<1>1. width = CHOOSE f : Fits(f, n)
  BY DEF Widths
<1>2. TextWidth(s) = width[n]
  BY Zenon DEF TextWidth, Widths
<1> HIDE DEF Further, width
<1>3. 0 \in S
  <2>1. Fits([i \in 0 .. 0 |-> 0], 0)
    OBVIOUS
  <2> QED
    BY <2>1
<1>4. ASSUME NEW m \in Nat, m \in S PROVE m + 1 \in S
  <2>1. PICK f : Fits(f, m)
    BY <1>4
  <2> DEFINE e == Further(m + 1, f[m])
             g == [i \in 0 .. m + 1 |-> IF i <= m THEN f[i] ELSE e]
  <2>2. \A i \in 0 .. m : f[i] = IF i = 0 THEN 0 ELSE Further(i, f[i - 1])
    BY <2>1
  <2>3. g[m + 1] = e /\ \A i \in 0 .. m : g[i] = f[i]
    OBVIOUS
  <2>4. g = [i \in 0 .. m + 1 |-> g[i]]
    OBVIOUS
  <2>5. e = Further(m + 1, f[m])
    OBVIOUS
  <2> HIDE DEF g, e
  <2>6. ASSUME NEW i \in 0 .. m + 1 PROVE g[i] = IF i = 0 THEN 0 ELSE Further(i, g[i - 1])
    <3>1. CASE i = m + 1
      <4>1. i # 0 /\ i - 1 = m /\ g[m] = f[m]
        BY <2>3, <3>1
      <4> QED
        BY <2>3, <2>5, <3>1, <4>1, Zenon
    <3>2. CASE i \in 1 .. m
      <4>1. g[i] = f[i] /\ g[i - 1] = f[i - 1] /\ i # 0 /\ i \in 0 .. m
        BY <2>3, <3>2
      <4> QED
        BY <2>2, <4>1, Zenon
    <3>3. CASE i = 0
      BY <2>2, <2>3, <3>3
    <3> QED
      BY <3>1, <3>2, <3>3
  <2>7. Fits(g, m + 1)
    BY <2>4, <2>6
  <2> QED
    BY <2>7
<1>5. \A m \in Nat : m \in S
  <2> HIDE DEF S
  <2> QED
    BY <1>3, <1>4, Induct
<1>6. \E f : Fits(f, n)
  BY <1>5
<1>7. Fits(width, n)
  BY <1>1, <1>6, Zenon
<1>8. \A i \in 0 .. n : width[i] = IF i = 0 THEN 0 ELSE Further(i, width[i - 1])
  BY <1>7
<1>9. width[0] = 0 /\ \A i \in 1 .. n : width[i] = Further(i, width[i - 1])
  <2>1. 0 \in 0 .. n /\ \A i \in 1 .. n : i \in 0 .. n /\ i # 0
    OBVIOUS
  <2> QED
    BY <1>8, <2>1
<1> QED
  BY <1>2, <1>9, Zenon DEF Further, width

LEMMA CharIsWide == \A c : CharWidth(c) \in Nat
BY DEF CharWidth

LEMMA WidthsAre ==
    ASSUME NEW s, Len(s) \in Nat
    PROVE  TextWidth(s) \in Nat /\ \A i \in 0 .. Len(s) : Widths(s)[i] \in Nat
<1> DEFINE n == Len(s)
           width == Widths(s)
           S == {i \in Nat : i <= n => width[i] \in Nat}
<1>1. /\ TextWidth(s) = width[n] /\ width[0] = 0
      /\ \A i \in 1 .. n : width[i] = width[i - 1] + CharWidth(s[i])
  BY WidthsExist
<1> HIDE DEF width
<1>2. 0 \in S
  BY <1>1
<1>3. ASSUME NEW i \in Nat, i \in S PROVE i + 1 \in S
  <2> SUFFICES ASSUME i + 1 <= n PROVE width[i + 1] \in Nat
    OBVIOUS
  <2>1. i + 1 \in 1 .. n /\ (i + 1) - 1 = i /\ width[i] \in Nat
    BY <1>3
  <2>2. width[i + 1] = width[i] + CharWidth(s[i + 1])
    BY <1>1, <2>1
  <2> QED
    BY <2>1, <2>2, CharIsWide
<1>4. \A i \in Nat : i \in S
  <2> HIDE DEF S
  <2> QED
    BY <1>2, <1>3, Induct
<1>5. \A i \in 0 .. n : width[i] \in Nat
  BY <1>4
<1> QED
  BY <1>1, <1>5 DEF width

\* The width of two texts side by side is the sum of their widths.
LEMMA WidthOfJoined ==
    ASSUME NEW T, NEW s \in Seq(T), NEW t \in Seq(T)
    PROVE  TextWidth(s \o t) = TextWidth(s) + TextWidth(t)
<1> DEFINE m == Len(s)
           n == Len(t)
           u == s \o t
           first == Widths(s)
           then == Widths(t)
           both == Widths(u)
<1>1. /\ Len(u) = m + n /\ m \in Nat /\ n \in Nat
      /\ \A i \in 1 .. m : u[i] = s[i]
      /\ \A i \in 1 .. n : u[m + i] = t[i]
  BY JoinIs
<1> HIDE DEF u
<1>2. /\ TextWidth(s) = first[m] /\ first[0] = 0
      /\ \A i \in 1 .. m : first[i] = first[i - 1] + CharWidth(s[i])
  BY <1>1, WidthsExist
<1>3. /\ TextWidth(t) = then[n] /\ then[0] = 0
      /\ \A i \in 1 .. n : then[i] = then[i - 1] + CharWidth(t[i])
  BY <1>1, WidthsExist
<1>4. /\ TextWidth(u) = both[m + n] /\ both[0] = 0
      /\ \A i \in 1 .. m + n : both[i] = both[i - 1] + CharWidth(u[i])
  <2>1. Len(u) \in Nat
    BY <1>1
  <2> QED
    BY <1>1, <2>1, WidthsExist
<1>5. first[m] \in Nat /\ \A i \in 0 .. n : then[i] \in Nat
  <2>1. \A i \in 0 .. Len(s) : Widths(s)[i] \in Nat
    BY <1>1, WidthsAre
  <2>2. \A i \in 0 .. Len(t) : Widths(t)[i] \in Nat
    BY <1>1, WidthsAre
  <2> QED
    BY <1>1, <2>1, <2>2
<1> HIDE DEF m, n, first, then, both
<1> DEFINE S == {i \in Nat : i <= m => both[i] = first[i]}
           Q == {i \in Nat : i <= n => both[m + i] = first[m] + then[i]}
<1>6. 0 \in S
  BY <1>2, <1>4
<1>7. ASSUME NEW i \in Nat, i \in S PROVE i + 1 \in S
  <2> SUFFICES ASSUME i + 1 <= m PROVE both[i + 1] = first[i + 1]
    OBVIOUS
  <2>1. i + 1 \in 1 .. m /\ i + 1 \in 1 .. m + n /\ (i + 1) - 1 = i /\ both[i] = first[i]
    BY <1>1, <1>7
  <2> QED
    BY <1>1, <1>2, <1>4, <2>1
<1>8. both[m] = first[m]
  <2>1. \A i \in Nat : i \in S
    <3> HIDE DEF S
    <3> QED
      BY <1>6, <1>7, Induct
  <2> QED
    BY <1>1, <2>1
<1>9. 0 \in Q
  <2>1. m + 0 = m
    BY <1>1
  <2> QED
    BY <1>3, <1>5, <1>8, <2>1
<1>10. ASSUME NEW i \in Nat, i \in Q PROVE i + 1 \in Q
  <2> SUFFICES ASSUME i + 1 <= n PROVE both[m + (i + 1)] = first[m] + then[i + 1]
    OBVIOUS
  <2>1. /\ i + 1 \in 1 .. n /\ m + (i + 1) \in 1 .. m + n /\ (i + 1) - 1 = i /\ i \in 0 .. n
        /\ (m + (i + 1)) - 1 = m + i /\ both[m + i] = first[m] + then[i]
    BY <1>1, <1>10
  <2>2. both[m + (i + 1)] = both[m + i] + CharWidth(u[m + (i + 1)])
    BY <1>4, <2>1
  <2>3. then[i + 1] = then[i] + CharWidth(t[i + 1])
    BY <1>3, <2>1
  <2>4. u[m + (i + 1)] = t[i + 1]
    BY <1>1, <2>1
  <2>5. CharWidth(t[i + 1]) \in Nat /\ then[i] \in Nat
    BY <1>5, <2>1, CharIsWide
  <2> QED
    BY <1>5, <2>1, <2>2, <2>3, <2>4, <2>5
<1>11. both[m + n] = first[m] + then[n]
  <2>1. \A i \in Nat : i \in Q
    <3> HIDE DEF Q
    <3> QED
      BY <1>9, <1>10, Induct
  <2> QED
    BY <1>1, <2>1
<1> QED
  BY <1>2, <1>3, <1>4, <1>11 DEF u

LEMMA WidthOfNothing == TextWidth(<<>>) = 0
<1>1. Len(<<>>) = 0
  OBVIOUS
<1> QED
  BY <1>1, WidthsExist

LEMMA WidthOfDots == TextWidth(<<Dots>>) = 1
<1>1. Len(<<Dots>>) = 1 /\ <<Dots>>[1] = Dots
  OBVIOUS
<1>2. CharWidth(Dots) = 1
  BY DEF CharWidth
<1>3. TextWidth(<<Dots>>) = Widths(<<Dots>>)[1] /\ Widths(<<Dots>>)[0] = 0
      /\ Widths(<<Dots>>)[1] = Widths(<<Dots>>)[1 - 1] + CharWidth(<<Dots>>[1])
  <2>1. 1 \in 1 .. 1 /\ Len(<<Dots>>) \in Nat
    BY <1>1
  <2> QED
    BY <1>1, <2>1, WidthsExist
<1>4. 1 - 1 = 0
  OBVIOUS
<1> QED
  BY <1>1, <1>2, <1>3, <1>4

-----------------------------------------------------------------------------
(* The ends of a text                                                       *)

LEMMA SameText ==
    ASSUME NEW T, NEW s \in Seq(T), NEW t \in Seq(T), Len(s) = Len(t), \A i \in 1 .. Len(s) : s[i] = t[i]
    PROVE  s = t
BY SeqEqual

LEMMA FirstOfFirst ==
    ASSUME NEW T, NEW s \in Seq(T), NEW n \in 0 .. Len(s), NEW m \in 0 .. n
    PROVE  FirstOf(FirstOf(s, n), m) = FirstOf(s, m)
<1> DEFINE a == FirstOf(s, n)
           b == FirstOf(a, m)
           c == FirstOf(s, m)
<1>1. m \in 0 .. Len(s)
  OBVIOUS
<1>2. a \in Seq(T) /\ Len(a) = n /\ \A i \in 1 .. n : a[i] = s[i]
  BY FirstIs
<1>3. c \in Seq(T) /\ Len(c) = m /\ \A i \in 1 .. m : c[i] = s[i]
  BY <1>1, FirstIs
<1> HIDE DEF a
<1>4. b \in Seq(T) /\ Len(b) = m /\ \A i \in 1 .. m : b[i] = a[i]
  BY <1>2, FirstIs
<1> HIDE DEF b, c
<1>5. \A i \in 1 .. m : b[i] = c[i]
  BY <1>2, <1>3, <1>4
<1>6. b = c
  BY <1>3, <1>4, <1>5, SameText
<1> QED
  BY <1>6 DEF a, b, c

LEMMA LastOfLast ==
    ASSUME NEW T, NEW s \in Seq(T), NEW n \in 0 .. Len(s), NEW m \in 0 .. n
    PROVE  LastOf(LastOf(s, n), m) = LastOf(s, m)
<1> DEFINE a == LastOf(s, n)
           b == LastOf(a, m)
           c == LastOf(s, m)
<1>1. m \in 0 .. Len(s)
  OBVIOUS
<1>2. a \in Seq(T) /\ Len(a) = n /\ \A i \in 1 .. n : a[i] = s[Len(s) - n + i]
  BY LastIs
<1>3. c \in Seq(T) /\ Len(c) = m /\ \A i \in 1 .. m : c[i] = s[Len(s) - m + i]
  BY <1>1, LastIs
<1> HIDE DEF a
<1>4. b \in Seq(T) /\ Len(b) = m /\ \A i \in 1 .. m : b[i] = a[n - m + i]
  BY <1>2, LastIs
<1> HIDE DEF b, c
<1>5. ASSUME NEW i \in 1 .. m PROVE b[i] = c[i]
  <2>1. n - m + i \in 1 .. n /\ Len(s) - n + (n - m + i) = Len(s) - m + i
    OBVIOUS
  <2>2. b[i] = a[n - m + i] /\ a[n - m + i] = s[Len(s) - n + (n - m + i)]
    BY <1>2, <1>4, <2>1
  <2> QED
    BY <1>3, <2>1, <2>2
<1>6. b = c
  BY <1>3, <1>4, <1>5, SameText
<1> QED
  BY <1>6 DEF a, b, c

LEMMA FirstOfJoined ==
    ASSUME NEW T, NEW s \in Seq(T), NEW t \in Seq(T), NEW n \in 0 .. Len(s)
    PROVE  FirstOf(s \o t, n) = FirstOf(s, n)
<1> DEFINE u == s \o t
           b == FirstOf(u, n)
           c == FirstOf(s, n)
<1>1. /\ u \in Seq(T) /\ Len(u) = Len(s) + Len(t) /\ Len(s) \in Nat /\ Len(t) \in Nat
      /\ \A i \in 1 .. Len(s) : u[i] = s[i]
  BY JoinIs
<1>2. c \in Seq(T) /\ Len(c) = n /\ \A i \in 1 .. n : c[i] = s[i]
  BY FirstIs
<1> HIDE DEF u
<1>3. b \in Seq(T) /\ Len(b) = n /\ \A i \in 1 .. n : b[i] = u[i]
  <2>1. n \in 0 .. Len(u)
    BY <1>1
  <2> QED
    BY <1>1, <2>1, FirstIs
<1> HIDE DEF b, c
<1>4. \A i \in 1 .. n : b[i] = c[i]
  BY <1>1, <1>2, <1>3
<1>5. b = c
  BY <1>2, <1>3, <1>4, SameText
<1> QED
  BY <1>5 DEF b, c, u

LEMMA LastOfJoined ==
    ASSUME NEW T, NEW s \in Seq(T), NEW t \in Seq(T), NEW n \in 0 .. Len(t)
    PROVE  LastOf(s \o t, n) = LastOf(t, n)
<1> DEFINE u == s \o t
           b == LastOf(u, n)
           c == LastOf(t, n)
<1>1. /\ u \in Seq(T) /\ Len(u) = Len(s) + Len(t) /\ Len(s) \in Nat /\ Len(t) \in Nat
      /\ \A i \in 1 .. Len(t) : u[Len(s) + i] = t[i]
  BY JoinIs
<1>2. c \in Seq(T) /\ Len(c) = n /\ \A i \in 1 .. n : c[i] = t[Len(t) - n + i]
  BY LastIs
<1> HIDE DEF u
<1>3. b \in Seq(T) /\ Len(b) = n /\ \A i \in 1 .. n : b[i] = u[Len(u) - n + i]
  <2>1. n \in 0 .. Len(u)
    BY <1>1
  <2> QED
    BY <1>1, <2>1, LastIs
<1> HIDE DEF b, c
<1>4. ASSUME NEW i \in 1 .. n PROVE b[i] = c[i]
  <2>1. Len(t) - n + i \in 1 .. Len(t) /\ Len(u) - n + i = Len(s) + (Len(t) - n + i)
    BY <1>1
  <2>2. u[Len(s) + (Len(t) - n + i)] = t[Len(t) - n + i]
    BY <1>1, <2>1
  <2> QED
    BY <1>2, <1>3, <2>1, <2>2
<1>5. b = c
  BY <1>2, <1>3, <1>4, SameText
<1> QED
  BY <1>5 DEF b, c, u

\* A text is its first characters and the others.
LEMMA CutInTwo ==
    ASSUME NEW T, NEW s \in Seq(T), NEW n \in 0 .. Len(s)
    PROVE  s = FirstOf(s, n) \o LastOf(s, Len(s) - n)
<1> DEFINE a == FirstOf(s, n)
           b == LastOf(s, Len(s) - n)
           u == a \o b
<1>1. a \in Seq(T) /\ Len(a) = n /\ \A i \in 1 .. n : a[i] = s[i]
  BY FirstIs
<1>2. b \in Seq(T) /\ Len(b) = Len(s) - n /\ \A i \in 1 .. Len(s) - n : b[i] = s[Len(s) - (Len(s) - n) + i]
  <2>1. Len(s) - n \in 0 .. Len(s)
    OBVIOUS
  <2> QED
    BY <2>1, LastIs
<1> HIDE DEF a, b
<1>3. /\ u \in Seq(T) /\ Len(u) = n + (Len(s) - n)
      /\ \A i \in 1 .. n : u[i] = a[i]
      /\ \A i \in 1 .. Len(s) - n : u[n + i] = b[i]
  <2>1. /\ u \in Seq(T) /\ Len(u) = Len(a) + Len(b)
        /\ \A i \in 1 .. Len(a) : u[i] = a[i]
        /\ \A i \in 1 .. Len(b) : u[Len(a) + i] = b[i]
    BY <1>1, <1>2, JoinIs
  <2> HIDE DEF u
  <2> QED
    BY <1>1, <1>2, <2>1
<1> HIDE DEF u
<1>4. ASSUME NEW i \in 1 .. Len(s) PROVE u[i] = s[i]
  <2>1. CASE i <= n
    BY <1>1, <1>3, <2>1
  <2>2. CASE i > n
    <3>1. i - n \in 1 .. Len(s) - n /\ n + (i - n) = i /\ Len(s) - (Len(s) - n) + (i - n) = i
      BY <2>2
    <3>2. u[n + (i - n)] = b[i - n] /\ b[i - n] = s[Len(s) - (Len(s) - n) + (i - n)]
      BY <1>2, <1>3, <3>1
    <3> QED
      BY <3>1, <3>2
  <2> QED
    BY <2>1, <2>2
<1>5. Len(u) = Len(s)
  BY <1>3
<1>6. u = s
  BY <1>3, <1>4, <1>5, SameText
<1> QED
  BY <1>6 DEF u, a, b

LEMMA NoneAndAll ==
    ASSUME NEW T, NEW s \in Seq(T)
    PROVE  FirstOf(s, 0) = <<>> /\ LastOf(s, 0) = <<>> /\ FirstOf(s, Len(s)) = s /\ LastOf(s, Len(s)) = s
<1>1. Len(s) \in Nat /\ 0 \in 0 .. Len(s) /\ Len(s) \in 0 .. Len(s) /\ Len(s) - Len(s) = 0
  OBVIOUS
<1>2. FirstOf(s, 0) \in Seq(T) /\ Len(FirstOf(s, 0)) = 0 /\ LastOf(s, 0) \in Seq(T) /\ Len(LastOf(s, 0)) = 0
  BY <1>1, FirstIs, LastIs
<1>3. FirstOf(s, 0) = <<>> /\ LastOf(s, 0) = <<>>
  BY <1>2
<1>4. /\ FirstOf(s, Len(s)) \in Seq(T) /\ Len(FirstOf(s, Len(s))) = Len(s)
      /\ \A i \in 1 .. Len(s) : FirstOf(s, Len(s))[i] = s[i]
  BY <1>1, FirstIs
<1>5. /\ LastOf(s, Len(s)) \in Seq(T) /\ Len(LastOf(s, Len(s))) = Len(s)
      /\ \A i \in 1 .. Len(s) : LastOf(s, Len(s))[i] = s[Len(s) - Len(s) + i]
  BY <1>1, LastIs
<1>6. FirstOf(s, Len(s)) = s
  BY <1>4, SameText
<1>7. \A i \in 1 .. Len(s) : LastOf(s, Len(s))[i] = s[i]
  BY <1>1, <1>5
<1>8. LastOf(s, Len(s)) = s
  BY <1>5, <1>7, SameText
<1> QED
  BY <1>3, <1>6, <1>8

\* A longer end is at least as wide.
LEMMA FirstGrows ==
    ASSUME NEW T, NEW s \in Seq(T), NEW n \in 0 .. Len(s), NEW m \in 0 .. n
    PROVE  TextWidth(FirstOf(s, m)) <= TextWidth(FirstOf(s, n))
<1> DEFINE a == FirstOf(s, n)
           b == FirstOf(s, m)
           c == LastOf(a, n - m)
<1>1. a \in Seq(T) /\ Len(a) = n /\ b \in Seq(T) /\ Len(b) = m
  <2>1. m \in 0 .. Len(s)
    OBVIOUS
  <2> QED
    BY <2>1, FirstIs
<1>2. FirstOf(a, m) = b
  BY FirstOfFirst
<1> HIDE DEF a, b
<1>3. c \in Seq(T) /\ a = FirstOf(a, m) \o c
  <2>1. n - m \in 0 .. Len(a) /\ m \in 0 .. Len(a) /\ Len(a) - m = n - m
    BY <1>1
  <2> QED
    BY <1>1, <2>1, LastIs, CutInTwo
<1> HIDE DEF c
<1>4. TextWidth(a) = TextWidth(b) + TextWidth(c)
  BY <1>1, <1>2, <1>3, WidthOfJoined
<1>5. TextWidth(b) \in Nat /\ TextWidth(c) \in Nat
  <2>1. Len(b) \in Nat /\ Len(c) \in Nat
    BY <1>1, <1>3
  <2> QED
    BY <2>1, WidthsAre
<1> QED
  BY <1>4, <1>5 DEF a, b

LEMMA LastGrows ==
    ASSUME NEW T, NEW s \in Seq(T), NEW n \in 0 .. Len(s), NEW m \in 0 .. n
    PROVE  TextWidth(LastOf(s, m)) <= TextWidth(LastOf(s, n))
<1> DEFINE a == LastOf(s, n)
           b == LastOf(s, m)
           c == FirstOf(a, n - m)
<1>1. a \in Seq(T) /\ Len(a) = n /\ b \in Seq(T) /\ Len(b) = m
  <2>1. m \in 0 .. Len(s)
    OBVIOUS
  <2> QED
    BY <2>1, LastIs
<1>2. LastOf(a, m) = b
  BY LastOfLast
<1> HIDE DEF a, b
<1>3. c \in Seq(T) /\ a = c \o LastOf(a, m)
  <2>1. n - m \in 0 .. Len(a) /\ Len(a) - (n - m) = m
    BY <1>1
  <2>2. a = FirstOf(a, n - m) \o LastOf(a, Len(a) - (n - m))
    BY <1>1, <2>1, CutInTwo
  <2> QED
    BY <1>1, <2>1, <2>2, FirstIs
<1> HIDE DEF c
<1>4. TextWidth(a) = TextWidth(c) + TextWidth(b)
  BY <1>1, <1>2, <1>3, WidthOfJoined
<1>5. TextWidth(b) \in Nat /\ TextWidth(c) \in Nat
  <2>1. Len(b) \in Nat /\ Len(c) \in Nat
    BY <1>1, <1>3
  <2> QED
    BY <2>1, WidthsAre
<1> QED
  BY <1>4, <1>5 DEF a, b

-----------------------------------------------------------------------------
(* A text that is shortened                                                 *)

LEMMA Halves == \A n \in Nat : /\ n \div 2 \in Nat /\ (n + 1) \div 2 \in Nat
                               /\ (n + 1) \div 2 + n \div 2 = n
                               /\ n \div 2 <= (n + 1) \div 2 /\ (n + 1) \div 2 <= n
                               /\ n > 0 => /\ (n - 1) \div 2 \in Nat /\ (n - 1) \div 2 <= n \div 2
                                           /\ (n - 1) \div 2 = IF n % 2 = 0 THEN n \div 2 - 1 ELSE n \div 2
OBVIOUS

LEMMA KeptIs ==
    ASSUME NEW T, NEW text \in Seq(T), NEW n \in 0 .. Len(text), NEW clipping \in Clippings
    PROVE  /\ Kept(clipping, text, n) \in Seq(T) /\ Len(Kept(clipping, text, n)) = n
           /\ clipping \in {"truncate", "ellipsis-end"} => Kept(clipping, text, n) = FirstOf(text, n)
           /\ clipping = "ellipsis-start" => Kept(clipping, text, n) = LastOf(text, n)
           /\ clipping = "ellipsis-middle" =>
                Kept(clipping, text, n) = FirstOf(text, (n + 1) \div 2) \o LastOf(text, n \div 2)
<1> DEFINE k == Kept(clipping, text, n)
<1>1. CASE clipping \in {"truncate", "ellipsis-end"}
  <2>1. k = FirstOf(text, n)
    BY <1>1 DEF Kept
  <2> QED
    BY <1>1, <2>1, FirstIs
<1>2. CASE clipping = "ellipsis-start"
  <2>1. k = LastOf(text, n)
    BY <1>2 DEF Kept
  <2> QED
    BY <1>2, <2>1, LastIs
<1>3. CASE clipping = "ellipsis-middle"
  <2> DEFINE a == (n + 1) \div 2
             b == n \div 2
             s == FirstOf(text, a)
             t == LastOf(text, b)
  <2>1. k = s \o t
    BY <1>3 DEF Kept
  <2>2. a \in 0 .. Len(text) /\ b \in 0 .. Len(text) /\ a + b = n
    BY Halves
  <2> HIDE DEF a, b
  <2>3. s \in Seq(T) /\ Len(s) = a /\ t \in Seq(T) /\ Len(t) = b
    BY <2>2, FirstIs, LastIs
  <2> HIDE DEF s, t
  <2>4. s \o t \in Seq(T) /\ Len(s \o t) = a + b
    BY <2>3, JoinIs
  <2>5. k = FirstOf(text, a) \o LastOf(text, b)
    BY <2>1 DEF s, t
  <2> HIDE DEF k
  <2> QED
    BY <1>3, <2>1, <2>2, <2>4, <2>5 DEF a, b, k
<1> QED
  BY <1>1, <1>2, <1>3 DEF Clippings

\* The halves of what is kept of a text are the ends of the text.
LEMMA HalvesOfKept ==
    ASSUME NEW T, NEW text \in Seq(T), NEW n \in 1 .. Len(text)
    PROVE  LET k == FirstOf(text, (n + 1) \div 2) \o LastOf(text, n \div 2)
           IN  LeftHalf(k) = FirstOf(text, n \div 2) /\ RightHalf(k) = LastOf(text, (n - 1) \div 2)
<1> DEFINE a == (n + 1) \div 2
           b == n \div 2
           c == (n - 1) \div 2
           s == FirstOf(text, a)
           t == LastOf(text, b)
           k == s \o t
<1>1. /\ a \in 0 .. Len(text) /\ b \in 0 .. Len(text) /\ a + b = n /\ b \in 0 .. a /\ c \in 0 .. b
      /\ c = IF n % 2 = 0 THEN b - 1 ELSE b
  BY Halves
<1>2. n \in Nat /\ n > 0
  OBVIOUS
<1>3. LeftHalf(k) = FirstOf(k, Len(k) \div 2)
      /\ (k # <<>> => RightHalf(k) = LastOf(k, IF Len(k) % 2 = 0 THEN Len(k) \div 2 - 1 ELSE Len(k) \div 2))
  BY DEF LeftHalf, RightHalf
<1>4. b = n \div 2
  OBVIOUS
<1> HIDE DEF a, b, c
<1>5. s \in Seq(T) /\ Len(s) = a /\ t \in Seq(T) /\ Len(t) = b
  BY <1>1, FirstIs, LastIs
<1>6. FirstOf(s, b) = FirstOf(text, b) /\ LastOf(t, c) = LastOf(text, c)
  BY <1>1, FirstOfFirst, LastOfLast
<1> HIDE DEF s, t
<1>7. k \in Seq(T) /\ Len(k) = n
  BY <1>1, <1>5, JoinIs
<1>8. FirstOf(k, b) = FirstOf(s, b)
  <2>1. b \in 0 .. Len(s)
    BY <1>1, <1>5
  <2> QED
    BY <1>5, <2>1, FirstOfJoined
<1>9. LastOf(k, c) = LastOf(t, c)
  <2>1. c \in 0 .. Len(t)
    BY <1>1, <1>5
  <2> QED
    BY <1>5, <2>1, LastOfJoined
<1> HIDE DEF k
<1>10. k # <<>>
  BY <1>2, <1>7
<1>11. LeftHalf(k) = FirstOf(k, b)
  BY <1>3, <1>4, <1>7
<1>12. RightHalf(k) = LastOf(k, c)
  BY <1>1, <1>3, <1>4, <1>7, <1>10
<1>13. LeftHalf(k) = FirstOf(text, b) /\ RightHalf(k) = LastOf(text, c)
  BY <1>6, <1>8, <1>9, <1>11, <1>12
<1> QED
  BY <1>13 DEF k, s, t, a, b, c

\* One character less of what is kept of a text.
LEMMA OneLessIsKept ==
    ASSUME NEW T, NEW text \in Seq(T), NEW n \in 1 .. Len(text), NEW clipping \in Clippings
    PROVE  OneLess(clipping, Kept(clipping, text, n)) = Kept(clipping, text, n - 1)
<1> DEFINE k == Kept(clipping, text, n)
           l == Kept(clipping, text, n - 1)
<1>1. n \in 0 .. Len(text) /\ n - 1 \in 0 .. Len(text) /\ n - 1 \in 0 .. n
  OBVIOUS
<1>2. /\ k \in Seq(T) /\ Len(k) = n
      /\ clipping \in {"truncate", "ellipsis-end"} => k = FirstOf(text, n)
      /\ clipping = "ellipsis-start" => k = LastOf(text, n)
      /\ clipping = "ellipsis-middle" => k = FirstOf(text, (n + 1) \div 2) \o LastOf(text, n \div 2)
  BY <1>1, KeptIs
<1>3. /\ clipping \in {"truncate", "ellipsis-end"} => l = FirstOf(text, n - 1)
      /\ clipping = "ellipsis-start" => l = LastOf(text, n - 1)
      /\ clipping = "ellipsis-middle" =>
           l = FirstOf(text, ((n - 1) + 1) \div 2) \o LastOf(text, (n - 1) \div 2)
  BY <1>1, KeptIs
<1> HIDE DEF k, l
<1>4. k # <<>>
  BY <1>2
<1>5. CASE clipping \in {"truncate", "ellipsis-end"}
  <2>1. OneLess(clipping, k) = FirstOf(k, n - 1)
    BY <1>2, <1>4, <1>5 DEF OneLess
  <2>2. FirstOf(FirstOf(text, n), n - 1) = FirstOf(text, n - 1)
    BY <1>1, FirstOfFirst
  <2> QED
    BY <1>2, <1>3, <1>5, <2>1, <2>2 DEF k, l
<1>6. CASE clipping = "ellipsis-start"
  <2>1. OneLess(clipping, k) = LastOf(k, n - 1)
    BY <1>2, <1>4, <1>6 DEF OneLess
  <2>2. LastOf(LastOf(text, n), n - 1) = LastOf(text, n - 1)
    BY <1>1, LastOfLast
  <2> QED
    BY <1>2, <1>3, <1>6, <2>1, <2>2 DEF k, l
<1>7. CASE clipping = "ellipsis-middle"
  <2>1. OneLess(clipping, k) = LeftHalf(k) \o RightHalf(k)
    BY <1>4, <1>7 DEF OneLess
  <2>2. LeftHalf(k) = FirstOf(text, n \div 2) /\ RightHalf(k) = LastOf(text, (n - 1) \div 2)
    BY <1>2, <1>7, HalvesOfKept, Zenon
  <2>3. (n - 1) + 1 = n
    OBVIOUS
  <2> QED
    BY <1>3, <1>7, <2>1, <2>2, <2>3, Zenon DEF k, l
<1> QED
  BY <1>5, <1>6, <1>7 DEF Clippings

\* The loop ends with as much of the text as has room, or never when nothing has.
LEMMA ShortenedIsKept ==
    ASSUME NEW T, NEW text \in Seq(T), NEW clipping \in Clippings, NEW room \in Int
    PROVE  \/ Shortened(clipping, text, room) = Stuck /\ room < 0
           \/ \E m \in 0 .. Len(text) :
                /\ Shortened(clipping, text, room) = Kept(clipping, text, m)
                /\ TextWidth(Kept(clipping, text, m)) <= room
                /\ m < Len(text) => TextWidth(Kept(clipping, text, m + 1)) > room
<1> DEFINE L == Len(text)
           K(n) == Kept(clipping, text, n)
           Less(s) == OneLess(clipping, s)
           after == CHOOSE f : f = [n \in 0 .. L |-> IF n = 0 THEN text ELSE Less(f[n - 1])]
           fits == {n \in 0 .. L : TextWidth(after[n]) <= room}
<1>1. Shortened(clipping, text, room)
        = IF fits = {} THEN Stuck ELSE after[CHOOSE n \in fits : \A m \in fits : n <= m]
  BY Zenon DEF Shortened
<1>2. L \in Nat
  OBVIOUS
<1>3. K(L) = text
  <2>1. L \in 0 .. L
    BY <1>2
  <2>2. CASE clipping # "ellipsis-middle"
    BY <2>1, <2>2, KeptIs, NoneAndAll DEF Clippings
  <2>3. CASE clipping = "ellipsis-middle"
    <3> DEFINE a == (L + 1) \div 2
               b == L \div 2
    <3>1. K(L) = FirstOf(text, a) \o LastOf(text, b)
      BY <2>1, <2>3, KeptIs
    <3>2. a \in 0 .. L /\ b = L - a
      BY <1>2, Halves
    <3> HIDE DEF a, b
    <3>3. text = FirstOf(text, a) \o LastOf(text, L - a)
      BY <3>2, CutInTwo
    <3> QED
      BY <3>1, <3>2, <3>3
  <2> QED
    BY <2>2, <2>3
<1>4. \A n \in 1 .. L : Less(K(n)) = K(n - 1)
  BY OneLessIsKept
<1>5. K(0) = <<>>
  <2>1. 0 \in 0 .. L
    BY <1>2
  <2> QED
    BY <2>1, KeptIs, EmptySeq
<1> HIDE DEF K, Less, L
<1>6. after = [n \in 0 .. L |-> IF n = 0 THEN text ELSE Less(after[n - 1])]
  <2> DEFINE g == [n \in 0 .. L |-> K(L - n)]
  <2>1. \A n \in 0 .. L : g[n] = K(L - n)
    OBVIOUS
  <2>2. g = [n \in 0 .. L |-> g[n]]
    OBVIOUS
  <2> HIDE DEF g
  <2>3. ASSUME NEW n \in 0 .. L PROVE g[n] = IF n = 0 THEN text ELSE Less(g[n - 1])
    <3>1. CASE n = 0
      <4>1. L - n = L
        BY <1>2, <3>1
      <4> QED
        BY <1>3, <2>1, <3>1, <4>1
    <3>2. CASE n # 0
      <4>1. n - 1 \in 0 .. L /\ L - (n - 1) \in 1 .. L /\ (L - (n - 1)) - 1 = L - n
        BY <1>2, <3>2
      <4>2. g[n - 1] = K(L - (n - 1)) /\ Less(K(L - (n - 1))) = K((L - (n - 1)) - 1)
        BY <1>4, <2>1, <4>1
      <4> QED
        BY <2>1, <3>2, <4>1, <4>2
    <3> QED
      BY <3>1, <3>2
  <2>4. g = [n \in 0 .. L |-> IF n = 0 THEN text ELSE Less(g[n - 1])]
    BY <2>2, <2>3
  <2> QED
    BY <2>4, Zenon
<1> HIDE DEF after
<1>7. \A n \in 0 .. L : after[n] = IF n = 0 THEN text ELSE Less(after[n - 1])
  BY <1>6
<1> DEFINE S == {n \in Nat : n <= L => after[n] = K(L - n)}
<1>8. 0 \in S
  <2>1. L - 0 = L /\ 0 \in 0 .. L
    BY <1>2
  <2> QED
    BY <1>3, <1>7, <2>1
<1>9. ASSUME NEW n \in Nat, n \in S PROVE n + 1 \in S
  <2> SUFFICES ASSUME n + 1 <= L PROVE after[n + 1] = K(L - (n + 1))
    OBVIOUS
  <2>1. n + 1 \in 0 .. L /\ n + 1 # 0 /\ (n + 1) - 1 = n /\ L - n \in 1 .. L /\ (L - n) - 1 = L - (n + 1)
    BY <1>2
  <2>2. after[n] = K(L - n)
    BY <1>2, <1>9
  <2>3. after[n + 1] = Less(after[n])
    BY <1>7, <2>1
  <2> QED
    BY <1>4, <2>1, <2>2, <2>3
<1>10. \A n \in 0 .. L : after[n] = K(L - n)
  <2>1. \A n \in Nat : n \in S
    <3> HIDE DEF S
    <3> QED
      BY <1>8, <1>9, Induct
  <2> QED
    BY <2>1
<1>11. CASE fits = {}
  <2>1. L \in 0 .. L /\ L - L = 0
    BY <1>2
  <2>2. after[L] = <<>>
    BY <1>5, <1>10, <2>1
  <2>3. ~(TextWidth(<<>>) <= room)
    BY <1>11, <2>1, <2>2
  <2> QED
    BY <1>1, <1>11, <2>3, WidthOfNothing
<1>12. CASE fits # {}
  <2> DEFINE n == CHOOSE n \in fits : \A m \in fits : n <= m
  <2>1. \E x \in fits : \A m \in fits : x <= m
    <3>1. fits \in SUBSET Nat
      OBVIOUS
    <3> HIDE DEF fits
    <3> QED
      BY <1>12, <3>1, Least
  <2>2. n \in fits /\ \A m \in fits : n <= m
    <3> HIDE DEF fits
    <3> QED
      BY <2>1, Zenon
  <2>3. Shortened(clipping, text, room) = after[n]
    BY <1>1, <1>12, Zenon
  <2> HIDE DEF n
  <2>4. n \in 0 .. L /\ TextWidth(after[n]) <= room /\ \A m \in 0 .. L : TextWidth(after[m]) <= room => n <= m
    BY <2>2
  <2> DEFINE m == L - n
  <2>5. m \in 0 .. L /\ after[n] = K(m)
    BY <1>2, <1>10, <2>4
  <2>6. ASSUME m < L PROVE TextWidth(K(m + 1)) > room
    <3>1. n - 1 \in 0 .. L /\ L - (n - 1) = m + 1 /\ ~(n <= n - 1)
      BY <1>2, <2>4, <2>6
    <3>2. after[n - 1] = K(m + 1)
      BY <1>10, <3>1
    <3>3. ~(TextWidth(K(m + 1)) <= room)
      BY <2>4, <3>1, <3>2
    <3>4. TextWidth(K(m + 1)) \in Nat
      <4>1. m + 1 \in 0 .. Len(text)
        BY <1>2, <2>4, <2>6 DEF L
      <4>2. Len(K(m + 1)) = m + 1
        BY <4>1, KeptIs DEF K
      <4> QED
        BY <4>1, <4>2, WidthsAre
    <3> QED
      BY <3>3, <3>4
  <2> HIDE DEF m
  <2> QED
    BY <2>3, <2>4, <2>5, <2>6 DEF K, L
<1> QED
  BY <1>11, <1>12

\* The characters a text on a popup is made of.
Chars == Nat \cup {Dots}

LEMMA TextIsNotStuck ==
    ASSUME NEW s \in Seq(Chars)
    PROVE  s # Stuck
<1> SUFFICES ASSUME s = <<-1>> PROVE FALSE
  BY DEF Stuck
<1>1. Len(s) = 1 /\ s[1] = -1
  OBVIOUS
<1>2. s[1] \in Chars
  BY <1>1
<1> QED
  BY <1>1, <1>2, DrawingAssumption DEF Chars

LEMMA DotsAreText == <<Dots>> \in Seq(Chars)
BY DEF Chars

LEMMA WithDots ==
    ASSUME NEW s \in Seq(Chars)
    PROVE  /\ s \o <<Dots>> \in Seq(Chars) /\ TextWidth(s \o <<Dots>>) = TextWidth(s) + 1
           /\ <<Dots>> \o s \in Seq(Chars) /\ TextWidth(<<Dots>> \o s) = 1 + TextWidth(s)
<1> DEFINE d == <<Dots>>
<1>1. d \in Seq(Chars) /\ TextWidth(d) = 1
  BY DotsAreText, WidthOfDots
<1> HIDE DEF d
<1>2. s \o d \in Seq(Chars) /\ d \o s \in Seq(Chars)
  BY <1>1
<1>3. TextWidth(s \o d) = TextWidth(s) + TextWidth(d) /\ TextWidth(d \o s) = TextWidth(d) + TextWidth(s)
  BY ONLY <1>1, s \in Seq(Chars), WidthOfJoined
<1> QED
  BY <1>1, <1>2, <1>3 DEF d

\* What is kept of a text, with the ellipsis, is what is shown.
LEMMA ShownFits ==
    ASSUME NEW text \in Seq(Chars), NEW clipping \in Clippings, NEW room \in Int, NEW left \in Int,
           left = IF clipping = "truncate" THEN room ELSE room + 1, NEW m \in 0 .. Len(text),
           NEW k, k = Kept(clipping, text, m), TextWidth(k) <= room,
           m < Len(text) => TextWidth(Kept(clipping, text, m + 1)) > room
    PROVE  /\ WithEllipsis(clipping, k) # Stuck
           /\ ShortenedToFit(clipping, text, WithEllipsis(clipping, k), left, room)
<1> DEFINE L == Len(text)
           drawnText == WithEllipsis(clipping, k)
           W(n) == TextWidth(Kept(clipping, text, n))
           More(n) == n + (IF clipping = "ellipsis-middle" THEN 2 ELSE 1)
           Fit(n) == /\ drawnText = KeptWithEllipsis(clipping, text, n)
                     /\ TextWidth(drawnText) <= left
                     /\ More(n) <= L => W(More(n)) > room
<1>1. /\ k \in Seq(Chars) /\ Len(k) = m /\ L \in Nat
      /\ clipping \in {"truncate", "ellipsis-end"} => k = FirstOf(text, m)
      /\ clipping = "ellipsis-start" => k = LastOf(text, m)
      /\ clipping = "ellipsis-middle" => k = FirstOf(text, (m + 1) \div 2) \o LastOf(text, m \div 2)
  <2>1. L \in Nat
    OBVIOUS
  <2> HIDE DEF L
  <2> QED
    BY <2>1, KeptIs
<1>2. k # Stuck /\ TextWidth(k) \in Nat
  BY <1>1, TextIsNotStuck, WidthsAre
<1>3. SUFFICES drawnText # Stuck /\ \E n \in 0 .. L : Fit(n)
  BY DEF ShortenedToFit
<1>4. m \in 0 .. L /\ (m + 1 <= L => W(m + 1) > room)
  BY <1>1
<1>5. CASE clipping = "truncate"
  <2>1. drawnText = k
    BY <1>2, <1>5 DEF WithEllipsis
  <2>2. KeptWithEllipsis(clipping, text, m) = FirstOf(text, m)
    BY <1>5 DEF KeptWithEllipsis
  <2>3. Fit(m)
    BY <1>1, <1>4, <1>5, <2>1, <2>2
  <2> QED
    BY <1>2, <1>4, <2>1, <2>3
<1>6. CASE clipping = "ellipsis-end"
  <2>1. drawnText = k \o <<Dots>>
    BY <1>2, <1>6 DEF WithEllipsis
  <2>2. KeptWithEllipsis(clipping, text, m) = FirstOf(text, m) \o <<Dots>>
    BY <1>6 DEF KeptWithEllipsis
  <2>3. drawnText \in Seq(Chars) /\ TextWidth(drawnText) = TextWidth(k) + 1
    BY <1>1, <2>1, WithDots
  <2>4. Fit(m)
    <3>1. More(m) = m + 1
      BY <1>6
    <3>2. drawnText = KeptWithEllipsis(clipping, text, m)
      BY <1>1, <1>6, <2>1, <2>2
    <3>3. TextWidth(drawnText) <= left
      BY <1>2, <1>6, <2>3
    <3> HIDE DEF More, W, drawnText
    <3> QED
      BY <1>4, <3>1, <3>2, <3>3
  <2> QED
    BY <1>4, <2>3, <2>4, TextIsNotStuck
<1>7. CASE clipping = "ellipsis-start"
  <2>1. drawnText = <<Dots>> \o k
    BY <1>2, <1>7 DEF WithEllipsis
  <2>2. KeptWithEllipsis(clipping, text, m) = <<Dots>> \o LastOf(text, m)
    BY <1>7 DEF KeptWithEllipsis
  <2>3. drawnText \in Seq(Chars) /\ TextWidth(drawnText) = 1 + TextWidth(k)
    BY <1>1, <2>1, WithDots
  <2>4. Fit(m)
    <3>1. More(m) = m + 1
      BY <1>7
    <3>2. drawnText = KeptWithEllipsis(clipping, text, m)
      BY <1>1, <1>7, <2>1, <2>2
    <3>3. TextWidth(drawnText) <= left
      BY <1>2, <1>7, <2>3
    <3> HIDE DEF More, W, drawnText
    <3> QED
      BY <1>4, <3>1, <3>2, <3>3
  <2> QED
    BY <1>4, <2>3, <2>4, TextIsNotStuck
<1>8. CASE clipping = "ellipsis-middle"
  <2> DEFINE F(n) == FirstOf(text, n)
             R(n) == LastOf(text, n)
             N(n) == TextWidth(FirstOf(text, n))
             E(n) == TextWidth(LastOf(text, n))
  <2>1. drawnText = LeftHalf(k) \o <<Dots>> \o RightHalf(k)
    BY <1>2, <1>8 DEF WithEllipsis
  <2>2. \A n : KeptWithEllipsis(clipping, text, n) = F((n + 1) \div 2) \o <<Dots>> \o R(n \div 2)
    BY <1>8 DEF KeptWithEllipsis
  <2>3. \A n \in 0 .. L : /\ F(n) \in Seq(Chars) /\ R(n) \in Seq(Chars) /\ N(n) \in Nat /\ E(n) \in Nat
    <3>1. \A n \in 0 .. L : F(n) \in Seq(Chars) /\ R(n) \in Seq(Chars) /\ Len(F(n)) = n /\ Len(R(n)) = n
      BY FirstIs, LastIs
    <3>2. \A n \in 0 .. L : n \in Nat
      OBVIOUS
    <3> QED
      BY <3>1, <3>2, WidthsAre
  <2>4. ASSUME NEW a \in 0 .. L, NEW b \in 0 .. L
        PROVE  /\ F(a) \o <<Dots>> \o R(b) \in Seq(Chars)
               /\ TextWidth(F(a) \o <<Dots>> \o R(b)) = N(a) + 1 + E(b)
               /\ TextWidth(F(a) \o R(b)) = N(a) + E(b)
    <3>1. F(a) \in Seq(Chars) /\ R(b) \in Seq(Chars) /\ N(a) \in Nat /\ E(b) \in Nat
      BY <2>3
    <3>2. F(a) \o <<Dots>> \in Seq(Chars) /\ TextWidth(F(a) \o <<Dots>>) = N(a) + 1
      BY <3>1, WithDots
    <3>3. /\ TextWidth(F(a) \o R(b)) = N(a) + E(b)
          /\ (F(a) \o <<Dots>>) \o R(b) \in Seq(Chars)
          /\ TextWidth((F(a) \o <<Dots>>) \o R(b)) = TextWidth(F(a) \o <<Dots>>) + E(b)
      BY <3>1, <3>2, JoinIs, WidthOfJoined
    <3> QED
      BY <3>2, <3>3
  <2>5. \A n \in 0 .. L : Kept(clipping, text, n) = F((n + 1) \div 2) \o R(n \div 2)
    BY <1>8, KeptIs
  <2>6. \A a, b \in 0 .. L : b <= a => N(b) <= N(a) /\ E(b) <= E(a)
    BY FirstGrows, LastGrows
  <2>7. CASE m > 0
    <3> DEFINE a == (m + 1) \div 2
               b == m \div 2
               c == (m - 1) \div 2
    <3>1. LeftHalf(k) = F(b) /\ RightHalf(k) = R(c)
      <4>1. m \in 1 .. Len(text)
        BY <2>7
      <4> QED
        BY <1>1, <1>8, <4>1, HalvesOfKept, Zenon
    <3>2. a \in 0 .. L /\ b \in 0 .. L /\ c \in 0 .. L /\ b <= a /\ c <= b /\ m - 1 \in 0 .. L
          /\ ((m - 1) + 1) \div 2 = b /\ (m - 1) + 2 = m + 1
      BY <1>1, <2>7, Halves
    <3>3. KeptWithEllipsis(clipping, text, m - 1) = F(((m - 1) + 1) \div 2) \o <<Dots>> \o R(c)
      BY <2>2
    <3>4. TextWidth(k) = N(a) + E(b)
      BY <1>1, <1>8, <2>4, <3>2
    <3> HIDE DEF a, b, c, F, R, N, E
    <3>5. drawnText = F(b) \o <<Dots>> \o R(c) /\ drawnText \in Seq(Chars) /\ TextWidth(drawnText) = N(b) + 1 + E(c)
      <4>1. /\ F(b) \o <<Dots>> \o R(c) \in Seq(Chars)
            /\ TextWidth(F(b) \o <<Dots>> \o R(c)) = N(b) + 1 + E(c)
        BY <2>4, <3>2
      <4>2. drawnText = F(b) \o <<Dots>> \o R(c)
        BY <2>1, <3>1
      <4> HIDE DEF drawnText
      <4> QED
        BY <4>1, <4>2
    <3>6. N(b) <= N(a) /\ E(c) <= E(b) /\ N(a) \in Nat /\ N(b) \in Nat /\ E(b) \in Nat /\ E(c) \in Nat
      BY <2>3, <2>6, <3>2
    <3>7. TextWidth(drawnText) <= left
      BY <1>8, <3>4, <3>5, <3>6
    <3>8. drawnText = KeptWithEllipsis(clipping, text, m - 1)
      BY <3>2, <3>3, <3>5
    <3>9. More(m - 1) = m + 1
      BY <1>8, <3>2
    <3>10. Fit(m - 1)
      <4> HIDE DEF More, W
      <4> QED
        BY <1>4, <3>7, <3>8, <3>9
    <3> QED
      BY <3>2, <3>5, <3>10, TextIsNotStuck
  <2>8. CASE m = 0
    <3>1. k = <<>>
      BY <1>1, <2>8, EmptySeq
    <3>2. LeftHalf(k) = <<>> /\ RightHalf(k) = <<>>
      <4>1. Len(k) \div 2 = 0
        BY <1>1, <2>8
      <4> QED
        BY <1>1, <3>1, <4>1, NoneAndAll DEF LeftHalf, RightHalf
    <3>3. F(0) = <<>> /\ R(0) = <<>> /\ 0 \in 0 .. L /\ (0 + 1) \div 2 = 0 /\ 0 \div 2 = 0
      BY <1>1, NoneAndAll
    <3>4. drawnText = KeptWithEllipsis(clipping, text, 0)
      BY <2>1, <2>2, <3>2, <3>3
    <3>5. drawnText = F(0) \o <<Dots>> \o R(0)
      BY <2>1, <3>2, <3>3
    <3>6. drawnText \in Seq(Chars) /\ TextWidth(drawnText) = N(0) + 1 + E(0)
      BY <2>4, <3>3, <3>5
    <3>7. N(0) = 0 /\ E(0) = 0
      BY <3>3, WidthOfNothing
    <3>8. TextWidth(drawnText) <= left
      BY <1>2, <1>8, <3>6, <3>7
    <3>9. ASSUME 2 <= L PROVE W(2) > room
      <4>1. 0 \in 0 .. L /\ 1 \in 0 .. L /\ 2 \in 0 .. L /\ (1 + 1) \div 2 = 1 /\ 1 \div 2 = 0 /\ (2 + 1) \div 2 = 1 /\ 2 \div 2 = 1
        BY <1>1, <3>9
      <4>2. W(1) = N(1) + E(0)
        <5>1. Kept(clipping, text, 1) = F(1) \o R(0)
          BY <2>5, <4>1
        <5> HIDE DEF F, R
        <5> QED
          BY <2>4, <4>1, <5>1
      <4>3. W(2) = N(1) + E(1)
        <5>1. Kept(clipping, text, 2) = F(1) \o R(1)
          BY <2>5, <4>1
        <5> HIDE DEF F, R
        <5> QED
          BY <2>4, <4>1, <5>1
      <4>4. E(0) <= E(1) /\ E(0) \in Nat /\ E(1) \in Nat /\ N(1) \in Nat
        BY <2>3, <2>6, <4>1
      <4>5. W(1) > room
        BY <1>1, <1>4, <2>8, <3>9
      <4> HIDE DEF W, N, E
      <4> QED
        BY <4>2, <4>3, <4>4, <4>5
    <3>10. Fit(0)
      <4>1. More(0) = 2
        BY <1>8
      <4> HIDE DEF More, W
      <4> QED
        BY <3>4, <3>8, <3>9, <4>1
    <3> QED
      BY <3>3, <3>6, <3>10, TextIsNotStuck
  <2> QED
    BY <2>7, <2>8
<1> QED
  BY <1>5, <1>6, <1>7, <1>8 DEF Clippings

-----------------------------------------------------------------------------
(* What is drawn fits in where it goes                                      *)

LEMMA ItemInside ==
    ASSUME NEW end \in {"low", "middle", "high"}, NEW item \in ItemWidth, NEW size \in PopupWidth,
           NEW offset \in Offsets, DrawItem(end, item, size, offset)
    PROVE  DrawnInside'
<1> DEFINE x == RenderPosition(end, item, size, offset)
           r == ClipComposite(x, item, size)
<1>1. drawn' = "item" /\ given' = <<end, item, size, offset, x>> /\ result' = r
  BY DEF DrawItem
<1>2. item \in Nat \ {0} /\ size \in Nat \ {0}
  BY DrawingAssumption
<1>3. x \in Int /\ (offset.value = 0 /\ item <= size => x >= 0 /\ x + item <= size)
  BY <1>2, PositionIsInt
<1> HIDE DEF x
<1>4. r # NothingDrawn \/ (x + item > 0 /\ x < size) =>
         /\ r.at >= 0 /\ r.at + r.width <= size
         /\ r.from >= 0 /\ r.from + r.width <= item
         /\ r.width > 0 => r.at = x + r.from
         /\ x >= 0 /\ x + item <= size => r.width = item
         /\ ~(x < 0 /\ x + item > size) /\ x + item > 0 /\ x < size =>
              \A column \in 0 .. size - 1 :
                (column \in x .. x + item - 1) <=>
                (column \in r.at .. r.at + r.width - 1)
  BY <1>2, <1>3, ItemPainted
<1> HIDE DEF r
<1>5. given'[2] = item /\ given'[3] = size /\ given'[4] = offset /\ given'[5] = x
  BY <1>1
<1>6. PaintedInside'
  BY <1>1, <1>3, <1>4, <1>5 DEF PaintedInside
<1> QED
  BY <1>1, <1>6 DEF DrawnInside, TextFits, NoTraceLeft

LEMMA BackgroundInside ==
    ASSUME NEW size \in PopupWidth, NEW tile \in ItemWidth, DrawBackground(size, tile)
    PROVE  DrawnInside'
<1>1. drawn' = "background" /\ given' = <<size, tile>> /\ result' = PixbufTile(size, tile)
  BY DEF DrawBackground
<1>2. given'[1] = size
  BY <1>1
<1>3. \A column \in 0 .. size - 1 :
        Cardinality({i \in DOMAIN result' : column \in result'[i].at .. result'[i].at + result'[i].width - 1}) = 1
  BY <1>1, TilesCover, DrawingAssumption
<1>4. PaintedInside'
  BY <1>1, <1>2, <1>3 DEF PaintedInside
<1> QED
  BY <1>1, <1>4 DEF DrawnInside, TextFits, NoTraceLeft

LEMMA FormatInside ==
    ASSUME NEW n \in 0 .. MaxFormat, NEW format \in [1 .. n -> FormatChar], NEW tokens, MakeText(format, tokens)
    PROVE  DrawnInside'
<1>1. drawn' = "format" /\ given' = <<format, tokens>> /\ result' = ParseFormat(format, tokens)
  BY DEF MakeText
<1>2. given'[1] = format /\ given'[2] = tokens
  BY <1>1
<1>3. format \in Seq(FormatChar)
  BY DrawingAssumption
<1>4. ASSUME NEW i \in 1 .. Len(format) - 1, format[i] = "%", format[i + 1] \notin tokens,
             i > 1 => format[i - 1] # "%"
      PROVE  ParseFormat(format, tokens)
               = ParseFormat(FirstOf(format, i - 1) \o LastOf(format, Len(format) - i - 1), tokens)
  BY <1>3, <1>4, TokenLeavesNothing
<1>5. NoTraceLeft'
  BY <1>1, <1>2, <1>4 DEF NoTraceLeft
<1> QED
  BY <1>1, <1>5 DEF DrawnInside, PaintedInside, TextFits

LEMMA TextInside ==
    ASSUME NEW clipping \in Clippings, NEW length \in 0 .. MaxText, NEW size \in PopupWidth,
           NEW offset \in Offsets, NEW itemWidth \in {0} \cup ItemWidth,
           ClipText(clipping, length, itemWidth, offset, size)
    PROVE  DrawnInside'
<1> DEFINE text  == TextOfLength(length)
           width == WidthFor(itemWidth, size)
           left  == LeftFor(itemWidth, offset, size)
           room  == RoomFor(clipping, itemWidth, offset, size)
           r     == Clip(clipping, text, itemWidth, offset, size)
           short == Shortened(clipping, text, room)
<1>1. drawn' = "text" /\ given' = <<clipping, length, itemWidth, offset, size>> /\ result' = r
  BY DEF ClipText
<1>2. text \in Seq(Chars)
  BY DrawingAssumption DEF TextOfLength, Chars
<1>3. left \in Int /\ room \in Int /\ left = IF clipping = "truncate" THEN room ELSE room + 1
  <2>1. size \in Nat /\ itemWidth \in Nat
    BY DrawingAssumption
  <2>2. OffsetIn(offset, size) \in Int
    BY <2>1, OffsetIsInt
  <2>3. left \in Int
    BY <2>1, <2>2 DEF LeftFor, WidthFor
  <2>4. room = IF clipping = "truncate" THEN left - 0 ELSE left - 1
    BY WidthOfDots DEF RoomFor
  <2> HIDE DEF left, room
  <2> QED
    BY <2>3, <2>4
<1>4. r = IF TextWidth(text) <= width THEN text ELSE WithEllipsis(clipping, short)
  BY DEF Clip
<1> HIDE DEF text, width, left, room, r, short
<1>5. IF TextWidth(text) <= width THEN r = text
      ELSE IF r = Stuck THEN room < 0 ELSE ShortenedToFit(clipping, text, r, left, room)
  <2>1. CASE TextWidth(text) <= width
    BY <1>4, <2>1
  <2>2. CASE ~(TextWidth(text) <= width)
    <3>1. r = WithEllipsis(clipping, short)
      BY <1>4, <2>2
    <3>2. CASE short = Stuck /\ room < 0
      <4>1. r = Stuck
        BY <3>1, <3>2 DEF WithEllipsis
      <4> QED
        BY <2>2, <3>2, <4>1
    <3>3. CASE \E m \in 0 .. Len(text) :
                 /\ short = Kept(clipping, text, m)
                 /\ TextWidth(Kept(clipping, text, m)) <= room
                 /\ m < Len(text) => TextWidth(Kept(clipping, text, m + 1)) > room
      <4>1. PICK m \in 0 .. Len(text) :
                 /\ short = Kept(clipping, text, m)
                 /\ TextWidth(Kept(clipping, text, m)) <= room
                 /\ m < Len(text) => TextWidth(Kept(clipping, text, m + 1)) > room
        BY <3>3, Zenon
      <4>2. r # Stuck /\ ShortenedToFit(clipping, text, r, left, room)
        BY <1>2, <1>3, <3>1, <4>1, ShownFits
      <4> QED
        BY <2>2, <4>2
    <3> QED
      BY <1>2, <1>3, <3>2, <3>3, ShortenedIsKept DEF short
  <2> QED
    BY <2>1, <2>2
<1>6. /\ given'[1] = clipping /\ given'[2] = length /\ given'[3] = itemWidth
      /\ given'[4] = offset /\ given'[5] = size
  BY <1>1
<1>7. TextFits'
  BY <1>1, <1>5, <1>6 DEF TextFits, text, width, left, room
<1> QED
  BY <1>1, <1>7 DEF DrawnInside, PaintedInside, NoTraceLeft

\* What is drawn of an item, a background or a text fits in where it goes, whatever the sizes, offsets and texts are
\* (gtkntf_notification_render, gtkntf_item_text_clip).
THEOREM DrawnWhereItFits == DrawingSpec => []DrawnInside
<1>1. DrawingInit => DrawnInside
  BY DEF DrawingInit, DrawnInside, PaintedInside, TextFits, NoTraceLeft
<1>2. ASSUME DrawnInside, [DrawingNext]_drawingVars
      PROVE  DrawnInside'
  <2>1. CASE UNCHANGED drawingVars
    BY <1>2, <2>1 DEF drawingVars, DrawnInside, PaintedInside, TextFits, NoTraceLeft
  <2>2. CASE DrawingNext
    BY <2>2, ItemInside, BackgroundInside, FormatInside, TextInside DEF DrawingNext
  <2> QED
    BY <1>2, <2>1, <2>2
<1> QED
  BY <1>1, <1>2, PTL DEF DrawingSpec
=============================================================================
