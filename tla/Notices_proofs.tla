--------------------------- MODULE Notices_proofs ---------------------------
(***************************************************************************)
(* Proofs about the popups and the windows of Notices, for any number of   *)
(* popups, windows, plugins and frames.                                    *)
(*                                                                         *)
(* What a popup's place means is a sum along the list, so the proof first  *)
(* shows by induction that the sum is what its recursive definition says.  *)
(*                                                                         *)
(* Then about the reports of Reports: what a filter picks, by induction on *)
(* the list, what the window makes of it, and that a report that waits and *)
(* a window that is open are of what was found last.                       *)
(***************************************************************************)
EXTENDS Notices, Reports, FiniteSetTheorems, WellFoundedInduction, TLAPS

-----------------------------------------------------------------------------
(* Induction on the natural numbers, from the well-foundedness of <.        *)

\* A set of natural numbers has a least one.
LEMMA Least ==
    ASSUME NEW S \in SUBSET Nat, S # {}
    PROVE  \E m \in S : \A n \in S : m <= n
<1>1. PICK x \in S : \A y \in S : ~ (<<y, x>> \in OpToRel(<, Nat))
  BY WFMin, NatLessThanWellFounded, Zenon
<1>2. \A y \in S : y < x => <<y, x>> \in OpToRel(<, Nat)
  BY DEF OpToRel
<1>3. \A y \in S : x \in Int /\ y \in Int
  OBVIOUS
<1>4. \A y \in S : ~ (y < x)
  BY <1>1, <1>2, Zenon
<1> QED
  BY <1>3, <1>4

\* A set with 0 and with the successors of its elements has all natural numbers.
LEMMA Induct ==
    ASSUME NEW S, 0 \in S, \A n \in Nat : n \in S => n + 1 \in S
    PROVE  \A n \in Nat : n \in S
<1> SUFFICES ASSUME Nat \ S # {} PROVE FALSE
  OBVIOUS
<1>1. PICK m \in Nat \ S : \A n \in Nat \ S : m <= n
  BY Least
<1>2. m # 0 /\ m - 1 \in Nat /\ m - 1 \in S
  BY <1>1
<1> QED
  BY <1>1, <1>2

-----------------------------------------------------------------------------
(* The sum of the sizes along a list                                        *)

Partials(list, size, n, v, f) ==
    [i \in 0..n |-> IF i = 0 THEN 0 ELSE f[i - 1] + Extent(size[list[i]], v)]

Measured(list, size, n, v) == \A i \in 1..n : Extent(size[list[i]], v) \in Nat

\* The partial sums exist.
LEMMA PartialsExist ==
    ASSUME NEW list, NEW size, NEW v, NEW n \in Nat, Measured(list, size, n, v)
    PROVE  \E f \in [0..n -> Nat] : f = Partials(list, size, n, v, f)
<1> DEFINE e(i) == Extent(size[list[i]], v)
           P(m, f) == f = [i \in 0..m |-> IF i = 0 THEN 0 ELSE f[i - 1] + e(i)]
           S == {m \in Nat : m <= n => \E f \in [0..m -> Nat] : P(m, f)}
<1>0. \A i \in 1..n : e(i) \in Nat
  BY DEF Measured
<1> HIDE DEF e
<1>1. 0 \in S
  <2> DEFINE f == [i \in 0..0 |-> 0]
  <2>1. f \in [0..0 -> Nat] /\ P(0, f)
    OBVIOUS
  <2> QED
    BY <2>1
<1>2. ASSUME NEW m \in Nat, m \in S PROVE m + 1 \in S
  <2> SUFFICES ASSUME m + 1 <= n PROVE \E g \in [0..m + 1 -> Nat] : P(m + 1, g)
    OBVIOUS
  <2>1. PICK f \in [0..m -> Nat] : P(m, f)
    BY <1>2
  <2> DEFINE g == [i \in 0..m + 1 |-> IF i = m + 1 THEN f[m] + e(m + 1) ELSE f[i]]
  <2>2. f[m] \in Nat /\ e(m + 1) \in Nat
    BY <1>0
  <2>3. g \in [0..m + 1 -> Nat]
    BY <2>2
  <2>4. \A i \in 0..m + 1 : g[i] = IF i = 0 THEN 0 ELSE g[i - 1] + e(i)
    BY <2>1
  <2>5. P(m + 1, g)
    BY <2>3, <2>4
  <2> QED
    BY <2>3, <2>5
<1>3. n \in S
  <2> HIDE DEF S
  <2> QED
    BY <1>1, <1>2, Induct
<1>4. PICK f \in [0..n -> Nat] : P(n, f)
  BY <1>3
<1> QED
  BY <1>4 DEF Partials, e

\* They are determined.
LEMMA PartialsUnique ==
    ASSUME NEW list, NEW size, NEW v, NEW n \in Nat, NEW f, NEW g,
           f = Partials(list, size, n, v, f), g = Partials(list, size, n, v, g)
    PROVE  f = g
<1> DEFINE e(i) == Extent(size[list[i]], v)
           S == {m \in Nat : m <= n => f[m] = g[m]}
<1>0. /\ f = [i \in 0..n |-> IF i = 0 THEN 0 ELSE f[i - 1] + e(i)]
      /\ g = [i \in 0..n |-> IF i = 0 THEN 0 ELSE g[i - 1] + e(i)]
  BY DEF Partials
<1> HIDE DEF e
<1>1. 0 \in S
  BY <1>0
<1>2. ASSUME NEW m \in Nat, m \in S PROVE m + 1 \in S
  <2> SUFFICES ASSUME m + 1 <= n PROVE f[m + 1] = g[m + 1]
    OBVIOUS
  <2>1. f[m] = g[m] /\ m + 1 \in 0..n /\ (m + 1) - 1 = m /\ m + 1 # 0
    BY <1>2
  <2>2. f[m + 1] = f[m] + e(m + 1) /\ g[m + 1] = g[m] + e(m + 1)
    BY <1>0, <2>1
  <2> QED
    BY <2>1, <2>2
<1>3. \A m \in Nat : m \in S
  <2> HIDE DEF S
  <2> QED
    BY <1>1, <1>2, Induct
<1>4. \A i \in 0..n : f[i] = g[i]
  BY <1>3
<1> QED
  BY <1>0, <1>4

\* Span is the last of the partial sums.
LEMMA SpanIsLast ==
    ASSUME NEW list, NEW size, NEW v, NEW n \in Nat, Measured(list, size, n, v)
    PROVE  \E f \in [0..n -> Nat] : /\ f = Partials(list, size, n, v, f)
                                    /\ Span(list, size, n, v) = f[n]
<1>1. PICK g \in [0..n -> Nat] : g = Partials(list, size, n, v, g)
  BY PartialsExist
<1> DEFINE h == CHOOSE f : f = [i \in 0..n |-> IF i = 0 THEN 0
                                            ELSE f[i - 1] + Extent(size[list[i]], v)]
<1>2. h = Partials(list, size, n, v, h)
  <2>1. g = [i \in 0..n |-> IF i = 0 THEN 0 ELSE g[i - 1] + Extent(size[list[i]], v)]
    BY <1>1 DEF Partials
  <2>2. h = [i \in 0..n |-> IF i = 0 THEN 0 ELSE h[i - 1] + Extent(size[list[i]], v)]
    BY <2>1, Zenon
  <2> QED
    BY <2>2 DEF Partials
<1>3. Span(list, size, n, v) = h[n]
  BY Zenon DEF Span
<1> HIDE DEF h
<1>4. h = g
  BY <1>1, <1>2, PartialsUnique
<1> QED
  BY <1>1, <1>3, <1>4

\* A span is a natural number, and depends only on the popups it counts.
LEMMA SpanType ==
    ASSUME NEW list, NEW size, NEW v, NEW n \in Nat, Measured(list, size, n, v)
    PROVE  Span(list, size, n, v) \in Nat
BY SpanIsLast

LEMMA SpanSame ==
    ASSUME NEW list, NEW size, NEW list2, NEW size2, NEW v, NEW n \in Nat,
           Measured(list, size, n, v),
           \A i \in 1..n : size[list[i]] = size2[list2[i]]
    PROVE  Span(list, size, n, v) = Span(list2, size2, n, v)
<1>1. \A i \in 1..n : Extent(size[list[i]], v) = Extent(size2[list2[i]], v)
  BY Zenon
<1>2. Measured(list2, size2, n, v)
  BY <1>1 DEF Measured
<1>3. PICK f \in [0..n -> Nat] : /\ f = Partials(list, size, n, v, f)
                                 /\ Span(list, size, n, v) = f[n]
  BY SpanIsLast
<1>4. PICK g \in [0..n -> Nat] : /\ g = Partials(list2, size2, n, v, g)
                                 /\ Span(list2, size2, n, v) = g[n]
  BY <1>2, SpanIsLast, SMTT(30)
<1>5. f = Partials(list2, size2, n, v, f)
  <2>1. \A i \in 0..n : i # 0 => i \in 1..n
    OBVIOUS
  <2> QED
    BY <1>1, <1>3, <2>1 DEF Partials
<1>6. f = g
  BY <1>4, <1>5, PartialsUnique
<1> QED
  BY <1>3, <1>4, <1>6
-----------------------------------------------------------------------------
(* The popups: list l, what is known of each m, pending timers t            *)

Rec(l, m, t) == [list |-> l, pop |-> m, timers |-> t]
Sizing(m) == [q \in Popup |-> m[q].size]
At(l, m, v) ==
    [p \in Popup |-> IF Contains(l, p) THEN [m[p] EXCEPT !.at = Span(l, Sizing(m), Before(l, p), v)]
                     ELSE m[p]]
Without(l, p) == RemoveAt(l, Before(l, p) + 1)

\* The list has every popup once, and the popups in use are those of the list; a
\* popup that grows has the timer for it, and the timers pending are the popups'.
Listed(l, m) ==
    /\ l \in Seq(Popup) /\ IsInjective(l)
    /\ \A p \in Popup : Contains(l, p) <=> m[p].state # "unused"
Timed(m, t) ==
    /\ t \subseteq Popup \X TimerNames
    /\ \A p \in Popup, x \in TimerNames : <<p, x>> \in t <=> m[p].timer = x
Known(m) ==
    /\ m \in [Popup -> Displays]
    /\ \A p \in Popup : /\ m[p].state = "unused" => m[p] = Unused
                        /\ m[p].state # "unused" => m[p].timer # "none"
                        /\ m[p].state = "showing" => m[p].timer = "grow"
Whole(l, m, t) == Known(m) /\ Listed(l, m) /\ Timed(m, t)
Placed(l, m, v) == \A i \in DOMAIN l : m[l[i]].at = Span(l, Sizing(m), i - 1, v)

\* The operators on records, in these terms.
LEMMA PositionedIs ==
    ASSUME NEW l, NEW m, NEW t, NEW v
    PROVE  Positioned(Rec(l, m, t), v) = Rec(l, At(l, m, v), t)
<1> DEFINE s == Rec(l, m, t)
<1>1. s.list = l /\ s.pop = m /\ s.timers = t
  BY DEF Rec
<1>2. [s EXCEPT !.pop = At(l, m, v)] = Rec(l, At(l, m, v), t)
  BY DEF Rec
<1> HIDE DEF s
<1>3. [q \in Popup |-> s.pop[q].size] = Sizing(m)
  BY <1>1 DEF Sizing
<1>4. \A p \in Popup : Total(s, p, v) = Span(l, Sizing(m), Before(l, p), v)
  BY <1>1, <1>3, Zenon DEF Total
<1>5. [p \in Popup |-> IF Contains(s.list, p) THEN [s.pop[p] EXCEPT !.at = Total(s, p, v)]
                       ELSE s.pop[p]] = At(l, m, v)
  BY <1>1, <1>4 DEF At
<1>6. Positioned(s, v) = [s EXCEPT !.pop = At(l, m, v)]
  BY <1>5, Zenon DEF Positioned
<1> QED
  BY <1>2, <1>6, Zenon DEF s

LEMMA RemovedIs ==
    ASSUME NEW l, NEW m, NEW t, NEW p
    PROVE  Removed(Rec(l, m, t), p)
             = Rec(Without(l, p), [m EXCEPT ![p] = Unused], t \ {<<p, m[p].timer>>})
BY Zenon DEF Removed, Rec, Without

\* The place of a listed popup is found, once it is listed once.
LEMMA BeforeListed ==
    ASSUME NEW l \in Seq(Popup), IsInjective(l), NEW i \in DOMAIN l
    PROVE  Contains(l, l[i]) /\ Before(l, l[i]) = i - 1
<1>1. Contains(l, l[i])
  BY DEF Contains
<1>2. \A j \in DOMAIN l : l[j] = l[i] <=> j = i
  BY DEF IsInjective
<1>3. (CHOOSE j \in DOMAIN l : l[j] = l[i]) = i
  BY <1>2
<1> QED
  BY <1>1, <1>3 DEF Before

LEMMA ContainsIs ==
    ASSUME NEW l \in Seq(Popup), NEW p
    PROVE  /\ Contains(l, p) <=> \E i \in DOMAIN l : l[i] = p
           /\ ~Contains(l, p) => Before(l, p) = Len(l)
BY DEF Contains, Before

\* Every popup has a size that can be added up.
LEMMA SizesMeasured ==
    ASSUME NEW l \in Seq(Popup), NEW m, Known(m), NEW v, NEW n \in 0..Len(l)
    PROVE  Measured(l, Sizing(m), n, v)
<1> SUFFICES ASSUME NEW i \in 1..n PROVE Extent(Sizing(m)[l[i]], v) \in Nat
  BY DEF Measured
<1>1. l[i] \in Popup
  OBVIOUS
<1>2. Sizing(m)[l[i]] = m[l[i]].size /\ m[l[i]].size \in Nat \X Nat
  BY <1>1 DEF Sizing, Known, Displays
<1> QED
  BY <1>2 DEF Extent

LEMMA PlaceType ==
    ASSUME NEW l \in Seq(Popup), NEW m, Known(m), NEW v, NEW n \in 0..Len(l)
    PROVE  Span(l, Sizing(m), n, v) \in Nat
BY SizesMeasured, SpanType

\* Moving a popup changes nothing else of it.
LEMMA Moved ==
    ASSUME NEW d \in Displays, NEW at \in Nat
    PROVE  /\ [d EXCEPT !.at = at] \in Displays
           /\ [d EXCEPT !.at = at].at = at
           /\ [d EXCEPT !.at = at].state = d.state
           /\ [d EXCEPT !.at = at].timer = d.timer
           /\ [d EXCEPT !.at = at].size = d.size
BY DEF Displays

\* gtkntf_displays_position puts every popup in its place and changes nothing else.
LEMMA AtSound ==
    ASSUME NEW l, NEW m, NEW t, NEW v, Whole(l, m, t)
    PROVE  Whole(l, At(l, m, v), t) /\ Placed(l, At(l, m, v), v)
<1> DEFINE n == At(l, m, v)
<1>0. l \in Seq(Popup) /\ IsInjective(l) /\ Known(m)
  BY DEF Whole, Listed
<1>1. \A p \in Popup : m[p] \in Displays
  BY <1>0 DEF Known
<1>2. \A p \in Popup : Contains(l, p) =>
         Before(l, p) \in 0..Len(l) /\ Span(l, Sizing(m), Before(l, p), v) \in Nat
  <2> SUFFICES ASSUME NEW p \in Popup, Contains(l, p)
               PROVE  Before(l, p) \in 0..Len(l) /\ Span(l, Sizing(m), Before(l, p), v) \in Nat
    OBVIOUS
  <2>1. PICK i \in DOMAIN l : l[i] = p
    BY <1>0, ContainsIs
  <2>2. Before(l, p) = i - 1
    BY <1>0, <2>1, BeforeListed
  <2>3. Before(l, p) \in 0..Len(l)
    BY <1>0, <2>2
  <2> QED
    BY <1>0, <2>3, PlaceType
<1>3. \A p \in Popup : /\ n[p] \in Displays /\ n[p].state = m[p].state
                       /\ n[p].timer = m[p].timer /\ n[p].size = m[p].size
                       /\ Contains(l, p) => n[p].at = Span(l, Sizing(m), Before(l, p), v)
                       /\ ~Contains(l, p) => n[p] = m[p]
  <2> SUFFICES ASSUME NEW p \in Popup
               PROVE  /\ n[p] \in Displays /\ n[p].state = m[p].state
                      /\ n[p].timer = m[p].timer /\ n[p].size = m[p].size
                      /\ Contains(l, p) => n[p].at = Span(l, Sizing(m), Before(l, p), v)
                      /\ ~Contains(l, p) => n[p] = m[p]
    OBVIOUS
  <2>1. ASSUME Contains(l, p)
        PROVE  n[p] = [m[p] EXCEPT !.at = Span(l, Sizing(m), Before(l, p), v)]
    BY <2>1 DEF At
  <2>2. ASSUME ~Contains(l, p) PROVE n[p] = m[p]
    BY <2>2 DEF At
  <2> HIDE DEF n
  <2>3. CASE Contains(l, p)
    <3> DEFINE at == Span(l, Sizing(m), Before(l, p), v)
    <3>1. at \in Nat /\ m[p] \in Displays
      BY <1>1, <1>2, <2>3
    <3>2. n[p] = [m[p] EXCEPT !.at = at]
      BY <2>1, <2>3
    <3> HIDE DEF at
    <3>3. /\ n[p] \in Displays /\ n[p].state = m[p].state /\ n[p].timer = m[p].timer
          /\ n[p].size = m[p].size /\ n[p].at = at
      BY <3>1, <3>2, Moved
    <3> QED
      BY <2>3, <3>3 DEF at
  <2> QED
    BY <1>1, <2>2, <2>3
<1>4. n \in [Popup -> Displays]
  <2>1. n = [p \in Popup |-> n[p]]
    BY DEF At
  <2> HIDE DEF n
  <2> QED
    BY <1>3, <2>1
<1>5. Sizing(n) = Sizing(m)
  <2> HIDE DEF n
  <2> QED
    BY <1>3 DEF Sizing
<1> HIDE DEF n
<1>6. Listed(l, n)
  BY <1>3 DEF Whole, Listed
<1>7. Timed(n, t)
  BY <1>3 DEF Whole, Timed
<1>8. Known(n)
  BY <1>3, <1>4, <1>6 DEF Whole, Known, Listed
<1>9. Placed(l, n, v)
  <2> SUFFICES ASSUME NEW i \in DOMAIN l PROVE n[l[i]].at = Span(l, Sizing(n), i - 1, v)
    BY DEF Placed
  <2>1. l[i] \in Popup
    BY <1>0
  <2>2. Contains(l, l[i]) /\ Before(l, l[i]) = i - 1
    BY <1>0, BeforeListed
  <2> QED
    BY <1>3, <1>5, <2>1, <2>2
<1> QED
  BY <1>6, <1>7, <1>8, <1>9 DEF n, Whole
\* What is left of a list when an element is taken out.
LEMMA RemoveAtIs ==
    ASSUME NEW S, NEW l \in Seq(S), NEW i \in DOMAIN l
    PROVE  /\ RemoveAt(l, i) \in Seq(S) /\ Len(RemoveAt(l, i)) = Len(l) - 1
           /\ \A j \in DOMAIN RemoveAt(l, i) :
                 RemoveAt(l, i)[j] = IF j < i THEN l[j] ELSE l[j + 1]
<1> DEFINE w == RemoveAt(l, i)
           x == SubSeq(l, 1, i - 1)
           y == SubSeq(l, i + 1, Len(l))
<1>1. i \in Nat /\ 1 <= i /\ i <= Len(l) /\ Len(l) \in Nat
  OBVIOUS
<1>2. /\ x \in Seq(S) /\ Len(x) = i - 1
      /\ \A j \in 1..i - 1 : x[j] = l[j]
  BY <1>1
<1>3. /\ y \in Seq(S) /\ Len(y) = Len(l) - i
      /\ \A j \in 1..Len(l) - i : y[j] = l[i + j]
  BY <1>1
<1>4. w = x \o y
  BY DEF RemoveAt
<1> HIDE DEF w, x, y
<1>5. w \in Seq(S) /\ Len(w) = Len(l) - 1
  BY <1>1, <1>2, <1>3, <1>4
<1>6. \A j \in 1..Len(l) - 1 : w[j] = IF j < i THEN x[j] ELSE y[j - (i - 1)]
  <2> SUFFICES ASSUME NEW j \in 1..Len(l) - 1
               PROVE  (x \o y)[j] = IF j < i THEN x[j] ELSE y[j - (i - 1)]
    BY <1>4
  <2>1. Len(x) \in Nat /\ Len(y) \in Nat /\ j \in 1..Len(x) + Len(y)
    BY <1>1, <1>2, <1>3
  <2>2. (x \o y)[j] = IF j <= Len(x) THEN x[j] ELSE y[j - Len(x)]
    BY <1>2, <1>3, <2>1, SMTT(30)
  <2>3. Len(x) = i - 1 /\ (j <= Len(x) <=> j < i)
    BY <1>1, <1>2, <2>1
  <2> QED
    BY <2>2, <2>3
<1>7. ASSUME NEW j \in DOMAIN w PROVE w[j] = IF j < i THEN l[j] ELSE l[j + 1]
  <2>1. j \in 1..Len(l) - 1
    BY <1>5
  <2>2. CASE j < i
    BY <1>1, <1>2, <1>6, <2>1, <2>2
  <2>3. CASE ~(j < i)
    <3>1. j - (i - 1) \in 1..Len(l) - i /\ i + (j - (i - 1)) = j + 1
      <4>1. j \in Int /\ j <= Len(l) - 1 /\ j >= i /\ i \in Int /\ Len(l) \in Int
        BY <1>1, <2>1, <2>3
      <4> QED
        BY <4>1
    <3>2. w[j] = y[j - (i - 1)]
      BY <1>6, <2>1, <2>3
    <3> QED
      BY <1>3, <2>3, <3>1, <3>2
  <2> QED
    BY <2>2, <2>3
<1> QED
  BY <1>5, <1>7 DEF w

\* A listed popup is taken out of the list, and the others stay in their order.
LEMMA WithoutIs ==
    ASSUME NEW l \in Seq(Popup), IsInjective(l), NEW p \in Popup, Contains(l, p)
    PROVE  /\ Without(l, p) \in Seq(Popup) /\ IsInjective(Without(l, p))
           /\ Len(Without(l, p)) = Len(l) - 1
           /\ \A q \in Popup : Contains(Without(l, p), q) <=> Contains(l, q) /\ q # p
<1> DEFINE w == Without(l, p)
<1>1. PICK i \in DOMAIN l : l[i] = p
  BY ContainsIs
<1>2. Before(l, p) + 1 = i
  BY <1>1, BeforeListed
<1>3. w = RemoveAt(l, i)
  BY <1>2 DEF Without
<1> HIDE DEF w
<1>4. /\ w \in Seq(Popup) /\ Len(w) = Len(l) - 1
      /\ \A j \in DOMAIN w : w[j] = IF j < i THEN l[j] ELSE l[j + 1]
  BY <1>3, RemoveAtIs
<1>5. \A j \in DOMAIN w : /\ j < i => j \in DOMAIN l
                          /\ j >= i => j + 1 \in DOMAIN l
  BY <1>4
<1>6. IsInjective(w)
  <2> SUFFICES ASSUME NEW a \in DOMAIN w, NEW b \in DOMAIN w, w[a] = w[b] PROVE a = b
    BY DEF IsInjective
  <2>1. a \in Nat /\ b \in Nat /\ i \in Nat
    BY <1>4
  <2>2. \A j, k \in DOMAIN l : l[j] = l[k] => j = k
    BY DEF IsInjective
  <2> QED
    BY <1>4, <1>5, <2>1, <2>2
<1>7. ASSUME NEW q \in Popup PROVE Contains(w, q) <=> Contains(l, q) /\ q # p
  <2>1. ASSUME NEW j \in DOMAIN w PROVE Contains(l, w[j]) /\ w[j] # p
    <3>1. CASE j < i
      <4>1. w[j] = l[j] /\ j \in DOMAIN l /\ j # i
        BY <1>4, <1>5, <3>1
      <4> QED
        BY <1>1, <4>1, ContainsIs DEF IsInjective
    <3>2. CASE ~(j < i)
      <4>1. w[j] = l[j + 1] /\ j + 1 \in DOMAIN l /\ j + 1 # i
        BY <1>4, <1>5, <3>2
      <4> QED
        BY <1>1, <4>1, ContainsIs DEF IsInjective
    <3> QED
      BY <3>1, <3>2
  <2>2. ASSUME Contains(l, q), q # p PROVE Contains(w, q)
    <3>1. PICK k \in DOMAIN l : l[k] = q
      BY <2>2, ContainsIs
    <3>2. k # i
      BY <1>1, <2>2, <3>1
    <3>3. CASE k < i
      <4>1. k \in DOMAIN w /\ w[k] = q
        BY <1>4, <3>1, <3>3
      <4> QED
        BY <1>4, <4>1, ContainsIs
    <3>4. CASE k > i
      <4>1. k - 1 \in DOMAIN w /\ w[k - 1] = q
        BY <1>4, <3>1, <3>4
      <4> QED
        BY <1>4, <4>1, ContainsIs
    <3> QED
      BY <3>2, <3>3, <3>4
  <2>3. Contains(w, q) => \E j \in DOMAIN w : w[j] = q
    BY <1>4, ContainsIs
  <2> QED
    BY <2>1, <2>2, <2>3
<1> QED
  BY <1>4, <1>6, <1>7 DEF w

LEMMA UnusedIs ==
    /\ Unused \in Displays /\ Unused.state = "unused" /\ Unused.timer = "none"
BY DEF Unused, Displays, PopupState

\* gtkntf_display_destroy, before the others are moved: whichever popup it is and
\* whatever timer it has.
LEMMA RemovedSound ==
    ASSUME NEW l, NEW m, NEW t, Whole(l, m, t), NEW p \in Popup, Contains(l, p)
    PROVE  /\ Whole(Without(l, p), [m EXCEPT ![p] = Unused], t \ {<<p, m[p].timer>>})
           /\ Len(Without(l, p)) = Len(l) - 1
<1> DEFINE w == Without(l, p)
           n == [m EXCEPT ![p] = Unused]
           r == t \ {<<p, m[p].timer>>}
<1>0. l \in Seq(Popup) /\ IsInjective(l) /\ Known(m) /\ Timed(m, t)
  BY DEF Whole, Listed
<1>1. /\ n \in [Popup -> Displays] /\ n[p] = Unused
      /\ \A q \in Popup : q # p => n[q] = m[q]
  BY <1>0, UnusedIs DEF Known
<1> HIDE DEF n
<1>2. Known(n)
  BY <1>0, <1>1, UnusedIs DEF Known
<1>3. /\ w \in Seq(Popup) /\ IsInjective(w) /\ Len(w) = Len(l) - 1
      /\ \A q \in Popup : Contains(w, q) <=> Contains(l, q) /\ q # p
  BY <1>0, WithoutIs
<1> HIDE DEF w
<1>4. Listed(w, n)
  BY <1>1, <1>3, UnusedIs DEF Listed, Whole
<1>5. Timed(n, r)
  <2>1. r \subseteq Popup \X TimerNames
    BY <1>0 DEF Timed
  <2>2. ASSUME NEW q \in Popup, NEW x \in TimerNames PROVE <<q, x>> \in r <=> n[q].timer = x
    <3>1. <<q, x>> \in t <=> m[q].timer = x
      BY <1>0 DEF Timed
    <3>2. <<q, x>> \in r <=> m[q].timer = x /\ ~(q = p /\ x = m[p].timer)
      BY <3>1
    <3>3. x # "none"
      BY DEF TimerNames
    <3> QED
      BY <1>1, <3>2, <3>3, UnusedIs
  <2> HIDE DEF r
  <2> QED
    BY <2>1, <2>2 DEF Timed
<1> QED
  BY <1>2, <1>3, <1>4, <1>5 DEF w, n, r, Whole

\* gtkntf_display_condense leaves room, and everything in its place.
LEMMA CondensedSound ==
    ASSUME NEW l, NEW m, NEW t, NEW v, Whole(l, m, t), Placed(l, m, v),
           NEW throttle \in Nat
    PROVE  \E a, b, c : /\ Condensed(Rec(l, m, t), throttle, v) = Rec(a, b, c)
                        /\ Whole(a, b, c) /\ Placed(a, b, v)
                        /\ Len(a) <= Len(l)
                        /\ throttle > 0 => Len(a) + 1 <= throttle \/ Len(a) + 1 <= Len(l)
                        /\ \A q \in Popup : m[q].state = "unused" => b[q].state = "unused"
<1> DEFINE s == Rec(l, m, t)
<1>0. l \in Seq(Popup) /\ s.list = l
  BY DEF Rec, Whole, Listed
<1>1. CASE throttle > 0 /\ Len(l) + 1 > throttle
  <2> DEFINE p == Head(l)
  <2>1. p \in Popup /\ Contains(l, p)
    BY <1>0, <1>1 DEF Contains
  <2>2. Condensed(s, throttle, v) = Positioned(Removed(s, p), v)
    BY <1>0, <1>1, Zenon DEF Condensed
  <2> HIDE DEF p
  <2> DEFINE a == Without(l, p)
             n == [m EXCEPT ![p] = Unused]
             c == t \ {<<p, m[p].timer>>}
             b == At(a, n, v)
  <2>3. Whole(a, n, c) /\ Len(a) = Len(l) - 1
    BY <2>1, RemovedSound
  <2>4. \A q \in Popup : m[q].state = "unused" => n[q].state = "unused"
    BY UnusedIs, <2>1 DEF Whole, Known
  <2>5. Condensed(s, throttle, v) = Rec(a, b, c)
    BY <2>2, RemovedIs, PositionedIs
  <2> HIDE DEF a, n, c
  <2>6. Whole(a, b, c) /\ Placed(a, b, v)
    BY <2>3, AtSound
  <2>7. \A q \in Popup : n[q].state = "unused" => b[q].state = "unused"
    BY <2>3, <2>6 DEF Whole, Listed
  <2> HIDE DEF b
  <2>8. Len(a) \in Nat /\ Len(l) \in Nat
    BY <1>0, <2>3 DEF Whole, Listed
  <2> QED
    BY <2>3, <2>4, <2>5, <2>6, <2>7, <2>8
<1>2. CASE ~(throttle > 0 /\ Len(l) + 1 > throttle)
  <2>1. Condensed(s, throttle, v) = Rec(l, m, t)
    BY <1>0, <1>2, Zenon DEF Condensed
  <2>2. Len(l) \in Nat
    BY <1>0
  <2>3. throttle > 0 => Len(l) + 1 <= throttle
    BY <1>2, <2>2
  <2> QED
    BY <2>1, <2>2, <2>3
<1> QED
  BY <1>1, <1>2
\* A listed popup changes, in its place, and with it the timer it has.
LEMMA ChangedSound ==
    ASSUME NEW l, NEW m, NEW t, NEW v, Whole(l, m, t), Placed(l, m, v),
           NEW p \in Popup, Contains(l, p), NEW e \in Displays,
           e.state # "unused", e.timer # "none", e.state = "showing" => e.timer = "grow",
           e.size = m[p].size, e.at = m[p].at,
           NEW r, r = (t \ {<<p, m[p].timer>>}) \cup {<<p, e.timer>>}
    PROVE  /\ Whole(l, [m EXCEPT ![p] = e], r)
           /\ Placed(l, [m EXCEPT ![p] = e], v)
<1> DEFINE n == [m EXCEPT ![p] = e]
<1>0. l \in Seq(Popup) /\ Known(m) /\ Timed(m, t) /\ Listed(l, m)
  BY DEF Whole, Listed
<1>1. /\ n \in [Popup -> Displays] /\ n[p] = e
      /\ \A q \in Popup : q # p => n[q] = m[q]
  BY <1>0 DEF Known
<1> HIDE DEF n
<1>2. Known(n)
  BY <1>0, <1>1 DEF Known
<1>3. Listed(l, n)
  BY <1>0, <1>1 DEF Listed
<1>4. Timed(n, r)
  <2>1. e.timer \in TimerNames
    BY DEF Displays
  <2>2. r \subseteq Popup \X TimerNames
    BY <1>0, <2>1 DEF Timed
  <2>3. ASSUME NEW q \in Popup, NEW x \in TimerNames PROVE <<q, x>> \in r <=> n[q].timer = x
    <3>1. <<q, x>> \in t <=> m[q].timer = x
      BY <1>0 DEF Timed
    <3>2. <<q, x>> \in r <=> (m[q].timer = x /\ ~(q = p /\ x = m[p].timer)) \/ (q = p /\ x = e.timer)
      BY <3>1
    <3> QED
      BY <1>1, <3>2
  <2> QED
    BY <2>2, <2>3 DEF Timed
<1>5. Sizing(n) = Sizing(m)
  BY <1>1 DEF Sizing
<1>6. Placed(l, n, v)
  BY <1>0, <1>1, <1>5 DEF Placed
<1> QED
  BY <1>2, <1>3, <1>4, <1>6 DEF n, Whole

\* A new popup stands behind the others.
LEMMA AddedSound ==
    ASSUME NEW l, NEW m, NEW t, NEW v, Whole(l, m, t), Placed(l, m, v),
           NEW p \in Popup, m[p].state = "unused", NEW e \in Displays,
           e.state # "unused", e.timer # "none", e.state = "showing" => e.timer = "grow",
           e.at = Span(l, Sizing(m), Before(l, p), v)
    PROVE  /\ Whole(Append(l, p), [m EXCEPT ![p] = e], t \cup {<<p, e.timer>>})
           /\ Placed(Append(l, p), [m EXCEPT ![p] = e], v)
           /\ Len(Append(l, p)) = Len(l) + 1
<1> DEFINE n == [m EXCEPT ![p] = e]
           k == Append(l, p)
           r == t \cup {<<p, e.timer>>}
<1>0. l \in Seq(Popup) /\ Known(m) /\ Timed(m, t) /\ Listed(l, m) /\ IsInjective(l)
  BY DEF Whole, Listed
<1>1. /\ n \in [Popup -> Displays] /\ n[p] = e
      /\ \A q \in Popup : q # p => n[q] = m[q]
  BY <1>0 DEF Known
<1> HIDE DEF n
<1>2. Known(n)
  BY <1>0, <1>1 DEF Known
<1>3. ~Contains(l, p) /\ \A i \in DOMAIN l : l[i] # p
  BY <1>0, ContainsIs DEF Listed
<1>4. /\ k \in Seq(Popup) /\ Len(k) = Len(l) + 1 /\ k[Len(l) + 1] = p
      /\ \A i \in DOMAIN l : k[i] = l[i]
      /\ \A i \in DOMAIN k : i \in DOMAIN l \/ i = Len(l) + 1
      /\ \A i \in DOMAIN l : i \in DOMAIN k
      /\ Len(l) + 1 \in DOMAIN k /\ Len(l) \in Nat
  BY <1>0
<1> HIDE DEF k
<1>5. IsInjective(k)
  BY <1>0, <1>3, <1>4 DEF IsInjective
<1>6. \A q \in Popup : Contains(k, q) <=> Contains(l, q) \/ q = p
  BY <1>0, <1>4, ContainsIs
<1>7. Listed(k, n)
  BY <1>0, <1>1, <1>4, <1>5, <1>6 DEF Listed
<1>8. Timed(n, r)
  <2>1. e.timer \in TimerNames
    BY DEF Displays
  <2>2. r \subseteq Popup \X TimerNames
    BY <1>0, <2>1 DEF Timed
  <2>3. ASSUME NEW q \in Popup, NEW x \in TimerNames PROVE <<q, x>> \in r <=> n[q].timer = x
    <3>1. <<q, x>> \in t <=> m[q].timer = x
      BY <1>0 DEF Timed
    <3>2. <<q, x>> \in r <=> m[q].timer = x \/ (q = p /\ x = e.timer)
      BY <3>1
    <3>3. x # "none" /\ m[p].timer = "none"
      BY <1>0, UnusedIs DEF TimerNames, Known
    <3> QED
      BY <1>1, <3>2, <3>3
  <2> HIDE DEF r
  <2> QED
    BY <2>2, <2>3 DEF Timed
<1>9. Placed(k, n, v)
  <2> SUFFICES ASSUME NEW i \in DOMAIN k PROVE n[k[i]].at = Span(k, Sizing(n), i - 1, v)
    BY DEF Placed
  <2>1. i - 1 \in 0..Len(l)
    BY <1>4
  <2>2. \A j \in 1..i - 1 : j \in DOMAIN l
    BY <1>4, <2>1
  <2>3. \A j \in 1..i - 1 : Sizing(m)[l[j]] = Sizing(n)[k[j]]
    <3> SUFFICES ASSUME NEW j \in 1..i - 1 PROVE Sizing(m)[l[j]] = Sizing(n)[k[j]]
      OBVIOUS
    <3>1. l[j] \in Popup /\ l[j] # p /\ k[j] = l[j]
      BY <1>0, <1>3, <1>4, <2>2
    <3> QED
      BY <1>1, <3>1 DEF Sizing
  <2>4. Span(k, Sizing(n), i - 1, v) = Span(l, Sizing(m), i - 1, v)
    BY <1>0, <2>1, <2>3, SizesMeasured, SpanSame
  <2>5. CASE i \in DOMAIN l
    <3>1. k[i] = l[i] /\ l[i] \in Popup /\ l[i] # p
      BY <1>0, <1>3, <1>4, <2>5
    <3> QED
      BY <1>1, <2>4, <2>5, <3>1 DEF Placed
  <2>6. CASE i = Len(l) + 1
    <3>1. k[i] = p /\ i - 1 = Len(l) /\ Before(l, p) = Len(l)
      BY <1>0, <1>3, <1>4, <2>6, ContainsIs
    <3> QED
      BY <1>1, <2>4, <3>1
  <2> QED
    BY <1>4, <2>5, <2>6
<1> HIDE DEF r
<1>10. Whole(k, n, r)
  BY <1>2, <1>7, <1>8 DEF Whole
<1> QED
  BY <1>4, <1>9, <1>10, Zenon DEF n, k, r
-----------------------------------------------------------------------------
(* The popups through the steps of the program                              *)

AtMost(n) == 0 \notin Throttles => \E t \in Throttles : n <= t
PopupsInv ==
    /\ Whole(displays, popup, timers)
    /\ vertical \in BOOLEAN
    /\ Placed(displays, popup, vertical)
    /\ AtMost(Len(displays))

LEMMA NowIs ==
    /\ Now = Rec(displays, popup, timers)
    /\ \A l, m, t : Becomes(Rec(l, m, t)) <=> displays' = l /\ popup' = m /\ timers' = t
BY DEF Now, Becomes, Rec

LEMMA Fewer ==
    ASSUME NEW n \in Nat, AtMost(n), NEW k \in Nat, k <= n
    PROVE  AtMost(k)
BY NoticesAssumption DEF AtMost

\* A pending timer is that of a listed popup.
LEMMA TimerOfListed ==
    ASSUME Whole(displays, popup, timers), NEW p \in Popup, NEW x \in TimerNames,
           <<p, x>> \in timers
    PROVE  /\ Contains(displays, p) /\ popup[p].timer = x
           /\ popup[p] \in Displays /\ popup[p].state # "unused"
<1>1. popup[p].timer = x /\ x # "none"
  BY DEF Whole, Timed, TimerNames
<1>2. popup[p] \in Displays /\ popup[p].state # "unused"
  BY <1>1, UnusedIs DEF Whole, Known
<1> QED
  BY <1>1, <1>2 DEF Whole, Listed

LEMMA DestroyedStep ==
    ASSUME PopupsInv, NEW p \in Popup, Contains(displays, p), Destroyed(p), vertical' = vertical
    PROVE  PopupsInv'
<1> DEFINE a == Without(displays, p)
           n == [popup EXCEPT ![p] = Unused]
           c == timers \ {<<p, popup[p].timer>>}
           b == At(a, n, vertical)
<1>1. Whole(a, n, c) /\ Len(a) = Len(displays) - 1
  BY RemovedSound DEF PopupsInv
<1>2. Becomes(Positioned(Removed(Now, p), vertical))
  BY DEF Destroyed
<1>3. Positioned(Removed(Now, p), vertical) = Rec(a, b, c)
  BY NowIs, RemovedIs, PositionedIs
<1> HIDE DEF a, n, c
<1>4. Whole(a, b, c) /\ Placed(a, b, vertical)
  BY <1>1, AtSound
<1> HIDE DEF b
<1>5. displays' = a /\ popup' = b /\ timers' = c
  BY <1>2, <1>3, NowIs
<1>6. AtMost(Len(a))
  <2>1. Len(a) \in Nat /\ Len(displays) \in Nat
    BY <1>1 DEF PopupsInv, Whole, Listed
  <2> QED
    BY <1>1, <2>1, Fewer DEF PopupsInv
<1> QED
  BY <1>4, <1>5, <1>6 DEF PopupsInv

\* A frame of the animation draws the popup at its place.
LEMMA DrawnIs ==
    ASSUME PopupsInv, NEW p \in Popup, Contains(displays, p), NEW d, d = popup[p]
    PROVE  /\ Partial(d.size, d.round, vertical) \in Nat \X Nat
           /\ Total(Now, p, vertical) = d.at /\ d.at \in Nat
<1>1. d \in Displays
  BY DEF PopupsInv, Whole, Known
<1>2. d.size \in Nat \X Nat /\ d.at \in Nat
  BY <1>1 DEF Displays
<1>3. \A total, round : Change(total, round) \in Nat
  BY DEF Change
<1>4. Partial(d.size, d.round, vertical) \in Nat \X Nat
  <2>1. \A r : d.size[1] \in Nat /\ d.size[2] \in Nat
    BY <1>2
  <2> QED
    BY <1>3, <2>1 DEF Partial
<1>5. Total(Now, p, vertical) = Span(displays, Sizing(popup), Before(displays, p), vertical)
  <2>1. Now.list = displays /\ Now.pop = popup
    BY DEF Now
  <2> QED
    BY <2>1, Zenon DEF Total, Sizing
<1>6. PICK i \in DOMAIN displays : displays[i] = p
  BY ContainsIs DEF PopupsInv, Whole, Listed
<1>7. Before(displays, p) = i - 1
  BY <1>6, BeforeListed DEF PopupsInv, Whole, Listed
<1> QED
  BY <1>2, <1>4, <1>5, <1>6, <1>7 DEF PopupsInv, Placed
DrawnAs(d, part, at) == [d EXCEPT !.part = part, !.at = at]
InState(d, x, y) == [d EXCEPT !.state = x, !.timer = y]

LEMMA DrawnFields ==
    ASSUME NEW d \in Displays, NEW part \in Nat \X Nat, NEW at \in Nat
    PROVE  /\ DrawnAs(d, part, at) \in Displays
           /\ DrawnAs(d, part, at).state = d.state /\ DrawnAs(d, part, at).timer = d.timer
           /\ DrawnAs(d, part, at).size = d.size /\ DrawnAs(d, part, at).round = d.round
           /\ DrawnAs(d, part, at).at = at
BY DEF Displays, DrawnAs

LEMMA RoundFields ==
    ASSUME NEW d \in Displays, NEW k \in Nat
    PROVE  LET e == [d EXCEPT !.round = k]
           IN /\ e \in Displays /\ e.state = d.state /\ e.timer = d.timer
              /\ e.size = d.size /\ e.at = d.at
BY DEF Displays

LEMMA StateFields ==
    ASSUME NEW d \in Displays, NEW x \in PopupState, NEW y \in TimerNames
    PROVE  /\ InState(d, x, y) \in Displays
           /\ InState(d, x, y).state = x /\ InState(d, x, y).timer = y
           /\ InState(d, x, y).size = d.size /\ InState(d, x, y).at = d.at
BY DEF Displays, InState

\* A listed popup changes, and its timer with it.
LEMMA ChangedStep ==
    ASSUME PopupsInv, NEW p \in Popup, Contains(displays, p), NEW e \in Displays,
           e.state # "unused", e.timer # "none", e.state = "showing" => e.timer = "grow",
           e.size = popup[p].size, e.at = popup[p].at,
           popup' = [popup EXCEPT ![p] = e],
           timers' = (timers \ {<<p, popup[p].timer>>}) \cup {<<p, e.timer>>},
           displays' = displays, vertical' = vertical
    PROVE  PopupsInv'
<1> DEFINE r == (timers \ {<<p, popup[p].timer>>}) \cup {<<p, e.timer>>}
<1>1. /\ Whole(displays, [popup EXCEPT ![p] = e], r)
      /\ Placed(displays, [popup EXCEPT ![p] = e], vertical)
  BY ChangedSound DEF PopupsInv
<1> HIDE DEF r
<1>2. timers' = r
  BY DEF r
<1> QED
  BY <1>1, <1>2 DEF PopupsInv

LEMMA FrameStep ==
    ASSUME PopupsInv, NEW p \in Popup, Frame(p)
    PROVE  PopupsInv'
<1> DEFINE d == popup[p]
           part == Partial(d.size, d.round, vertical)
           at == Total(Now, p, vertical)
           drawn == [d EXCEPT !.part = part, !.at = at]
<1>1. /\ <<p, d.timer>> \in timers /\ d.timer \in {"grow", "shrink"}
      /\ vertical' = vertical
  BY DEF Frame, windows
<1>2. /\ Contains(displays, p) /\ d \in Displays /\ d.state # "unused"
      /\ Whole(displays, popup, timers)
  BY <1>1, TimerOfListed DEF PopupsInv, TimerNames
<1>3. \/ Destroyed(p)
      \/ /\ d.state = "showing" /\ d.round + 1 <= Rounds
         /\ popup' = [popup EXCEPT ![p] = [drawn EXCEPT !.round = @ + 1]]
         /\ UNCHANGED <<displays, timers>>
      \/ /\ d.state = "showing" /\ d.round + 1 > Rounds
         /\ popup' = [popup EXCEPT ![p] = [drawn EXCEPT !.round = Rounds - 1,
                         !.state = "shown", !.timer = "shown"]]
         /\ timers' = (timers \ {<<p, "grow">>}) \cup {<<p, "shown">>}
         /\ UNCHANGED displays
      \/ /\ d.state = "hiding" /\ d.round - 1 > 0
         /\ popup' = [popup EXCEPT ![p] = [drawn EXCEPT !.round = @ - 1]]
         /\ UNCHANGED <<displays, timers>>
  BY Zenon DEF Frame
<1>4. part \in Nat \X Nat /\ at = d.at /\ at \in Nat
  BY <1>2, DrawnIs
<1> HIDE DEF part, at
<1>5. /\ drawn \in Displays /\ drawn.state = d.state /\ drawn.timer = d.timer
      /\ drawn.size = d.size /\ drawn.at = d.at /\ drawn.round = d.round
  <2>1. drawn = DrawnAs(d, part, at)
    BY Zenon DEF DrawnAs
  <2> HIDE DEF drawn, d
  <2> QED
    BY <1>2, <1>4, <2>1, DrawnFields, ZenonT(60)
<1>6. d.round \in Nat
  BY <1>2 DEF Displays
<1>7. d.state = "showing" => d.timer = "grow"
  BY <1>2 DEF Whole, Known
<1>8. timers = (timers \ {<<p, d.timer>>}) \cup {<<p, d.timer>>}
  BY <1>1
<1> HIDE DEF drawn
<1>9. CASE Destroyed(p)
  BY <1>1, <1>2, <1>9, DestroyedStep
<1>10. ASSUME NEW k \in Nat, popup' = [popup EXCEPT ![p] = [drawn EXCEPT !.round = k]],
              UNCHANGED <<displays, timers>>
       PROVE  PopupsInv'
  <2> DEFINE e == [drawn EXCEPT !.round = k]
  <2>1. /\ e \in Displays /\ e.state = d.state /\ e.timer = d.timer
        /\ e.size = d.size /\ e.at = d.at
    BY <1>5, RoundFields
  <2>2. popup' = [popup EXCEPT ![p] = e] /\ displays' = displays
    BY <1>10
  <2> HIDE DEF e
  <2>3. timers' = (timers \ {<<p, popup[p].timer>>}) \cup {<<p, e.timer>>}
    BY <1>8, <1>10, <2>1
  <2>4. e.state # "unused" /\ e.timer # "none" /\ (e.state = "showing" => e.timer = "grow")
    BY <1>1, <1>2, <1>7, <2>1
  <2> HIDE DEF d
  <2>5. e.size = popup[p].size /\ e.at = popup[p].at
    BY <2>1 DEF d
  <2> QED
    BY <1>1, <1>2, <2>1, <2>2, <2>3, <2>4, <2>5, ChangedStep
<1>11. CASE /\ d.state = "showing" /\ d.round + 1 <= Rounds
            /\ popup' = [popup EXCEPT ![p] = [drawn EXCEPT !.round = @ + 1]]
            /\ UNCHANGED <<displays, timers>>
  <2>1. d.round + 1 \in Nat
    BY <1>6
  <2>2. [drawn EXCEPT !.round = @ + 1] = [drawn EXCEPT !.round = d.round + 1]
    BY <1>5
  <2> QED
    BY <1>10, <1>11, <2>1, <2>2
<1>12. CASE /\ d.state = "hiding" /\ d.round - 1 > 0
            /\ popup' = [popup EXCEPT ![p] = [drawn EXCEPT !.round = @ - 1]]
            /\ UNCHANGED <<displays, timers>>
  <2>1. d.round - 1 \in Nat
    BY <1>6, <1>12
  <2>2. [drawn EXCEPT !.round = @ - 1] = [drawn EXCEPT !.round = d.round - 1]
    BY <1>5
  <2> QED
    BY <1>10, <1>12, <2>1, <2>2
<1>13. CASE /\ d.state = "showing" /\ d.round + 1 > Rounds
            /\ popup' = [popup EXCEPT ![p] = [drawn EXCEPT !.round = Rounds - 1,
                            !.state = "shown", !.timer = "shown"]]
            /\ timers' = (timers \ {<<p, "grow">>}) \cup {<<p, "shown">>}
            /\ UNCHANGED displays
  <2> DEFINE f == [drawn EXCEPT !.round = Rounds - 1]
             e == [f EXCEPT !.state = "shown", !.timer = "shown"]
  <2>1. Rounds - 1 \in Nat
    BY NoticesAssumption
  <2>2. f \in Displays /\ f.size = d.size /\ f.at = d.at
    BY <1>5, <2>1, RoundFields
  <2>3. [drawn EXCEPT !.round = Rounds - 1, !.state = "shown", !.timer = "shown"] = e
    BY Zenon
  <2> HIDE DEF f
  <2>4. "shown" \in PopupState /\ "shown" \in TimerNames
    BY DEF PopupState, TimerNames
  <2>5. /\ e \in Displays /\ e.state = "shown" /\ e.timer = "shown"
        /\ e.size = d.size /\ e.at = d.at
    <3>1. e = InState(f, "shown", "shown")
      BY Zenon DEF InState
    <3> HIDE DEF e
    <3> QED
      BY <2>2, <2>4, <3>1, StateFields
  <2> HIDE DEF e
  <2>6. popup' = [popup EXCEPT ![p] = e] /\ displays' = displays
    BY <1>13, <2>3
  <2>7. timers' = (timers \ {<<p, popup[p].timer>>}) \cup {<<p, e.timer>>}
    BY <1>7, <1>13, <2>5
  <2> HIDE DEF d
  <2>8. e.size = popup[p].size /\ e.at = popup[p].at
    BY <2>5 DEF d
  <2> QED
    BY <1>1, <1>2, <2>5, <2>6, <2>7, <2>8, ChangedStep
<1> QED
  BY <1>3, <1>9, <1>11, <1>12, <1>13

\* gtkntf_display_shown_cb
LEMMA ShownCbStep ==
    ASSUME PopupsInv, NEW p \in Popup, ShownCb(p)
    PROVE  PopupsInv'
<1> DEFINE d == popup[p]
           e == [d EXCEPT !.state = "hiding", !.timer = "shrink"]
<1>1. /\ <<p, "shown">> \in timers
      /\ timers' = (timers \ {<<p, "shown">>}) \cup {<<p, "shrink">>}
      /\ displays' = displays /\ vertical' = vertical
      /\ popup' = [popup EXCEPT ![p].state = "hiding", ![p].timer = "shrink"]
  BY DEF ShownCb
<1>2. /\ Contains(displays, p) /\ d \in Displays /\ d.timer = "shown"
      /\ popup \in [Popup -> Displays]
  BY <1>1, TimerOfListed DEF PopupsInv, TimerNames, Whole, Known
<1>3. [popup EXCEPT ![p].state = "hiding", ![p].timer = "shrink"] = [popup EXCEPT ![p] = e]
  BY <1>2, Zenon
<1>4. /\ e \in Displays /\ e.state = "hiding" /\ e.timer = "shrink"
      /\ e.size = d.size /\ e.at = d.at
  <2>1. "hiding" \in PopupState /\ "shrink" \in TimerNames
    BY DEF PopupState, TimerNames
  <2>2. e = InState(d, "hiding", "shrink")
    BY Zenon DEF InState
  <2> HIDE DEF e, d
  <2> QED
    BY <1>2, <2>1, <2>2, StateFields
<1> HIDE DEF e
<1>5. timers' = (timers \ {<<p, popup[p].timer>>}) \cup {<<p, e.timer>>}
  BY <1>1, <1>2, <1>4
<1> QED
  BY <1>1, <1>2, <1>3, <1>4, <1>5, ChangedStep
\* A new popup is shown, after another made room for it.
LEMMA ShowEventStep ==
    ASSUME PopupsInv, NEW source \in Plugin, ShowEvent(source), vertical' = vertical
    PROVE  PopupsInv'
<1>1. PICK throttle \in Throttles :
         LET s == Condensed(Now, throttle, vertical)
         IN \/ Becomes(Positioned(s, vertical))
            \/ \E p \in Popup : /\ popup[p] = Unused
                                /\ \E size \in Sizes, animate \in BOOLEAN :
                                      Becomes(Shown(s, p, source, size, animate, vertical))
  BY Zenon DEF ShowEvent
<1>2. throttle \in Nat
  BY NoticesAssumption
<1> DEFINE s == Condensed(Now, throttle, vertical)
<1>3. PICK a, b, c : /\ s = Rec(a, b, c)
                     /\ Whole(a, b, c) /\ Placed(a, b, vertical)
                     /\ Len(a) <= Len(displays)
                     /\ throttle > 0 => Len(a) + 1 <= throttle \/ Len(a) + 1 <= Len(displays)
                     /\ \A q \in Popup : popup[q].state = "unused" => b[q].state = "unused"
  BY <1>2, NowIs, CondensedSound DEF PopupsInv
<1>4. Len(a) \in Nat /\ Len(displays) \in Nat
  BY <1>3 DEF PopupsInv, Whole, Listed
<1> HIDE DEF s
<1>5. CASE Becomes(Positioned(s, vertical))
  <2>1. Positioned(s, vertical) = Rec(a, At(a, b, vertical), c)
    BY <1>3, PositionedIs
  <2> DEFINE n == At(a, b, vertical)
  <2>2. Whole(a, n, c) /\ Placed(a, n, vertical)
    BY <1>3, AtSound
  <2> HIDE DEF n
  <2>3. displays' = a /\ popup' = n /\ timers' = c
    BY <1>5, <2>1, NowIs DEF n
  <2>4. AtMost(Len(a))
    BY <1>3, <1>4, Fewer DEF PopupsInv
  <2> QED
    BY <2>2, <2>3, <2>4 DEF PopupsInv
<1>6. ASSUME NEW p \in Popup, popup[p] = Unused, NEW size \in Sizes, NEW animate \in BOOLEAN,
             Becomes(Shown(s, p, source, size, animate, vertical))
      PROVE  PopupsInv'
  <2> DEFINE timer == IF animate THEN "grow" ELSE "destroy"
             state == IF animate THEN "showing" ELSE "shown"
             at == Total(s, p, vertical)
             e == [state |-> state, timer |-> timer, round |-> 0, size |-> size,
                   part |-> IF animate THEN <<0, 0>> ELSE size, at |-> at,
                   source |-> source]
             k == Append(a, p)
             n == [b EXCEPT ![p] = e]
             r == c \cup {<<p, e.timer>>}
  <2>1. b[p].state = "unused" /\ a \in Seq(Popup) /\ Known(b) /\ ~Contains(a, p)
    BY <1>3, <1>6, UnusedIs DEF Whole, Listed
  <2>2. at = Span(a, Sizing(b), Before(a, p), vertical) /\ at \in Nat
    <3>1. s.list = a /\ s.pop = b
      BY <1>3 DEF Rec
    <3>2. at = Span(a, Sizing(b), Before(a, p), vertical)
      BY <3>1, Zenon DEF Total, Sizing
    <3>3. Before(a, p) = Len(a)
      BY <2>1, ContainsIs
    <3> HIDE DEF at
    <3> QED
      BY <1>4, <2>1, <3>2, <3>3, PlaceType
  <2>3. Shown(s, p, source, size, animate, vertical) = Rec(k, n, r)
    <3>1. s.list = a /\ s.pop = b /\ s.timers = c
      BY <1>3 DEF Rec
    <3>2. e.timer = timer
      OBVIOUS
    <3>3. Shown(s, p, source, size, animate, vertical)
             = [list |-> Append(s.list, p), pop |-> [s.pop EXCEPT ![p] = e],
                timers |-> s.timers \cup {<<p, timer>>}]
      BY Zenon DEF Shown
    <3> HIDE DEF e
    <3> QED
      BY <3>1, <3>2, <3>3, Zenon DEF Rec
  <2> HIDE DEF at
  <2>4. state \in PopupState /\ timer \in TimerNames
    BY DEF PopupState, TimerNames
  <2>5. size \in Nat \X Nat /\ <<0, 0>> \in Nat \X Nat
    BY NoticesAssumption
  <2>6. /\ state # "unused" /\ timer # "none"
        /\ state = "showing" => timer = "grow"
    OBVIOUS
  <2> DEFINE part == IF animate THEN <<0, 0>> ELSE size
  <2>7. part \in Nat \X Nat
    BY <2>5
  <2> HIDE DEF state, timer, part
  <2>8. /\ e \in Displays /\ e.state = state /\ e.timer = timer /\ e.at = at
    <3>1. e = [state |-> state, timer |-> timer, round |-> 0, size |-> size,
               part |-> part, at |-> at, source |-> source]
      BY Zenon DEF part
    <3> HIDE DEF e
    <3> QED
      BY <2>2, <2>4, <2>5, <2>7, <3>1 DEF Displays
  <2> HIDE DEF e
  <2>9. Whole(k, n, r) /\ Placed(k, n, vertical) /\ Len(k) = Len(a) + 1
    BY <1>3, <2>1, <2>2, <2>6, <2>8, AddedSound, SMTT(30)
  <2> HIDE DEF k, n, r
  <2>10. displays' = k /\ popup' = n /\ timers' = r
    BY <1>6, <2>3, NowIs
  <2>11. AtMost(Len(k))
    <3>1. CASE throttle > 0 /\ Len(a) + 1 <= throttle
      BY <1>1, <2>9, <3>1 DEF AtMost
    <3>2. CASE Len(a) + 1 <= Len(displays)
      BY <1>4, <2>9, <3>2, Fewer DEF PopupsInv
    <3>3. CASE ~(throttle > 0)
      <4>1. throttle = 0
        BY <1>2, <3>3
      <4> QED
        BY <4>1 DEF AtMost
    <3> QED
      BY <1>3, <3>1, <3>2, <3>3
  <2> QED
    BY <2>9, <2>10, <2>11 DEF PopupsInv
<1> QED
  BY <1>1, <1>5, <1>6 DEF s

\* gtkntf_display_position_changed_cb
LEMMA TurnStep ==
    ASSUME PopupsInv, Turn
    PROVE  PopupsInv'
<1> DEFINE v == ~vertical
           n == At(displays, popup, v)
<1>1. vertical' = v /\ v \in BOOLEAN /\ Becomes(Positioned(Now, v))
  BY DEF Turn, PopupsInv
<1>2. Positioned(Now, v) = Rec(displays, n, timers)
  BY NowIs, PositionedIs
<1> HIDE DEF v
<1>3. Whole(displays, n, timers) /\ Placed(displays, n, v)
  BY AtSound DEF PopupsInv
<1> HIDE DEF n
<1>4. displays' = displays /\ popup' = n /\ timers' = timers
  BY <1>1, <1>2, NowIs
<1> QED
  BY <1>1, <1>3, <1>4 DEF PopupsInv

LEMMA PopupsStart ==
    ASSUME Init
    PROVE  PopupsInv
<1>1. /\ displays = <<>> /\ timers = {} /\ popup = [p \in Popup |-> Unused]
      /\ vertical \in BOOLEAN
  BY DEF Init
<1>2. Known(popup)
  BY <1>1, UnusedIs DEF Known
<1>3. displays \in Seq(Popup) /\ Len(displays) = 0 /\ DOMAIN displays = {}
  BY <1>1
<1>4. Listed(displays, popup)
  BY <1>1, <1>3, UnusedIs, ContainsIs DEF Listed, IsInjective
<1>5. Timed(popup, timers)
  BY <1>1, UnusedIs DEF Timed, TimerNames
<1>6. Placed(displays, popup, vertical)
  BY <1>3 DEF Placed
<1>7. AtMost(Len(displays))
  <2>1. PICK t \in Throttles : t \in Nat
    BY NoticesAssumption
  <2>2. Len(displays) <= t
    BY <1>3, <2>1
  <2> QED
    BY <2>2 DEF AtMost
<1> QED
  BY <1>1, <1>2, <1>4, <1>5, <1>6, <1>7 DEF PopupsInv, Whole

LEMMA PopupsKept ==
    ASSUME PopupsInv, [Next]_vars
    PROVE  PopupsInv'
<1>1. ASSUME NEW p \in Popup, Frame(p) PROVE PopupsInv'
  BY <1>1, FrameStep
<1>2. ASSUME NEW p \in Popup, ShownCb(p) PROVE PopupsInv'
  BY <1>2, ShownCbStep
<1>3. ASSUME NEW p \in Popup, DestroyCb(p) PROVE PopupsInv'
  <2>1. Contains(displays, p)
    BY <1>3, TimerOfListed DEF DestroyCb, PopupsInv, TimerNames
  <2> QED
    BY <1>3, <2>1, DestroyedStep DEF DestroyCb, windows
<1>4. ASSUME NEW p \in Popup, ClickClose(p) PROVE PopupsInv'
  BY <1>4, DestroyedStep DEF ClickClose, windows
<1>5. ASSUME Turn PROVE PopupsInv'
  BY <1>5, TurnStep
<1>6. ASSUME NEW p \in Plugin, Report(p) PROVE PopupsInv'
  BY <1>6, ShowEventStep DEF Report
<1>7. ASSUME UNCHANGED <<popups, vertical>> PROVE PopupsInv'
  BY <1>7 DEF popups, PopupsInv
<1>8. ASSUME NEW p \in Popup, ClickInfo(p) PROVE PopupsInv'
  BY <1>7, <1>8 DEF ClickInfo
<1>9. ASSUME NEW w \in Window, Close(w) \/ CloseButton(w) PROVE PopupsInv'
  BY <1>7, <1>9 DEF Close, CloseButton
<1>10. ASSUME NEW p \in Plugin, OpenWindow(p) \/ Load(p) \/ Unload(p) PROVE PopupsInv'
  BY <1>7, <1>10 DEF OpenWindow, Load, Unload
<1>11. ASSUME UNCHANGED vars PROVE PopupsInv'
  BY <1>7, <1>11 DEF vars
<1> QED
  BY <1>1, <1>2, <1>3, <1>4, <1>5, <1>6, <1>8, <1>9, <1>10, <1>11 DEF Next, Timer
-----------------------------------------------------------------------------
(* The windows                                                              *)

\* A window that is open is listed with the handle it was opened for.
Entry(h, w) == [handle |-> h, ui |-> w]
IsListed(h, w) == \E i \in DOMAIN handles : handles[i] = Entry(h, w)
WindowsInv ==
    /\ loaded \subseteq Plugin
    /\ extra \in [Plugin -> BOOLEAN]
    /\ handles \in Seq(Entries)
    /\ window \in [Window -> Plugin \cup {Other, "none"}]
    /\ \A w \in Window : window[w] # "none" => IsListed(window[w], w)
    /\ UnloadedHasNoWindow

LEMMA EntryIs ==
    ASSUME NEW h \in Plugin \cup {Other}, NEW w \in Window
    PROVE  Entry(h, w) \in Entries /\ Entry(h, w).handle = h /\ Entry(h, w).ui = w
BY DEF Entry, Entries

\* oul_notify_message and its like, for a loaded plugin or for none.
LEMMA OpensStep ==
    ASSUME WindowsInv, NEW h \in loaded \cup {Other}, NEW w \in Window, Opens(h, w),
           loaded' = loaded, extra' \in [Plugin -> BOOLEAN]
    PROVE  WindowsInv'
<1>1. /\ window' = [window EXCEPT ![w] = h]
      /\ handles' = Append(handles, Entry(h, w))
  BY DEF Opens, Entry
<1>2. h \in Plugin \cup {Other} /\ handles \in Seq(Entries)
  BY DEF WindowsInv
<1>3. Entry(h, w) \in Entries /\ Entry(h, w).handle = h
  BY <1>2, EntryIs
<1>4. /\ handles' \in Seq(Entries) /\ handles'[Len(handles) + 1] = Entry(h, w)
      /\ \A i \in DOMAIN handles : i \in DOMAIN handles' /\ handles'[i] = handles[i]
      /\ \A i \in DOMAIN handles' : i \in DOMAIN handles \/ i = Len(handles) + 1
      /\ Len(handles) + 1 \in DOMAIN handles'
  BY <1>1, <1>2, <1>3
<1>5. /\ window' \in [Window -> Plugin \cup {Other, "none"}] /\ window'[w] = h
      /\ \A x \in Window : x # w => window'[x] = window[x]
  BY <1>1, <1>2 DEF WindowsInv
<1>6. ASSUME NEW x \in Window, window'[x] # "none" PROVE IsListed(window[x], x)'
  <2>1. CASE x = w
    BY <1>4, <1>5, <2>1 DEF IsListed
  <2>2. CASE x # w
    BY <1>4, <1>5, <1>6, <2>2 DEF IsListed, WindowsInv
  <2> QED
    BY <2>1, <2>2
<1>7. UnloadedHasNoWindow'
  <2> SUFFICES ASSUME NEW p \in Plugin \ loaded
               PROVE  /\ \A x \in Window : window'[x] # p
                      /\ \A i \in DOMAIN handles' : handles'[i].handle # p
    BY DEF UnloadedHasNoWindow
  <2>1. h # p
    BY NoticesAssumption DEF Other
  <2>2. /\ \A x \in Window : window[x] # p
        /\ \A i \in DOMAIN handles : handles[i].handle # p
    BY DEF WindowsInv, UnloadedHasNoWindow
  <2> QED
    BY <1>3, <1>4, <1>5, <2>1, <2>2
<1> QED
  BY <1>4, <1>5, <1>6, <1>7 DEF WindowsInv

\* Windows go; entries may go, but not those of windows that stay, and of the handles
\* that are gone nothing is left.
Closes(gone) ==
    /\ loaded' \subseteq Plugin /\ extra' = extra
    /\ handles' \in Seq(Entries) /\ window' \in [Window -> Plugin \cup {Other, "none"}]
    /\ \A w \in Window : window'[w] = window[w] \/ window'[w] = "none"
    /\ \A i \in DOMAIN handles' : \E j \in DOMAIN handles : handles'[i] = handles[j]
    /\ \A w \in Window, j \in DOMAIN handles :
          window'[w] # "none" /\ handles[j] = Entry(window[w], w) =>
             \E i \in DOMAIN handles' : handles'[i] = handles[j]
    /\ loaded \subseteq loaded' \cup gone
    /\ \A p \in gone : /\ \A w \in Window : window'[w] # p
                       /\ \A i \in DOMAIN handles' : handles'[i].handle # p

LEMMA ClosedStep ==
    ASSUME WindowsInv, NEW gone, Closes(gone)
    PROVE  WindowsInv'
<1>1. ASSUME NEW w \in Window, window'[w] # "none" PROVE IsListed(window[w], w)'
  BY <1>1 DEF IsListed, WindowsInv, Closes
<1>2. UnloadedHasNoWindow'
  <2> SUFFICES ASSUME NEW p \in Plugin \ loaded'
               PROVE  /\ \A w \in Window : window'[w] # p
                      /\ \A i \in DOMAIN handles' : handles'[i].handle # p
    BY DEF UnloadedHasNoWindow
  <2>1. CASE p \in gone
    BY <2>1 DEF Closes
  <2>2. CASE p \notin loaded
    <3>1. p # "none"
      BY NoticesAssumption
    <3> QED
      BY <2>2, <3>1 DEF WindowsInv, UnloadedHasNoWindow, Closes
  <2> QED
    BY <2>1, <2>2 DEF Closes
<1> QED
  BY <1>1, <1>2 DEF WindowsInv, Closes

\* oul_notify_close: the entry that is found first, which may be an old one, and the
\* window at its address.
LEMMA CloseStep ==
    ASSUME WindowsInv, NEW w \in Window, Close(w)
    PROVE  WindowsInv'
<1> DEFINE I == {i \in 1..Len(handles) : handles[i].ui = w}
           k == CHOOSE x \in I : \A y \in I : x <= y
<1>0. handles \in Seq(Entries)
  BY DEF WindowsInv
<1>1. /\ window' = [window EXCEPT ![w] = "none"]
      /\ loaded' = loaded /\ extra' = extra
      /\ \E i \in DOMAIN handles : handles[i].ui = w
      /\ handles' = RemoveFirstMatch(handles, LAMBDA e : e.ui = w)
  BY DEF Close
<1>2. I # {} /\ I \in SUBSET Nat
  BY <1>0, <1>1
<1>3. handles' = RemoveAt(handles, k)
  <2>1. \E i \in 1..Len(handles) : handles[i].ui = w
    BY <1>2
  <2>2. handles' = RemoveAt(handles, SelectInSeq(handles, LAMBDA e : e.ui = w))
    BY <1>1, <2>1, Zenon DEF RemoveFirstMatch
  <2>3. SelectInSeq(handles, LAMBDA e : e.ui = w) = k
    BY <1>2, Zenon DEF SelectInSeq, Min
  <2> QED
    BY <2>2, <2>3, Zenon
<1>4. k \in I
  <2>1. \E x \in I : \A y \in I : x <= y
    BY <1>2, Least
  <2> HIDE DEF I
  <2> QED
    BY <2>1, Zenon
<1> HIDE DEF k
<1>5. k \in DOMAIN handles /\ handles[k].ui = w
  BY <1>0, <1>4
<1>6. /\ handles' \in Seq(Entries) /\ Len(handles') = Len(handles) - 1
      /\ \A j \in DOMAIN handles' : handles'[j] = IF j < k THEN handles[j] ELSE handles[j + 1]
  BY <1>0, <1>3, <1>5, RemoveAtIs
<1>7. \A i \in DOMAIN handles' : \E j \in DOMAIN handles : handles'[i] = handles[j]
  <2> SUFFICES ASSUME NEW i \in DOMAIN handles'
               PROVE  \E j \in DOMAIN handles : handles'[i] = handles[j]
    OBVIOUS
  <2>1. i \in DOMAIN handles /\ i + 1 \in DOMAIN handles
    BY <1>0, <1>6
  <2> QED
    BY <1>6, <2>1
<1>8. ASSUME NEW j \in DOMAIN handles, j # k
      PROVE  \E i \in DOMAIN handles' : handles'[i] = handles[j]
  <2>1. CASE j < k
    <3>1. j \in DOMAIN handles'
      BY <1>0, <1>5, <1>6, <2>1
    <3> QED
      BY <1>6, <2>1, <3>1
  <2>2. CASE j > k
    <3>1. j - 1 \in DOMAIN handles' /\ ~(j - 1 < k) /\ (j - 1) + 1 = j
      BY <1>0, <1>5, <1>6, <2>2
    <3> QED
      BY <1>6, <3>1
  <2> QED
    BY <1>0, <1>5, <1>8, <2>1, <2>2
<1>9. /\ window' \in [Window -> Plugin \cup {Other, "none"}] /\ window'[w] = "none"
      /\ \A x \in Window : x # w => window'[x] = window[x]
  BY <1>1 DEF WindowsInv
<1>10. ASSUME NEW x \in Window, NEW j \in DOMAIN handles,
              window'[x] # "none", handles[j] = Entry(window[x], x)
       PROVE  \E i \in DOMAIN handles' : handles'[i] = handles[j]
  <2>1. x # w /\ handles[j].ui = x
    BY <1>9, <1>10 DEF Entry
  <2>2. j # k
    BY <1>5, <2>1
  <2> QED
    BY <1>8, <2>2
<1>11. loaded' \subseteq Plugin /\ loaded \subseteq loaded' \cup {}
  BY <1>1 DEF WindowsInv
<1>12. \A x \in Window : window'[x] = window[x] \/ window'[x] = "none"
  BY <1>9
<1>13. \A x \in Window, j \in DOMAIN handles :
          window'[x] # "none" /\ handles[j] = Entry(window[x], x) =>
             \E i \in DOMAIN handles' : handles'[i] = handles[j]
  BY <1>10, Zenon
<1>14. \A p \in {} : /\ \A x \in Window : window'[x] # p
                    /\ \A i \in DOMAIN handles' : handles'[i].handle # p
  OBVIOUS
<1>15. handles' \in Seq(Entries) /\ window' \in [Window -> Plugin \cup {Other, "none"}]
  BY <1>6, <1>9
<1>16. Closes({})
  BY <1>1, <1>7, <1>11, <1>12, <1>13, <1>14, <1>15, Zenon DEF Closes
<1> QED
  BY <1>16, ClosedStep
\* The enumeration of a set of positions has each of them.
LEMMA InOrderIs ==
    ASSUME NEW n \in Nat, NEW S \in SUBSET (1..n), NEW f \in InOrder(S)
    PROVE  /\ Cardinality(S) \in Nat /\ f \in [1..Cardinality(S) -> S]
           /\ \A x \in S : \E k \in 1..Cardinality(S) : f[k] = x
<1> DEFINE c == Cardinality(S)
<1>1. IsFiniteSet(S)
  <2>1. IsFiniteSet(1..n)
    BY FS_Interval
  <2> QED
    BY <2>1, FS_Subset
<1>2. c \in Nat
  BY <1>1, FS_CardinalityType
<1>3. f \in [1..c -> S] /\ \A i, j \in 1..c : i < j => f[i] < f[j]
  BY DEF InOrder
<1> HIDE DEF c
<1>4. \A i, j \in 1..c : f[i] = f[j] => i = j
  <2> SUFFICES ASSUME NEW i \in 1..c, NEW j \in 1..c, i # j PROVE f[i] # f[j]
    OBVIOUS
  <2>1. i \in Int /\ j \in Int /\ f[i] \in S /\ f[j] \in S
    BY <1>3
  <2>3. f[i] \in Int /\ f[j] \in Int
    <3>1. \A x \in S : x \in Int
      OBVIOUS
    <3> QED
      BY <2>1, <3>1
  <2>2. i < j \/ j < i
    BY <2>1
  <2> QED
    BY <1>3, <2>1, <2>2, <2>3
<1>5. f \in Injection(1..c, S)
  BY <1>3, <1>4 DEF Injection, IsInjective
<1>6. Cardinality(1..c) = c
  BY <1>2, FS_Interval
<1>7. f \in Surjection(1..c, S)
  BY <1>1, <1>5, <1>6, FS_Injection DEF c
<1>8. \A x \in S : \E k \in 1..c : f[k] = x
  BY <1>7 DEF Surjection
<1> QED
  BY <1>2, <1>3, <1>8 DEF c

\* oul_notify_close_with_handle: every entry of the plugin, and the windows at their
\* addresses, of which every window of the plugin is one.
LEMMA UnloadStep ==
    ASSUME WindowsInv, NEW p \in Plugin, Unload(p)
    PROVE  WindowsInv'
<1> DEFINE gone == ClosedFor(p)
           S == DOMAIN handles \ gone
<1>0. handles \in Seq(Entries) /\ DOMAIN handles = 1..Len(handles) /\ Len(handles) \in Nat
  BY DEF WindowsInv
<1>1. /\ loaded' = loaded \ {p} /\ extra' = extra
      /\ window' = [w \in Window |-> IF \E i \in gone : handles[i].ui = w THEN "none"
                                     ELSE window[w]]
      /\ \E kept \in InOrder(S) : handles' = [k \in DOMAIN kept |-> handles[kept[k]]]
  BY Zenon DEF Unload
<1>2. \A i \in DOMAIN handles : i \in gone <=> handles[i].handle = p
  BY DEF ClosedFor
<1>3. PICK kept \in InOrder(S) : handles' = [k \in DOMAIN kept |-> handles[kept[k]]]
  BY <1>1
<1>4. S \in SUBSET (1..Len(handles))
  BY <1>0
<1> HIDE DEF gone
<1> DEFINE c == Cardinality(S)
<1>5. /\ c \in Nat /\ kept \in [1..c -> S]
      /\ \A x \in S : \E k \in 1..c : kept[k] = x
  BY <1>0, <1>3, <1>4, InOrderIs
<1> HIDE DEF S, c
<1>6. /\ DOMAIN handles' = 1..c
      /\ \A k \in 1..c : handles'[k] = handles[kept[k]] /\ kept[k] \in S
  BY <1>3, <1>5
<1>7. handles' \in Seq(Entries)
  <2>1. \A k \in 1..c : handles[kept[k]] \in Entries
    <3>1. \A j \in S : handles[j] \in Entries
      BY <1>0, <1>4
    <3> QED
      BY <1>6, <3>1
  <2> QED
    BY <1>3, <1>5, <2>1
<1>8. /\ window' \in [Window -> Plugin \cup {Other, "none"}]
      /\ \A w \in Window : window'[w] = window[w] \/ window'[w] = "none"
  BY <1>1 DEF WindowsInv
<1>9. \A i \in DOMAIN handles' : \E j \in DOMAIN handles : handles'[i] = handles[j]
  BY <1>0, <1>4, <1>6
<1>10. ASSUME NEW i \in DOMAIN handles' PROVE handles'[i].handle # p
  BY <1>2, <1>6 DEF S
<1>11. ASSUME NEW w \in Window PROVE window'[w] # p
  <2>1. p # "none"
    BY NoticesAssumption
  <2>2. CASE window[w] = p
    <3>1. PICK i \in DOMAIN handles : handles[i] = Entry(p, w)
      BY <2>1, <2>2 DEF WindowsInv, IsListed
    <3>2. handles[i].handle = p /\ handles[i].ui = w
      BY <3>1 DEF Entry
    <3>3. \E j \in gone : handles[j].ui = w
      BY <1>2, <3>2
    <3>4. window'[w] = "none"
      BY <1>1, <3>3
    <3> QED
      BY <2>1, <3>4
  <2>3. CASE window[w] # p
    BY <1>8, <2>1, <2>3
  <2> QED
    BY <2>2, <2>3
<1>12. ASSUME NEW w \in Window, NEW j \in DOMAIN handles,
              window'[w] # "none", handles[j] = Entry(window[w], w)
       PROVE  \E i \in DOMAIN handles' : handles'[i] = handles[j]
  <2>1. handles[j].ui = w
    BY <1>12 DEF Entry
  <2>2. j \notin gone
    BY <1>1, <1>12, <2>1
  <2>3. j \in S
    BY <2>2 DEF S
  <2> QED
    BY <1>5, <1>6, <2>3
<1>13. loaded' \subseteq Plugin /\ loaded \subseteq loaded' \cup {p}
  BY <1>1 DEF WindowsInv
<1>14. \A x \in Window, j \in DOMAIN handles :
          window'[x] # "none" /\ handles[j] = Entry(window[x], x) =>
             \E i \in DOMAIN handles' : handles'[i] = handles[j]
  BY <1>12, Zenon
<1>15. \A q \in {p} : /\ \A x \in Window : window'[x] # q
                      /\ \A i \in DOMAIN handles' : handles'[i].handle # q
  BY <1>10, <1>11
<1>16. extra' = extra
  BY <1>1
<1>17. Closes({p})
  BY <1>7, <1>8, <1>9, <1>13, <1>14, <1>15, <1>16, Zenon DEF Closes
<1> QED
  BY <1>17, ClosedStep

LEMMA WindowsStart ==
    ASSUME Init
    PROVE  WindowsInv
<1>1. /\ loaded = {} /\ handles = <<>> /\ window = [w \in Window |-> "none"]
      /\ extra = [p \in Plugin |-> FALSE]
  BY DEF Init
<1>2. \A p \in Plugin : p # "none"
  BY NoticesAssumption
<1>3. handles \in Seq(Entries) /\ DOMAIN handles = {}
  BY <1>1
<1> QED
  BY <1>1, <1>2, <1>3 DEF WindowsInv, UnloadedHasNoWindow

LEMMA WindowsKept ==
    ASSUME WindowsInv, [Next]_vars
    PROVE  WindowsInv'
<1>1. ASSUME UNCHANGED <<loaded, extra, handles, window>> PROVE WindowsInv'
  BY <1>1 DEF WindowsInv, UnloadedHasNoWindow, IsListed
<1>2. ASSUME NEW p \in Popup, Timer(p) \/ ClickClose(p) PROVE WindowsInv'
  BY <1>1, <1>2 DEF Timer, Frame, ShownCb, DestroyCb, ClickClose, windows
<1>3. ASSUME Turn PROVE WindowsInv'
  BY <1>1, <1>3 DEF Turn, windows
<1>4. ASSUME NEW p \in Popup, ClickInfo(p) PROVE WindowsInv'
  <2>1. extra' \in [Plugin -> BOOLEAN]
    BY <1>4 DEF ClickInfo, WindowsInv
  <2> QED
    BY <1>4, <2>1, OpensStep DEF ClickInfo
<1>5. ASSUME NEW p \in Plugin, OpenWindow(p) PROVE WindowsInv'
  <2>1. extra' \in [Plugin -> BOOLEAN]
    BY <1>5 DEF OpenWindow, WindowsInv
  <2> QED
    BY <1>5, <2>1, OpensStep DEF OpenWindow
<1>6. ASSUME NEW w \in Window, Close(w) PROVE WindowsInv'
  BY <1>6, CloseStep
<1>7. ASSUME NEW w \in Window, CloseButton(w) PROVE WindowsInv'
  <2>1. /\ window' = [window EXCEPT ![w] = "none"]
        /\ loaded' = loaded /\ extra' = extra /\ handles' = handles
    BY <1>7 DEF CloseButton
  <2>2. /\ window' \in [Window -> Plugin \cup {Other, "none"}]
        /\ \A x \in Window : window'[x] = window[x] \/ window'[x] = "none"
    BY <2>1 DEF WindowsInv
  <2>3. loaded' \subseteq Plugin /\ handles' \in Seq(Entries) /\ loaded \subseteq loaded' \cup {}
    BY <2>1 DEF WindowsInv
  <2>4. \A p \in {} : /\ \A x \in Window : window'[x] # p
                      /\ \A i \in DOMAIN handles' : handles'[i].handle # p
    OBVIOUS
  <2>5. /\ \A i \in DOMAIN handles' : \E j \in DOMAIN handles : handles'[i] = handles[j]
        /\ \A x \in Window, j \in DOMAIN handles :
              window'[x] # "none" /\ handles[j] = Entry(window[x], x) =>
                 \E i \in DOMAIN handles' : handles'[i] = handles[j]
    BY <2>1
  <2>6. extra' = extra
    BY <2>1
  <2>7. Closes({})
    BY <2>2, <2>3, <2>4, <2>5, <2>6, Zenon DEF Closes
  <2> QED
    BY <2>7, ClosedStep
<1>8. ASSUME NEW p \in Plugin, Report(p) PROVE WindowsInv'
  <2>1. /\ extra' \in [Plugin -> BOOLEAN]
        /\ loaded' = loaded /\ handles' = handles /\ window' = window
    BY <1>8 DEF Report, WindowsInv, windows
  <2> QED
    BY <2>1 DEF WindowsInv, UnloadedHasNoWindow, IsListed
<1>9. ASSUME NEW p \in Plugin, Load(p) PROVE WindowsInv'
  <2>1. /\ loaded' = loaded \cup {p} /\ extra' = extra
        /\ handles' = handles /\ window' = window
    BY <1>9 DEF Load, windows
  <2> QED
    BY <2>1 DEF WindowsInv, UnloadedHasNoWindow, IsListed
<1>10. ASSUME NEW p \in Plugin, Unload(p) PROVE WindowsInv'
  BY <1>10, UnloadStep
<1>11. ASSUME UNCHANGED vars PROVE WindowsInv'
  BY <1>1, <1>11 DEF vars, windows
<1> QED
  BY <1>2, <1>3, <1>4, <1>5, <1>6, <1>7, <1>8, <1>9, <1>10, <1>11 DEF Next

-----------------------------------------------------------------------------
(* Theorems                                                                 *)

\* What the invariant says of the popups is what the property promises.
LEMMA InvSound ==
    ASSUME PopupsInv, WindowsInv
    PROVE  PopupsAreSound
<1>1. /\ Known(popup) /\ Timed(popup, timers) /\ Listed(displays, popup)
      /\ Placed(displays, popup, vertical)
  BY DEF PopupsInv, Whole
<1>2. \A p \in Popup : popup[p] # Unused <=> Contains(displays, p)
  BY <1>1, UnusedIs DEF Known, Listed
<1>3. TypeOK
  BY <1>1, <1>2 DEF TypeOK, PopupsInv, WindowsInv, Known, Listed, Timed
<1>4. TimersAreOwned
  <2>1. \A p : p \in ToSet(displays) <=> p \in Popup /\ Contains(displays, p)
    BY <1>1, ContainsIs DEF ToSet, Listed
  <2>2. \A p \in Popup : Contains(displays, p) <=> popup[p].timer \in TimerNames
    <3>1. \A p \in Popup : popup[p].timer \in TimerNames \cup {"none"}
      BY <1>1 DEF Known, Displays
    <3>2. "none" \notin TimerNames
      BY DEF TimerNames
    <3> QED
      BY <1>1, <3>1, <3>2, UnusedIs DEF Known, Listed
  <2>3. ASSUME NEW e \in timers PROVE e \in {<<p, popup[p].timer>> : p \in ToSet(displays)}
    <3>1. PICK p \in Popup, x \in TimerNames : e = <<p, x>>
      BY <1>1 DEF Timed
    <3>2. popup[p].timer = x
      BY <1>1, <3>1 DEF Timed
    <3> QED
      BY <2>1, <2>2, <3>1, <3>2
  <2>4. ASSUME NEW p \in ToSet(displays) PROVE <<p, popup[p].timer>> \in timers
    BY <1>1, <2>1, <2>2 DEF Timed
  <2> QED
    BY <2>3, <2>4 DEF TimersAreOwned
<1>5. Stacked
  BY <1>1 DEF Stacked, Placed, Sizing
<1>6. AtMostThrottle
  BY DEF AtMostThrottle, AtMost, PopupsInv
<1> QED
  BY <1>3, <1>4, <1>5, <1>6 DEF PopupsAreSound

\* Whatever popups arrive, are clicked, cannot be drawn or are turned, in any number:
\* the timers pending are those the popups know of, the popups stand one behind the
\* other, and there are no more of them than the highest limit allows.
THEOREM SoundPopups == Spec => []PopupsAreSound
<1> DEFINE I == PopupsInv /\ WindowsInv
<1>1. Init => I
  BY PopupsStart, WindowsStart
<1>2. I /\ [Next]_vars => I'
  BY PopupsKept, WindowsKept
<1>3. I => PopupsAreSound
  BY InvSound
<1> QED
  BY <1>1, <1>2, <1>3, PTL DEF Spec

\* Of a plugin that is not loaded neither a window nor an entry is left, for any
\* number of windows and of entries of closed windows.
THEOREM NoWindowLeft == Spec => []UnloadedHasNoWindow
<1>1. Init => WindowsInv
  BY WindowsStart
<1>2. WindowsInv /\ [Next]_vars => WindowsInv'
  BY WindowsKept
<1>3. WindowsInv => UnloadedHasNoWindow
  BY DEF WindowsInv
<1> QED
  BY <1>1, <1>2, <1>3, PTL DEF Spec

-----------------------------------------------------------------------------
(* The SRs a report is about                                                *)

\* The SRs of t are those of the list that are wanted, in the order of the list: o says which.
Picks(t, srs, n, times, o) ==
    /\ Len(t) \in Nat /\ t = [i \in 1..Len(t) |-> t[i]]
    /\ o \in [1..Len(t) -> 1..n]
    /\ \A i \in 1..Len(t) : t[i] = srs[o[i]] /\ times[o[i]] > 0
    /\ \A i, j \in 1..Len(t) : i < j => o[i] <= o[j]
    /\ \A m \in 1..n : times[m] > 0 => \E i \in 1..Len(t) : o[i] = m

\* One element of the list more.
LEMMA PicksMore ==
    ASSUME NEW X, NEW t \in Seq(X), NEW srs, NEW n \in Nat, NEW times, times[n + 1] \in Nat, NEW o, Picks(t, srs, n, times, o),
           NEW r, r = [k \in 1..times[n + 1] |-> srs[n + 1]], r \in Seq(X)
    PROVE  t \o r \in Seq(X) /\ \E p : Picks(t \o r, srs, n + 1, times, p)
<1> DEFINE c == times[n + 1]
           l == Len(t)
           u == t \o r
           p == [i \in 1..Len(u) |-> IF i <= l THEN o[i] ELSE n + 1]
<1>1. Len(r) = c /\ \A k \in 1..c : r[k] = srs[n + 1]
  BY DEF c
<1>2. /\ u \in Seq(X) /\ Len(u) = l + Len(r) /\ l \in Nat
      /\ \A i \in 1..l : u[i] = t[i]
      /\ \A i \in 1..Len(r) : u[l + i] = r[i]
  OBVIOUS
<1> HIDE DEF u
<1>3. /\ o \in [1..l -> 1..n]
      /\ \A i \in 1..l : t[i] = srs[o[i]] /\ times[o[i]] > 0
      /\ \A i, j \in 1..l : i < j => o[i] <= o[j]
      /\ \A m \in 1..n : times[m] > 0 => \E i \in 1..l : o[i] = m
  BY DEF Picks
<1>4. c \in Nat /\ Len(u) = l + c /\ 1..l \subseteq 1..Len(u)
  BY <1>1, <1>2
<1> HIDE DEF l
<1>5. \A i \in 1..Len(u) : p[i] = IF i <= l THEN o[i] ELSE n + 1
  OBVIOUS
<1>6. p \in [1..Len(u) -> 1..n + 1]
  <2>1. \A i \in 1..Len(u) : i <= l => i \in 1..l /\ o[i] \in 1..n + 1
    BY <1>2, <1>3, <1>4
  <2> QED
    BY <1>4, <2>1
<1> HIDE DEF p
<1>7. ASSUME NEW i \in 1..Len(u) PROVE u[i] = srs[p[i]] /\ times[p[i]] > 0
  <2>1. CASE i <= l
    BY <1>2, <1>3, <1>4, <1>5, <2>1
  <2>2. CASE i > l
    <3>1. i - l \in 1..c /\ l + (i - l) = i /\ c > 0
      BY <1>2, <1>4, <2>2
    <3>2. u[l + (i - l)] = r[i - l] /\ r[i - l] = srs[n + 1]
      BY <1>1, <1>2, <3>1
    <3>3. p[i] = n + 1
      BY <1>2, <1>4, <1>5, <2>2
    <3> QED
      BY <3>1, <3>2, <3>3
  <2> QED
    BY <1>2, <2>1, <2>2
<1>8. ASSUME NEW i \in 1..Len(u), NEW j \in 1..Len(u), i < j PROVE p[i] <= p[j]
  <2>1. CASE j <= l
    BY <1>2, <1>3, <1>4, <1>5, <1>8, <2>1
  <2>2. CASE j > l
    <3>1. p[j] = n + 1
      BY <1>2, <1>4, <1>5, <2>2
    <3>2. p[i] \in 1..n + 1
      BY <1>6
    <3> QED
      BY <3>1, <3>2
  <2> QED
    BY <1>2, <2>1, <2>2
<1>9. ASSUME NEW m \in 1..n + 1, times[m] > 0 PROVE \E i \in 1..Len(u) : p[i] = m
  <2>1. CASE m <= n
    <3>1. m \in 1..n
      BY <2>1
    <3>2. PICK i \in 1..l : o[i] = m
      BY <1>3, <1>9, <3>1
    <3>3. i \in 1..Len(u) /\ i <= l
      BY <1>2, <1>4
    <3>4. p[i] = m
      BY <1>5, <3>2, <3>3
    <3> QED
      BY <3>3, <3>4
  <2>2. CASE m = n + 1
    <3>1. l + 1 \in 1..Len(u) /\ ~(l + 1 <= l)
      BY <1>2, <1>4, <1>9, <2>2
    <3> QED
      BY <1>5, <2>2, <3>1
  <2> QED
    BY <2>1, <2>2
<1>10. Picks(u, srs, n + 1, times, p)
  <2>1. Len(u) \in Nat /\ u = [i \in 1..Len(u) |-> u[i]]
    BY <1>2, <1>4
  <2> QED
    BY <1>6, <1>7, <1>8, <1>9, <2>1 DEF Picks
<1> QED
  BY <1>2, <1>10 DEF u

\* The loop over the list, with as many turns as it has elements.
LEMMA FilteredIs ==
    ASSUME NEW X, NEW srs \in Seq(X), NEW times \in [1..Len(srs) -> Nat]
    PROVE  \E o : Picks(Filtered(srs, times), srs, Len(srs), times, o)
<1> DEFINE n == Len(srs)
           Adds(i) == [k \in 1..times[i] |-> srs[i]]
           Fits(f, m) == f = [i \in 0..m |-> IF i = 0 THEN <<>> ELSE f[i - 1] \o Adds(i)]
           S == {m \in Nat : \E f : Fits(f, m)}
           upTo == CHOOSE f : Fits(f, n)
<1>0. n \in Nat
  OBVIOUS
<1>1. Filtered(srs, times) = upTo[n]
  BY Zenon DEF Filtered
<1>2. \A i \in 1..n : Adds(i) \in Seq(X) /\ srs[i] \in X /\ times[i] \in Nat
  OBVIOUS
<1> HIDE DEF Adds, upTo, n
<1>3. 0 \in S
  <2>1. Fits([i \in 0..0 |-> <<>>], 0)
    OBVIOUS
  <2> QED
    BY <2>1
<1>4. ASSUME NEW m \in Nat, m \in S PROVE m + 1 \in S
  <2>1. PICK f : Fits(f, m)
    BY <1>4
  <2> DEFINE e == f[m] \o Adds(m + 1)
             g == [i \in 0..m + 1 |-> IF i <= m THEN f[i] ELSE e]
  <2>2. \A i \in 0..m : f[i] = IF i = 0 THEN <<>> ELSE f[i - 1] \o Adds(i)
    BY <2>1
  <2>3. g[m + 1] = e /\ \A i \in 0..m : g[i] = f[i]
    OBVIOUS
  <2>4. g = [i \in 0..m + 1 |-> g[i]]
    OBVIOUS
  <2>5. e = f[m] \o Adds(m + 1)
    OBVIOUS
  <2> HIDE DEF g, e
  <2>6. ASSUME NEW i \in 0..m + 1 PROVE g[i] = IF i = 0 THEN <<>> ELSE g[i - 1] \o Adds(i)
    <3>1. CASE i = m + 1
      <4>1. i # 0 /\ i - 1 = m /\ g[m] = f[m]
        BY <2>3, <3>1
      <4> QED
        BY <2>3, <2>5, <3>1, <4>1, Zenon
    <3>2. CASE i \in 1..m
      <4>1. g[i] = f[i] /\ g[i - 1] = f[i - 1] /\ i # 0 /\ i \in 0..m
        BY <2>3, <3>2
      <4> QED
        BY <2>2, <4>1, Zenon
    <3>3. CASE i = 0
      BY <2>2, <2>3, <3>3
    <3> QED
      BY <3>1, <3>2, <3>3
  <2>7. Fits(g, m + 1)
    BY <2>4, <2>6
  <2> HIDE DEF Fits
  <2> QED
    BY <2>7
<1>5. Fits(upTo, n)
  <2>1. \A m \in Nat : m \in S
    <3> HIDE DEF S
    <3> QED
      BY <1>3, <1>4, Induct
  <2>2. \E f : Fits(f, n)
    BY <1>0, <2>1
  <2> QED
    BY <2>2, Zenon DEF upTo
<1>6. \A i \in 0..n : upTo[i] = IF i = 0 THEN <<>> ELSE upTo[i - 1] \o Adds(i)
  BY <1>5
<1> DEFINE Q == {m \in Nat : m <= n => upTo[m] \in Seq(X) /\ \E o : Picks(upTo[m], srs, m, times, o)}
<1>7. 0 \in Q
  <2>1. upTo[0] = <<>>
    BY <1>0, <1>6
  <2>2. Picks(<<>>, srs, 0, times, <<>>)
    BY DEF Picks
  <2>3. <<>> \in Seq(X)
    OBVIOUS
  <2>4. upTo[0] \in Seq(X) /\ \E o : Picks(upTo[0], srs, 0, times, o)
    BY <2>1, <2>2, <2>3
  <2> QED
    BY <2>4
<1>8. ASSUME NEW m \in Nat, m \in Q PROVE m + 1 \in Q
  <2> SUFFICES ASSUME m + 1 <= n
               PROVE  upTo[m + 1] \in Seq(X) /\ \E o : Picks(upTo[m + 1], srs, m + 1, times, o)
    OBVIOUS
  <2>1. m + 1 \in 0..n /\ m + 1 \in 1..n /\ m + 1 # 0 /\ (m + 1) - 1 = m /\ m <= n
    BY <1>0
  <2>2. upTo[m + 1] = upTo[m] \o Adds(m + 1)
    BY <1>6, <2>1
  <2>3. upTo[m] \in Seq(X) /\ \E o : Picks(upTo[m], srs, m, times, o)
    BY <1>8, <2>1
  <2>4. PICK o : Picks(upTo[m], srs, m, times, o)
    BY <2>3
  <2>5. Adds(m + 1) = [k \in 1..times[m + 1] |-> srs[m + 1]] /\ Adds(m + 1) \in Seq(X) /\ times[m + 1] \in Nat
    BY <1>2, <2>1 DEF Adds
  <2>6. upTo[m] \o Adds(m + 1) \in Seq(X) /\ \E p : Picks(upTo[m] \o Adds(m + 1), srs, m + 1, times, p)
    BY <2>3, <2>4, <2>5, PicksMore
  <2> QED
    BY <2>2, <2>6
<1>9. n \in Q
  <2>1. \A m \in Nat : m \in Q
    <3> HIDE DEF Q
    <3> QED
      BY <1>7, <1>8, Induct
  <2> QED
    BY <1>0, <2>1
<1> QED
  BY <1>0, <1>1, <1>9 DEF n

-----------------------------------------------------------------------------
(* The rows of a page                                                       *)

\* A page has no row that is not there as a whole.
LEMMA RowsFit ==
    ASSUME NEW l \in Nat, NEW n \in 1..(l \div TableColumns)
    PROVE  /\ n \in Nat \ {0} /\ (n - 1) * TableColumns \in Nat
           /\ n * TableColumns = (n - 1) * TableColumns + TableColumns /\ n * TableColumns <= l
<1> DEFINE q == l \div TableColumns
           c == TableColumns
<1>1. c \in Nat /\ c > 0
  BY ReportsAssumption
<1>2. q \in Nat /\ l = q * c + (l % c) /\ l % c \in 0..c - 1
  BY <1>1
<1>3. n \in Nat /\ n >= 1 /\ n <= q
  BY <1>2
<1> HIDE DEF q
<1>4. q * c <= l
  <2>1. q * c \in Int /\ l % c \in Nat
    BY <1>1, <1>2
  <2> QED
    BY <1>2, <2>1
<1>5. n * c <= q * c
  <2>1. q = n + (q - n) /\ q - n \in Nat
    BY <1>2, <1>3
  <2>2. (q - n) * c \in Nat /\ n * c \in Nat
    BY <1>1, <1>3, <2>1
  <2>3. q * c = n * c + (q - n) * c
    BY <1>1, <1>2, <1>3
  <2> QED
    BY <2>2, <2>3
<1>6. (n - 1) * c \in Nat /\ n * c = (n - 1) * c + c
  BY <1>1, <1>3
<1>7. n * c <= l
  <2>1. n * c \in Int /\ q * c \in Int
    BY <1>1, <1>2, <1>3
  <2> QED
    BY <1>4, <1>5, <2>1
<1> QED
  BY <1>3, <1>6, <1>7

\* The SRs parsed from a page have the fields of its rows.
LEMMA PageIs ==
    ASSUME NEW cells \in QueuePage
    PROVE  /\ RowCount(cells) \in Nat
           /\ SrList(cells) \in Seq([DOMAIN ColumnIndex -> ToSet(cells)]) /\ Len(SrList(cells)) = RowCount(cells)
           /\ DOMAIN PageRows(cells) = 1..RowCount(cells)
           /\ \A n \in 1..RowCount(cells) : FieldsOf(PageRows(cells)[n]) = SrList(cells)[n]
<1> DEFINE c == TableColumns
           l == Len(cells)
           F == DOMAIN ColumnIndex
<1>1. c \in Nat /\ c > 0 /\ cells \in Seq(ToSet(cells)) /\ l \in Nat
  BY ReportsAssumption
<1>2. RowCount(cells) = l \div c /\ RowCount(cells) \in Nat
  BY <1>1 DEF RowCount
<1>3. \A f \in F : ColumnIndex[f] \in 0..c - 1
  BY ReportsAssumption
<1>4. ASSUME NEW n \in 1..RowCount(cells), NEW f \in F
      PROVE  /\ (n - 1) * c + ColumnIndex[f] + 1 \in 1..l
             /\ SubSeq(cells, (n - 1) * c + 1, n * c)[ColumnIndex[f] + 1] = cells[(n - 1) * c + ColumnIndex[f] + 1]
  <2> DEFINE a == (n - 1) * c
             b == n * c
             k == ColumnIndex[f]
  <2>1. a \in Nat /\ b = a + c /\ b <= l /\ k \in 0..c - 1 /\ b \in Nat
    BY <1>1, <1>2, <1>3, RowsFit
  <2> HIDE DEF a, b, k
  <2>2. a + k + 1 \in 1..l /\ k + 1 \in 1..(b - (a + 1) + 1) /\ a + 1 \in 1..l /\ b \in 1..l
    BY <1>1, <2>1
  <2>3. SubSeq(cells, a + 1, b)[k + 1] = cells[a + 1 + (k + 1) - 1]
    BY <1>1, <2>1, <2>2
  <2>4. a + 1 + (k + 1) - 1 = a + k + 1
    BY <2>1
  <2> QED
    BY <2>2, <2>3, <2>4 DEF a, b, k
<1>5. /\ SrList(cells) \in Seq([F -> ToSet(cells)]) /\ Len(SrList(cells)) = RowCount(cells)
      /\ \A n \in 1..RowCount(cells) : SrList(cells)[n] = [f \in F |-> cells[(n - 1) * c + ColumnIndex[f] + 1]]
  <2>1. \A n \in 1..RowCount(cells) : \A f \in F : cells[(n - 1) * c + ColumnIndex[f] + 1] \in ToSet(cells)
    BY <1>1, <1>4
  <2>2. \A n \in 1..RowCount(cells) : [f \in F |-> cells[(n - 1) * c + ColumnIndex[f] + 1]] \in [F -> ToSet(cells)]
    BY <2>1
  <2>3. SrList(cells) = [n \in 1..RowCount(cells) |-> [f \in F |-> cells[(n - 1) * c + ColumnIndex[f] + 1]]]
    BY Zenon DEF SrList, Cell
  <2> QED
    BY <1>2, <2>2, <2>3
<1>6. /\ DOMAIN PageRows(cells) = 1..RowCount(cells)
      /\ \A n \in 1..RowCount(cells) : PageRows(cells)[n] = SubSeq(cells, (n - 1) * c + 1, n * c)
  BY <1>2 DEF PageRows
<1>7. \A n \in 1..RowCount(cells) : FieldsOf(PageRows(cells)[n]) = [f \in F |-> PageRows(cells)[n][ColumnIndex[f] + 1]]
  BY DEF FieldsOf
<1>8. ASSUME NEW n \in 1..RowCount(cells) PROVE FieldsOf(PageRows(cells)[n]) = SrList(cells)[n]
  <2>0. PageRows(cells)[n] = SubSeq(cells, (n - 1) * c + 1, n * c)
    BY <1>6
  <2>1. ASSUME NEW f \in F
        PROVE  PageRows(cells)[n][ColumnIndex[f] + 1] = cells[(n - 1) * c + ColumnIndex[f] + 1]
    <3>1. SubSeq(cells, (n - 1) * c + 1, n * c)[ColumnIndex[f] + 1] = cells[(n - 1) * c + ColumnIndex[f] + 1]
      BY <1>4
    <3> QED
      BY <2>0, <3>1, Zenon
  <2>2. [f \in F |-> PageRows(cells)[n][ColumnIndex[f] + 1]] = [f \in F |-> cells[(n - 1) * c + ColumnIndex[f] + 1]]
    BY <2>1
  <2> QED
    BY <1>5, <1>7, <2>2
<1> QED
  BY <1>2, <1>5, <1>6, <1>8

\* The number of times a value is in a list.
LEMMA TimesIn ==
    ASSUME NEW X, NEW list \in Seq(X), NEW v
    PROVE  /\ Cardinality({n \in DOMAIN list : list[n] = v}) \in Nat
           /\ Cardinality({n \in DOMAIN list : list[n] = v}) > 0 <=> v \in ToSet(list)
<1> DEFINE S == {n \in DOMAIN list : list[n] = v}
<1>1. IsFiniteSet(S)
  <2>1. IsFiniteSet(1..Len(list))
    BY FS_Interval
  <2>2. S \in SUBSET (1..Len(list))
    OBVIOUS
  <2> QED
    BY <2>1, <2>2, FS_Subset
<1>2. Cardinality(S) \in Nat /\ (Cardinality(S) = 0 <=> S = {})
  BY <1>1, FS_CardinalityType, FS_EmptySet
<1>3. S # {} <=> v \in ToSet(list)
  BY DEF ToSet
<1> QED
  BY <1>2, <1>3

\* What is found are the rows that the options ask for, in the order of the page.
LEMMA RelevantIs ==
    ASSUME NEW cells \in QueuePage, NEW options \in ReportOptions, Relevant(cells, options) # <<>>
    PROVE  \E o, times :
              /\ Picks(Relevant(cells, options), SrList(cells), RowCount(cells), times, o)
              /\ \A n \in 1..RowCount(cells) : times[n] > 0 <=> n \in AskedFor(PageRows(cells), options)
<1> DEFINE srs == SrList(cells)
           page == PageRows(cells)
           q == RowCount(cells)
           t == Relevant(cells, options)
           X == [DOMAIN ColumnIndex -> ToSet(cells)]
<1>1. q \in Nat /\ srs \in Seq(X) /\ Len(srs) = q /\ DOMAIN srs = 1..q
  BY PageIs
<1>2. DOMAIN page = 1..q /\ \A n \in 1..q : FieldsOf(page[n]) = srs[n]
  BY PageIs
<1> HIDE DEF srs, page, q, X
<1>3. \A n \in 1..q : n \in AskedFor(page, options) <=>
          /\ options.target = "analyst" => srs[n].analyst = options.analyst
          /\ options.target = "srlist" => srs[n].number \in ToSet(options.srlist)
  BY <1>2 DEF AskedFor
<1>4. CASE options.target = "analyst"
  <2> DEFINE times == [i \in DOMAIN srs |->
                          IF options.analyst # <<>> /\ srs[i].analyst = options.analyst THEN 1 ELSE 0]
  <2>1. t = Filtered(srs, times)
    BY <1>4, Zenon DEF Relevant, ByAnalyst, srs
  <2>2. times \in [1..Len(srs) -> Nat]
    BY <1>1
  <2>3. \A n \in 1..q : times[n] = IF options.analyst # <<>> /\ srs[n].analyst = options.analyst THEN 1 ELSE 0
    BY <1>1
  <2> HIDE DEF times
  <2>4. PICK o : Picks(t, srs, q, times, o)
    BY <1>1, <2>1, <2>2, FilteredIs
  <2>5. options.analyst # <<>>
    <3> SUFFICES ASSUME options.analyst = <<>> PROVE FALSE
      OBVIOUS
    <3>1. \A n \in 1..q : times[n] = 0
      BY <2>3
    <3>2. /\ Len(t) \in Nat /\ t = [i \in 1..Len(t) |-> t[i]]
          /\ \A i \in 1..Len(t) : o[i] \in 1..q /\ times[o[i]] > 0
      BY <2>4 DEF Picks
    <3>3. 1..Len(t) = {}
      BY <3>1, <3>2
    <3>4. t = [i \in {} |-> t[i]]
      BY <3>2, <3>3
    <3> QED
      BY <3>4
  <2>6. \A n \in 1..q : times[n] > 0 <=> n \in AskedFor(page, options)
    BY <1>3, <1>4, <2>3, <2>5
  <2> QED
    BY <2>4, <2>6 DEF srs, page, q
<1>5. CASE options.target = "srlist"
  <2> DEFINE numbers == options.srlist
             times == [i \in DOMAIN srs |-> Cardinality({n \in DOMAIN numbers : numbers[n] = srs[i].number})]
  <2>1. t = Filtered(srs, times)
    BY <1>5, Zenon DEF Relevant, ByNumbers, srs
  <2>2. numbers \in Seq(ToSet(numbers))
    BY ReportsAssumption
  <2>3. \A i \in 1..q : times[i] = Cardinality({n \in DOMAIN numbers : numbers[n] = srs[i].number})
    BY <1>1
  <2>4. \A i \in 1..q : times[i] \in Nat /\ (times[i] > 0 <=> srs[i].number \in ToSet(numbers))
    <3> HIDE DEF numbers, times
    <3> TAKE i \in 1..q
    <3> DEFINE v == srs[i].number
    <3>1. /\ Cardinality({n \in DOMAIN numbers : numbers[n] = v}) \in Nat
          /\ Cardinality({n \in DOMAIN numbers : numbers[n] = v}) > 0 <=> v \in ToSet(numbers)
      <4> HIDE DEF v
      <4> QED
        BY ONLY <2>2, TimesIn
    <3> QED
      BY <2>3, <3>1
  <2>5. times \in [1..Len(srs) -> Nat]
    BY <1>1, <2>4
  <2> HIDE DEF times
  <2>6. PICK o : Picks(t, srs, q, times, o)
    BY <1>1, <2>1, <2>5, FilteredIs
  <2>7. \A n \in 1..q : times[n] > 0 <=> n \in AskedFor(page, options)
    BY <1>3, <1>5, <2>4
  <2> QED
    BY <2>6, <2>7 DEF srs, page, q
<1>6. CASE ~(options.target \in {"analyst", "srlist"})
  <2> DEFINE times == [i \in 1..q |-> 1]
             o == [i \in 1..q |-> i]
  <2>1. t = srs
    BY <1>6, Zenon DEF Relevant, srs
  <2>2. Picks(srs, srs, q, times, o)
    BY <1>1 DEF Picks
  <2>3. \A n \in 1..q : times[n] > 0 <=> n \in AskedFor(page, options)
    BY <1>3, <1>6
  <2> HIDE DEF times, o
  <2> QED
    BY <2>1, <2>2, <2>3 DEF srs, page, q
<1> QED
  BY <1>4, <1>5, <1>6

-----------------------------------------------------------------------------
(* From the SRs to the window                                               *)

\* The row of the window for an SR.
RowOf(sr) == <<XmlContent(sr.number), XmlContent(sr.analyst), XmlContent(sr.subject)>>

\* What was found was found on a page, with options.
FoundOnPage == reportFound.cells \in QueuePage /\ reportFound.options \in ReportOptions
FoundRows == Relevant(reportFound.cells, reportFound.options)

\* What QMON_REPORT leaves: the details wait to be shown, or the window has them.
DetailsWait == reportExtra["qmon"] # <<>> =>
    FoundOnPage /\ FoundRows # <<>> /\ reportExtra["qmon"] = SrDetails(FoundRows)
WindowHasRows == (reportExtra["qmon"] = <<>> /\ reportWindow.source = "qmon") =>
    FoundOnPage /\ FoundRows # <<>> /\ reportWindow.rows = [i \in DOMAIN FoundRows |-> RowOf(FoundRows[i])]
Titles == {"Analyst Notification Details", "SRList Notification Details", "CTC Notification Details", "other"}
ExtraType == reportExtra = [source \in {"qmon", "other"} |-> reportExtra[source]]
\* Popups are in a list.
PopupList == reportPopups \in Seq([source : {"qmon", "other"}, title : Titles])
ReportsInv == LinkOpenedOrTold /\ ExtraType /\ PopupList /\ DetailsWait /\ WindowHasRows

\* The window of a document has the cells of its rows under the headings.
LEMMA TableIs ==
    ASSUME NEW one, NEW srs, srs # <<>>,
           NEW doc \in ToSet(SrDetails(srs)), NEW msg \in ToSet(OulMsgOf(doc))
    PROVE  msg.ctype = "table" /\ TableWindow(one, msg).rows = [i \in DOMAIN srs |-> RowOf(srs[i])]
<1> DEFINE CellsOf(i) == << [col |-> 0, url |-> <<srs[i].number>>, content |-> XmlContent(srs[i].number)],
                            [col |-> 1, url |-> <<>>, content |-> XmlContent(srs[i].analyst)],
                            [col |-> 2, url |-> <<>>, content |-> XmlContent(srs[i].subject)] >>
           d == [type |-> "table", header |-> HeaderNames, rows |-> [i \in DOMAIN srs |-> CellsOf(i)]]
           Short(i) == [j \in DOMAIN CellsOf(i) |-> [col |-> CellsOf(i)[j].col, content |-> CellsOf(i)[j].content]]
<1>1. doc = d
  <2>1. SrDetails(srs) = <<d>>
    BY Zenon DEF SrDetails
  <2> HIDE DEF d
  <2>2. \A x \in ToSet(<<d>>) : x = d
    BY DEF ToSet
  <2> QED
    BY <2>1, <2>2
<1>2. msg = MsgTable(doc)
  <2>1. doc.type = "table"
    BY <1>1
  <2>2. OulMsgOf(doc) = <<MsgTable(doc)>>
    BY <2>1, Zenon DEF OulMsgOf
  <2> DEFINE m == MsgTable(doc)
  <2> HIDE DEF m
  <2>3. \A x \in ToSet(<<m>>) : x = m
    BY DEF ToSet
  <2> QED
    BY <2>2, <2>3 DEF m
<1>3. doc.header = HeaderNames /\ doc.rows = [i \in DOMAIN srs |-> CellsOf(i)]
  <2> HIDE DEF CellsOf
  <2> QED
    BY <1>1
<1> HIDE DEF d
<1>4. /\ msg.ctype = "table" /\ msg.headers = HeaderNames
      /\ msg.rows = [i \in DOMAIN doc.rows |-> [j \in DOMAIN doc.rows[i] |->
                        [col |-> doc.rows[i][j].col, content |-> doc.rows[i][j].content]]]
  BY <1>2, <1>3 DEF MsgTable
<1>5. DOMAIN msg.rows = DOMAIN srs /\ \A i \in DOMAIN srs : msg.rows[i] = Short(i)
  <2>1. DOMAIN doc.rows = DOMAIN srs /\ \A i \in DOMAIN srs : doc.rows[i] = CellsOf(i)
    <3> HIDE DEF CellsOf
    <3> QED
      BY <1>3
  <2> HIDE DEF CellsOf
  <2> QED
    BY <1>4, <2>1
<1>6. ASSUME NEW i \in DOMAIN srs PROVE ListRow(msg, msg.rows[i]) = RowOf(srs[i])
  <2> DEFINE a == XmlContent(srs[i].number)
             b == XmlContent(srs[i].analyst)
             c == XmlContent(srs[i].subject)
             cells == msg.rows[i]
             Here(h) == {j \in DOMAIN cells : cells[j].col + 1 = h}
             Given(h) == IF Here(h) = {} THEN <<>> ELSE cells[CHOOSE j \in Here(h) : \A l \in Here(h) : l <= j].content
  <2>1. cells = << [col |-> 0, content |-> a], [col |-> 1, content |-> b], [col |-> 2, content |-> c] >>
    <3>1. cells = Short(i)
      BY <1>5
    <3>2. /\ DOMAIN CellsOf(i) = 1..3
          /\ CellsOf(i)[1].col = 0 /\ CellsOf(i)[1].content = a
          /\ CellsOf(i)[2].col = 1 /\ CellsOf(i)[2].content = b
          /\ CellsOf(i)[3].col = 2 /\ CellsOf(i)[3].content = c
      OBVIOUS
    <3> HIDE DEF CellsOf, a, b, c, cells
    <3>3. cells = [j \in 1..3 |-> [col |-> CellsOf(i)[j].col, content |-> CellsOf(i)[j].content]]
      BY <3>1, <3>2
    <3>4. DOMAIN cells = 1..3
      BY <3>3
    <3>5. cells[1] = [col |-> 0, content |-> a] /\ cells[2] = [col |-> 1, content |-> b] /\ cells[3] = [col |-> 2, content |-> c]
      BY <3>2, <3>3
    <3> QED
      BY <3>3, <3>5
  <2> HIDE DEF a, b, c, cells
  <2>2. DOMAIN cells = 1..3 /\ \A j \in 1..3 : cells[j].col = j - 1
    BY <2>1
  <2>3. cells[1].content = a /\ cells[2].content = b /\ cells[3].content = c
    BY <2>1
  <2>4. ASSUME NEW h \in 1..3 PROVE Given(h) = cells[h].content
    <3>1. Here(h) = {h}
      BY <2>2
    <3>2. (CHOOSE j \in {h} : \A l \in {h} : l <= j) = h
      OBVIOUS
    <3> HIDE DEF Here
    <3> QED
      BY <3>1, <3>2
  <2>5. ListRow(msg, cells) = [h \in DOMAIN msg.headers |-> Given(h)]
    BY Zenon DEF ListRow
  <2>6. DOMAIN msg.headers = 1..3
    BY <1>4 DEF HeaderNames
  <2> HIDE DEF Given
  <2>7. ListRow(msg, cells) = [h \in 1..3 |-> cells[h].content]
    BY <2>4, <2>5, <2>6
  <2>8. ListRow(msg, cells) = <<a, b, c>>
    BY <2>3, <2>7
  <2> QED
    BY <2>8 DEF RowOf, a, b, c, cells
<1>7. TableWindow(one, msg).rows = [i \in DOMAIN msg.rows |-> ListRow(msg, msg.rows[i])]
  BY DEF TableWindow
<1> HIDE DEF Short, CellsOf
<1> QED
  BY <1>4, <1>5, <1>6, <1>7

\* With the rows of what was found, the window shows what it should.
LEMMA RowsShow ==
    ASSUME WindowHasRows
    PROVE  WindowShowsReport
<1> SUFFICES ASSUME reportExtra["qmon"] = <<>>, reportWindow.source = "qmon"
             PROVE  WindowShowsReport
  BY DEF WindowShowsReport
<1> DEFINE cells == reportFound.cells
           options == reportFound.options
           page == PageRows(cells)
           asked == AskedFor(page, options)
           t == FoundRows
           rows == reportWindow.rows
           Same(i, n) == \A f \in DOMAIN ColumnIndex : \A c \in DOMAIN HeaderNames :
                            HeaderNames[c] = Heading[f] => rows[i][c] = XmlContent(FieldsOf(page[n])[f])
           from == [i \in DOMAIN rows |-> {n \in asked : Same(i, n)}]
<1>1. FoundOnPage /\ t # <<>> /\ rows = [i \in DOMAIN t |-> RowOf(t[i])]
  BY DEF WindowHasRows
<1>2. cells \in QueuePage /\ options \in ReportOptions /\ t = Relevant(cells, options)
  BY <1>1 DEF FoundOnPage, FoundRows
<1>3. PICK o, times :
         /\ Picks(t, SrList(cells), RowCount(cells), times, o)
         /\ \A n \in 1..RowCount(cells) : times[n] > 0 <=> n \in asked
  <2> HIDE DEF cells, options, t
  <2> QED
    BY <1>1, <1>2, RelevantIs
<1>4. DOMAIN page = 1..RowCount(cells) /\ \A n \in 1..RowCount(cells) : FieldsOf(page[n]) = SrList(cells)[n]
  <2> HIDE DEF cells, options, t
  <2> QED
    BY <1>2, PageIs
<1> DEFINE m == Len(t)
           q == RowCount(cells)
<1>5. /\ m \in Nat /\ DOMAIN t = 1..m
      /\ \A i \in 1..m : o[i] \in 1..q /\ t[i] = SrList(cells)[o[i]] /\ times[o[i]] > 0
      /\ \A i, j \in 1..m : i < j => o[i] <= o[j]
      /\ \A n \in 1..q : times[n] > 0 => \E i \in 1..m : o[i] = n
  BY <1>3 DEF Picks
<1>6. asked \subseteq 1..q
  BY <1>4 DEF AskedFor
<1>7. DOMAIN rows = 1..m /\ \A i \in 1..m : rows[i] = RowOf(t[i])
  BY <1>1, <1>5
<1> HIDE DEF cells, options, page, asked, t, rows, m, q
<1>8. ASSUME NEW i \in 1..m PROVE o[i] \in from[i]
  <2>1. o[i] \in asked /\ t[i] = FieldsOf(page[o[i]])
    BY <1>3, <1>4, <1>5 DEF q
  <2> DEFINE r == FieldsOf(page[o[i]])
  <2>2. rows[i] = RowOf(r)
    BY <1>7, <2>1
  <2> HIDE DEF r
  <2>3. DOMAIN ColumnIndex = {"number", "analyst", "subject"}
    BY ReportsAssumption
  <2>4. \A f \in {"number", "analyst", "subject"} : \A c \in DOMAIN HeaderNames :
            HeaderNames[c] = Heading[f] => RowOf(r)[c] = XmlContent(r[f])
    BY DEF HeaderNames, Heading, RowOf
  <2>5. Same(i, o[i])
    BY <2>2, <2>3, <2>4 DEF r
  <2> HIDE DEF Same
  <2> QED
    BY <1>7, <2>1, <2>5
<1>9. DOMAIN from = 1..m /\ \A i \in 1..m : from[i] \subseteq asked
  <2> HIDE DEF Same
  <2> QED
    BY <1>7
<1>10. asked = UNION {from[i] : i \in DOMAIN from}
  <2> HIDE DEF from
  <2>1. \A n \in asked : \E i \in 1..m : n \in from[i]
    BY <1>3, <1>5, <1>6, <1>8 DEF q
  <2> QED
    BY <1>9, <2>1
<1>11. \A i \in DOMAIN from : from[i] # {}
  <2> HIDE DEF from
  <2> QED
    BY <1>8, <1>9
<1>12. \A i, j \in DOMAIN from : i < j => \E a \in from[i], b \in from[j] : a <= b
  <2> HIDE DEF from
  <2> QED
    BY <1>5, <1>8, <1>9
<1> QED
  <2>1. /\ UNION {from[i] : i \in DOMAIN from} = asked
        /\ \A i \in DOMAIN from : from[i] # {}
        /\ \A i, j \in DOMAIN from : i < j => \E a \in from[i], b \in from[j] : a <= b
    BY <1>10, <1>11, <1>12
  <2> QED
    BY <2>1, Zenon DEF WindowShowsReport, rows, asked, page, cells, options

-----------------------------------------------------------------------------
(* The steps                                                                *)

LEMMA ReportsStart == ReportsInit => ReportsInv
<1> SUFFICES ASSUME ReportsInit PROVE ReportsInv
  OBVIOUS
<1>1. /\ reportExtra = [source \in {"qmon", "other"} |-> <<>>] /\ reportPopups = <<>>
      /\ reportWindow.source = "none" /\ linkOutcome = <<1, 0>>
  BY DEF ReportsInit, NoWindow
<1>2. ExtraType /\ PopupList
  BY <1>1 DEF ExtraType, PopupList
<1>3. DetailsWait /\ WindowHasRows
  BY <1>1 DEF DetailsWait, WindowHasRows
<1>4. LinkOpenedOrTold
  BY <1>1 DEF LinkOpenedOrTold
<1> QED
  BY <1>2, <1>3, <1>4 DEF ReportsInv

\* A popup more.
LEMMA PopupMore ==
    ASSUME PopupList, NEW source \in {"qmon", "other"}, NEW title \in Titles,
           reportPopups' = Append(reportPopups, [source |-> source, title |-> title])
    PROVE  PopupList'
<1> DEFINE P == [source : {"qmon", "other"}, title : Titles]
           one == [source |-> source, title |-> title]
<1>1. one \in P /\ reportPopups \in Seq(P)
  BY DEF PopupList
<1> HIDE DEF P, one
<1>2. Append(reportPopups, one) \in Seq(P)
  BY <1>1
<1> QED
  BY <1>2 DEF PopupList, P, one

LEMMA QmonReportKeeps ==
    ASSUME ReportsInv, NEW cells \in QueuePage, NEW options \in ReportOptions, QmonReport(cells, options)
    PROVE  ReportsInv'
<1> DEFINE t == Relevant(cells, options)
<1>1. /\ SrDetails(t) # <<>>
      /\ reportPopups' = Append(reportPopups, [source |-> "qmon", title |-> ReportTitle(options)])
      /\ reportExtra' = [reportExtra EXCEPT !["qmon"] = SrDetails(t)]
      /\ reportFound' = [cells |-> cells, options |-> options]
      /\ linkOutcome' = linkOutcome
  BY DEF QmonReport
<1>2. FoundRows' = t
  BY <1>1 DEF FoundRows
<1>3. FoundOnPage'
  BY <1>1 DEF FoundOnPage
<1>4. t # <<>>
  BY <1>1, Zenon DEF SrDetails
<1> HIDE DEF t
<1>5. ExtraType' /\ reportExtra'["qmon"] = SrDetails(t)
  BY <1>1 DEF ReportsInv, ExtraType
<1>6. PopupList'
  <2>1. ReportTitle(options) \in Titles
    BY Zenon DEF ReportTitle, Titles
  <2> QED
    BY <1>1, <2>1, PopupMore DEF ReportsInv
<1>7. DetailsWait' /\ WindowHasRows'
  BY <1>1, <1>2, <1>3, <1>4, <1>5 DEF DetailsWait, WindowHasRows
<1>8. LinkOpenedOrTold'
  BY <1>1 DEF ReportsInv, LinkOpenedOrTold
<1> QED
  BY <1>5, <1>6, <1>7, <1>8 DEF ReportsInv

LEMMA OtherPluginKeeps ==
    ASSUME ReportsInv, NEW details \in OtherDetails, OtherPlugin(details)
    PROVE  ReportsInv'
<1>1. /\ reportPopups' = Append(reportPopups, [source |-> "other", title |-> "other"])
      /\ reportExtra' = [reportExtra EXCEPT !["other"] = details]
      /\ reportWindow' = reportWindow /\ reportFound' = reportFound /\ linkOutcome' = linkOutcome
  BY DEF OtherPlugin
<1>2. ExtraType' /\ reportExtra'["qmon"] = reportExtra["qmon"]
  BY <1>1 DEF ReportsInv, ExtraType
<1>3. PopupList'
  <2>1. "other" \in Titles
    BY DEF Titles
  <2> QED
    BY <1>1, <2>1, PopupMore DEF ReportsInv
<1>4. FoundRows' = FoundRows /\ FoundOnPage' = FoundOnPage
  BY <1>1 DEF FoundRows, FoundOnPage
<1>5. DetailsWait' /\ WindowHasRows'
  BY <1>1, <1>2, <1>4 DEF ReportsInv, DetailsWait, WindowHasRows
<1>6. LinkOpenedOrTold'
  BY <1>1 DEF ReportsInv, LinkOpenedOrTold
<1> QED
  BY <1>2, <1>3, <1>5, <1>6 DEF ReportsInv

LEMMA ExecuteInfoKeeps ==
    ASSUME ReportsInv, NEW k, ExecuteInfo(k)
    PROVE  ReportsInv'
<1> DEFINE one == reportPopups[k]
<1>1. PICK doc \in ToSet(reportExtra[one.source]) : \E msg \in ToSet(OulMsgOf(doc)) :
          /\ reportWindow' = IF msg.ctype = "table" THEN TableWindow(one, msg) ELSE FormattedWindow(one, msg)
          /\ reportExtra' = [reportExtra EXCEPT ![one.source] = <<>>]
  BY Zenon DEF ExecuteInfo
<1>2. PICK msg \in ToSet(OulMsgOf(doc)) :
          /\ reportWindow' = IF msg.ctype = "table" THEN TableWindow(one, msg) ELSE FormattedWindow(one, msg)
          /\ reportExtra' = [reportExtra EXCEPT ![one.source] = <<>>]
  BY <1>1
<1>3. /\ k \in DOMAIN reportPopups /\ reportPopups' = reportPopups
      /\ reportFound' = reportFound /\ linkOutcome' = linkOutcome
  BY Zenon DEF ExecuteInfo
<1>4. one.source \in {"qmon", "other"}
  <2>1. one \in [source : {"qmon", "other"}, title : Titles]
    <3> DEFINE P == [source : {"qmon", "other"}, title : Titles]
    <3>1. reportPopups \in Seq(P)
      BY DEF ReportsInv, PopupList
    <3> HIDE DEF P
    <3>2. \A j \in DOMAIN reportPopups : reportPopups[j] \in P
      BY <3>1
    <3> QED
      BY <1>3, <3>2 DEF P, one
  <2> HIDE DEF one
  <2> QED
    BY <2>1
<1>5. reportWindow'.source = one.source
  <2> HIDE DEF one
  <2>1. TableWindow(one, msg).source = one.source /\ FormattedWindow(one, msg).source = one.source
    BY DEF TableWindow, FormattedWindow
  <2> QED
    BY <1>2, <2>1
<1> HIDE DEF one
<1>6. ExtraType' /\ \A source \in {"qmon", "other"} :
         reportExtra'[source] = IF source = one.source THEN <<>> ELSE reportExtra[source]
  BY <1>2, <1>4 DEF ReportsInv, ExtraType
<1>7. FoundRows' = FoundRows /\ FoundOnPage' = FoundOnPage
  BY <1>3 DEF FoundRows, FoundOnPage
<1>8. DetailsWait'
  BY <1>6, <1>7 DEF ReportsInv, DetailsWait
<1>9. WindowHasRows'
  <2> SUFFICES ASSUME one.source = "qmon"
               PROVE  FoundOnPage /\ FoundRows # <<>> /\ reportWindow'.rows = [i \in DOMAIN FoundRows |-> RowOf(FoundRows[i])]
    BY <1>5, <1>7 DEF WindowHasRows
  <2>1. doc \in ToSet(reportExtra["qmon"])
    OBVIOUS
  <2>2. reportExtra["qmon"] # <<>>
    BY <2>1 DEF ToSet
  <2>3. FoundOnPage /\ FoundRows # <<>> /\ reportExtra["qmon"] = SrDetails(FoundRows)
    BY <2>2 DEF ReportsInv, DetailsWait
  <2> DEFINE t == FoundRows
  <2>4. t # <<>>
    BY <2>3
  <2>5. doc \in ToSet(SrDetails(t))
    BY <2>1, <2>3
  <2> HIDE DEF t
  <2>6. msg.ctype = "table" /\ TableWindow(one, msg).rows = [i \in DOMAIN t |-> RowOf(t[i])]
    <3>1. msg \in ToSet(OulMsgOf(doc))
      OBVIOUS
    <3> QED
      BY ONLY <2>4, <2>5, <3>1, TableIs
  <2> QED
    BY <1>2, <2>3, <2>6 DEF t
<1>10. PopupList' /\ LinkOpenedOrTold'
  BY <1>3 DEF ReportsInv, PopupList, LinkOpenedOrTold
<1> QED
  BY <1>6, <1>8, <1>9, <1>10 DEF ReportsInv

LEMMA PopupGoneKeeps ==
    ASSUME ReportsInv, NEW k, PopupGone(k)
    PROVE  ReportsInv'
<1>1. /\ k \in DOMAIN reportPopups /\ reportPopups' = RemoveAt(reportPopups, k)
      /\ reportExtra' = reportExtra /\ reportWindow' = reportWindow
      /\ reportFound' = reportFound /\ linkOutcome' = linkOutcome
  BY DEF PopupGone
<1>2. PopupList'
  <2> DEFINE P == [source : {"qmon", "other"}, title : Titles]
             s == reportPopups
  <2>1. s \in Seq(P) /\ k \in 1..Len(s)
    BY <1>1 DEF ReportsInv, PopupList
  <2>2. s' = SubSeq(s, 1, k - 1) \o SubSeq(s, k + 1, Len(s))
    BY <1>1 DEF RemoveAt
  <2> HIDE DEF P
  <2>3. SubSeq(s, 1, k - 1) \in Seq(P) /\ SubSeq(s, k + 1, Len(s)) \in Seq(P)
    BY <2>1
  <2>4. s' \in Seq(P)
    BY <2>2, <2>3
  <2> QED
    BY <2>4 DEF PopupList, P
<1>3. FoundRows' = FoundRows /\ FoundOnPage' = FoundOnPage
  BY <1>1 DEF FoundRows, FoundOnPage
<1>4. ExtraType' /\ DetailsWait' /\ WindowHasRows' /\ LinkOpenedOrTold'
  BY <1>1, <1>3 DEF ReportsInv, ExtraType, DetailsWait, WindowHasRows, LinkOpenedOrTold
<1> QED
  BY <1>2, <1>4 DEF ReportsInv

\* A command that starts a browser has one outcome; only a status leads to another command.
LEMMA OneOutcome ==
    ASSUME NEW known, NEW sync, NEW only \in UriCommand(known, sync)
    PROVE  /\ only.opened \in Nat /\ only.told \in Nat /\ only.ret \in Nat
           /\ only.ret = 0 => only.opened + only.told = 1
           /\ only.ret # 0 => only.opened = 0 /\ only.told = 0 /\ sync
  BY DEF UriCommand

LEMMA NotifyUriKeeps ==
    ASSUME ReportsInv, NEW browser, NEW place, NotifyUri(browser, place)
    PROVE  ReportsInv'
<1>1. /\ reportExtra' = reportExtra /\ reportPopups' = reportPopups
      /\ reportWindow' = reportWindow /\ reportFound' = reportFound
  BY DEF NotifyUri
<1>2. FoundRows' = FoundRows /\ FoundOnPage' = FoundOnPage
  BY <1>1 DEF FoundRows, FoundOnPage
<1>3. ExtraType' /\ PopupList' /\ DetailsWait' /\ WindowHasRows'
  BY <1>1, <1>2 DEF ReportsInv, ExtraType, PopupList, DetailsWait, WindowHasRows
<1>4. LinkOpenedOrTold'
  <2> DEFINE has == HasCommand(browser)
  <2>1. CASE browser = "custom, empty"
    <3>1. linkOutcome' = <<0, 1>>
      BY <2>1, Zenon DEF NotifyUri
    <3> QED
      BY <3>1 DEF LinkOpenedOrTold
  <2>2. CASE browser # "custom, empty" /\ HasRemote(browser, place)
    <3>1. PICK first \in UriCommand(TRUE, TRUE) :
             \E second \in IF first.ret # 0 THEN UriCommand(has, FALSE) ELSE {NoSecond} :
                 linkOutcome' = Outcome(first, second)
      BY <2>2, Zenon DEF NotifyUri
    <3>2. PICK second \in IF first.ret # 0 THEN UriCommand(has, FALSE) ELSE {NoSecond} :
             linkOutcome' = Outcome(first, second)
      BY <3>1
    <3> HIDE DEF has
    <3>3. /\ first.opened \in Nat /\ first.told \in Nat /\ first.ret \in Nat
          /\ first.ret = 0 => first.opened + first.told = 1
          /\ first.ret # 0 => first.opened = 0 /\ first.told = 0
      BY OneOutcome
    <3>4. CASE first.ret = 0
      <4>1. second = NoSecond
        BY <3>4
      <4>2. second.opened = 0 /\ second.told = 0
        BY <4>1 DEF NoSecond
      <4> QED
        BY <3>2, <3>3, <3>4, <4>2 DEF Outcome, LinkOpenedOrTold
    <3>5. CASE first.ret # 0
      <4>1. second \in UriCommand(has, FALSE)
        BY <3>5
      <4>2. second.opened \in Nat /\ second.told \in Nat /\ second.opened + second.told = 1
        BY <4>1, OneOutcome
      <4> QED
        BY <3>2, <3>3, <3>5, <4>2 DEF Outcome, LinkOpenedOrTold
    <3> QED
      BY <3>4, <3>5
  <2>3. CASE browser # "custom, empty" /\ ~HasRemote(browser, place)
    <3>1. PICK only \in UriCommand(has, FALSE) : linkOutcome' = Outcome(NoSecond, only)
      BY <2>3, Zenon DEF NotifyUri
    <3> HIDE DEF has
    <3>2. only.opened \in Nat /\ only.told \in Nat /\ only.opened + only.told = 1
      BY OneOutcome
    <3> QED
      BY <3>1, <3>2 DEF Outcome, NoSecond, LinkOpenedOrTold
  <2> QED
    BY <2>1, <2>2, <2>3
<1> QED
  BY <1>3, <1>4 DEF ReportsInv

LEMMA ReportsStepKeeps == ReportsInv /\ [ReportsNext]_reportVars => ReportsInv'
<1> SUFFICES ASSUME ReportsInv, [ReportsNext]_reportVars PROVE ReportsInv'
  OBVIOUS
<1>1. ASSUME UNCHANGED reportVars PROVE ReportsInv'
  <2>1. /\ reportExtra' = reportExtra /\ reportPopups' = reportPopups /\ reportWindow' = reportWindow
        /\ reportFound' = reportFound /\ linkOutcome' = linkOutcome
    BY <1>1 DEF reportVars
  <2> QED
    BY <2>1 DEF ReportsInv, ExtraType, PopupList, DetailsWait, WindowHasRows, LinkOpenedOrTold,
                FoundOnPage, FoundRows
<1>2. ASSUME NEW cells \in QueuePage, NEW options \in ReportOptions,
             QmonReport(cells, options) \/ NothingToReport(cells, options)
      PROVE  ReportsInv'
  BY <1>1, <1>2, QmonReportKeeps DEF NothingToReport
<1>3. ASSUME NEW details \in OtherDetails, OtherPlugin(details) PROVE ReportsInv'
  BY <1>3, OtherPluginKeeps
<1>4. ASSUME NEW k \in 1..MaxReportPopups, ExecuteInfo(k) \/ PopupGone(k) PROVE ReportsInv'
  BY <1>4, ExecuteInfoKeeps, PopupGoneKeeps
<1>5. ASSUME NEW browser \in Browser, NEW place \in BrowserPlace, NotifyUri(browser, place) PROVE ReportsInv'
  BY <1>5, NotifyUriKeeps
<1> QED
  BY <1>1, <1>2, <1>3, <1>4, <1>5, Zenon DEF ReportsNext

\* What was found in the queue is what the window of the popup shows, whatever the page,
\* the options, the popups of others and the clicks in between; and a link is opened by
\* one browser or the user is told once (qmon_report, srlist_to_srdetails,
\* gtkntf_action_execute_info, table_list_view_new, beasy_notify_uri).
THEOREM FoundIsShown == ReportsSpec => []ReportsAreTrue
<1>1. ReportsInv => ReportsAreTrue
  BY RowsShow DEF ReportsInv, ReportsAreTrue
<1> QED
  BY <1>1, ReportsStart, ReportsStepKeeps, PTL DEF ReportsSpec

==============================================================================
