--------------------------- MODULE Plugins_proofs ---------------------------
(***************************************************************************)
(* Between two calls of liboul/plugin.c what is loaded and what is noted   *)
(* fit together, and inside a call the list element that oul_plugin_unload *)
(* keeps over the unloading of a dependent stays linked, for any plugins   *)
(* with any dependencies, cyclic ones included.                            *)
(*                                                                         *)
(* The list of a plugin's dependents is walked in the order in which they  *)
(* were loaded, the latest first, and whatever unloading one of them       *)
(* unloads was loaded after it: it stands before it in the list, never     *)
(* where the walk goes next.                                               *)
(*                                                                         *)
(* AllWilling, as it is with the plugins of the repository: no unload      *)
(* function returns FALSE.  The run plugins_freed_next shows what happens  *)
(* when one does.                                                          *)
(*                                                                         *)
(* And what plugin.c finds of the files, PluginFiles: searching the paths  *)
(* does not lose a plugin that can be loaded, the queue of those that wait *)
(* for a loader ends with every loader loaded, and the plugins of the last *)
(* session are each tried, whatever files replaced each other meanwhile.   *)
(***************************************************************************)
EXTENDS Plugins, PluginFiles, FiniteSetTheorems, SequenceTheorems, WellFoundedInduction,
        TLAPS

AllWilling == \A f \in Failing : f.unload = {}

-----------------------------------------------------------------------------
(* Lists of dependents                                                      *)

Node == Plugin \X Nat
Distinct(l) == \A i, j \in DOMAIN l : l[i] = l[j] => i = j
Has(l, q) == \E k \in DOMAIN l : l[k][1] = q
\* Whatever stands for b has something for a before it.
Before(l, a, b) == \A k \in DOMAIN l : l[k][1] = b => \E j \in DOMAIN l : j < k /\ l[j][1] = a

\* A set of natural numbers has a least one.
LEMMA Least ==
    ASSUME NEW S \in SUBSET Nat, S # {}
    PROVE  \E m \in S : \A n \in S : m <= n
<1>1. PICK x \in S : \A y \in S : ~ (<<y, x>> \in OpToRel(<, Nat))
  BY WFMin, NatLessThanWellFounded, Zenon
<1>2. \A y \in S : y < x => <<y, x>> \in OpToRel(<, Nat)
  BY DEF OpToRel
<1>3. \A y \in S : x \in Int /\ y \in Int
  OBVIOUS
<1>4. \A y \in S : ~ (y < x)
  BY <1>1, <1>2, Zenon
<1> QED
  BY <1>3, <1>4

\* What is left of a list when an element is taken out.
LEMMA RemoveAtIs ==
    ASSUME NEW S, NEW l \in Seq(S), NEW i \in DOMAIN l
    PROVE  /\ RemoveAt(l, i) \in Seq(S) /\ Len(RemoveAt(l, i)) = Len(l) - 1
           /\ \A j \in DOMAIN RemoveAt(l, i) :
                 RemoveAt(l, i)[j] = IF j < i THEN l[j] ELSE l[j + 1]
<1> DEFINE w == RemoveAt(l, i)
           x == SubSeq(l, 1, i - 1)
           y == SubSeq(l, i + 1, Len(l))
<1>1. i \in Nat /\ 1 <= i /\ i <= Len(l) /\ Len(l) \in Nat
  OBVIOUS
<1>2. /\ x \in Seq(S) /\ Len(x) = i - 1
      /\ \A j \in 1..i - 1 : x[j] = l[j]
  BY <1>1
<1>3. /\ y \in Seq(S) /\ Len(y) = Len(l) - i
      /\ \A j \in 1..Len(l) - i : y[j] = l[i + j]
  BY <1>1
<1>4. w = x \o y
  BY DEF RemoveAt
<1> HIDE DEF w, x, y
<1>5. w \in Seq(S) /\ Len(w) = Len(l) - 1
  BY <1>1, <1>2, <1>3, <1>4
<1>6. \A j \in 1..Len(l) - 1 : w[j] = IF j < i THEN x[j] ELSE y[j - (i - 1)]
  <2> SUFFICES ASSUME NEW j \in 1..Len(l) - 1
               PROVE  (x \o y)[j] = IF j < i THEN x[j] ELSE y[j - (i - 1)]
    BY <1>4
  <2>1. Len(x) \in Nat /\ Len(y) \in Nat /\ j \in 1..Len(x) + Len(y)
    BY <1>1, <1>2, <1>3
  <2>2. (x \o y)[j] = IF j <= Len(x) THEN x[j] ELSE y[j - Len(x)]
    BY <1>2, <1>3, <2>1, SMTT(30)
  <2>3. Len(x) = i - 1 /\ (j <= Len(x) <=> j < i)
    BY <1>1, <1>2, <2>1
  <2> QED
    BY <2>2, <2>3
<1>7. ASSUME NEW j \in DOMAIN w PROVE w[j] = IF j < i THEN l[j] ELSE l[j + 1]
  <2>1. j \in 1..Len(l) - 1
    BY <1>5
  <2>2. CASE j < i
    BY <1>1, <1>2, <1>6, <2>1, <2>2
  <2>3. CASE ~(j < i)
    <3>1. j - (i - 1) \in 1..Len(l) - i /\ i + (j - (i - 1)) = j + 1
      <4>1. j \in Int /\ j <= Len(l) - 1 /\ j >= i /\ i \in Int /\ Len(l) \in Int
        BY <1>1, <2>1, <2>3
      <4> QED
        BY <4>1
    <3>2. w[j] = y[j - (i - 1)]
      BY <1>6, <2>1, <2>3
    <3> QED
      BY <1>3, <2>3, <3>1, <3>2
  <2> QED
    BY <2>2, <2>3
<1> QED
  BY <1>5, <1>7 DEF w

\* w is l without the first of its elements for x, the one at m.
Cut(w, l, x, m) ==
    /\ m \in DOMAIN l /\ l[m][1] = x /\ \A j \in DOMAIN l : j < m => l[j][1] # x
    /\ w \in Seq(Node) /\ Len(w) = Len(l) - 1
    /\ \A j \in DOMAIN w : w[j] = IF j < m THEN l[j] ELSE l[j + 1]

\* g_list_remove cuts the first element with the data out.
LEMMA WithoutCuts ==
    ASSUME NEW l \in Seq(Node), NEW x, Has(l, x)
    PROVE  \E m \in DOMAIN l : Cut(Without(l, x), l, x, m)
<1> DEFINE mine == {i \in DOMAIN l : l[i][1] = x}
           m == CHOOSE i \in mine : \A j \in mine : i <= j
<1>1. mine # {} /\ mine \in SUBSET Nat
  BY DEF Has
<1>2. m \in mine /\ \A j \in mine : m <= j
  BY <1>1, Least
<1>3. Without(l, x) = RemoveAt(l, m)
  BY <1>1, Zenon DEF Without
<1> HIDE DEF m
<1>4. m \in DOMAIN l /\ l[m][1] = x
  BY <1>2
<1>5. \A j \in DOMAIN l : j < m => l[j][1] # x
  <2>1. \A j \in mine : ~(j < m)
    BY <1>1, <1>2
  <2> QED
    BY <2>1
<1>6. /\ RemoveAt(l, m) \in Seq(Node) /\ Len(RemoveAt(l, m)) = Len(l) - 1
      /\ \A j \in DOMAIN RemoveAt(l, m) : RemoveAt(l, m)[j] = IF j < m THEN l[j] ELSE l[j + 1]
  BY <1>4, RemoveAtIs
<1> QED
  BY <1>3, <1>4, <1>5, <1>6, Zenon DEF Cut

\* Where the elements that stay were and where they are.
LEMMA CutPlaces ==
    ASSUME NEW l \in Seq(Node), NEW w, NEW x, NEW m \in DOMAIN l, Cut(w, l, x, m)
    PROVE  /\ \A k \in DOMAIN w : /\ IF k < m THEN k \in DOMAIN l ELSE k + 1 \in DOMAIN l
                                  /\ w[k] = IF k < m THEN l[k] ELSE l[k + 1]
           /\ \A i \in DOMAIN l : i # m =>
                /\ IF i < m THEN i \in DOMAIN w ELSE i - 1 \in DOMAIN w
                /\ l[i] = IF i < m THEN w[i] ELSE w[i - 1]
           /\ Len(w) \in Nat /\ DOMAIN w = 1..Len(w) /\ Len(w) = Len(l) - 1
           /\ Len(l) \in Nat /\ DOMAIN l = 1..Len(l)
<1>1. /\ Len(w) \in Nat /\ DOMAIN w = 1..Len(w) /\ Len(w) = Len(l) - 1
      /\ Len(l) \in Nat /\ DOMAIN l = 1..Len(l) /\ m \in 1..Len(l)
      /\ \A k \in DOMAIN w : w[k] = IF k < m THEN l[k] ELSE l[k + 1]
  BY DEF Cut
<1>2. \A k \in DOMAIN w : IF k < m THEN k \in DOMAIN l ELSE k + 1 \in DOMAIN l
  BY <1>1
<1>3. ASSUME NEW i \in DOMAIN l, i # m
      PROVE  /\ IF i < m THEN i \in DOMAIN w ELSE i - 1 \in DOMAIN w
             /\ l[i] = IF i < m THEN w[i] ELSE w[i - 1]
  <2>1. CASE i < m
    BY <1>1, <2>1
  <2>2. CASE ~(i < m)
    <3>1. i - 1 \in DOMAIN w /\ ~(i - 1 < m) /\ (i - 1) + 1 = i
      BY <1>1, <1>3, <2>2
    <3> QED
      BY <1>1, <2>2, <3>1
  <2> QED
    BY <2>1, <2>2
<1> QED
  BY <1>1, <1>2, <1>3

LEMMA CutKeeps ==
    ASSUME NEW l \in Seq(Node), NEW w, NEW x, NEW m \in DOMAIN l, Cut(w, l, x, m)
    PROVE  /\ Distinct(l) => Distinct(w)
           /\ \A k \in DOMAIN w : \E i \in DOMAIN l : w[k] = l[i]
           /\ \A q : q # x /\ Has(l, q) => Has(w, q)
           /\ \A a, b : a # x /\ b # x /\ Before(l, a, b) => Before(w, a, b)
<1>1. ASSUME Distinct(l), NEW i \in DOMAIN w, NEW j \in DOMAIN w, w[i] = w[j] PROVE i = j
  <2>1. \A a, b \in DOMAIN l : l[a] = l[b] => a = b
    BY <1>1 DEF Distinct
  <2>2. i \in Int /\ j \in Int /\ m \in Int
    BY CutPlaces
  <2>3. CASE i < m /\ j < m
    BY <1>1, <2>1, <2>3, CutPlaces
  <2>4. CASE i < m /\ ~(j < m)
    BY <1>1, <2>1, <2>2, <2>4, CutPlaces
  <2>5. CASE ~(i < m) /\ j < m
    BY <1>1, <2>1, <2>2, <2>5, CutPlaces
  <2>6. CASE ~(i < m) /\ ~(j < m)
    <3>1. i + 1 \in DOMAIN l /\ j + 1 \in DOMAIN l /\ l[i + 1] = l[j + 1]
      BY <1>1, <2>6, CutPlaces
    <3>2. i + 1 = j + 1
      BY <2>1, <3>1
    <3> QED
      BY <2>2, <3>2
  <2> QED
    BY <2>3, <2>4, <2>5, <2>6
<1>2. \A k \in DOMAIN w : \E i \in DOMAIN l : w[k] = l[i]
  BY CutPlaces
<1>3. ASSUME NEW q, q # x, Has(l, q) PROVE Has(w, q)
  <2>1. PICK i \in DOMAIN l : l[i][1] = q
    BY <1>3 DEF Has
  <2>2. i # m
    BY <1>3, <2>1 DEF Cut
  <2>3. IF i < m THEN i \in DOMAIN w /\ w[i] = l[i] ELSE i - 1 \in DOMAIN w /\ w[i - 1] = l[i]
    BY <2>2, CutPlaces
  <2> QED
    BY <2>1, <2>3 DEF Has
<1>4. ASSUME NEW a, NEW b, a # x, b # x, Before(l, a, b), NEW k \in DOMAIN w, w[k][1] = b
      PROVE  \E j \in DOMAIN w : j < k /\ w[j][1] = a
  <2>0. k \in Int /\ m \in Int
    BY CutPlaces
  <2>1. PICK i \in DOMAIN l : l[i] = w[k] /\ i = IF k < m THEN k ELSE k + 1
    BY CutPlaces
  <2>2. PICK j \in DOMAIN l : j < i /\ l[j][1] = a
    BY <1>4, <2>1 DEF Before
  <2>3. j # m /\ j \in Int
    BY <1>4, <2>2, CutPlaces DEF Cut
  <2>4. CASE j < m
    <3>1. j \in DOMAIN w /\ w[j] = l[j]
      BY <2>3, <2>4, CutPlaces
    <3>2. j < k
      BY <2>0, <2>1, <2>2, <2>3, <2>4
    <3> QED
      BY <2>2, <3>1, <3>2
  <2>5. CASE ~(j < m)
    <3>1. j - 1 \in DOMAIN w /\ w[j - 1] = l[j]
      BY <2>3, <2>5, CutPlaces
    <3>2. j - 1 < k
      BY <2>0, <2>1, <2>2, <2>3, <2>5
    <3> QED
      BY <2>2, <3>1, <3>2
  <2> QED
    BY <2>4, <2>5
<1> QED
  BY <1>1, <1>2, <1>3, <1>4 DEF Distinct, Before

-----------------------------------------------------------------------------
(* The walk over the dependents                                             *)

\* Where the walk stands: at the m-th element, or behind the last.
Stands(l, at, m) == m \in 1..(Len(l) + 1) /\ IF m = Len(l) + 1 THEN at = NoNode ELSE at = l[m]

\* Of what stands before it nothing is loaded but those of C, which do stand there.
Passed(l, at, L, C) ==
    \E m \in Nat :
        /\ Stands(l, at, m)
        /\ \A k \in DOMAIN l : k < m => l[k][1] \notin L \/ l[k][1] \in C
        /\ \A q \in C : \E k \in DOMAIN l : k < m /\ l[k][1] = q

\* The walk over a list keeps its place when the first element for x goes, which stands
\* before the one the walk is busy with, or is it.
LEMMA PassedCut ==
    ASSUME NEW l \in Seq(Node), NEW w, NEW x, NEW n \in DOMAIN l, Cut(w, l, x, n),
           NEW at, NEW L, NEW q, Passed(l, at, L, {q}), x = q \/ Before(l, x, q)
    PROVE  Passed(w, at, L \ {x}, {q} \ {x})
<1>1. PICK m \in Nat : /\ Stands(l, at, m)
                       /\ \A k \in DOMAIN l : k < m => l[k][1] \notin L \/ l[k][1] = q
                       /\ \E k \in DOMAIN l : k < m /\ l[k][1] = q
  BY DEF Passed
<1>2. PICK k \in DOMAIN l : k < m /\ l[k][1] = q
  BY <1>1
<1>3. \E j \in DOMAIN l : j < m /\ l[j][1] = x
  <2>1. CASE x = q
    BY <1>2, <2>1
  <2>2. CASE Before(l, x, q)
    <3>1. PICK j \in DOMAIN l : j < k /\ l[j][1] = x
      BY <1>2, <2>2 DEF Before
    <3>2. j \in Int /\ k \in Int /\ m \in Int
      OBVIOUS
    <3> QED
      BY <1>2, <3>1, <3>2
  <2> QED
    BY <2>1, <2>2
<1>4. /\ Len(w) \in Nat /\ DOMAIN w = 1..Len(w) /\ Len(w) = Len(l) - 1
      /\ Len(l) \in Nat /\ DOMAIN l = 1..Len(l) /\ n \in 1..Len(l)
  BY CutPlaces
<1>5. n < m
  <2>1. PICK j \in DOMAIN l : j < m /\ l[j][1] = x
    BY <1>3
  <2>2. ~(j < n)
    BY <2>1 DEF Cut
  <2> QED
    BY <1>4, <2>1, <2>2
<1>6. m - 1 \in Nat /\ Stands(w, at, m - 1)
  <2>1. m \in 1..(Len(l) + 1) /\ IF m = Len(l) + 1 THEN at = NoNode ELSE at = l[m]
    BY <1>1 DEF Stands
  <2>2. CASE m = Len(l) + 1
    BY <1>4, <1>5, <2>1, <2>2 DEF Stands
  <2>3. CASE m # Len(l) + 1
    <3>1. m \in DOMAIN l /\ m # n /\ ~(m < n)
      BY <1>4, <1>5, <2>1, <2>3
    <3>2. m - 1 \in DOMAIN w /\ l[m] = w[m - 1]
      BY <3>1, CutPlaces
    <3>3. m - 1 \in 1..(Len(w) + 1) /\ m - 1 # Len(w) + 1 /\ m - 1 \in Nat
      BY <1>4, <3>2
    <3> QED
      BY <2>1, <2>3, <3>2, <3>3 DEF Stands
  <2> QED
    BY <2>2, <2>3
<1>7. ASSUME NEW i \in DOMAIN w, i < m - 1 PROVE w[i][1] \notin L \ {x} \/ w[i][1] \in {q} \ {x}
  <2>1. PICK j \in DOMAIN l : w[i] = l[j] /\ j = IF i < n THEN i ELSE i + 1
    BY CutPlaces
  <2>2. j < m
    BY <1>4, <1>7, <2>1
  <2> QED
    BY <1>1, <2>1, <2>2
<1>8. ASSUME NEW z \in {q} \ {x} PROVE \E i \in DOMAIN w : i < m - 1 /\ w[i][1] = z
  <2>1. k # n
    BY <1>2, <1>8 DEF Cut
  <2>2. CASE k < n
    <3>1. k \in DOMAIN w /\ w[k] = l[k] /\ k < m - 1
      BY <1>4, <1>5, <2>1, <2>2, CutPlaces
    <3> QED
      BY <1>2, <1>8, <3>1
  <2>3. CASE ~(k < n)
    <3>1. k - 1 \in DOMAIN w /\ w[k - 1] = l[k] /\ k - 1 < m - 1
      BY <1>2, <1>4, <2>1, <2>3, CutPlaces
    <3> QED
      BY <1>2, <1>8, <3>1
  <2> QED
    BY <2>2, <2>3
<1> QED
  BY <1>6, <1>7, <1>8, Zenon DEF Passed

\* What is not cut only sees a plugin go.
LEMMA PassedLess ==
    ASSUME NEW l, NEW at, NEW L, NEW C, NEW x, x \notin C, Passed(l, at, L, C)
    PROVE  Passed(l, at, L \ {x}, C \ {x})
<1>1. C \ {x} = C
  OBVIOUS
<1>2. \A k \in DOMAIN l : l[k][1] \notin L => l[k][1] \notin L \ {x}
  OBVIOUS
<1> QED
  BY <1>1, <1>2 DEF Passed

\* The walk begins with the first element.
LEMMA PassedFirst ==
    ASSUME NEW p, NEW l \in Seq(Node), l = dependents[p], NEW L
    PROVE  Passed(l, First(p), L, {})
<1>1. Len(l) \in Nat /\ DOMAIN l = 1..Len(l)
  OBVIOUS
<1>2. Stands(l, First(p), 1)
  <2>1. CASE l = <<>>
    BY <2>1 DEF Stands, First
  <2>2. CASE l # <<>>
    <3>1. Len(l) # 0
      BY <2>2
    <3>2. 1 \in 1..(Len(l) + 1) /\ 1 # Len(l) + 1
      BY <1>1, <3>1
    <3> QED
      BY <2>2, <3>2 DEF Stands, First
  <2> QED
    BY <2>1, <2>2
<1>3. \A k \in DOMAIN l : ~(k < 1)
  BY <1>1
<1> QED
  BY <1>2, <1>3 DEF Passed

\* A walk that is not at the end stands on an element that is linked.
LEMMA PassedLinked ==
    ASSUME NEW l \in Seq(Node), NEW at, NEW L, NEW C, Passed(l, at, L, C), at # NoNode
    PROVE  \E m \in DOMAIN l : l[m] = at /\ Stands(l, at, m)
<1>1. PICK m \in Nat : Stands(l, at, m)
  BY DEF Passed
<1> QED
  BY <1>1 DEF Stands

\* It goes on behind that element, which is passed then.
LEMMA PassedNext ==
    ASSUME NEW p, NEW l \in Seq(Node), l = dependents[p], Distinct(l),
           NEW at, at # NoNode, NEW L, Passed(l, at, L, {})
    PROVE  /\ at \in Node /\ at \in ToSet(l) /\ After(p, at) \in Node \cup {NoNode}
           /\ at[1] \in L => Passed(l, After(p, at), L, {at[1]})
           /\ at[1] \notin L => Passed(l, After(p, at), L, {})
<1>1. Len(l) \in Nat /\ DOMAIN l = 1..Len(l) /\ \A k \in DOMAIN l : l[k] \in Node
  OBVIOUS
<1>2. PICK m \in Nat : Stands(l, at, m) /\ \A k \in DOMAIN l : k < m => l[k][1] \notin L
  BY DEF Passed
<1>3. m \in DOMAIN l /\ l[m] = at
  BY <1>1, <1>2 DEF Stands
<1>4. After(p, at) = IF m < Len(l) THEN l[m + 1] ELSE NoNode
  <2> DEFINE j0 == CHOOSE j \in DOMAIN dependents[p] : dependents[p][j] = at
  <2>1. After(p, at) = IF j0 < Len(dependents[p]) THEN dependents[p][j0 + 1] ELSE NoNode
    BY Zenon DEF After
  <2>2. j0 \in DOMAIN l /\ l[j0] = at
    BY <1>3, Zenon
  <2> HIDE DEF j0
  <2>3. j0 = m
    BY <1>3, <2>2 DEF Distinct
  <2> QED
    BY <2>1, <2>3
<1>5. m + 1 \in Nat /\ Stands(l, After(p, at), m + 1)
  BY <1>1, <1>3, <1>4 DEF Stands
<1>6. \A k \in DOMAIN l : k < m + 1 => k < m \/ k = m
  BY <1>1
<1>7. m < m + 1
  OBVIOUS
<1>8. ASSUME at[1] \in L PROVE Passed(l, After(p, at), L, {at[1]})
  <2>1. \A k \in DOMAIN l : k < m + 1 => l[k][1] \notin L \/ l[k][1] \in {at[1]}
    BY <1>2, <1>3, <1>6
  <2>2. \A q \in {at[1]} : \E k \in DOMAIN l : k < m + 1 /\ l[k][1] = q
    BY <1>3, <1>7
  <2> QED
    BY <1>5, <2>1, <2>2, Zenon DEF Passed
<1>9. ASSUME at[1] \notin L PROVE Passed(l, After(p, at), L, {})
  <2>1. \A k \in DOMAIN l : k < m + 1 => l[k][1] \notin L \/ l[k][1] \in {}
    BY <1>2, <1>3, <1>6, <1>9
  <2> QED
    BY <1>5, <2>1, Zenon DEF Passed
<1>10. at \in Node /\ at \in ToSet(l)
  BY <1>1, <1>3 DEF ToSet
<1>11. After(p, at) \in Node \cup {NoNode}
  BY <1>1, <1>3, <1>4
<1> QED
  BY <1>8, <1>9, <1>10, <1>11

\* When it is at the end nothing in the list is loaded.
LEMMA PassedAll ==
    ASSUME NEW l \in Seq(Node), NEW L, Passed(l, NoNode, L, {})
    PROVE  \A k \in DOMAIN l : l[k][1] \notin L
<1>1. Len(l) \in Nat /\ DOMAIN l = 1..Len(l) /\ \A k \in DOMAIN l : l[k] \in Node
  OBVIOUS
<1>2. PICK m \in Nat : Stands(l, NoNode, m) /\ \A k \in DOMAIN l : k < m => l[k][1] \notin L
  BY DEF Passed
<1>3. \A n \in Node : n # NoNode
  BY SMTT(30) DEF Node, NoNode
<1>4. m = Len(l) + 1
  BY <1>1, <1>2, <1>3 DEF Stands
<1> QED
  BY <1>1, <1>2, <1>4

-----------------------------------------------------------------------------
(* Lists that grow                                                          *)

\* An element that is new is put in front of a list.
LEMMA Prepended ==
    ASSUME NEW l \in Seq(Node), NEW e \in Node, e \notin ToSet(l), NEW w, w = <<e>> \o l
    PROVE  /\ w \in Seq(Node)
           /\ Distinct(l) => Distinct(w)
           /\ Has(w, e[1])
           /\ \A q : Has(l, q) => Has(w, q)
           /\ \A k \in DOMAIN w : w[k] = e \/ \E i \in DOMAIN l : w[k] = l[i]
           /\ \A a, b : b # e[1] /\ Before(l, a, b) => Before(w, a, b)
           /\ \A b : b # e[1] => Before(w, e[1], b)
<1>1. Len(l) \in Nat /\ DOMAIN l = 1..Len(l)
  OBVIOUS
<1>2. <<e>> \in Seq(Node) /\ Len(<<e>>) = 1 /\ <<e>>[1] = e
  OBVIOUS
<1>3. /\ w \in Seq(Node) /\ Len(w) = Len(l) + 1
      /\ \A k \in 1..(Len(l) + 1) : w[k] = IF k = 1 THEN e ELSE l[k - 1]
  BY <1>1, <1>2
<1>4. DOMAIN w = 1..(Len(l) + 1)
  BY <1>3
<1>5. \A k \in DOMAIN w : k # 1 => k - 1 \in DOMAIN l /\ w[k] = l[k - 1]
  BY <1>1, <1>3, <1>4
<1>6. \A i \in DOMAIN l : i + 1 \in DOMAIN w /\ i + 1 # 1 /\ w[i + 1] = l[i]
  <2> TAKE i \in DOMAIN l
  <2>1. i + 1 \in 1..(Len(l) + 1) /\ i + 1 # 1 /\ (i + 1) - 1 = i
    BY <1>1, SMTT(30)
  <2> QED
    BY <1>3, <1>4, <2>1
<1>7. 1 \in DOMAIN w /\ w[1] = e
  BY <1>1, <1>3, <1>4
<1>8. ASSUME Distinct(l), NEW i \in DOMAIN w, NEW j \in DOMAIN w, w[i] = w[j] PROVE i = j
  <2>1. \A k \in DOMAIN l : l[k] # e
    BY DEF ToSet
  <2>2. CASE i = 1 \/ j = 1
    BY <1>5, <1>7, <1>8, <2>1, <2>2
  <2>3. CASE i # 1 /\ j # 1
    <3>1. i - 1 = j - 1
      BY <1>5, <1>8, <2>3 DEF Distinct
    <3> QED
      BY <1>4, <3>1
  <2> QED
    BY <2>2, <2>3
<1>9. ASSUME NEW q, Has(l, q) PROVE Has(w, q)
  BY <1>6, <1>9 DEF Has
<1>10. ASSUME NEW a, NEW b, b # e[1], Before(l, a, b), NEW k \in DOMAIN w, w[k][1] = b
       PROVE  \E j \in DOMAIN w : j < k /\ w[j][1] = a
  <2>1. k # 1 /\ k - 1 \in DOMAIN l /\ l[k - 1][1] = b
    BY <1>5, <1>7, <1>10
  <2>2. PICK j \in DOMAIN l : j < k - 1 /\ l[j][1] = a
    BY <1>10, <2>1 DEF Before
  <2>3. j + 1 \in DOMAIN w /\ w[j + 1][1] = a /\ j + 1 < k
    BY <1>4, <1>6, <2>2
  <2> QED
    BY <2>3
<1>11. ASSUME NEW b, b # e[1], NEW k \in DOMAIN w, w[k][1] = b
       PROVE  \E j \in DOMAIN w : j < k /\ w[j][1] = e[1]
  <2>1. k # 1 /\ 1 < k
    BY <1>4, <1>7, <1>11
  <2> QED
    BY <1>7, <2>1
<1>12. \A k \in DOMAIN w : w[k] = e \/ \E i \in DOMAIN l : w[k] = l[i]
  BY <1>5, <1>7
<1>13. Has(w, e[1])
  BY <1>7 DEF Has
<1>14. Distinct(l) => Distinct(w)
  BY <1>8 DEF Distinct
<1>15. \A a, b : b # e[1] /\ Before(l, a, b) => Before(w, a, b)
  <2> SUFFICES ASSUME NEW a, NEW b, b # e[1], Before(l, a, b) PROVE Before(w, a, b)
    OBVIOUS
  <2>1. \A k \in DOMAIN w : w[k][1] = b => \E j \in DOMAIN w : j < k /\ w[j][1] = a
    BY <1>10
  <2> QED
    BY <2>1, Zenon DEF Before
<1>16. \A b : b # e[1] => Before(w, e[1], b)
  BY <1>11 DEF Before
<1> QED
  BY <1>3, <1>9, <1>12, <1>13, <1>14, <1>15, <1>16

\* There is always a number for a new element.
LEMMA FreshNumber ==
    ASSUME NEW N \in Nat, NEW S, IsFiniteSet(S), Cardinality(S) <= N
    PROVE  \E n \in 1..(N + 1) : n \notin S
<1> SUFFICES ASSUME 1..(N + 1) \subseteq S PROVE FALSE
  OBVIOUS
<1>1. IsFiniteSet(1..(N + 1)) /\ Cardinality(1..(N + 1)) = N + 1
  BY FS_Interval
<1>2. Cardinality(1..(N + 1)) <= Cardinality(S)
  BY FS_Subset
<1>3. Cardinality(S) \in Nat
  BY FS_CardinalityType
<1> QED
  BY <1>1, <1>2, <1>3

\* What N numbers are mapped to is at most N things.
LEMMA FewImages ==
    ASSUME NEW N \in Nat, NEW f
    PROVE  /\ IsFiniteSet({f[i] : i \in 1..N}) /\ Cardinality({f[i] : i \in 1..N}) \in Nat
           /\ Cardinality({f[i] : i \in 1..N}) <= N
<1> DEFINE T == {f[i] : i \in 1..N}
           g == [i \in 1..N |-> f[i]]
<1>1. IsFiniteSet(1..N) /\ Cardinality(1..N) = N
  BY FS_Interval
<1>2. g \in Surjection(1..N, T)
  BY DEF Surjection
<1> HIDE DEF g, T
<1>3. IsFiniteSet(T) /\ Cardinality(T) <= N
  BY <1>1, <1>2, FS_Surjection
<1> QED
  BY <1>3, FS_CardinalityType DEF T

-----------------------------------------------------------------------------
(* The invariant                                                            *)

Todo == Seq(Plugin)
At == Node \cup {NoNode}
FrameData == [op : Ops, plugin : Plugin, todo : Todo, at : At]
IsUnload(f) == f.op \in {"unload", "unload_deps"}
Outer == {"reload", "reload2", "destroy", "destroy2", "unload_all"}
\* The plugin on which the frame above works.
Callee(st, i) == IF i = 1 THEN {} ELSE {st[i - 1].plugin}

\* A call that loads: nobody is loaded before all that it needs is, and no call for a
\* plugin can get so far while another one for the same plugin is under way.
LoadFrame(f, L, K) ==
    /\ f.plugin \notin L
    /\ ToSet(Depends[f.plugin]) \subseteq K
    /\ ToSet(f.todo) \subseteq ToSet(Depends[f.plugin])
    /\ ToSet(Depends[f.plugin]) \subseteq ToSet(f.todo) \cup L
LoadStack(st, L, K) ==
    \A i \in DOMAIN st :
        /\ st[i].op = "load_deps" \/ (i = 1 /\ st[i].op = "load")
        /\ st[i].op = "load_deps" => LoadFrame(st[i], L, K)
        /\ i # 1 => st[i].todo # <<>> /\ Head(st[i].todo) = st[i - 1].plugin

\* A call that unloads: of the dependents it has passed nothing is loaded but the one
\* that the frame above is unloading.
UnloadFrame(f, C, L, dep) ==
    /\ f.op \in {"unload", "reload"} => C = {}
    /\ IsUnload(f) \/ f.op = "reload" => f.plugin \in L
    /\ f.op = "unload_deps" => /\ Passed(dep[f.plugin], f.at, L, C)
                               /\ \A q \in C : f.plugin \in ToSet(Depends[q])
    /\ f.op = "destroy2" => IF C = {} THEN f.plugin \notin L ELSE f.plugin \in C
UnloadStack(st, L, dep) ==
    \A i \in DOMAIN st :
        /\ IsUnload(st[i]) \/ (i = Len(st) /\ st[i].op \in Outer)
        /\ UnloadFrame(st[i], Callee(st, i), L, dep)

GoodStack(st, L, K, dep, r) ==
    LoadStack(st, L, K) \/ (UnloadStack(st, L, dep) /\ r # "false")

GoodLists(dep) ==
    /\ dep \in [Plugin -> Seq(Node)]
    /\ \A p \in Plugin :
        /\ Distinct(dep[p])
        /\ \A k \in DOMAIN dep[p] : p \in ToSet(Depends[dep[p][k][1]])

\* Plugins were loaded at different times, below n: what a plugin depends on before it,
\* and the lists of dependents are in that order, the latest first.
Ordered(time, n, L, dep) ==
    /\ \A q \in L : time[q] < n
    /\ \A q \in L : \A d \in ToSet(Depends[q]) : d \in L /\ time[d] < time[q] /\ Has(dep[d], q)
    /\ \A d \in Plugin : \A a, b \in L :
            d \in ToSet(Depends[a]) /\ time[b] < time[a] => Before(dep[d], a, b)

\* What a call unloads was loaded after what the call below it unloads.
Falling(time, st) ==
    \A i, j \in DOMAIN st : i < j /\ IsUnload(st[i]) /\ IsUnload(st[j])
                                => time[st[j].plugin] < time[st[i].plugin]

\* Calls are for plugins that are known.
Known(st, K) == \A i \in DOMAIN st : st[i].plugin \in K

PluginsTypes ==
    /\ known \subseteq Plugin /\ loaded \subseteq known
    /\ flag \in [Plugin -> BOOLEAN] /\ error \in [Plugin -> {"none", "set"}]
    /\ stack \in Seq(FrameData) /\ ret \in {"true", "false", "none"}
    /\ mayfail.unload = {}
    /\ \A p \in Plugin : flag[p] <=> p \in loaded

Timed(L, dep, st) ==
    \E time \in [Plugin -> Nat], n \in Nat : Ordered(time, n, L, dep) /\ Falling(time, st)

PluginsInv ==
    /\ PluginsTypes /\ GoodLists(dependents) /\ Known(stack, known)
    /\ GoodStack(stack, loaded, known, dependents, ret)
    /\ Timed(loaded, dependents, stack)

-----------------------------------------------------------------------------
(* Frames and stacks                                                        *)

LEMMA FrameFields ==
    ASSUME NEW f \in FrameData
    PROVE  f.op \in Ops /\ f.plugin \in Plugin /\ f.todo \in Todo /\ f.at \in At
BY DEF FrameData

LEMMA FrameIs ==
    ASSUME NEW op \in Ops, NEW p \in Plugin
    PROVE  /\ Frame(op, p) \in FrameData /\ Frame(op, p).op = op /\ Frame(op, p).plugin = p
           /\ Frame(op, p).at = NoNode
<1>1. <<>> \in Todo /\ NoNode \in At
  BY DEF Todo, At
<1> QED
  BY <1>1 DEF Frame, FrameData

LEMMA FramePuts ==
    ASSUME NEW f \in FrameData
    PROVE  /\ \A t \in Todo : /\ [f EXCEPT !.todo = t] \in FrameData
                              /\ [f EXCEPT !.todo = t].op = f.op
                              /\ [f EXCEPT !.todo = t].plugin = f.plugin
                              /\ [f EXCEPT !.todo = t].todo = t
           /\ \A a \in At : /\ [f EXCEPT !.at = a] \in FrameData
                            /\ [f EXCEPT !.at = a].op = f.op
                            /\ [f EXCEPT !.at = a].plugin = f.plugin
                            /\ [f EXCEPT !.at = a].at = a
BY DEF FrameData

LEMMA StackIs ==
    ASSUME NEW st \in Seq(FrameData), st # <<>>
    PROVE  /\ Len(st) \in Nat /\ Len(st) # 0 /\ DOMAIN st = 1..Len(st) /\ 1 \in DOMAIN st
           /\ Head(st) = st[1] /\ \A i \in DOMAIN st : st[i] \in FrameData
           /\ Tail(st) \in Seq(FrameData) /\ Len(Tail(st)) = Len(st) - 1
           /\ DOMAIN Tail(st) = 1..(Len(st) - 1)
           /\ \A i \in 1..(Len(st) - 1) : Tail(st)[i] = st[i + 1] /\ i + 1 \in DOMAIN st
<1>1. Len(st) \in Nat /\ Len(st) # 0 /\ DOMAIN st = 1..Len(st)
  OBVIOUS
<1>2. Tail(st) \in Seq(FrameData) /\ Len(Tail(st)) = Len(st) - 1
      /\ \A i \in 1..(Len(st) - 1) : Tail(st)[i] = st[i + 1]
  BY <1>1
<1>3. \A i \in 1..(Len(st) - 1) : i + 1 \in DOMAIN st
  BY <1>1
<1>4. \A i \in DOMAIN st : st[i] \in FrameData
  OBVIOUS
<1> QED
  BY <1>1, <1>2, <1>3, <1>4

\* The innermost frame is replaced, or replaced and called from.
LEMMA StackBecomes ==
    ASSUME NEW st \in Seq(FrameData), st # <<>>, NEW t \in FrameData, NEW new,
           new = <<t>> \o Tail(st)
    PROVE  /\ new \in Seq(FrameData) /\ Len(new) = Len(st) /\ DOMAIN new = DOMAIN st
           /\ new[1] = t /\ \A i \in DOMAIN st : i # 1 => new[i] = st[i]
<1>1. /\ Len(st) \in Nat /\ Len(st) # 0 /\ DOMAIN st = 1..Len(st)
      /\ Tail(st) \in Seq(FrameData) /\ Len(Tail(st)) = Len(st) - 1
      /\ \A i \in 1..(Len(st) - 1) : Tail(st)[i] = st[i + 1]
  BY StackIs
<1>2. <<t>> \in Seq(FrameData) /\ Len(<<t>>) = 1 /\ <<t>>[1] = t
  OBVIOUS
<1>3. /\ new \in Seq(FrameData) /\ Len(new) = 1 + (Len(st) - 1)
      /\ \A i \in 1..(1 + (Len(st) - 1)) : new[i] = IF i <= 1 THEN <<t>>[i] ELSE Tail(st)[i - 1]
  BY <1>1, <1>2
<1>4. 1 + (Len(st) - 1) = Len(st)
  BY <1>1
<1>5. ASSUME NEW i \in 1..Len(st), i # 1 PROVE new[i] = st[i]
  <2>1. i - 1 \in 1..(Len(st) - 1) /\ ~(i <= 1) /\ (i - 1) + 1 = i
    BY <1>1, <1>5
  <2> QED
    BY <1>1, <1>3, <1>4, <2>1
<1> QED
  BY <1>1, <1>2, <1>3, <1>4, <1>5

LEMMA StackCalls ==
    ASSUME NEW st \in Seq(FrameData), st # <<>>, NEW t \in FrameData, NEW c \in FrameData,
           NEW new, new = <<c, t>> \o Tail(st)
    PROVE  /\ new \in Seq(FrameData) /\ Len(new) = Len(st) + 1 /\ DOMAIN new = 1..(Len(st) + 1)
           /\ new[1] = c /\ new[2] = t
           /\ \A i \in DOMAIN new : i # 1 /\ i # 2 =>
                    i - 1 \in DOMAIN st /\ i - 1 # 1 /\ new[i] = st[i - 1]
<1>1. /\ Len(st) \in Nat /\ Len(st) # 0 /\ DOMAIN st = 1..Len(st)
      /\ Tail(st) \in Seq(FrameData) /\ Len(Tail(st)) = Len(st) - 1
      /\ \A i \in 1..(Len(st) - 1) : Tail(st)[i] = st[i + 1]
  BY StackIs
<1>2. <<c, t>> \in Seq(FrameData) /\ Len(<<c, t>>) = 2 /\ <<c, t>>[1] = c /\ <<c, t>>[2] = t
  OBVIOUS
<1>3. /\ new \in Seq(FrameData) /\ Len(new) = 2 + (Len(st) - 1)
      /\ \A i \in 1..(2 + (Len(st) - 1)) :
            new[i] = IF i <= 2 THEN <<c, t>>[i] ELSE Tail(st)[i - 2]
  BY <1>1, <1>2
<1>4. 2 + (Len(st) - 1) = Len(st) + 1
  BY <1>1
<1>5. ASSUME NEW i \in 1..(Len(st) + 1), i # 1, i # 2
      PROVE  i - 1 \in 1..Len(st) /\ i - 1 # 1 /\ new[i] = st[i - 1]
  <2>1. /\ i - 1 \in 1..Len(st) /\ i - 1 # 1
        /\ i - 2 \in 1..(Len(st) - 1) /\ ~(i <= 2) /\ (i - 2) + 1 = i - 1
    BY <1>1, <1>5
  <2> QED
    BY <1>1, <1>3, <1>4, <2>1
<1> QED
  BY <1>1, <1>2, <1>3, <1>4, <1>5

LEMMA KnownStays ==
    ASSUME NEW st \in Seq(FrameData), st # <<>>, NEW K, Known(st, K)
    PROVE  /\ Known(Tail(st), K)
           /\ \A t \in FrameData : t.plugin \in K => Known(<<t>> \o Tail(st), K)
           /\ \A t, c \in FrameData : t.plugin \in K /\ c.plugin \in K => Known(<<c, t>> \o Tail(st), K)
<1>1. Known(Tail(st), K)
  <2>1. \A i \in DOMAIN Tail(st) : Tail(st)[i] = st[i + 1] /\ i + 1 \in DOMAIN st
    BY StackIs
  <2> QED
    BY <2>1 DEF Known
<1>2. ASSUME NEW t \in FrameData, t.plugin \in K PROVE Known(<<t>> \o Tail(st), K)
  <2> DEFINE new == <<t>> \o Tail(st)
  <2>1. /\ DOMAIN new = DOMAIN st /\ new[1] = t
        /\ \A i \in DOMAIN st : i # 1 => new[i] = st[i]
    BY StackBecomes
  <2> HIDE DEF new
  <2>2. Known(new, K)
    BY <1>2, <2>1 DEF Known
  <2> QED
    BY <2>2 DEF new
<1>3. ASSUME NEW t \in FrameData, NEW c \in FrameData, t.plugin \in K, c.plugin \in K
      PROVE  Known(<<c, t>> \o Tail(st), K)
  <2> DEFINE new == <<c, t>> \o Tail(st)
  <2>1. /\ new[1] = c /\ new[2] = t
        /\ \A i \in DOMAIN new : i # 1 /\ i # 2 => i - 1 \in DOMAIN st /\ new[i] = st[i - 1]
    BY StackCalls
  <2> HIDE DEF new
  <2>2. Known(new, K)
    BY <1>3, <2>1 DEF Known
  <2> QED
    BY <2>2 DEF new
<1> QED
  BY <1>1, <1>2, <1>3

\* What a stack of loading calls becomes.
LEMMA LoadBecomes ==
    ASSUME NEW st \in Seq(FrameData), st # <<>>, NEW L, NEW K, LoadStack(st, L, K),
           NEW t \in FrameData, t.plugin = st[1].plugin, t.op = "load_deps", LoadFrame(t, L, K)
    PROVE  LoadStack(<<t>> \o Tail(st), L, K)
<1> DEFINE new == <<t>> \o Tail(st)
<1>1. /\ DOMAIN new = DOMAIN st /\ new[1] = t
      /\ \A i \in DOMAIN st : i # 1 => new[i] = st[i]
  BY StackBecomes
<1>2. DOMAIN st = 1..Len(st) /\ Len(st) \in Nat
  BY StackIs
<1> HIDE DEF new
<1>3. ASSUME NEW i \in DOMAIN new, i # 1
      PROVE  /\ new[i].op = "load_deps" /\ LoadFrame(new[i], L, K)
             /\ new[i].todo # <<>> /\ Head(new[i].todo) = new[i - 1].plugin
  <2>1. new[i] = st[i] /\ i \in DOMAIN st
    BY <1>1, <1>3
  <2>2. new[i - 1].plugin = st[i - 1].plugin
    <3>1. i - 1 \in DOMAIN st
      BY <1>1, <1>2, <1>3
    <3> QED
      BY <1>1, <3>1
  <2> QED
    BY <1>3, <2>1, <2>2 DEF LoadStack
<1>4. LoadStack(new, L, K)
  BY <1>1, <1>3 DEF LoadStack
<1> QED
  BY <1>4 DEF new

LEMMA LoadCalls ==
    ASSUME NEW st \in Seq(FrameData), st # <<>>, NEW L, NEW K, LoadStack(st, L, K),
           st[1].op = "load_deps", st[1].todo # <<>>,
           NEW c \in FrameData, c.op = "load", c.plugin = Head(st[1].todo)
    PROVE  LoadStack(<<c, st[1]>> \o Tail(st), L, K)
<1> DEFINE new == <<c, st[1]>> \o Tail(st)
<1>0. st[1] \in FrameData /\ 1 \in DOMAIN st
  BY StackIs
<1>1. /\ DOMAIN new = 1..(Len(st) + 1) /\ new[1] = c /\ new[2] = st[1]
      /\ \A i \in DOMAIN new : i # 1 /\ i # 2 =>
            i - 1 \in DOMAIN st /\ i - 1 # 1 /\ new[i] = st[i - 1]
  BY <1>0, StackCalls
<1>2. DOMAIN st = 1..Len(st) /\ Len(st) \in Nat
  BY StackIs
<1> HIDE DEF new
<1>3. ASSUME NEW i \in DOMAIN new, i # 1, i # 2
      PROVE  /\ new[i].op = "load_deps" /\ LoadFrame(new[i], L, K)
             /\ new[i].todo # <<>> /\ Head(new[i].todo) = new[i - 1].plugin
  <2>1. new[i] = st[i - 1] /\ i - 1 \in DOMAIN st /\ i - 1 # 1
    BY <1>1, <1>3
  <2>2. new[i - 1] = st[(i - 1) - 1]
    <3>1. CASE i - 1 = 2
      BY <1>1, <1>2, <2>1, <3>1
    <3>2. CASE i - 1 # 2
      <4>1. i - 1 \in DOMAIN new /\ i - 1 # 1
        BY <1>1, <1>2, <1>3
      <4> QED
        BY <1>1, <3>2, <4>1
    <3> QED
      BY <3>1, <3>2
  <2> QED
    BY <1>3, <2>1, <2>2 DEF LoadStack
<1>4. LoadFrame(st[1], L, K)
  BY <1>0 DEF LoadStack
<1>5. LoadStack(new, L, K)
  <2> SUFFICES ASSUME NEW i \in DOMAIN new
      PROVE  /\ new[i].op = "load_deps" \/ (i = 1 /\ new[i].op = "load")
             /\ new[i].op = "load_deps" => LoadFrame(new[i], L, K)
             /\ i # 1 => new[i].todo # <<>> /\ Head(new[i].todo) = new[i - 1].plugin
    BY Zenon DEF LoadStack
  <2>1. CASE i = 1
    BY <1>1, <2>1
  <2>2. CASE i = 2
    BY <1>1, <1>4, <2>2
  <2>3. CASE i # 1 /\ i # 2
    BY <1>3, <2>3
  <2> QED
    BY <2>1, <2>2, <2>3
<1> QED
  BY <1>5 DEF new

\* No loading call below is for a plugin that has all it needs.
LEMMA LoadsApart ==
    ASSUME NEW st \in Seq(FrameData), st # <<>>, NEW L, NEW K, LoadStack(st, L, K),
           st[1].op = "load_deps", ToSet(Depends[st[1].plugin]) \subseteq L
    PROVE  \A i \in DOMAIN st : i # 1 => st[i].plugin # st[1].plugin
<1> SUFFICES ASSUME NEW i \in DOMAIN st, i # 1, st[i].plugin = st[1].plugin PROVE FALSE
  OBVIOUS
<1>1. DOMAIN st = 1..Len(st) /\ Len(st) \in Nat /\ \A j \in DOMAIN st : st[j] \in FrameData
  BY StackIs
<1>2. i - 1 \in DOMAIN st
  BY <1>1
<1>3. /\ st[i].op = "load_deps" /\ LoadFrame(st[i], L, K)
      /\ st[i].todo # <<>> /\ Head(st[i].todo) = st[i - 1].plugin
  BY Zenon DEF LoadStack
<1>4. st[i - 1].op = "load_deps" => st[i - 1].plugin \notin L
  BY <1>2 DEF LoadStack, LoadFrame
<1>5. st[i - 1].op = "load_deps"
  BY <1>2 DEF LoadStack
<1>6. Head(st[i].todo) \in ToSet(st[i].todo)
  <2>1. st[i].todo \in Seq(Plugin)
    BY <1>1, FrameFields DEF Todo
  <2> QED
    BY <1>3, <2>1 DEF ToSet
<1>7. Head(st[i].todo) \in ToSet(Depends[st[1].plugin])
  BY <1>3, <1>6 DEF LoadFrame
<1> QED
  BY <1>3, <1>4, <1>5, <1>7

LEMMA LoadReturns ==
    ASSUME NEW st \in Seq(FrameData), st # <<>>, NEW L, NEW K, LoadStack(st, L, K), NEW M,
           L \subseteq M, \A i \in DOMAIN st : i # 1 => st[i].plugin \notin M
    PROVE  LoadStack(Tail(st), M, K)
<1> DEFINE new == Tail(st)
<1>1. /\ DOMAIN new = 1..(Len(st) - 1) /\ DOMAIN st = 1..Len(st) /\ Len(st) \in Nat
      /\ \A i \in DOMAIN new : new[i] = st[i + 1] /\ i + 1 \in DOMAIN st
  BY StackIs
<1> HIDE DEF new
<1>2. ASSUME NEW i \in DOMAIN new
      PROVE  /\ new[i].op = "load_deps" /\ LoadFrame(new[i], M, K)
             /\ i # 1 => new[i].todo # <<>> /\ Head(new[i].todo) = new[i - 1].plugin
  <2>1. new[i] = st[i + 1] /\ i + 1 \in DOMAIN st /\ i + 1 # 1 /\ (i + 1) - 1 = i
    BY <1>1
  <2>2. /\ st[i + 1].op = "load_deps" /\ LoadFrame(st[i + 1], L, K)
        /\ st[i + 1].todo # <<>> /\ Head(st[i + 1].todo) = st[(i + 1) - 1].plugin
    BY <2>1, Zenon DEF LoadStack
  <2>3. LoadFrame(st[i + 1], M, K)
    BY <2>1, <2>2 DEF LoadFrame
  <2>4. i # 1 => i - 1 \in DOMAIN new /\ (i - 1) + 1 = i
    BY <1>1
  <2>5. i # 1 => new[i - 1] = st[i]
    BY <1>1, <2>4
  <2> QED
    BY <2>1, <2>2, <2>3, <2>5
<1>3. LoadStack(new, M, K)
  BY <1>2 DEF LoadStack
<1> QED
  BY <1>3 DEF new

\* What a stack of unloading calls becomes.
LEMMA UnloadBecomes ==
    ASSUME NEW st \in Seq(FrameData), st # <<>>, NEW L, NEW dep, UnloadStack(st, L, dep),
           NEW t \in FrameData, t.plugin = st[1].plugin,
           IsUnload(t) \/ (Len(st) = 1 /\ t.op \in Outer), UnloadFrame(t, {}, L, dep)
    PROVE  UnloadStack(<<t>> \o Tail(st), L, dep)
<1> DEFINE new == <<t>> \o Tail(st)
<1>1. /\ DOMAIN new = DOMAIN st /\ Len(new) = Len(st) /\ new[1] = t
      /\ \A i \in DOMAIN st : i # 1 => new[i] = st[i]
  BY StackBecomes
<1>2. DOMAIN st = 1..Len(st) /\ Len(st) \in Nat
  BY StackIs
<1> HIDE DEF new
<1>3. ASSUME NEW i \in DOMAIN new, i # 1
      PROVE  /\ IsUnload(new[i]) \/ (i = Len(new) /\ new[i].op \in Outer)
             /\ UnloadFrame(new[i], Callee(new, i), L, dep)
  <2>1. new[i] = st[i] /\ i \in DOMAIN st
    BY <1>1, <1>3
  <2>2. new[i - 1].plugin = st[i - 1].plugin
    <3>1. i - 1 \in DOMAIN st
      BY <1>1, <1>2, <1>3
    <3> QED
      BY <1>1, <3>1
  <2>3. Callee(new, i) = Callee(st, i)
    BY <2>2 DEF Callee
  <2> QED
    BY <1>1, <2>1, <2>3 DEF UnloadStack
<1>4. Callee(new, 1) = {}
  BY DEF Callee
<1>5. UnloadStack(new, L, dep)
  <2> SUFFICES ASSUME NEW i \in DOMAIN new
      PROVE  /\ IsUnload(new[i]) \/ (i = Len(new) /\ new[i].op \in Outer)
             /\ UnloadFrame(new[i], Callee(new, i), L, dep)
    BY Zenon DEF UnloadStack
  <2> QED
    BY <1>1, <1>3, <1>4
<1> QED
  BY <1>5 DEF new

LEMMA UnloadCalls ==
    ASSUME NEW st \in Seq(FrameData), st # <<>>, NEW L, NEW dep, UnloadStack(st, L, dep),
           NEW t \in FrameData, t.plugin = st[1].plugin,
           IsUnload(t) \/ (Len(st) = 1 /\ t.op \in Outer),
           NEW c \in FrameData, c.op = "unload", c.plugin \in L,
           UnloadFrame(t, {c.plugin}, L, dep)
    PROVE  UnloadStack(<<c, t>> \o Tail(st), L, dep)
<1> DEFINE new == <<c, t>> \o Tail(st)
<1>1. /\ DOMAIN new = 1..(Len(st) + 1) /\ Len(new) = Len(st) + 1 /\ new[1] = c /\ new[2] = t
      /\ \A i \in DOMAIN new : i # 1 /\ i # 2 =>
            i - 1 \in DOMAIN st /\ i - 1 # 1 /\ new[i] = st[i - 1]
  BY StackCalls
<1>2. DOMAIN st = 1..Len(st) /\ Len(st) \in Nat /\ Len(st) # 0
  BY StackIs
<1> HIDE DEF new
<1>3. ASSUME NEW i \in DOMAIN new, i # 1, i # 2
      PROVE  /\ IsUnload(new[i]) \/ (i = Len(new) /\ new[i].op \in Outer)
             /\ UnloadFrame(new[i], Callee(new, i), L, dep)
  <2>1. new[i] = st[i - 1] /\ i - 1 \in DOMAIN st /\ i - 1 # 1
    BY <1>1, <1>3
  <2>2. new[i - 1].plugin = st[(i - 1) - 1].plugin
    <3>1. CASE i - 1 = 2
      BY <1>1, <1>2, <2>1, <3>1
    <3>2. CASE i - 1 # 2
      <4>1. i - 1 \in DOMAIN new /\ i - 1 # 1
        BY <1>1, <1>2, <1>3
      <4> QED
        BY <1>1, <3>2, <4>1
    <3> QED
      BY <3>1, <3>2
  <2>3. Callee(new, i) = Callee(st, i - 1)
    BY <1>3, <2>1, <2>2 DEF Callee
  <2>4. i - 1 = Len(st) => i = Len(new)
    BY <1>1, <1>2
  <2> QED
    BY <2>1, <2>3, <2>4 DEF UnloadStack
<1>4. Callee(new, 1) = {} /\ Callee(new, 2) = {c.plugin}
  BY <1>1 DEF Callee
<1>5. UnloadFrame(c, {}, L, dep) /\ IsUnload(c)
  BY DEF UnloadFrame, IsUnload
<1>6. Len(st) = 1 => Len(new) = 2
  BY <1>1
<1>7. UnloadStack(new, L, dep)
  <2> SUFFICES ASSUME NEW i \in DOMAIN new
      PROVE  /\ IsUnload(new[i]) \/ (i = Len(new) /\ new[i].op \in Outer)
             /\ UnloadFrame(new[i], Callee(new, i), L, dep)
    BY Zenon DEF UnloadStack
  <2>1. CASE i = 1
    BY <1>1, <1>4, <1>5, <2>1
  <2>2. CASE i = 2
    BY <1>1, <1>4, <1>6, <2>2
  <2>3. CASE i # 1 /\ i # 2
    BY <1>3, <2>3
  <2> QED
    BY <2>1, <2>2, <2>3
<1> QED
  BY <1>7 DEF new

\* The innermost call returns when each frame below is as it should without it.
LEMMA UnloadReturns ==
    ASSUME NEW st \in Seq(FrameData), st # <<>>, NEW L, NEW dep, UnloadStack(st, L, dep),
           NEW M, NEW new_dep,
           \A i \in DOMAIN st : i # 1 =>
                UnloadFrame(st[i], IF i = 2 THEN {} ELSE Callee(st, i), M, new_dep)
    PROVE  UnloadStack(Tail(st), M, new_dep)
<1> DEFINE new == Tail(st)
<1>1. /\ DOMAIN new = 1..(Len(st) - 1) /\ DOMAIN st = 1..Len(st) /\ Len(st) \in Nat
      /\ Len(new) = Len(st) - 1
      /\ \A i \in DOMAIN new : new[i] = st[i + 1] /\ i + 1 \in DOMAIN st
  BY StackIs
<1> HIDE DEF new
<1>2. ASSUME NEW i \in DOMAIN new
      PROVE  /\ IsUnload(new[i]) \/ (i = Len(new) /\ new[i].op \in Outer)
             /\ UnloadFrame(new[i], Callee(new, i), M, new_dep)
  <2>1. /\ new[i] = st[i + 1] /\ i + 1 \in DOMAIN st /\ i + 1 # 1 /\ (i + 1) - 1 = i
        /\ (i = Len(new) <=> i + 1 = Len(st)) /\ (i + 1 = 2 <=> i = 1)
    BY <1>1
  <2>2. i # 1 => i - 1 \in DOMAIN new /\ (i - 1) + 1 = i
    BY <1>1
  <2>3. i # 1 => new[i - 1] = st[i]
    BY <1>1, <2>2
  <2>4. Callee(new, i) = IF i + 1 = 2 THEN {} ELSE Callee(st, i + 1)
    BY <2>1, <2>3 DEF Callee
  <2>5. IsUnload(st[i + 1]) \/ (i + 1 = Len(st) /\ st[i + 1].op \in Outer)
    BY <2>1, Zenon DEF UnloadStack
  <2> QED
    BY <2>1, <2>4, <2>5
<1>3. UnloadStack(new, M, new_dep)
  BY <1>2, Zenon DEF UnloadStack
<1> QED
  BY <1>3 DEF new

\* The times of the plugins being unloaded.
LEMMA FallingBecomes ==
    ASSUME NEW st \in Seq(FrameData), st # <<>>, NEW time, Falling(time, st),
           NEW t \in FrameData, t.plugin = st[1].plugin, IsUnload(t) => IsUnload(st[1])
    PROVE  Falling(time, <<t>> \o Tail(st))
<1> DEFINE new == <<t>> \o Tail(st)
<1>1. /\ DOMAIN new = DOMAIN st /\ new[1] = t
      /\ \A i \in DOMAIN st : i # 1 => new[i] = st[i]
  BY StackBecomes
<1> HIDE DEF new
<1>2. \A i \in DOMAIN new : new[i].plugin = st[i].plugin /\ (IsUnload(new[i]) => IsUnload(st[i]))
  BY <1>1
<1>3. Falling(time, new)
  BY <1>1, <1>2 DEF Falling
<1> QED
  BY <1>3 DEF new

LEMMA FallingReturns ==
    ASSUME NEW st \in Seq(FrameData), st # <<>>, NEW time, Falling(time, st)
    PROVE  Falling(time, Tail(st))
<1> DEFINE new == Tail(st)
<1>1. /\ DOMAIN new = 1..(Len(st) - 1) /\ Len(st) \in Nat
      /\ \A i \in DOMAIN new : new[i] = st[i + 1] /\ i + 1 \in DOMAIN st
  BY StackIs
<1> HIDE DEF new
<1>2. \A i, j \in DOMAIN new : i < j => i + 1 < j + 1
  BY <1>1
<1>3. Falling(time, new)
  BY <1>1, <1>2 DEF Falling
<1> QED
  BY <1>3 DEF new

LEMMA FallingCalls ==
    ASSUME NEW st \in Seq(FrameData), st # <<>>, NEW time \in [Plugin -> Nat], Falling(time, st),
           NEW t \in FrameData, t.plugin = st[1].plugin, IsUnload(t) => IsUnload(st[1]),
           NEW c \in FrameData, Len(st) = 1 \/ IsUnload(t),
           IsUnload(t) => time[t.plugin] < time[c.plugin]
    PROVE  Falling(time, <<c, t>> \o Tail(st))
<1> DEFINE new == <<c, t>> \o Tail(st)
<1>1. /\ DOMAIN new = 1..(Len(st) + 1) /\ new[1] = c /\ new[2] = t
      /\ \A i \in DOMAIN new : i # 1 /\ i # 2 =>
            i - 1 \in DOMAIN st /\ i - 1 # 1 /\ new[i] = st[i - 1]
  BY StackCalls
<1>2. DOMAIN st = 1..Len(st) /\ Len(st) \in Nat /\ Len(st) # 0
  BY StackIs
<1> HIDE DEF new
<1>3. \A i \in DOMAIN new : i # 1 =>
        /\ i - 1 \in DOMAIN st /\ new[i].plugin = st[i - 1].plugin
        /\ IsUnload(new[i]) => IsUnload(st[i - 1])
  BY <1>1, <1>2
<1>4. ASSUME NEW i \in DOMAIN new, NEW j \in DOMAIN new, i < j, i # 1,
             IsUnload(new[i]), IsUnload(new[j])
      PROVE  time[new[j].plugin] < time[new[i].plugin]
  <2>1. i - 1 < j - 1 /\ j # 1
    BY <1>1, <1>4
  <2> QED
    BY <1>3, <1>4, <2>1 DEF Falling
<1>5. ASSUME NEW j \in DOMAIN new, 1 < j, IsUnload(new[j])
      PROVE  time[new[j].plugin] < time[c.plugin]
  <2>1. CASE j = 2
    BY <1>1, <1>5, <2>1
  <2>2. CASE j # 2
    <3>1. 2 \in DOMAIN new /\ 2 < j /\ 2 # 1 /\ 1 < j - 1 /\ j - 1 \in DOMAIN st /\ 1 \in DOMAIN st
      BY <1>1, <1>2, <1>5, <2>2
    <3>3. IsUnload(t)
      BY <1>2, <3>1
    <3> QED
      <4>1. time[new[j].plugin] < time[t.plugin]
        BY <1>1, <1>4, <1>5, <3>1, <3>3
      <4>2. time[t.plugin] < time[c.plugin]
        BY <3>3
      <4>3. time[new[j].plugin] \in Int /\ time[t.plugin] \in Int /\ time[c.plugin] \in Int
        <5>1. new[j] \in FrameData
          BY <1>1, <1>5, <2>2, StackIs
        <5> QED
          BY <5>1, FrameFields
      <4> QED
        BY <4>1, <4>2, <4>3
  <2> QED
    BY <2>1, <2>2
<1>6. Falling(time, new)
  BY <1>1, <1>4, <1>5 DEF Falling
<1> QED
  BY <1>6 DEF new

-----------------------------------------------------------------------------
(* Steps that only change the stack                                         *)

LEMMA StackMoves ==
    ASSUME PluginsInv, UNCHANGED <<known, loaded, flag, error, dependents, mayfail>>,
           NEW st, stack' = st, st \in Seq(FrameData), ret' \in {"true", "false", "none"},
           GoodStack(st, loaded, known, dependents, ret'), Known(st, known),
           \A time \in [Plugin -> Nat] : Falling(time, stack) => Falling(time, st)
    PROVE  PluginsInv'
<1>1. PluginsTypes'
  BY DEF PluginsInv, PluginsTypes
<1>2. /\ GoodLists(dependents') /\ Known(stack', known')
      /\ GoodStack(stack', loaded', known', dependents', ret')
  BY DEF PluginsInv
<1>3. Timed(loaded', dependents', stack')
  BY DEF PluginsInv, Timed
<1> QED
  BY <1>1, <1>2, <1>3 DEF PluginsInv

\* Which kind of call is under way.
LEMMA WhichStack ==
    ASSUME PluginsInv, stack # <<>>
    PROVE  /\ stack \in Seq(FrameData) /\ Top = stack[1] /\ stack[1] \in FrameData
           /\ stack[1].plugin \in Plugin /\ stack[1].op \in Ops
           /\ Len(stack) \in Nat /\ 1 \in DOMAIN stack
           /\ Known(stack, known) /\ stack[1].plugin \in known
           /\ stack[1].op \in {"load", "load_deps"} => LoadStack(stack, loaded, known)
           /\ stack[1].op \notin {"load", "load_deps"} =>
                /\ UnloadStack(stack, loaded, dependents) /\ ret # "false"
                /\ UnloadFrame(stack[1], {}, loaded, dependents)
                /\ IsUnload(stack[1]) \/ Len(stack) = 1
<1>1. stack \in Seq(FrameData)
  BY DEF PluginsInv, PluginsTypes
<1>2. /\ Top = stack[1] /\ stack[1] \in FrameData /\ 1 \in DOMAIN stack /\ Len(stack) \in Nat
  BY <1>1, StackIs DEF Top
<1>3. stack[1].plugin \in Plugin /\ stack[1].op \in Ops
  BY <1>2, FrameFields
<1>4. LoadStack(stack, loaded, known) => stack[1].op \in {"load", "load_deps"}
  BY <1>2 DEF LoadStack
<1>5. UnloadStack(stack, loaded, dependents) =>
        /\ stack[1].op \notin {"load", "load_deps"}
        /\ UnloadFrame(stack[1], {}, loaded, dependents)
        /\ IsUnload(stack[1]) \/ Len(stack) = 1
  <2> SUFFICES ASSUME UnloadStack(stack, loaded, dependents)
      PROVE  /\ stack[1].op \notin {"load", "load_deps"}
             /\ UnloadFrame(stack[1], {}, loaded, dependents)
             /\ IsUnload(stack[1]) \/ Len(stack) = 1
    OBVIOUS
  <2>1. /\ IsUnload(stack[1]) \/ (1 = Len(stack) /\ stack[1].op \in Outer)
        /\ UnloadFrame(stack[1], Callee(stack, 1), loaded, dependents)
    BY <1>2, Zenon DEF UnloadStack
  <2>2. Callee(stack, 1) = {}
    BY DEF Callee
  <2>3. stack[1].op \notin {"load", "load_deps"}
    BY <2>1 DEF IsUnload, Outer
  <2> QED
    BY <2>1, <2>2, <2>3
<1>6. LoadStack(stack, loaded, known) \/ (UnloadStack(stack, loaded, dependents) /\ ret # "false")
  BY DEF PluginsInv, GoodStack
<1>7. Known(stack, known) /\ stack[1].plugin \in known
  BY <1>2 DEF PluginsInv, Known
<1> QED
  BY <1>1, <1>2, <1>3, <1>4, <1>5, <1>6, <1>7

LEMMA LoadsFall ==
    ASSUME NEW st \in Seq(FrameData), NEW L, NEW K, LoadStack(st, L, K)
    PROVE  \A time : Falling(time, st)
<1>1. \A i \in DOMAIN st : ~IsUnload(st[i])
  BY DEF LoadStack, IsUnload
<1> QED
  BY <1>1 DEF Falling

LEMMA TodoTail ==
    ASSUME NEW t \in Todo, t # <<>>
    PROVE  /\ Tail(t) \in Todo /\ Head(t) \in Plugin /\ Head(t) \in ToSet(t)
           /\ ToSet(t) \subseteq {Head(t)} \cup ToSet(Tail(t)) /\ ToSet(Tail(t)) \subseteq ToSet(t)
<1>1. /\ Len(t) \in Nat /\ Len(t) # 0 /\ DOMAIN t = 1..Len(t) /\ \A i \in DOMAIN t : t[i] \in Plugin
  BY DEF Todo
<1>2. /\ Tail(t) \in Seq(Plugin) /\ DOMAIN Tail(t) = 1..(Len(t) - 1) /\ Head(t) = t[1]
      /\ \A i \in 1..(Len(t) - 1) : Tail(t)[i] = t[i + 1] /\ i + 1 \in DOMAIN t
  <2>1. t \in Seq(Plugin)
    BY DEF Todo
  <2>2. Tail(t) \in Seq(Plugin) /\ Len(Tail(t)) = Len(t) - 1 /\ Head(t) = t[1]
        /\ \A i \in 1..(Len(t) - 1) : Tail(t)[i] = t[i + 1]
    BY <1>1, <2>1
  <2>3. \A i \in 1..(Len(t) - 1) : i + 1 \in DOMAIN t
    BY <1>1
  <2> QED
    BY <2>2, <2>3
<1>3. \A i \in DOMAIN t : i # 1 => i - 1 \in DOMAIN Tail(t) /\ Tail(t)[i - 1] = t[i]
  <2> SUFFICES ASSUME NEW i \in DOMAIN t, i # 1
               PROVE  i - 1 \in DOMAIN Tail(t) /\ Tail(t)[i - 1] = t[i]
    OBVIOUS
  <2>1. i - 1 \in 1..(Len(t) - 1) /\ (i - 1) + 1 = i
    BY <1>1
  <2> QED
    BY <1>2, <2>1
<1>4. 1 \in DOMAIN t
  BY <1>1
<1> QED
  BY <1>1, <1>2, <1>3, <1>4 DEF ToSet, Todo

LEMMA LoadEnterStep ==
    ASSUME PluginsAssumption, PluginsInv, LoadEnter
    PROVE  PluginsInv'
<1> DEFINE p == stack[1].plugin
           t == [Frame("load_deps", p) EXCEPT !.todo = Depends[p]]
<1>1. stack # <<>> /\ Top.op = "load"
  BY DEF LoadEnter, InOp
<1>2. /\ stack \in Seq(FrameData) /\ Top = stack[1] /\ p \in Plugin
      /\ LoadStack(stack, loaded, known) /\ Known(stack, known) /\ p \in known
  BY <1>1, WhichStack
<1>3. ASSUME NEW r \in {"true", "false"}, Return(r) PROVE PluginsInv'
  <2>1. /\ stack' = Tail(stack) /\ ret' = r
        /\ UNCHANGED <<known, loaded, flag, error, dependents, mayfail>>
    BY <1>3 DEF Return, Returns
  <2>2. \A i \in DOMAIN stack : i # 1 => stack[i].plugin \notin loaded
    BY <1>2 DEF LoadStack, LoadFrame
  <2>3. LoadStack(Tail(stack), loaded, known)
    BY <1>1, <1>2, <2>2, LoadReturns
  <2>4. Tail(stack) \in Seq(FrameData) /\ Known(Tail(stack), known)
    BY <1>1, <1>2, StackIs, KnownStays
  <2>5. \A time \in [Plugin -> Nat] : Falling(time, stack) => Falling(time, Tail(stack))
    BY <1>1, <1>2, FallingReturns
  <2>6. ret' \in {"true", "false", "none"}
    BY <2>1
  <2> QED
    BY <2>1, <2>3, <2>4, <2>5, <2>6, StackMoves DEF GoodStack
<1>4. ASSUME ~flag[p], ToSet(Depends[p]) \ known = {}, Becomes(t) PROVE PluginsInv'
  <2>1. /\ stack' = <<t>> \o Tail(stack) /\ ret' = "none"
        /\ UNCHANGED <<known, loaded, flag, error, dependents, mayfail>>
    BY <1>4 DEF Becomes
  <2>2. /\ t \in FrameData /\ t.op = "load_deps" /\ t.plugin = p /\ t.todo = Depends[p]
    <3>1. Depends[p] \in Todo
      BY <1>2 DEF PluginsAssumption, Todo
    <3>2. /\ Frame("load_deps", p) \in FrameData /\ Frame("load_deps", p).op = "load_deps"
          /\ Frame("load_deps", p).plugin = p
      BY <1>2, FrameIs DEF Ops
    <3> QED
      BY <3>1, <3>2, FramePuts
  <2> HIDE DEF t
  <2>3. p \notin loaded
    BY <1>2, <1>4 DEF PluginsInv, PluginsTypes
  <2>4. LoadFrame(t, loaded, known)
    BY <1>4, <2>2, <2>3 DEF LoadFrame
  <2>5. LoadStack(<<t>> \o Tail(stack), loaded, known)
    BY <1>1, <1>2, <2>2, <2>4, LoadBecomes
  <2>6. <<t>> \o Tail(stack) \in Seq(FrameData) /\ Known(<<t>> \o Tail(stack), known)
    BY <1>1, <1>2, <2>2, StackBecomes, KnownStays
  <2>7. \A time : Falling(time, <<t>> \o Tail(stack))
    BY <2>5, <2>6, LoadsFall
  <2>8. ret' \in {"true", "false", "none"}
    BY <2>1
  <2> QED
    BY <2>1, <2>5, <2>6, <2>7, <2>8, StackMoves DEF GoodStack
<1>5. \/ Return("true") \/ Return("false")
      \/ ~flag[p] /\ ToSet(Depends[p]) \ known = {} /\ Becomes(t)
  BY <1>2 DEF LoadEnter
<1> QED
  BY <1>3, <1>4, <1>5

LEMMA LoadDependencyStep ==
    ASSUME PluginsAssumption, PluginsInv, LoadDependency
    PROVE  PluginsInv'
<1> DEFINE f == stack[1]
           t == [f EXCEPT !.todo = Tail(f.todo)]
           d == Head(f.todo)
           c == Frame("load", d)
<1>1. stack # <<>> /\ Top.op = "load_deps" /\ Top.todo # <<>>
  BY DEF LoadDependency, InOp
<1>2. /\ stack \in Seq(FrameData) /\ Top = f /\ f \in FrameData /\ f.plugin \in Plugin
      /\ LoadStack(stack, loaded, known) /\ f.op = "load_deps" /\ f.todo # <<>>
      /\ 1 \in DOMAIN stack /\ Known(stack, known) /\ f.plugin \in known
  BY <1>1, WhichStack
<1>3. \/ Return("false") \/ (flag[d] /\ Becomes(t)) \/ Call(f, c)
  BY <1>2 DEF LoadDependency
<1>4. LoadFrame(f, loaded, known)
  BY <1>2 DEF LoadStack
<1>5. /\ Tail(f.todo) \in Todo /\ d \in Plugin
      /\ ToSet(f.todo) \subseteq {d} \cup ToSet(Tail(f.todo))
      /\ ToSet(Tail(f.todo)) \subseteq ToSet(f.todo)
  BY <1>2, FrameFields, TodoTail
<1>6. CASE Return("false")
  <2>1. /\ stack' = Tail(stack) /\ ret' = "false"
        /\ UNCHANGED <<known, loaded, flag, error, dependents, mayfail>>
    BY <1>6 DEF Return, Returns
  <2>2. \A i \in DOMAIN stack : i # 1 => stack[i].plugin \notin loaded
    BY <1>2 DEF LoadStack, LoadFrame
  <2>3. LoadStack(Tail(stack), loaded, known)
    BY <1>1, <1>2, <2>2, LoadReturns
  <2>4. /\ Tail(stack) \in Seq(FrameData) /\ Known(Tail(stack), known)
        /\ ret' \in {"true", "false", "none"}
    BY <1>1, <1>2, <2>1, StackIs, KnownStays
  <2>5. \A time \in [Plugin -> Nat] : Falling(time, stack) => Falling(time, Tail(stack))
    BY <1>1, <1>2, FallingReturns
  <2> QED
    BY <2>1, <2>3, <2>4, <2>5, StackMoves DEF GoodStack
<1>7. CASE flag[d] /\ Becomes(t)
  <2>1. /\ stack' = <<t>> \o Tail(stack) /\ ret' = "none"
        /\ UNCHANGED <<known, loaded, flag, error, dependents, mayfail>>
    BY <1>7 DEF Becomes
  <2>2. t \in FrameData /\ t.op = "load_deps" /\ t.plugin = f.plugin /\ t.todo = Tail(f.todo)
    BY <1>2, <1>5, FramePuts
  <2> HIDE DEF t
  <2>3. d \in loaded
    BY <1>5, <1>7 DEF PluginsInv, PluginsTypes
  <2> HIDE DEF d, f
  <2>4. LoadFrame(t, loaded, known)
    BY <1>4, <1>5, <2>2, <2>3 DEF LoadFrame
  <2>5. LoadStack(<<t>> \o Tail(stack), loaded, known)
    BY <1>1, <1>2, <2>2, <2>4, LoadBecomes DEF f
  <2>6. /\ <<t>> \o Tail(stack) \in Seq(FrameData) /\ Known(<<t>> \o Tail(stack), known)
        /\ ret' \in {"true", "false", "none"}
    BY <1>1, <1>2, <2>1, <2>2, StackBecomes, KnownStays
  <2>7. \A time : Falling(time, <<t>> \o Tail(stack))
    BY <2>5, <2>6, LoadsFall
  <2> QED
    BY <2>1, <2>5, <2>6, <2>7, StackMoves DEF GoodStack
<1>8. CASE Call(f, c)
  <2>1. /\ stack' = <<c, f>> \o Tail(stack) /\ ret' = "none"
        /\ UNCHANGED <<known, loaded, flag, error, dependents, mayfail>>
    BY <1>8 DEF Call
  <2>2. c \in FrameData /\ c.op = "load" /\ c.plugin = d
    BY <1>5, FrameIs DEF Ops
  <2> HIDE DEF c
  <2>3. LoadStack(<<c, f>> \o Tail(stack), loaded, known)
    BY <1>1, <1>2, <2>2, LoadCalls
  <2>4. /\ <<c, f>> \o Tail(stack) \in Seq(FrameData) /\ Known(<<c, f>> \o Tail(stack), known)
        /\ ret' \in {"true", "false", "none"}
    <3>1. d \in known
      BY <1>4, <1>5, <1>2, FrameFields, TodoTail DEF LoadFrame
    <3> QED
      BY <1>1, <1>2, <2>1, <2>2, <3>1, StackCalls, KnownStays
  <2>5. \A time : Falling(time, <<c, f>> \o Tail(stack))
    BY <2>3, <2>4, LoadsFall
  <2> QED
    BY <2>1, <2>3, <2>4, <2>5, StackMoves DEF GoodStack
<1> QED
  BY <1>3, <1>6, <1>7, <1>8

-----------------------------------------------------------------------------
(* The end of loading                                                       *)

\* The element put in front of a list is not in it.
LEMMA SerialIsNew ==
    ASSUME NEW l \in Seq(Node), NEW st \in Seq(FrameData), st = stack,
           NEW p, l = dependents[p], NEW q
    PROVE  Serial(p, q) \in Nat /\ <<q, Serial(p, q)>> \notin ToSet(l)
<1> DEFINE a == Len(l)
           b == Len(st)
           f == [i \in 1..a |-> l[i][2]]
           g == [i \in 1..b |-> st[i].at[2]]
           F == {f[i] : i \in 1..a}
           G == {g[i] : i \in 1..b}
           ok(n) == /\ <<q, n>> \notin ToSet(l)
                    /\ \A i \in DOMAIN st : st[i].at # <<q, n>>
<1>1. a \in Nat /\ b \in Nat /\ DOMAIN l = 1..a /\ DOMAIN st = 1..b
  OBVIOUS
<1>2. \A n : n \notin F => <<q, n>> \notin ToSet(l)
  BY <1>1 DEF ToSet
<1>3. \A n : n \notin G => \A i \in DOMAIN st : st[i].at # <<q, n>>
  BY <1>1
<1> HIDE DEF f, g
<1>4. /\ IsFiniteSet(F) /\ Cardinality(F) \in Nat /\ Cardinality(F) <= a
      /\ IsFiniteSet(G) /\ Cardinality(G) \in Nat /\ Cardinality(G) <= b
  BY <1>1, FewImages
<1> HIDE DEF F, G
<1>5. /\ IsFiniteSet(F \cup G)
      /\ Cardinality(F \cup G) = Cardinality(F) + Cardinality(G) - Cardinality(F \cap G)
      /\ Cardinality(F \cap G) \in Nat
  <2>1. IsFiniteSet(F \cap G)
    BY <1>4, FS_Intersection
  <2> QED
    BY <1>4, <2>1, FS_Union, FS_CardinalityType
<1>6. a + b \in Nat /\ Cardinality(F \cup G) <= a + b
  BY <1>1, <1>4, <1>5
<1>7. PICK n \in 1..(a + b + 1) : n \notin F \cup G
  BY <1>5, <1>6, FreshNumber
<1>8. ok(n)
  BY <1>2, <1>3, <1>7
<1>9. Serial(p, q) = CHOOSE m \in 1..(a + b + 1) : ok(m)
  BY Zenon DEF Serial, Nodes
<1> HIDE DEF ok
<1>10. Serial(p, q) \in 1..(a + b + 1) /\ ok(Serial(p, q))
  BY <1>7, <1>8, <1>9, Zenon
<1> QED
  BY <1>1, <1>10 DEF ok

\* The lists after the third pass.
LEMMA NotedIs ==
    ASSUME PluginsInv, NEW p \in Plugin
    PROVE  /\ GoodLists(Noted(p))
           /\ \A d \in ToSet(Depends[p]) \cap Plugin : Has(Noted(p)[d], p)
           /\ \A d \in Plugin : \A q : Has(dependents[d], q) => Has(Noted(p)[d], q)
           /\ \A d \in Plugin : \A a, b : b # p /\ Before(dependents[d], a, b)
                                            => Before(Noted(p)[d], a, b)
           /\ \A d \in ToSet(Depends[p]) \cap Plugin : \A b : b # p => Before(Noted(p)[d], p, b)
<1>1. /\ dependents \in [Plugin -> Seq(Node)] /\ stack \in Seq(FrameData)
      /\ \A d \in Plugin : /\ Distinct(dependents[d])
                           /\ \A k \in DOMAIN dependents[d] :
                                    d \in ToSet(Depends[dependents[d][k][1]])
  BY DEF PluginsInv, PluginsTypes, GoodLists
<1> DEFINE e(d) == <<p, Serial(d, p)>>
           w(d) == <<e(d)>> \o dependents[d]
<1>2. ASSUME NEW d \in Plugin
      PROVE  e(d) \in Node /\ e(d)[1] = p /\ e(d) \notin ToSet(dependents[d])
  <2>1. dependents[d] \in Seq(Node)
    BY <1>1
  <2>2. Serial(d, p) \in Nat /\ e(d) \notin ToSet(dependents[d])
    BY <1>1, <2>1, SerialIsNew
  <2> QED
    BY <2>2 DEF Node
<1>3. Noted(p) = [d \in Plugin |-> IF d \in ToSet(Depends[p]) THEN w(d) ELSE dependents[d]]
  BY Zenon DEF Noted
<1> HIDE DEF e
<1>4. ASSUME NEW d \in Plugin
      PROVE  /\ w(d) \in Seq(Node) /\ Distinct(w(d)) /\ Has(w(d), p)
             /\ \A q : Has(dependents[d], q) => Has(w(d), q)
             /\ \A k \in DOMAIN w(d) :
                    w(d)[k] = e(d) \/ \E i \in DOMAIN dependents[d] : w(d)[k] = dependents[d][i]
             /\ \A a, b : b # p /\ Before(dependents[d], a, b) => Before(w(d), a, b)
             /\ \A b : b # p => Before(w(d), p, b)
  <2>1. dependents[d] \in Seq(Node) /\ Distinct(dependents[d])
    BY <1>1
  <2>2. e(d) \in Node /\ e(d)[1] = p /\ e(d) \notin ToSet(dependents[d])
    BY <1>2
  <2> DEFINE v == w(d)
             x == e(d)
             l == dependents[d]
  <2>3. v = <<x>> \o l
    OBVIOUS
  <2> HIDE DEF v, x, l
  <2>4. /\ v \in Seq(Node) /\ Distinct(v) /\ Has(v, p)
        /\ \A q : Has(l, q) => Has(v, q)
        /\ \A k \in DOMAIN v : v[k] = x \/ \E i \in DOMAIN l : v[k] = l[i]
        /\ \A a, b : b # p /\ Before(l, a, b) => Before(v, a, b)
        /\ \A b : b # p => Before(v, p, b)
    <3>1. l \in Seq(Node) /\ Distinct(l) /\ x \in Node /\ x[1] = p /\ x \notin ToSet(l)
      BY <2>1, <2>2 DEF l, x
    <3>2. /\ v \in Seq(Node)
          /\ Distinct(l) => Distinct(v)
          /\ Has(v, x[1]) /\ \A q : Has(l, q) => Has(v, q)
      BY <2>3, <3>1, Prepended
    <3>4. \A k \in DOMAIN v : v[k] = x \/ \E i \in DOMAIN l : v[k] = l[i]
      BY <2>3, <3>1, Prepended
    <3>3. /\ \A a, b : b # x[1] /\ Before(l, a, b) => Before(v, a, b)
          /\ \A b : b # x[1] => Before(v, x[1], b)
      BY <2>3, <3>1, Prepended
    <3> QED
      BY <3>1, <3>2, <3>3, <3>4
  <2> QED
    BY <2>4, Zenon DEF v, x, l
<1> HIDE DEF w
<1>5. \A d \in Plugin : Noted(p)[d] = IF d \in ToSet(Depends[p]) THEN w(d) ELSE dependents[d]
  BY <1>3
<1>6. ASSUME NEW d \in Plugin
      PROVE  /\ Noted(p)[d] \in Seq(Node) /\ Distinct(Noted(p)[d])
             /\ \A k \in DOMAIN Noted(p)[d] : d \in ToSet(Depends[Noted(p)[d][k][1]])
  <2>1. CASE d \in ToSet(Depends[p])
    <3>1. Noted(p)[d] = w(d)
      BY <1>5, <2>1
    <3>2. \A k \in DOMAIN w(d) : d \in ToSet(Depends[w(d)[k][1]])
      <4> SUFFICES ASSUME NEW k \in DOMAIN w(d)
                   PROVE  d \in ToSet(Depends[w(d)[k][1]])
        OBVIOUS
      <4>1. CASE w(d)[k] = e(d)
        <5>1. w(d)[k][1] = p
          BY <1>2, <4>1, Zenon
        <5> QED
          BY <2>1, <5>1, Zenon
      <4>2. ASSUME NEW i \in DOMAIN dependents[d], w(d)[k] = dependents[d][i]
            PROVE  d \in ToSet(Depends[w(d)[k][1]])
        <5>1. d \in ToSet(Depends[dependents[d][i][1]])
          BY <1>1, <4>2, Zenon
        <5> QED
          BY <4>2, <5>1, Zenon
      <4>3. w(d)[k] = e(d) \/ \E i \in DOMAIN dependents[d] : w(d)[k] = dependents[d][i]
        BY <1>4, Zenon
      <4> QED
        BY <4>1, <4>2, <4>3, Zenon
    <3> QED
      BY <1>4, <3>1, <3>2
  <2>2. CASE d \notin ToSet(Depends[p])
    BY <1>1, <1>5, <2>2
  <2> QED
    BY <2>1, <2>2
<1>7. Noted(p) \in [Plugin -> Seq(Node)]
  BY <1>3, <1>6
<1>8. GoodLists(Noted(p))
  BY <1>6, <1>7 DEF GoodLists
<1>9. \A d \in Plugin : \A q : Has(dependents[d], q) => Has(Noted(p)[d], q)
  BY <1>4, <1>5
<1>10. \A d \in Plugin : \A a, b : b # p /\ Before(dependents[d], a, b) => Before(Noted(p)[d], a, b)
  <2> SUFFICES ASSUME NEW d \in Plugin, NEW a, NEW b, b # p, Before(dependents[d], a, b)
      PROVE  Before(Noted(p)[d], a, b)
    OBVIOUS
  <2>1. Before(w(d), a, b)
    BY <1>4
  <2> QED
    BY <1>5, <2>1
<1>11. \A d \in ToSet(Depends[p]) \cap Plugin : Noted(p)[d] = w(d)
  BY <1>5
<1> QED
  BY <1>4, <1>8, <1>9, <1>10, <1>11

\* A plugin that is noted is the latest.
LEMMA OrderedLoads ==
    ASSUME PluginsAssumption, NEW time \in [Plugin -> Nat], NEW n \in Nat,
           NEW L \in SUBSET Plugin, NEW dep, NEW p \in Plugin, p \notin L,
           Ordered(time, n, L, dep), ToSet(Depends[p]) \subseteq L,
           \A d \in ToSet(Depends[p]) : Has(dep[d], p),
           \A d \in ToSet(Depends[p]) : \A b : b # p => Before(dep[d], p, b)
    PROVE  Ordered([time EXCEPT ![p] = n], n + 1, L \cup {p}, dep)
<1> DEFINE new == [time EXCEPT ![p] = n]
<1>1. /\ \A q \in L : q # p /\ new[q] = time[q] /\ new[q] \in Nat /\ new[q] < n
      /\ new[p] = n
  BY DEF Ordered
<1> HIDE DEF new
<1>2. \A q \in L \cup {p} : new[q] < n + 1
  BY <1>1
<1>3. ASSUME NEW q \in L \cup {p}, NEW d \in ToSet(Depends[q])
      PROVE  d \in L \cup {p} /\ new[d] < new[q] /\ Has(dep[d], q)
  <2>1. CASE q = p
    BY <1>1, <1>3, <2>1
  <2>2. CASE q # p
    <3>1. q \in L /\ d \in L /\ time[d] < time[q] /\ Has(dep[d], q)
      BY <1>3, <2>2 DEF Ordered
    <3> QED
      BY <1>1, <3>1
  <2> QED
    BY <2>1, <2>2
<1>4. ASSUME NEW d \in Plugin, NEW a \in L \cup {p}, NEW b \in L \cup {p},
             d \in ToSet(Depends[a]), new[b] < new[a]
      PROVE  Before(dep[d], a, b)
  <2>1. b # p
    BY <1>1, <1>4
  <2>2. CASE a = p
    BY <1>4, <2>1, <2>2
  <2>3. CASE a # p
    <3>1. a \in L /\ b \in L /\ time[b] < time[a]
      BY <1>1, <1>4, <2>1, <2>3
    <3> QED
      BY <1>4, <3>1 DEF Ordered
  <2> QED
    BY <2>2, <2>3
<1>5. Ordered(new, n + 1, L \cup {p}, dep)
  BY <1>2, <1>3, <1>4 DEF Ordered
<1> QED
  BY <1>5 DEF new

LEMMA LoadSelfStep ==
    ASSUME PluginsAssumption, PluginsInv, LoadSelf
    PROVE  PluginsInv'
<1> DEFINE f == stack[1]
           p == f.plugin
<1>1. stack # <<>> /\ Top.op = "load_deps" /\ Top.todo = <<>>
  BY DEF LoadSelf, InOp
<1>2. /\ stack \in Seq(FrameData) /\ Top = f /\ p \in Plugin /\ f.op = "load_deps"
      /\ LoadStack(stack, loaded, known) /\ f.todo = <<>> /\ 1 \in DOMAIN stack
      /\ Known(stack, known) /\ p \in known
  BY <1>1, WhichStack
<1>3. p \notin loaded /\ ToSet(Depends[p]) \subseteq known /\ ToSet(Depends[p]) \subseteq loaded
  <2>1. LoadFrame(f, loaded, known)
    BY <1>2 DEF LoadStack
  <2>2. ToSet(<<>>) = {}
    BY DEF ToSet
  <2> QED
    BY <1>2, <2>1, <2>2 DEF LoadFrame
<1>4. /\ dependents' = Noted(p) /\ UNCHANGED <<known, error, mayfail>>
      /\ stack' = Tail(stack) /\ ret' \in {"true", "false", "none"}
      /\ \/ loaded' = loaded \cup {p} /\ flag' = [flag EXCEPT ![p] = TRUE]
         \/ UNCHANGED <<loaded, flag>>
  BY <1>2 DEF LoadSelf, Returns
<1>5. /\ PluginsTypes /\ loaded \in SUBSET Plugin /\ loaded \subseteq known
  BY DEF PluginsInv, PluginsTypes
<1>6. \A i \in DOMAIN stack : i # 1 => stack[i].plugin \notin loaded \cup {p}
  <2>1. \A i \in DOMAIN stack : i # 1 => stack[i].plugin # p
    BY <1>1, <1>2, <1>3, LoadsApart
  <2>2. \A i \in DOMAIN stack : i # 1 => stack[i].plugin \notin loaded
    BY <1>2 DEF LoadStack, LoadFrame
  <2> QED
    BY <2>1, <2>2
<1>7. Tail(stack) \in Seq(FrameData) /\ Known(Tail(stack), known)
  BY <1>1, <1>2, StackIs, KnownStays
<1>8. /\ GoodLists(dependents')
      /\ \A d \in ToSet(Depends[p]) : Has(dependents'[d], p)
      /\ \A d \in Plugin : \A q : Has(dependents[d], q) => Has(dependents'[d], q)
      /\ \A d \in Plugin : \A a, b : b # p /\ Before(dependents[d], a, b)
                                        => Before(dependents'[d], a, b)
      /\ \A d \in ToSet(Depends[p]) : \A b : b # p => Before(dependents'[d], p, b)
  <2>1. ToSet(Depends[p]) \cap Plugin = ToSet(Depends[p])
    BY <1>3, <1>5
  <2> QED
    BY <1>2, <1>4, <2>1, NotedIs
<1>9. PICK time \in [Plugin -> Nat], n \in Nat : Ordered(time, n, loaded, dependents)
  BY DEF PluginsInv, Timed
<1> HIDE DEF p, f
<1>10. Ordered(time, n, loaded, dependents')
  <2>1. ASSUME NEW q \in loaded, NEW d \in ToSet(Depends[q])
        PROVE  d \in loaded /\ time[d] < time[q] /\ Has(dependents'[d], q)
    BY <1>5, <1>8, <1>9 DEF Ordered
  <2>2. ASSUME NEW d \in Plugin, NEW a \in loaded, NEW b \in loaded,
               d \in ToSet(Depends[a]), time[b] < time[a]
        PROVE  Before(dependents'[d], a, b)
    <3>1. Before(dependents[d], a, b) /\ b # p
      BY <1>3, <1>9, <2>2 DEF Ordered
    <3> QED
      BY <1>8, <3>1
  <2>3. \A q \in loaded : time[q] < n
    BY <1>9 DEF Ordered
  <2> QED
    BY <2>1, <2>2, <2>3 DEF Ordered
<1>11. CASE loaded' = loaded \cup {p} /\ flag' = [flag EXCEPT ![p] = TRUE]
  <2>1. LoadStack(stack', loaded', known')
    BY <1>1, <1>2, <1>4, <1>6, <1>11, LoadReturns
  <2>2. \A t : Falling(t, stack')
    BY <1>4, <1>7, <2>1, LoadsFall
  <2>3. Ordered([time EXCEPT ![p] = n], n + 1, loaded', dependents')
    BY <1>2, <1>3, <1>5, <1>8, <1>10, <1>11, OrderedLoads
  <2>4. Timed(loaded', dependents', stack')
    <3>1. time \in [Plugin -> Nat] /\ n \in Nat
      BY <1>9
    <3>2. [time EXCEPT ![p] = n] \in [Plugin -> Nat]
      BY <3>1
    <3>3. n + 1 \in Nat
      BY <3>1
    <3> QED
      BY <2>2, <2>3, <3>2, <3>3, Zenon DEF Timed
  <2>6. PluginsTypes'
    <3>1. p \in Plugin
      BY <1>2
    <3>2. \A x \in Plugin : flag'[x] <=> x \in loaded'
      BY <1>5, <1>11, <3>1 DEF PluginsTypes
    <3>3. flag' \in [Plugin -> BOOLEAN]
      BY <1>5, <1>11 DEF PluginsTypes
    <3> QED
      BY <1>4, <1>5, <1>2, <1>7, <1>11, <3>2, <3>3 DEF PluginsTypes
  <2> QED
    BY <1>4, <1>7, <1>8, <2>1, <2>4, <2>6 DEF PluginsInv, GoodStack
<1>12. CASE UNCHANGED <<loaded, flag>>
  <2>1. LoadStack(stack', loaded', known')
    BY <1>1, <1>2, <1>4, <1>6, <1>12, LoadReturns
  <2>2. \A t : Falling(t, stack')
    BY <1>4, <1>7, <2>1, LoadsFall
  <2>3. Timed(loaded', dependents', stack')
    BY <1>10, <1>12, <2>2, Zenon DEF Timed
  <2>4. PluginsTypes'
    BY <1>4, <1>5, <1>7, <1>12 DEF PluginsTypes
  <2> QED
    BY <1>4, <1>7, <1>8, <2>1, <2>3, <2>4 DEF PluginsInv, GoodStack
<1> QED
  BY <1>4, <1>11, <1>12

-----------------------------------------------------------------------------
(* Unloading                                                                *)

LEMMA UnloadEnterStep ==
    ASSUME PluginsInv, UnloadEnter
    PROVE  PluginsInv'
<1> DEFINE p == stack[1].plugin
           t == [Frame("unload_deps", p) EXCEPT !.at = First(p)]
<1>1. stack # <<>> /\ Top.op = "unload"
  BY DEF UnloadEnter, InOp
<1>2. /\ stack \in Seq(FrameData) /\ Top = stack[1] /\ p \in Plugin /\ stack[1].op = "unload"
      /\ UnloadStack(stack, loaded, dependents) /\ UnloadFrame(stack[1], {}, loaded, dependents)
      /\ Known(stack, known) /\ p \in known
  BY <1>1, WhichStack
<1>3. p \in loaded /\ flag[p]
  BY <1>2 DEF UnloadFrame, IsUnload, PluginsInv, PluginsTypes
<1>4. /\ stack' = <<t>> \o Tail(stack) /\ ret' = "none"
      /\ UNCHANGED <<known, loaded, flag, error, dependents, mayfail>>
  BY <1>2, <1>3 DEF UnloadEnter, Becomes
<1>5. dependents[p] \in Seq(Node)
  BY <1>2 DEF PluginsInv, GoodLists
<1>6. First(p) \in At
  BY <1>5 DEF First, At
<1>7. t \in FrameData /\ t.op = "unload_deps" /\ t.plugin = p /\ t.at = First(p)
  <2>1. /\ Frame("unload_deps", p) \in FrameData /\ Frame("unload_deps", p).op = "unload_deps"
        /\ Frame("unload_deps", p).plugin = p
    BY <1>2, FrameIs DEF Ops
  <2> QED
    BY <1>6, <2>1, FramePuts
<1> HIDE DEF t
<1>8. Passed(dependents[p], First(p), loaded, {})
  BY <1>5, PassedFirst
<1>9. UnloadFrame(t, {}, loaded, dependents) /\ IsUnload(t)
  BY <1>3, <1>7, <1>8 DEF UnloadFrame, IsUnload
<1>10. UnloadStack(<<t>> \o Tail(stack), loaded, dependents)
  BY <1>1, <1>2, <1>7, <1>9, UnloadBecomes
<1>11. <<t>> \o Tail(stack) \in Seq(FrameData) /\ Known(<<t>> \o Tail(stack), known)
  BY <1>1, <1>2, <1>7, StackBecomes, KnownStays
<1>12. \A time \in [Plugin -> Nat] : Falling(time, stack) => Falling(time, <<t>> \o Tail(stack))
  <2>1. IsUnload(stack[1])
    BY <1>2 DEF IsUnload
  <2> QED
    BY <1>1, <1>2, <1>7, <2>1, FallingBecomes
<1>13. ret' \in {"true", "false", "none"} /\ ret' # "false"
  BY <1>4
<1> QED
  BY <1>4, <1>10, <1>11, <1>12, <1>13, StackMoves DEF GoodStack

LEMMA UnloadDependentStep ==
    ASSUME PluginsInv, UnloadDependent
    PROVE  PluginsInv'
<1> DEFINE f == stack[1]
           p == f.plugin
           q == f.at[1]
           t == [f EXCEPT !.at = After(p, f.at)]
           c == Frame("unload", q)
<1>1. stack # <<>> /\ Top.op = "unload_deps" /\ Top.at # NoNode
  BY DEF UnloadDependent, InOp
<1>2. /\ stack \in Seq(FrameData) /\ Top = f /\ p \in Plugin /\ f.op = "unload_deps"
      /\ UnloadStack(stack, loaded, dependents) /\ UnloadFrame(f, {}, loaded, dependents)
      /\ Known(stack, known) /\ p \in known /\ f \in FrameData /\ f.at # NoNode
  BY <1>1, WhichStack
<1>3. \/ q \in known /\ flag[q] /\ Call(t, c)
      \/ ~(q \in known /\ flag[q]) /\ Becomes(t)
  BY <1>2 DEF UnloadDependent
<1>4. /\ dependents[p] \in Seq(Node) /\ Distinct(dependents[p])
      /\ \A k \in DOMAIN dependents[p] : p \in ToSet(Depends[dependents[p][k][1]])
  BY <1>2 DEF PluginsInv, GoodLists
<1>5. p \in loaded /\ Passed(dependents[p], f.at, loaded, {})
  BY <1>2 DEF UnloadFrame, IsUnload
<1>6. /\ f.at \in Node /\ f.at \in ToSet(dependents[p]) /\ After(p, f.at) \in At
      /\ q \in loaded => Passed(dependents[p], After(p, f.at), loaded, {q})
      /\ q \notin loaded => Passed(dependents[p], After(p, f.at), loaded, {})
  BY <1>2, <1>4, <1>5, PassedNext DEF At
<1>7. t \in FrameData /\ t.op = "unload_deps" /\ t.plugin = p /\ t.at = After(p, f.at)
  BY <1>2, <1>6, FramePuts
<1>8. q \in Plugin /\ p \in ToSet(Depends[q])
  BY <1>4, <1>6 DEF Node, ToSet
<1>9. flag[q] <=> q \in loaded
  BY <1>8 DEF PluginsInv, PluginsTypes
<1>10. loaded \subseteq known
  BY DEF PluginsInv, PluginsTypes
<1> HIDE DEF t
<1>11. IsUnload(t) /\ IsUnload(f)
  BY <1>2, <1>7 DEF IsUnload
<1>12. CASE q \in known /\ flag[q] /\ Call(t, c)
  <2>1. /\ stack' = <<c, t>> \o Tail(stack) /\ ret' = "none"
        /\ UNCHANGED <<known, loaded, flag, error, dependents, mayfail>>
    BY <1>12 DEF Call
  <2>2. c \in FrameData /\ c.op = "unload" /\ c.plugin = q
    BY <1>8, FrameIs DEF Ops
  <2> HIDE DEF c, q, p, f
  <2>3. UnloadFrame(t, {q}, loaded, dependents)
    BY <1>5, <1>6, <1>7, <1>8, <1>9, <1>12 DEF UnloadFrame
  <2>4. UnloadStack(<<c, t>> \o Tail(stack), loaded, dependents)
    BY <1>1, <1>2, <1>7, <1>9, <1>11, <1>12, <2>2, <2>3, UnloadCalls DEF f, p
  <2>5. <<c, t>> \o Tail(stack) \in Seq(FrameData) /\ Known(<<c, t>> \o Tail(stack), known)
    BY <1>1, <1>2, <1>7, <1>12, <2>2, StackCalls, KnownStays
  <2>6. ASSUME NEW time \in [Plugin -> Nat], NEW n \in Nat,
               Ordered(time, n, loaded, dependents), Falling(time, stack)
        PROVE  Falling(time, <<c, t>> \o Tail(stack))
    <3>1. time[p] < time[q]
      BY <1>8, <1>9, <1>12, <2>6 DEF Ordered
    <3> QED
      BY <1>1, <1>2, <1>7, <1>11, <2>2, <2>6, <3>1, FallingCalls DEF f, p
  <2>7. PluginsTypes' /\ GoodLists(dependents')
    BY <2>1, <2>5 DEF PluginsInv, PluginsTypes
  <2>8. Timed(loaded', dependents', stack')
    BY <2>1, <2>6 DEF PluginsInv, Timed
  <2> QED
    BY <2>1, <2>4, <2>5, <2>7, <2>8 DEF PluginsInv, GoodStack
<1>13. CASE ~(q \in known /\ flag[q]) /\ Becomes(t)
  <2>1. /\ stack' = <<t>> \o Tail(stack) /\ ret' = "none"
        /\ UNCHANGED <<known, loaded, flag, error, dependents, mayfail>>
    BY <1>13 DEF Becomes
  <2>2. q \notin loaded
    BY <1>9, <1>10, <1>13
  <2> HIDE DEF q, p, f
  <2>3. UnloadFrame(t, {}, loaded, dependents)
    BY <1>5, <1>6, <1>7, <2>2 DEF UnloadFrame
  <2>4. UnloadStack(<<t>> \o Tail(stack), loaded, dependents)
    BY <1>1, <1>2, <1>7, <1>11, <2>3, UnloadBecomes DEF f, p
  <2>5. <<t>> \o Tail(stack) \in Seq(FrameData) /\ Known(<<t>> \o Tail(stack), known)
    BY <1>1, <1>2, <1>7, StackBecomes, KnownStays
  <2>6. \A time \in [Plugin -> Nat] : Falling(time, stack) => Falling(time, <<t>> \o Tail(stack))
    BY <1>1, <1>2, <1>7, <1>11, FallingBecomes DEF f, p
  <2>7. ret' \in {"true", "false", "none"} /\ ret' # "false"
    BY <2>1
  <2> QED
    BY <2>1, <2>4, <2>5, <2>6, <2>7, StackMoves DEF GoodStack
<1> QED
  BY <1>3, <1>12, <1>13

\* The walk is never given up.
LEMMA NoRefusal ==
    ASSUME PluginsInv
    PROVE  ~UnloadRefused
BY WhichStack DEF UnloadRefused, InOp

\* The lists after a plugin is taken off them.
LEMMA ForgottenIs ==
    ASSUME PluginsInv, NEW p \in loaded
    PROVE  \A d \in Plugin :
             IF d \in ToSet(Depends[p])
             THEN \E m \in DOMAIN dependents[d] : Cut(Forgotten(p)[d], dependents[d], p, m)
             ELSE Forgotten(p)[d] = dependents[d]
<1> SUFFICES ASSUME NEW d \in Plugin
    PROVE  IF d \in ToSet(Depends[p])
           THEN \E m \in DOMAIN dependents[d] : Cut(Forgotten(p)[d], dependents[d], p, m)
           ELSE Forgotten(p)[d] = dependents[d]
  OBVIOUS
<1>1. Forgotten(p)[d] = IF d \in ToSet(Depends[p]) \cap known
                        THEN Without(dependents[d], p) ELSE dependents[d]
  BY DEF Forgotten
<1>2. dependents[d] \in Seq(Node)
  BY DEF PluginsInv, GoodLists
<1>3. CASE d \in ToSet(Depends[p])
  <2>1. d \in known /\ Has(dependents[d], p)
    <3>1. PICK time \in [Plugin -> Nat], n \in Nat : Ordered(time, n, loaded, dependents)
      BY DEF PluginsInv, Timed
    <3> QED
      BY <1>3, <3>1 DEF Ordered, PluginsInv, PluginsTypes
  <2>2. Forgotten(p)[d] = Without(dependents[d], p)
    BY <1>1, <1>3, <2>1
  <2> QED
    BY <1>2, <1>3, <2>1, <2>2, WithoutCuts
<1>4. CASE d \notin ToSet(Depends[p])
  BY <1>1, <1>4
<1> QED
  BY <1>3, <1>4

LEMMA ForgottenKeeps ==
    ASSUME PluginsInv, NEW p \in loaded
    PROVE  /\ GoodLists(Forgotten(p))
           /\ \A d \in Plugin : \A q : q # p /\ Has(dependents[d], q) => Has(Forgotten(p)[d], q)
           /\ \A d \in Plugin : \A a, b : a # p /\ b # p /\ Before(dependents[d], a, b)
                                            => Before(Forgotten(p)[d], a, b)
<1>1. /\ dependents \in [Plugin -> Seq(Node)]
      /\ \A d \in Plugin : /\ Distinct(dependents[d])
                           /\ \A k \in DOMAIN dependents[d] :
                                    d \in ToSet(Depends[dependents[d][k][1]])
  BY DEF PluginsInv, GoodLists
<1>2. ASSUME NEW d \in Plugin
      PROVE  /\ Forgotten(p)[d] \in Seq(Node) /\ Distinct(Forgotten(p)[d])
             /\ \A k \in DOMAIN Forgotten(p)[d] : d \in ToSet(Depends[Forgotten(p)[d][k][1]])
             /\ \A q : q # p /\ Has(dependents[d], q) => Has(Forgotten(p)[d], q)
             /\ \A a, b : a # p /\ b # p /\ Before(dependents[d], a, b)
                                            => Before(Forgotten(p)[d], a, b)
  <2> DEFINE w == Forgotten(p)[d]
             l == dependents[d]
  <2>1. l \in Seq(Node) /\ Distinct(l)
    BY <1>1
  <2>2. \A k \in DOMAIN l : d \in ToSet(Depends[l[k][1]])
    BY <1>1
  <2>3. \/ w = l
        \/ \E m \in DOMAIN l : Cut(w, l, p, m)
    BY ForgottenIs
  <2> HIDE DEF w, l
  <2>4. CASE w = l
    BY <2>1, <2>2, <2>4 DEF w, l
  <2>5. CASE \E m \in DOMAIN l : Cut(w, l, p, m)
    <3>1. PICK m \in DOMAIN l : Cut(w, l, p, m)
      BY <2>5
    <3>2. w \in Seq(Node)
      BY <3>1 DEF Cut
    <3>3. Distinct(w) /\ \A k \in DOMAIN w : \E i \in DOMAIN l : w[k] = l[i]
      BY <2>1, <3>1, CutKeeps
    <3>4. \A q : q # p /\ Has(l, q) => Has(w, q)
      BY <2>1, <3>1, CutKeeps
    <3>5. \A a, b : a # p /\ b # p /\ Before(l, a, b) => Before(w, a, b)
      BY <2>1, <3>1, CutKeeps
    <3>6. \A k \in DOMAIN w : d \in ToSet(Depends[w[k][1]])
      BY <2>2, <3>3
    <3> QED
      BY <3>2, <3>3, <3>4, <3>5, <3>6, Zenon DEF w, l
  <2> QED
    BY <2>3, <2>4, <2>5
<1>3. Forgotten(p) \in [Plugin -> Seq(Node)]
  <2>1. Forgotten(p) = [d \in Plugin |-> Forgotten(p)[d]]
    BY DEF Forgotten
  <2> QED
    BY <1>2, <2>1
<1>4. GoodLists(Forgotten(p))
  BY <1>2, <1>3 DEF GoodLists
<1> QED
  BY <1>2, <1>4

\* A plugin that nothing loaded depends on goes.
LEMMA OrderedUnloads ==
    ASSUME PluginsAssumption, NEW time \in [Plugin -> Nat], NEW n \in Nat,
           NEW L \in SUBSET Plugin, NEW dep, NEW new_dep, NEW p \in L,
           Ordered(time, n, L, dep),
           \A q \in L : p \notin ToSet(Depends[q]),
           \A d \in Plugin : \A q : q # p /\ Has(dep[d], q) => Has(new_dep[d], q),
           \A d \in Plugin : \A a, b : a # p /\ b # p /\ Before(dep[d], a, b)
                                        => Before(new_dep[d], a, b)
    PROVE  Ordered(time, n, L \ {p}, new_dep)
<1>1. \A q \in L \ {p} : time[q] < n
  BY DEF Ordered
<1>2. ASSUME NEW q \in L \ {p}, NEW d \in ToSet(Depends[q])
      PROVE  d \in L \ {p} /\ time[d] < time[q] /\ Has(new_dep[d], q)
  <2>1. d \in L /\ time[d] < time[q] /\ Has(dep[d], q) /\ d # p
    BY <1>2 DEF Ordered
  <2> QED
    BY <2>1
<1>3. ASSUME NEW d \in Plugin, NEW a \in L \ {p}, NEW b \in L \ {p},
             d \in ToSet(Depends[a]), time[b] < time[a]
      PROVE  Before(new_dep[d], a, b)
  <2>1. Before(dep[d], a, b)
    BY <1>3 DEF Ordered
  <2> QED
    BY <2>1
<1> QED
  BY <1>1, <1>2, <1>3 DEF Ordered

\* The frames below a plugin that goes.
LEMMA FramesLess ==
    ASSUME PluginsInv, stack # <<>>, stack[1].op = "unload_deps",
           NEW p, p = stack[1].plugin
    PROVE  \A i \in DOMAIN stack : i # 1 =>
             UnloadFrame(stack[i], IF i = 2 THEN {} ELSE Callee(stack, i),
                         loaded \ {p}, Forgotten(p))
<1> SUFFICES ASSUME NEW i \in DOMAIN stack, i # 1
    PROVE  UnloadFrame(stack[i], IF i = 2 THEN {} ELSE Callee(stack, i), loaded \ {p}, Forgotten(p))
  OBVIOUS
<1> DEFINE g == stack[i]
           r == g.plugin
           q == stack[i - 1].plugin
<1>1. /\ stack \in Seq(FrameData) /\ UnloadStack(stack, loaded, dependents)
      /\ UnloadFrame(stack[1], {}, loaded, dependents) /\ 1 \in DOMAIN stack
      /\ p \in Plugin /\ IsUnload(stack[1])
  BY WhichStack DEF IsUnload
<1>2. DOMAIN stack = 1..Len(stack) /\ Len(stack) \in Nat /\ \A j \in DOMAIN stack : stack[j] \in FrameData
  BY <1>1, StackIs
<1>3. i - 1 \in DOMAIN stack /\ i - 1 # Len(stack) /\ 1 < i /\ i - 1 < i
      /\ (i = 2 => i - 1 = 1) /\ (i # 2 => 1 < i - 1)
  BY <1>2
<1>4. IsUnload(stack[i - 1]) /\ q \in loaded
  <2>1. /\ IsUnload(stack[i - 1]) \/ (i - 1 = Len(stack) /\ stack[i - 1].op \in Outer)
        /\ UnloadFrame(stack[i - 1], Callee(stack, i - 1), loaded, dependents)
    BY <1>1, <1>3, Zenon DEF UnloadStack
  <2> QED
    BY <1>3, <2>1 DEF UnloadFrame
<1>5. Callee(stack, i) = {q}
  BY DEF Callee
<1>6. UnloadFrame(g, {q}, loaded, dependents)
  <2>1. UnloadFrame(stack[i], Callee(stack, i), loaded, dependents)
    BY <1>1, Zenon DEF UnloadStack
  <2> QED
    BY <1>5, <2>1
<1>7. r \in Plugin /\ p \in loaded
  BY <1>1, <1>2, FrameFields DEF UnloadFrame
<1>8. PICK time \in [Plugin -> Nat], n \in Nat :
            Ordered(time, n, loaded, dependents) /\ Falling(time, stack)
  BY DEF PluginsInv, Timed
<1>9. time[p] \in Int /\ time[q] \in Int /\ time[r] \in Int
  <2>1. q \in Plugin
    BY <1>4 DEF PluginsInv, PluginsTypes
  <2> QED
    BY <1>1, <1>7, <1>8, <2>1
<1>10. i = 2 => q = p
  BY <1>3
<1>11. i # 2 => time[q] < time[p]
  BY <1>1, <1>3, <1>4, <1>8 DEF Falling
<1>12. IsUnload(g) => time[r] < time[p]
  BY <1>1, <1>3, <1>8 DEF Falling
<1>13. g.op \notin {"unload", "reload"}
  BY <1>6 DEF UnloadFrame
<1>14. IsUnload(g) => r \in loaded \ {p}
  BY <1>6, <1>9, <1>12 DEF UnloadFrame
<1> DEFINE C == IF i = 2 THEN {} ELSE {q}
<1>15. C = {q} \ {p}
  <2>1. i # 2 => q # p
    BY <1>9, <1>11
  <2> QED
    BY <1>10, <2>1
<1>16. ASSUME g.op = "unload_deps"
       PROVE  Passed(Forgotten(p)[r], g.at, loaded \ {p}, C) /\ \A x \in C : r \in ToSet(Depends[x])
  <2>1. Passed(dependents[r], g.at, loaded, {q}) /\ r \in ToSet(Depends[q])
    BY <1>6, <1>16 DEF UnloadFrame
  <2>2. dependents[r] \in Seq(Node)
    BY <1>7 DEF PluginsInv, GoodLists
  <2>3. IF r \in ToSet(Depends[p])
        THEN \E m \in DOMAIN dependents[r] : Cut(Forgotten(p)[r], dependents[r], p, m)
        ELSE Forgotten(p)[r] = dependents[r]
    BY <1>7, ForgottenIs
  <2>4. CASE r \in ToSet(Depends[p])
    <3>1. PICK m \in DOMAIN dependents[r] : Cut(Forgotten(p)[r], dependents[r], p, m)
      BY <2>3, <2>4
    <3>2. p = q \/ Before(dependents[r], p, q)
      <4>1. CASE i = 2
        BY <1>10, <4>1
      <4>2. CASE i # 2
        BY <1>4, <1>7, <1>8, <1>11, <2>4, <4>2 DEF Ordered
      <4> QED
        BY <4>1, <4>2
    <3>3. Passed(Forgotten(p)[r], g.at, loaded \ {p}, {q} \ {p})
      <4> DEFINE l == dependents[r]
                 w == Forgotten(p)[r]
                 at == g.at
                 other == q
      <4>1. l \in Seq(Node) /\ m \in DOMAIN l /\ Cut(w, l, p, m)
        BY <2>2, <3>1
      <4>2. Passed(l, at, loaded, {other}) /\ (p = other \/ Before(l, p, other))
        BY <2>1, <3>2
      <4> HIDE DEF l, w, at, other
      <4>3. Passed(w, at, loaded \ {p}, {other} \ {p})
        BY <4>1, <4>2, PassedCut, Zenon
      <4> QED
        BY <4>3 DEF w, at, other
    <3> QED
      BY <1>15, <2>1, <3>3
  <2>5. CASE r \notin ToSet(Depends[p])
    <3>1. q # p /\ p \notin {q}
      BY <2>1, <2>5
    <3>2. Passed(dependents[r], g.at, loaded \ {p}, {q} \ {p})
      BY <2>1, <3>1, PassedLess
    <3> QED
      BY <1>15, <2>1, <2>3, <2>5, <3>2
  <2> QED
    BY <2>4, <2>5
<1>17. g.op = "destroy2" => IF C = {} THEN r \notin loaded \ {p} ELSE r \in C
  <2>1. g.op = "destroy2" => r = q
    BY <1>6 DEF UnloadFrame
  <2> QED
    BY <1>10, <1>15, <2>1
<1> HIDE DEF C
<1>18. UnloadFrame(g, C, loaded \ {p}, Forgotten(p))
  BY <1>13, <1>14, <1>16, <1>17 DEF UnloadFrame
<1> QED
  BY <1>5, <1>18 DEF C

LEMMA UnloadSelfStep ==
    ASSUME PluginsAssumption, PluginsInv, UnloadSelf
    PROVE  PluginsInv'
<1> DEFINE p == stack[1].plugin
<1>1. stack # <<>> /\ Top.op = "unload_deps" /\ Top.at = NoNode
  BY DEF UnloadSelf, InOp
<1>2. /\ stack \in Seq(FrameData) /\ Top = stack[1] /\ p \in Plugin /\ stack[1].op = "unload_deps"
      /\ UnloadStack(stack, loaded, dependents) /\ UnloadFrame(stack[1], {}, loaded, dependents)
      /\ Known(stack, known) /\ stack[1].at = NoNode
  BY <1>1, WhichStack
<1>3. p \in loaded /\ Passed(dependents[p], NoNode, loaded, {})
  BY <1>2 DEF UnloadFrame, IsUnload
<1>4. /\ PluginsTypes /\ loaded \in SUBSET Plugin /\ loaded \subseteq known
      /\ mayfail.unload = {} /\ dependents[p] \in Seq(Node)
  BY <1>2 DEF PluginsInv, PluginsTypes, GoodLists
<1>5. /\ dependents' = Forgotten(p) /\ loaded' = loaded \ {p}
      /\ flag' = [flag EXCEPT ![p] = FALSE] /\ error' = [error EXCEPT ![p] = "none"]
      /\ stack' = Tail(stack) /\ ret' = "true" /\ UNCHANGED <<known, mayfail>>
  BY <1>2, <1>4 DEF UnloadSelf, Returns
<1>6. \A k \in DOMAIN dependents[p] : dependents[p][k][1] \notin loaded
  BY <1>3, <1>4, PassedAll
<1>7. Tail(stack) \in Seq(FrameData) /\ Known(Tail(stack), known)
  BY <1>1, <1>2, StackIs, KnownStays
<1>8. UnloadStack(Tail(stack), loaded \ {p}, Forgotten(p))
  <2>1. \A i \in DOMAIN stack : i # 1 =>
             UnloadFrame(stack[i], IF i = 2 THEN {} ELSE Callee(stack, i),
                         loaded \ {p}, Forgotten(p))
    BY <1>1, <1>2, FramesLess
  <2> HIDE DEF p
  <2> QED
    BY <1>1, <1>2, <2>1, UnloadReturns
<1>9. PICK time \in [Plugin -> Nat], n \in Nat :
            Ordered(time, n, loaded, dependents) /\ Falling(time, stack)
  BY DEF PluginsInv, Timed
<1> HIDE DEF p
<1>10. Timed(loaded', dependents', stack')
  <2>1. \A q \in loaded : p \notin ToSet(Depends[q])
    <3> SUFFICES ASSUME NEW q \in loaded, p \in ToSet(Depends[q]) PROVE FALSE
      OBVIOUS
    <3>1. Has(dependents[p], q)
      BY <1>9 DEF Ordered
    <3> QED
      BY <1>6, <3>1 DEF Has
  <2>2. Ordered(time, n, loaded \ {p}, Forgotten(p))
    <3>1. /\ \A d \in Plugin : \A q : q # p /\ Has(dependents[d], q) => Has(Forgotten(p)[d], q)
          /\ \A d \in Plugin : \A a, b : a # p /\ b # p /\ Before(dependents[d], a, b)
                                            => Before(Forgotten(p)[d], a, b)
      BY <1>3, ForgottenKeeps
    <3> QED
      BY <1>3, <1>4, <1>9, <2>1, <3>1, OrderedUnloads
  <2>3. Falling(time, Tail(stack))
    BY <1>1, <1>2, <1>9, FallingReturns
  <2>4. time \in [Plugin -> Nat] /\ n \in Nat
    BY <1>9
  <2> QED
    BY <1>5, <2>2, <2>3, <2>4 DEF Timed
<1>11. GoodLists(dependents')
  BY <1>3, <1>5, ForgottenKeeps
<1>12. PluginsTypes'
  <2>1. \A x \in Plugin : flag'[x] <=> x \in loaded'
    BY <1>3, <1>4, <1>5 DEF PluginsTypes
  <2>2. flag' \in [Plugin -> BOOLEAN] /\ error' \in [Plugin -> {"none", "set"}]
    BY <1>3, <1>4, <1>5 DEF PluginsTypes
  <2> QED
    BY <1>4, <1>5, <1>7, <2>1, <2>2 DEF PluginsTypes
<1> QED
  BY <1>5, <1>7, <1>8, <1>10, <1>11, <1>12 DEF PluginsInv, GoodStack

-----------------------------------------------------------------------------
(* The callers                                                              *)

\* A frame of a caller with nothing below it.
LEMMA Alone ==
    ASSUME NEW st \in Seq(FrameData), st # <<>>, Len(st) = 1
    PROVE  Tail(st) = <<>> /\ \A i \in DOMAIN st : i = 1
<1>1. Len(Tail(st)) = 0 /\ Tail(st) \in Seq(FrameData) /\ DOMAIN st = 1..1
  BY StackIs
<1>2. Tail(st) = <<>>
  BY <1>1, EmptySeq
<1> QED
  BY <1>1, <1>2

\* A caller calls oul_plugin_unload for a plugin that is loaded.
LEMMA CallerCalls ==
    ASSUME PluginsInv, stack # <<>>, Len(stack) = 1, ~IsUnload(stack[1]),
           stack[1].op \notin {"load", "load_deps"},
           NEW t \in FrameData, t.op \in Outer, t.plugin = stack[1].plugin,
           NEW x \in loaded, UnloadFrame(t, {x}, loaded, dependents),
           Call(t, Frame("unload", x))
    PROVE  PluginsInv'
<1> DEFINE c == Frame("unload", x)
<1>1. /\ stack \in Seq(FrameData) /\ UnloadStack(stack, loaded, dependents)
      /\ Known(stack, known) /\ stack[1].plugin \in known
  BY WhichStack
<1>2. x \in Plugin /\ x \in known
  BY DEF PluginsInv, PluginsTypes
<1>3. c \in FrameData /\ c.op = "unload" /\ c.plugin = x
  BY <1>2, FrameIs DEF Ops
<1>4. /\ stack' = <<c, t>> \o Tail(stack) /\ ret' = "none"
      /\ UNCHANGED <<known, loaded, flag, error, dependents, mayfail>>
  BY DEF Call
<1> HIDE DEF c
<1>5. ~IsUnload(t)
  BY DEF IsUnload, Outer
<1>6. UnloadStack(<<c, t>> \o Tail(stack), loaded, dependents)
  BY <1>1, <1>3, UnloadCalls
<1>7. <<c, t>> \o Tail(stack) \in Seq(FrameData) /\ Known(<<c, t>> \o Tail(stack), known)
  BY <1>1, <1>2, <1>3, StackCalls, KnownStays
<1>8. \A time \in [Plugin -> Nat] : Falling(time, stack) => Falling(time, <<c, t>> \o Tail(stack))
  BY <1>1, <1>3, <1>5, FallingCalls
<1>9. ret' \in {"true", "false", "none"} /\ ret' # "false"
  BY <1>4
<1> QED
  BY <1>4, <1>6, <1>7, <1>8, <1>9, StackMoves DEF GoodStack

LEMMA ReloadStep ==
    ASSUME PluginsInv, Reload
    PROVE  PluginsInv'
<1> DEFINE p == stack[1].plugin
           t == Frame("reload2", p)
<1>1. stack # <<>> /\ Top.op = "reload" /\ Call(Frame("reload2", Top.plugin), Frame("unload", Top.plugin))
  BY DEF Reload, InOp
<1>2. /\ Top = stack[1] /\ p \in Plugin /\ stack[1].op = "reload"
      /\ UnloadFrame(stack[1], {}, loaded, dependents)
      /\ IsUnload(stack[1]) \/ Len(stack) = 1
  BY <1>1, WhichStack
<1>3. Len(stack) = 1 /\ ~IsUnload(stack[1]) /\ p \in loaded
  BY <1>2 DEF IsUnload, UnloadFrame
<1>4. t \in FrameData /\ t.op = "reload2" /\ t.plugin = p
  BY <1>2, FrameIs DEF Ops
<1>5. Call(t, Frame("unload", p))
  BY <1>1, <1>2
<1> HIDE DEF t
<1>6. UnloadFrame(t, {p}, loaded, dependents) /\ t.op \in Outer
  BY <1>4 DEF UnloadFrame, IsUnload, Outer
<1> QED
  BY <1>1, <1>2, <1>3, <1>4, <1>5, <1>6, CallerCalls

LEMMA DestroyStep ==
    ASSUME PluginsInv, Destroy
    PROVE  PluginsInv'
<1> DEFINE p == stack[1].plugin
           t == Frame("destroy2", p)
<1>1. /\ stack # <<>> /\ Top.op = "destroy"
      /\ IF flag[Top.plugin] THEN Call(Frame("destroy2", Top.plugin), Frame("unload", Top.plugin))
         ELSE Becomes(Frame("destroy2", Top.plugin))
  BY DEF Destroy, InOp
<1>2. /\ stack \in Seq(FrameData) /\ Top = stack[1] /\ p \in Plugin /\ stack[1].op = "destroy"
      /\ IsUnload(stack[1]) \/ Len(stack) = 1
      /\ UnloadStack(stack, loaded, dependents)
      /\ Known(stack, known) /\ p \in known
  BY <1>1, WhichStack
<1>3. Len(stack) = 1 /\ ~IsUnload(stack[1])
  BY <1>2 DEF IsUnload
<1>4. t \in FrameData /\ t.op = "destroy2" /\ t.plugin = p
  BY <1>2, FrameIs DEF Ops
<1>5. (flag[p] <=> p \in loaded)
  BY <1>2 DEF PluginsInv, PluginsTypes
<1>6. IF flag[p] THEN Call(t, Frame("unload", p)) ELSE Becomes(t)
  BY <1>1, <1>2
<1> HIDE DEF t
<1>7. t.op \in Outer /\ ~IsUnload(t)
  BY <1>4 DEF IsUnload, Outer
<1>8. CASE flag[p]
  <2>1. UnloadFrame(t, {p}, loaded, dependents)
    BY <1>4, <1>7 DEF UnloadFrame
  <2> QED
    BY <1>1, <1>2, <1>3, <1>4, <1>5, <1>6, <1>7, <1>8, <2>1, CallerCalls
<1>9. CASE ~flag[p]
  <2>1. UnloadFrame(t, {}, loaded, dependents)
    BY <1>4, <1>5, <1>7, <1>9 DEF UnloadFrame
  <2>2. /\ stack' = <<t>> \o Tail(stack) /\ ret' = "none"
        /\ UNCHANGED <<known, loaded, flag, error, dependents, mayfail>>
    BY <1>6, <1>9 DEF Becomes
  <2> HIDE DEF p
  <2>3. UnloadStack(<<t>> \o Tail(stack), loaded, dependents)
    BY <1>1, <1>2, <1>3, <1>4, <1>7, <2>1, UnloadBecomes DEF p
  <2>4. <<t>> \o Tail(stack) \in Seq(FrameData) /\ Known(<<t>> \o Tail(stack), known)
    BY <1>1, <1>2, <1>4, StackBecomes, KnownStays
  <2>5. \A time \in [Plugin -> Nat] : Falling(time, stack) => Falling(time, <<t>> \o Tail(stack))
    BY <1>1, <1>2, <1>4, <1>7, FallingBecomes DEF p
  <2>6. ret' \in {"true", "false", "none"} /\ ret' # "false"
    BY <2>2
  <2> QED
    BY <2>2, <2>3, <2>4, <2>5, <2>6, StackMoves DEF GoodStack
<1> QED
  BY <1>8, <1>9

LEMMA UnloadAllStep ==
    ASSUME PluginsAssumption, PluginsInv, UnloadAll
    PROVE  PluginsInv'
<1>1. /\ stack # <<>> /\ Top.op = "unload_all"
      /\ IF loaded = {} THEN Return("none") ELSE Call(Top, Frame("unload", FirstLoaded))
  BY DEF UnloadAll, InOp
<1>2. /\ stack \in Seq(FrameData) /\ Top = stack[1] /\ stack[1].op = "unload_all"
      /\ IsUnload(stack[1]) \/ Len(stack) = 1
      /\ stack[1] \in FrameData
      /\ UnloadStack(stack, loaded, dependents) /\ Known(stack, known)
  BY <1>1, WhichStack
<1>3. Len(stack) = 1 /\ ~IsUnload(stack[1])
  BY <1>2 DEF IsUnload
<1>4. CASE loaded = {}
  <2>1. /\ stack' = Tail(stack) /\ ret' = "none"
        /\ UNCHANGED <<known, loaded, flag, error, dependents, mayfail>>
    BY <1>1, <1>4 DEF Return, Returns
  <2>2. Tail(stack) \in Seq(FrameData) /\ Known(Tail(stack), known)
    BY <1>1, <1>2, StackIs, KnownStays
  <2>3. UnloadStack(Tail(stack), loaded, dependents)
    <3>1. Tail(stack) = <<>>
      BY <1>1, <1>2, <1>3, Alone
    <3> QED
      BY <3>1 DEF UnloadStack
  <2>4. \A time \in [Plugin -> Nat] : Falling(time, stack) => Falling(time, Tail(stack))
    BY <1>1, <1>2, FallingReturns
  <2>5. ret' \in {"true", "false", "none"} /\ ret' # "false"
    BY <2>1
  <2> QED
    BY <2>1, <2>2, <2>3, <2>4, <2>5, StackMoves DEF GoodStack
<1>5. CASE loaded # {}
  <2>1. FirstLoaded \in loaded
    <3>1. \E p \in loaded : \A q \in loaded : Rank[p] <= Rank[q]
      <4> DEFINE R == {Rank[p] : p \in loaded}
      <4>1. R \in SUBSET Nat /\ R # {}
        BY <1>5 DEF PluginsInv, PluginsTypes, PluginsAssumption
      <4>2. PICK m \in R : \A r \in R : m <= r
        BY <4>1, Least
      <4> QED
        BY <4>2
    <3> QED
      BY <3>1, Zenon DEF FirstLoaded
  <2>2. UnloadFrame(stack[1], {FirstLoaded}, loaded, dependents) /\ stack[1].op \in Outer
    BY <1>2 DEF UnloadFrame, IsUnload, Outer
  <2>3. Call(stack[1], Frame("unload", FirstLoaded))
    BY <1>1, <1>2, <1>5
  <2>4. stack[1] \in FrameData
    BY <1>2, <1>3
  <2> QED
    BY <1>1, <1>2, <1>3, <2>1, <2>2, <2>3, <2>4, CallerCalls
<1> QED
  BY <1>4, <1>5

LEMMA ReloadedStep ==
    ASSUME PluginsInv, Reloaded
    PROVE  PluginsInv'
<1> DEFINE p == stack[1].plugin
           t == Frame("load", p)
<1>1. stack # <<>> /\ Top.op = "reload2"
  BY DEF Reloaded, InOp
<1>2. /\ stack \in Seq(FrameData) /\ Top = stack[1] /\ p \in Plugin /\ stack[1].op = "reload2"
      /\ IsUnload(stack[1]) \/ Len(stack) = 1
      /\ ret # "false" /\ Known(stack, known) /\ p \in known
  BY <1>1, WhichStack
<1>3. Len(stack) = 1
  BY <1>2 DEF IsUnload
<1>4. t \in FrameData /\ t.op = "load" /\ t.plugin = p
  BY <1>2, FrameIs DEF Ops
<1>5. Becomes(t)
  BY <1>2 DEF Reloaded
<1> HIDE DEF t
<1>6. /\ stack' = <<t>> \o Tail(stack) /\ ret' = "none"
      /\ UNCHANGED <<known, loaded, flag, error, dependents, mayfail>>
  BY <1>5 DEF Becomes
<1> DEFINE new == <<t>> \o Tail(stack)
<1>7. new \in Seq(FrameData) /\ DOMAIN new = DOMAIN stack /\ new[1] = t /\ Known(new, known)
  BY <1>1, <1>2, <1>4, StackBecomes, KnownStays
<1>8. \A i \in DOMAIN stack : i = 1
  BY <1>1, <1>2, <1>3, Alone
<1>9. stack' = new
  BY <1>6
<1> HIDE DEF new
<1>10. LoadStack(new, loaded, known)
  BY <1>4, <1>7, <1>8 DEF LoadStack
<1>11. \A time : Falling(time, new)
  BY <1>7, <1>10, LoadsFall
<1>12. ret' \in {"true", "false", "none"}
  BY <1>6
<1> QED
  BY <1>6, <1>7, <1>9, <1>10, <1>11, <1>12, StackMoves DEF GoodStack

LEMMA DestroyedStep ==
    ASSUME PluginsInv, Destroyed
    PROVE  PluginsInv'
<1> DEFINE p == stack[1].plugin
<1>1. stack # <<>> /\ Top.op = "destroy2"
  BY DEF Destroyed, InOp
<1>2. /\ stack \in Seq(FrameData) /\ Top = stack[1] /\ p \in Plugin /\ stack[1].op = "destroy2"
      /\ IsUnload(stack[1]) \/ Len(stack) = 1
      /\ UnloadFrame(stack[1], {}, loaded, dependents)
  BY <1>1, WhichStack
<1>3. Len(stack) = 1 /\ p \notin loaded
  BY <1>2 DEF IsUnload, UnloadFrame
<1>4. /\ known' = known \ {p} /\ stack' = Tail(stack) /\ ret' = "none"
      /\ UNCHANGED <<loaded, flag, error, dependents, mayfail>>
  BY <1>2 DEF Destroyed, Returns
<1>5. stack' = <<>>
  BY <1>1, <1>2, <1>3, <1>4, Alone
<1>6. PluginsTypes'
  <2>1. stack' \in Seq(FrameData)
    BY <1>5
  <2> QED
    BY <1>3, <1>4, <2>1 DEF PluginsInv, PluginsTypes
<1>7. Known(stack', known') /\ UnloadStack(stack', loaded', dependents')
  BY <1>5 DEF Known, UnloadStack
<1>8. Timed(loaded', dependents', stack')
  <2>1. \A time : Falling(time, <<>>)
    BY DEF Falling
  <2> QED
    BY <1>4, <1>5, <2>1 DEF PluginsInv, Timed
<1>9. GoodLists(dependents')
  BY <1>4 DEF PluginsInv
<1> QED
  BY <1>4, <1>6, <1>7, <1>8, <1>9 DEF PluginsInv, GoodStack

\* A client calls: one frame.
LEMMA Called ==
    ASSUME PluginsInv, stack = <<>>, NEW p \in known,
           NEW op \in {"load", "unload", "reload", "destroy", "unload_all"},
           op \in {"unload", "reload"} => flag[p],
           stack' = <<Frame(op, p)>>, ret' = "none",
           UNCHANGED <<known, loaded, flag, error, dependents, mayfail>>
    PROVE  PluginsInv'
<1> DEFINE t == Frame(op, p)
           new == <<t>>
<1>1. p \in Plugin /\ (flag[p] <=> p \in loaded)
  BY DEF PluginsInv, PluginsTypes
<1>2. t \in FrameData /\ t.op = op /\ t.plugin = p
  BY <1>1, FrameIs DEF Ops
<1>3. stack' = new
  OBVIOUS
<1> HIDE DEF t
<1>4. new \in Seq(FrameData) /\ DOMAIN new = {1} /\ new[1] = t /\ Len(new) = 1
  BY <1>2
<1> HIDE DEF new
<1>5. Known(new, known)
  BY <1>2, <1>4 DEF Known
<1>6. \A time \in [Plugin -> Nat] : Falling(time, stack) => Falling(time, new)
  BY <1>4 DEF Falling
<1>7. LoadStack(new, loaded, known) \/ UnloadStack(new, loaded, dependents)
  <2>1. CASE op = "load"
    BY <1>2, <1>4, <2>1 DEF LoadStack
  <2>2. CASE op # "load"
    <3>1. IsUnload(t) \/ t.op \in Outer
      BY <1>2, <2>2 DEF IsUnload, Outer
    <3>2. Callee(new, 1) = {}
      BY DEF Callee
    <3>3. UnloadFrame(t, {}, loaded, dependents)
      BY <1>1, <1>2, <2>2 DEF UnloadFrame, IsUnload
    <3> QED
      BY <1>4, <3>1, <3>2, <3>3 DEF UnloadStack
  <2> QED
    BY <2>1, <2>2
<1>8. ret' \in {"true", "false", "none"} /\ ret' # "false"
  OBVIOUS
<1> QED
  BY <1>3, <1>4, <1>5, <1>6, <1>7, <1>8, StackMoves DEF GoodStack

LEMMA BeginStep ==
    ASSUME PluginsInv, Begin
    PROVE  PluginsInv'
<1>1. stack = <<>> /\ ret' = "none" /\ UNCHANGED <<known, loaded, flag, error, dependents, mayfail>>
  BY DEF Begin
<1>2. \E p \in known :
        \E op \in {"load", "unload", "reload", "destroy", "unload_all"} :
            (op \in {"unload", "reload"} => flag[p]) /\ stack' = <<Frame(op, p)>>
  BY DEF Begin
<1> QED
  BY <1>1, <1>2, Called

-----------------------------------------------------------------------------
(* The theorems                                                             *)

LEMMA PluginsStart ==
    ASSUME AllWilling, Init
    PROVE  PluginsInv
<1>1. PluginsTypes
  BY DEF Init, AllWilling, PluginsTypes
<1>2. GoodLists(dependents)
  <2>1. \A p \in Plugin : dependents[p] = <<>>
    BY DEF Init
  <2>2. dependents \in [Plugin -> Seq(Node)]
    BY DEF Init
  <2>3. Distinct(<<>>) /\ DOMAIN <<>> = {}
    BY DEF Distinct
  <2> QED
    BY <2>1, <2>2, <2>3 DEF GoodLists
<1>3. Known(stack, known) /\ GoodStack(stack, loaded, known, dependents, ret)
  BY DEF Init, Known, GoodStack, LoadStack
<1>4. Timed(loaded, dependents, stack)
  <2> DEFINE time == [p \in Plugin |-> 0]
  <2>1. time \in [Plugin -> Nat] /\ 0 \in Nat
    OBVIOUS
  <2>2. Ordered(time, 0, loaded, dependents) /\ Falling(time, stack)
    BY DEF Init, Ordered, Falling
  <2> QED
    BY <2>1, <2>2, Zenon DEF Timed
<1> QED
  BY <1>1, <1>2, <1>3, <1>4 DEF PluginsInv

LEMMA PluginsKept ==
    ASSUME PluginsAssumption, PluginsInv, [Next]_vars
    PROVE  PluginsInv'
<1>1. CASE Begin
  BY <1>1, BeginStep
<1>2. CASE LoadEnter
  BY <1>2, LoadEnterStep
<1>3. CASE LoadDependency
  BY <1>3, LoadDependencyStep
<1>4. CASE LoadSelf
  BY <1>4, LoadSelfStep
<1>5. CASE UnloadEnter
  BY <1>5, UnloadEnterStep
<1>6. CASE UnloadDependent
  BY <1>6, UnloadDependentStep
<1>7. CASE UnloadRefused
  BY <1>7, NoRefusal
<1>8. CASE UnloadSelf
  BY <1>8, UnloadSelfStep
<1>9. CASE Reload
  BY <1>9, ReloadStep
<1>10. CASE Reloaded
  BY <1>10, ReloadedStep
<1>11. CASE Destroy
  BY <1>11, DestroyStep
<1>12. CASE Destroyed
  BY <1>12, DestroyedStep
<1>13. CASE UnloadAll
  BY <1>13, UnloadAllStep
<1>14. CASE UNCHANGED vars
  BY <1>14 DEF vars, PluginsInv, PluginsTypes
<1> QED
  BY <1>1, <1>2, <1>3, <1>4, <1>5, <1>6, <1>7, <1>8, <1>9, <1>10, <1>11, <1>12, <1>13, <1>14
     DEF Next, Step

LEMMA Consistent ==
    ASSUME PluginsInv
    PROVE  PluginsAreConsistent
<1>1. PluginsTypes /\ GoodLists(dependents)
  BY DEF PluginsInv
<1>2. \A p \in Plugin : \A n \in Nodes(p) : n[1] \in Plugin
  <2> SUFFICES ASSUME NEW p \in Plugin, NEW n \in Nodes(p) PROVE n[1] \in Plugin
    OBVIOUS
  <2>1. dependents[p] \in Seq(Node)
    BY <1>1 DEF GoodLists
  <2>2. n \in Node
    BY <2>1 DEF Nodes, ToSet
  <2> QED
    BY <2>2 DEF Node
<1>3. \A i \in DOMAIN stack : stack[i].op \in Ops /\ stack[i].plugin \in Plugin
  <2> SUFFICES ASSUME NEW i \in DOMAIN stack
               PROVE  stack[i].op \in Ops /\ stack[i].plugin \in Plugin
    OBVIOUS
  <2>1. stack[i] \in FrameData
    BY <1>1 DEF PluginsTypes
  <2> QED
    BY <2>1, FrameFields
<1>4. TypeOK
  BY <1>1, <1>2, <1>3 DEF TypeOK, PluginsTypes
<1>5. PICK time \in [Plugin -> Nat], n \in Nat : Ordered(time, n, loaded, dependents)
  BY DEF PluginsInv, Timed
<1>6. DependenciesLoaded
  BY <1>5 DEF DependenciesLoaded, Ordered
<1>7. DependentsNoted
  <2> SUFFICES ASSUME NEW q \in loaded, NEW p \in ToSet(Depends[q])
               PROVE  \E n1 \in Nodes(p) : n1[1] = q
    BY DEF DependentsNoted
  <2>1. Has(dependents[p], q)
    BY <1>5 DEF Ordered
  <2> QED
    BY <2>1 DEF Has, Nodes, ToSet
<1> QED
  BY <1>4, <1>6, <1>7 DEF PluginsAreConsistent

LEMMA Linked ==
    ASSUME PluginsInv
    PROVE  NextStillLinked
<1> SUFFICES ASSUME InOp("unload_deps"), Top.at # NoNode PROVE Top.at \in Nodes(Top.plugin)
  BY DEF NextStillLinked
<1> DEFINE p == stack[1].plugin
           l == dependents[p]
<1>1. stack # <<>> /\ Top.op = "unload_deps"
  BY DEF InOp
<1>2. /\ Top = stack[1] /\ p \in Plugin /\ stack[1].op = "unload_deps"
      /\ UnloadFrame(stack[1], {}, loaded, dependents)
  BY <1>1, WhichStack
<1>3. Passed(l, stack[1].at, loaded, {})
  BY <1>2 DEF UnloadFrame
<1>4. l \in Seq(Node)
  BY <1>2 DEF PluginsInv, GoodLists
<1>5. PICK m \in DOMAIN l : l[m] = stack[1].at
  BY <1>2, <1>3, <1>4, PassedLinked
<1> QED
  BY <1>2, <1>5 DEF Nodes, ToSet

LEMMA PluginsAlways ==
    ASSUME AllWilling
    PROVE  Spec => []PluginsInv
<1>1. Init => PluginsInv
  BY PluginsStart
<1>2. PluginsInv /\ [Next]_vars => PluginsInv'
  BY PluginsAssumption, PluginsKept
<1> QED
  BY <1>1, <1>2, PTL DEF Spec

\* oul_plugin_load and oul_plugin_unload leave what is loaded and what is noted in the
\* lists dependent_plugins consistent: between two calls each loaded plugin is known,
\* has all its dependencies loaded, and is noted with each of them.
THEOREM ConsistentPlugins ==
    ASSUME AllWilling
    PROVE  Spec => []PluginsAreConsistent
<1>1. Spec => []PluginsInv
  BY PluginsAlways
<1>2. PluginsInv => PluginsAreConsistent
  BY Consistent
<1> QED
  BY <1>1, <1>2, PTL

\* The list element that oul_plugin_unload saved as the next one before it unloaded a
\* dependent is still in the list afterwards, whatever that unloading unloaded.
THEOREM NextLinked ==
    ASSUME AllWilling
    PROVE  Spec => []NextStillLinked
<1>1. Spec => []PluginsInv
  BY PluginsAlways
<1>2. PluginsInv => NextStillLinked
  BY Linked
<1> QED
  BY <1>1, <1>2, PTL

-----------------------------------------------------------------------------
(* Lists of plugins                                                         *)

\* A set with 0 and with the successors of its elements has all natural numbers.
LEMMA Induct ==
    ASSUME NEW S, 0 \in S, \A n \in Nat : n \in S => n + 1 \in S
    PROVE  \A n \in Nat : n \in S
<1> SUFFICES ASSUME Nat \ S # {} PROVE FALSE
  OBVIOUS
<1>1. PICK m \in Nat \ S : \A n \in Nat \ S : m <= n
  BY Least
<1>2. m # 0 /\ m - 1 \in Nat /\ m - 1 \in S
  BY <1>1
<1> QED
  BY <1>1, <1>2

\* Without the first occurrence of an element that occurs once it does not occur.
LEMMA RemoveFirstIs ==
    ASSUME NEW S, NEW l \in Seq(S), Distinct(l), NEW e
    PROVE  /\ RemoveFirst(l, e) \in Seq(S) /\ Distinct(RemoveFirst(l, e))
           /\ Range(RemoveFirst(l, e)) = Range(l) \ {e}
           /\ Len(RemoveFirst(l, e)) <= Len(l)
<1>1. CASE ~ \E i \in 1..Len(l) : l[i] = e
  <2>1. RemoveFirst(l, e) = l
    BY <1>1, Zenon DEF RemoveFirst
  <2>2. e \notin Range(l)
    BY <1>1 DEF Range
  <2> QED
    BY <2>1, <2>2
<1>2. CASE \E i \in 1..Len(l) : l[i] = e
  <2> DEFINE I == {i \in 1..Len(l) : l[i] = e}
             k == Min(I)
             w == RemoveAt(l, k)
  <2>1. I # {} /\ I \in SUBSET Nat
    BY <1>2
  <2>2. k \in I
    <3>1. \E m \in I : \A n \in I : m <= n
      BY <2>1, Least
    <3>2. Min(I) \in I
      BY <3>1 DEF Min
    <3> QED
      BY <3>2
  <2>3. SelectInSeq(l, LAMBDA v : v = e) = k
    BY <2>1 DEF SelectInSeq
  <2>4. RemoveFirst(l, e) = w
    BY <1>2, <2>3 DEF RemoveFirst
  <2> HIDE DEF k
  <2>5. k \in DOMAIN l /\ l[k] = e
    BY <2>2
  <2>6. /\ w \in Seq(S) /\ Len(w) = Len(l) - 1
        /\ \A j \in DOMAIN w : w[j] = IF j < k THEN l[j] ELSE l[j + 1]
    BY <2>5, RemoveAtIs
  <2> HIDE DEF w
  <2>7. \A j \in DOMAIN w : j \in DOMAIN l /\ j + 1 \in DOMAIN l /\ j \in Nat
    BY <2>6
  <2>8. Distinct(w)
    <3> SUFFICES ASSUME NEW i \in DOMAIN w, NEW j \in DOMAIN w, w[i] = w[j] PROVE i = j
      BY DEF Distinct
    <3> QED
      BY <2>5, <2>6, <2>7 DEF Distinct
  <2>9. Range(w) \subseteq Range(l) \ {e}
    <3> SUFFICES ASSUME NEW j \in DOMAIN w PROVE w[j] \in Range(l) /\ w[j] # e
      BY DEF Range
    <3> QED
      BY <2>5, <2>6, <2>7 DEF Distinct, Range
  <2>10. Range(l) \ {e} \subseteq Range(w)
    <3> SUFFICES ASSUME NEW j \in DOMAIN l, l[j] # e PROVE \E i \in DOMAIN w : w[i] = l[j]
      BY DEF Range
    <3>1. CASE j < k
      <4>1. j \in DOMAIN w
        BY <2>5, <2>6, <3>1
      <4> QED
        BY <2>6, <3>1, <4>1
    <3>2. CASE j > k
      <4>1. j - 1 \in DOMAIN w /\ ~(j - 1 < k) /\ (j - 1) + 1 = j
        BY <2>5, <2>6, <3>2
      <4> QED
        BY <2>6, <4>1
    <3> QED
      BY <2>5, <3>1, <3>2
  <2> QED
    BY <2>4, <2>6, <2>8, <2>9, <2>10
<1> QED
  BY <1>1, <1>2

LEMMA AppendIs ==
    ASSUME NEW S, NEW l \in Seq(S), Distinct(l), NEW e \in S, e \notin Range(l)
    PROVE  /\ Append(l, e) \in Seq(S) /\ Distinct(Append(l, e))
           /\ Range(Append(l, e)) = Range(l) \cup {e}
           /\ Len(Append(l, e)) = Len(l) + 1
<1> DEFINE w == Append(l, e)
<1>1. /\ w \in Seq(S) /\ Len(w) = Len(l) + 1 /\ w[Len(l) + 1] = e
      /\ \A i \in 1..Len(l) : w[i] = l[i]
  BY AppendProperties
<1> HIDE DEF w
<1>2. DOMAIN w = DOMAIN l \cup {Len(l) + 1}
  BY <1>1
<1>3. Range(w) = Range(l) \cup {e}
  BY <1>1, <1>2 DEF Range
<1>4. Distinct(w)
  BY <1>1, <1>2 DEF Distinct, Range
<1> QED
  BY <1>1, <1>3, <1>4 DEF w

LEMMA TailIs ==
    ASSUME NEW S, NEW l \in Seq(S), Distinct(l), l # <<>>
    PROVE  /\ Tail(l) \in Seq(S) /\ Distinct(Tail(l)) /\ Len(Tail(l)) = Len(l) - 1
           /\ Head(l) \in Range(l) /\ Range(Tail(l)) = Range(l) \ {Head(l)}
<1> DEFINE w == Tail(l)
<1>1. /\ w \in Seq(S) /\ Len(w) = Len(l) - 1 /\ Len(l) \in Nat /\ Len(l) > 0
      /\ Head(l) = l[1] /\ \A i \in DOMAIN w : w[i] = l[i + 1]
  BY HeadTailProperties
<1> HIDE DEF w
<1>2. \A i \in DOMAIN w : i + 1 \in DOMAIN l /\ i \in Nat /\ i + 1 # 1
  BY <1>1
<1>3. \A i \in DOMAIN l : i # 1 => i - 1 \in DOMAIN w /\ (i - 1) + 1 = i
  BY <1>1
<1>4. Distinct(w)
  BY <1>1, <1>2 DEF Distinct
<1>5. 1 \in DOMAIN l
  BY <1>1
<1>6. Range(w) \subseteq Range(l) \ {l[1]}
  BY <1>1, <1>2, <1>5 DEF Range, Distinct
<1>7. Range(l) \ {l[1]} \subseteq Range(w)
  <2> SUFFICES ASSUME NEW i \in DOMAIN l, l[i] # l[1] PROVE \E j \in DOMAIN w : w[j] = l[i]
    BY DEF Range
  <2>1. w[i - 1] = l[i] /\ i - 1 \in DOMAIN w
    BY <1>1, <1>3
  <2> QED
    BY <2>1
<1>8. l[1] \in Range(l)
  BY <1>5 DEF Range
<1> QED
  BY <1>1, <1>4, <1>6, <1>7, <1>8 DEF w

LEMMA RangeIn ==
    ASSUME NEW S, NEW l \in Seq(S)
    PROVE  Range(l) \subseteq S /\ IsFiniteSet(Range(l))
<1>1. Range(l) \subseteq S
  BY DEF Range
<1>2. IsFiniteSet(1..Len(l)) /\ DOMAIN l = 1..Len(l)
  BY FS_Interval
<1>3. l \in Surjection(1..Len(l), Range(l))
  BY <1>2 DEF Surjection, Range
<1>4. IsFiniteSet(Range(l))
  BY <1>2, <1>3, FS_Surjection DEF ExistsSurjection
<1> QED
  BY <1>1, <1>4

-----------------------------------------------------------------------------
(* What plugin.c knows of the files: PluginFiles                            *)

PluginLists ==
    [plugins : Seq(PluginFile), queue : Seq(PluginFile), loaded : SUBSET PluginFile,
     unloadable : SUBSET PluginFile, disabled : SUBSET PluginFile, noted : [PluginFile -> Nat],
     failing : SUBSET PluginFile]
Registered(s) == Range(s.plugins)

\* The lists fit together, and what is registered is what probing says of it.
SoundLists(s) ==
    /\ s \in PluginLists
    /\ Distinct(s.plugins) /\ Distinct(s.queue)
    /\ \A f, g \in Registered(s) : Meta[f].base = Meta[g].base => f = g
    /\ Range(s.queue) \subseteq Registered(s)
    /\ s.loaded \subseteq Registered(s) /\ s.unloadable \subseteq Registered(s)
    /\ s.loaded \cap s.unloadable = {}
    /\ \A f \in Registered(s) : Verdict(s, f) = IF f \in s.unloadable THEN "grey" ELSE "good"

\* A loader is loaded or waits for it; when the queue is done it is loaded.
LoadersWait(s) == \A l \in Registered(s) : Meta[l].loader => (l \in s.loaded <=> l \notin Range(s.queue))
LoadersDone(s) == \A l \in Registered(s) : Meta[l].loader => l \in s.loaded

\* A plugin of the name of f is there and can be loaded.
Represented(s, f) == \E g \in Registered(s) : Meta[g].base = Meta[f].base /\ g \notin s.unloadable
NoLoadersName(f) == \A l \in PluginFile : Meta[l].loader => Meta[l].base # Meta[f].base
AllFound(s, D, native) ==
    \A f \in D \cap FoundBySearch : Meta[f].native = native /\ Verdict(s, f) = "good" => Represented(s, f)

\* What probing and loading do to the lists: nothing that is loaded or can be loaded gets lost.
Follows(s, t) ==
    /\ t.failing = s.failing /\ s.loaded \subseteq t.loaded
    /\ \A f \in PluginFile : NoLoadersName(f) /\ Represented(s, f) => Represented(t, f)

LEMMA FollowsOn ==
    ASSUME NEW s, NEW t, NEW u, Follows(s, t), Follows(t, u)
    PROVE  Follows(s, u)
BY DEF Follows

LEMMA FollowsItself == ASSUME NEW s PROVE Follows(s, s)
BY DEF Follows

LEMMA ListsAre ==
    ASSUME NEW s \in PluginLists
    PROVE  /\ s.plugins \in Seq(PluginFile) /\ s.queue \in Seq(PluginFile)
           /\ s.loaded \subseteq PluginFile /\ s.unloadable \subseteq PluginFile
           /\ s.disabled \subseteq PluginFile /\ s.noted \in [PluginFile -> Nat]
           /\ s.failing \subseteq PluginFile
           /\ Registered(s) \subseteq PluginFile /\ IsFiniteSet(Registered(s))
<1>1. s.plugins \in Seq(PluginFile)
  BY DEF PluginLists
<1>2. Registered(s) \subseteq PluginFile /\ IsFiniteSet(Registered(s))
  BY <1>1, RangeIn DEF Registered
<1> QED
  BY <1>1, <1>2 DEF PluginLists

LEMMA VerdictIs ==
    ASSUME NEW s, NEW f
    PROVE  /\ Verdict(s, f) \in {"none", "grey", "good"}
           /\ Verdict(s, f) # "none" => Meta[f].native \/ Loaders(s) # {}
BY DEF Verdict

\* Of the lists a verdict depends on whether a loader is loaded only, for what it loads.
LEMMA SameVerdict ==
    ASSUME NEW s, NEW t, NEW f,
           Meta[f].native \/ (Loaders(s) = {} <=> Loaders(t) = {})
    PROVE  Verdict(s, f) = Verdict(t, f)
BY DEF Verdict

LEMMA LoadersGrow ==
    ASSUME NEW s, NEW t, s.loaded \subseteq t.loaded, Loaders(s) # {}
    PROVE  Loaders(t) # {}
BY DEF Loaders

LEMMA SameLoaders ==
    ASSUME NEW s, NEW t, s.loaded = t.loaded
    PROVE  Loaders(s) = Loaders(t)
BY DEF Loaders

\* What is registered keeps its verdict when more is loaded.
LEMMA VerdictStays ==
    ASSUME NEW s, NEW t, s.loaded \subseteq t.loaded, NEW f, Verdict(s, f) # "none"
    PROVE  Verdict(t, f) = Verdict(s, f)
BY VerdictIs, SameVerdict, LoadersGrow

\* oul_plugins_find_with_basename finds the one plugin of the name.
LEMMA NamedIs ==
    ASSUME NEW s, SoundLists(s), NEW base
    PROVE  Named(s, base) = {f \in Registered(s) : Meta[f].base = base}
<1> DEFINE at == {i \in DOMAIN s.plugins : Meta[s.plugins[i]].base = base}
<1>1. s.plugins \in Seq(PluginFile)
  BY ListsAre DEF SoundLists
<1>2. CASE at = {}
  <2>1. Named(s, base) = {}
    BY <1>2, Zenon DEF Named
  <2>2. {f \in Registered(s) : Meta[f].base = base} = {}
    BY <1>2 DEF Registered, Range
  <2> QED
    BY <2>1, <2>2
<1>3. CASE at # {}
  <2>1. Named(s, base) = {s.plugins[Min(at)]}
    BY <1>3, Zenon DEF Named
  <2>2. Min(at) \in at
    <3>1. at \in SUBSET Nat
      BY <1>1
    <3>2. \E m \in at : \A n \in at : m <= n
      BY <1>3, <3>1, Least
    <3> QED
      BY <3>2 DEF Min
  <2> DEFINE f == s.plugins[Min(at)]
  <2>3. f \in Registered(s) /\ Meta[f].base = base
    BY <2>2 DEF Registered, Range
  <2>4. Named(s, base) = {f}
    BY <2>1
  <2> HIDE DEF f
  <2>5. \A g \in Registered(s) : Meta[g].base = base => g = f
    BY <2>3 DEF SoundLists
  <2> QED
    BY <2>3, <2>4, <2>5
<1> QED
  BY <1>2, <1>3

\* oul_plugin_destroy of a plugin that is registered and not loaded.
LEMMA DestroyedIs ==
    ASSUME NEW s, SoundLists(s), NEW f \in Registered(s), f \notin s.loaded
    PROVE  LET t == DestroyedPlugin(s, f) IN
           /\ SoundLists(t)
           /\ t.loaded = s.loaded /\ t.failing = s.failing
           /\ Registered(t) = Registered(s) \ {f} /\ t.unloadable = s.unloadable \ {f}
           /\ Range(t.queue) = Range(s.queue) \ {f} /\ Len(t.queue) <= Len(s.queue)
<1> DEFINE t == DestroyedPlugin(s, f)
<1>1. s \in PluginLists /\ f \in PluginFile
  BY ListsAre DEF SoundLists
<1>2. /\ t.plugins = RemoveFirst(s.plugins, f) /\ t.queue = RemoveFirst(s.queue, f)
      /\ t.loaded = s.loaded /\ t.unloadable = s.unloadable \ {f} /\ t.failing = s.failing
  BY <1>1 DEF DestroyedPlugin, PluginLists
<1>3. /\ t.plugins \in Seq(PluginFile) /\ Distinct(t.plugins) /\ Range(t.plugins) = Range(s.plugins) \ {f}
  BY <1>1, <1>2, ListsAre, RemoveFirstIs DEF SoundLists
<1>4. /\ t.queue \in Seq(PluginFile) /\ Distinct(t.queue) /\ Range(t.queue) = Range(s.queue) \ {f}
      /\ Len(t.queue) <= Len(s.queue)
  BY <1>1, <1>2, ListsAre, RemoveFirstIs DEF SoundLists
<1>5. t \in PluginLists
  <2> DEFINE p == RemoveFirst(s.plugins, f)
             q == RemoveFirst(s.queue, f)
  <2>1. p \in Seq(PluginFile) /\ q \in Seq(PluginFile)
    BY <1>2, <1>3, <1>4
  <2>2. t = [s EXCEPT !.plugins = p, !.queue = q, !.unloadable = @ \ {f}, !.noted[f] = 0]
    BY DEF DestroyedPlugin
  <2> HIDE DEF p, q, t
  <2> QED
    BY <1>1, <2>1, <2>2 DEF PluginLists
<1> HIDE DEF t
<1>6. Registered(t) = Registered(s) \ {f}
  BY <1>3 DEF Registered
<1>7. \A g : Verdict(t, g) = Verdict(s, g)
  BY <1>2, SameVerdict, SameLoaders
<1>8. SoundLists(t)
  BY <1>2, <1>3, <1>4, <1>5, <1>6, <1>7 DEF SoundLists
<1> QED
  BY <1>2, <1>4, <1>6, <1>8 DEF t

\* oul_plugin_register of a plugin whose name no other has.
LEMMA FoundIs ==
    ASSUME NEW s, SoundLists(s), NEW f \in PluginFile,
           \A g \in Registered(s) : Meta[g].base # Meta[f].base
    PROVE  LET t == FoundPlugin(s, f) IN
           /\ Verdict(s, f) = "none" => t = s
           /\ Verdict(s, f) # "none" =>
                 /\ SoundLists(t)
                 /\ t.loaded = s.loaded /\ t.failing = s.failing
                 /\ Registered(t) = Registered(s) \cup {f}
                 /\ t.unloadable = IF Verdict(s, f) = "grey" THEN s.unloadable \cup {f} ELSE s.unloadable
                 /\ Range(t.queue) = Range(s.queue) \cup {f} /\ Len(t.queue) = Len(s.queue) + 1
<1> DEFINE t == FoundPlugin(s, f)
<1>1. Verdict(s, f) = "none" => t = s
  BY DEF FoundPlugin, RegisteredPlugin
<1> SUFFICES ASSUME Verdict(s, f) # "none"
             PROVE  /\ SoundLists(t)
                    /\ t.loaded = s.loaded /\ t.failing = s.failing
                    /\ Registered(t) = Registered(s) \cup {f}
                    /\ t.unloadable = IF Verdict(s, f) = "grey" THEN s.unloadable \cup {f} ELSE s.unloadable
                    /\ Range(t.queue) = Range(s.queue) \cup {f} /\ Len(t.queue) = Len(s.queue) + 1
  BY <1>1
<1>2. s \in PluginLists /\ f \notin Registered(s)
  BY DEF SoundLists
<1>3. f \notin s.unloadable /\ f \notin Range(s.queue) /\ f \notin s.loaded
  BY <1>2 DEF SoundLists
<1> DEFINE p == Append(s.plugins, f)
           q == Append(s.queue, f)
           u == IF Verdict(s, f) = "grey" THEN s.unloadable \cup {f} ELSE s.unloadable
<1>4. /\ p \in Seq(PluginFile) /\ Distinct(p) /\ Range(p) = Registered(s) \cup {f}
  BY <1>2, ListsAre, AppendIs DEF SoundLists, Registered
<1>5. /\ q \in Seq(PluginFile) /\ Distinct(q) /\ Range(q) = Range(s.queue) \cup {f}
      /\ Len(q) = Len(s.queue) + 1
  BY <1>2, <1>3, ListsAre, AppendIs DEF SoundLists
<1>6. t = [s EXCEPT !.plugins = p, !.queue = q, !.unloadable = u]
  BY <1>2, <1>3 DEF FoundPlugin, RegisteredPlugin, PluginLists
<1>7. u \subseteq PluginFile
  BY <1>2, ListsAre
<1> HIDE DEF p, q, u, t
<1>8. /\ t \in PluginLists /\ t.plugins = p /\ t.queue = q /\ t.unloadable = u
      /\ t.loaded = s.loaded /\ t.failing = s.failing
  BY <1>2, <1>4, <1>5, <1>6, <1>7 DEF PluginLists
<1>9. Registered(t) = Registered(s) \cup {f}
  BY <1>4, <1>8 DEF Registered
<1>10. \A g : Verdict(t, g) = Verdict(s, g)
  BY <1>8, SameVerdict, SameLoaders
<1>11. \A g \in Registered(t) : Verdict(t, g) = IF g \in t.unloadable THEN "grey" ELSE "good"
  BY <1>3, <1>8, <1>9, <1>10, VerdictIs DEF SoundLists, u
<1>12. \A g, h \in Registered(t) : Meta[g].base = Meta[h].base => g = h
  BY <1>9 DEF SoundLists
<1>13. Range(t.queue) \subseteq Registered(t) /\ t.loaded \subseteq Registered(t)
  BY <1>5, <1>8, <1>9 DEF SoundLists
<1>14. t.unloadable \subseteq Registered(t) /\ t.loaded \cap t.unloadable = {}
  BY <1>3, <1>8, <1>9 DEF SoundLists, u
<1>15. SoundLists(t)
  BY <1>4, <1>5, <1>8, <1>11, <1>12, <1>13, <1>14 DEF SoundLists
<1> QED
  BY <1>5, <1>8, <1>9, <1>15 DEF u

-----------------------------------------------------------------------------
(* Probing                                                                  *)

\* What a step of probing for f does: it touches the plugins of that name only, and
\* afterwards one is there if the file is good.
ProbedOne(s, t, f) ==
    /\ SoundLists(t) /\ t.loaded = s.loaded /\ Follows(s, t)
    /\ LoadersWait(s) => LoadersWait(t)
    /\ f \in pluginDisk /\ Verdict(s, f) = "good" => Represented(t, f)
    /\ Represented(s, f) \/ f \notin pluginDisk => t = s
    /\ \A g \in PluginFile : Meta[g].base # Meta[f].base =>
          (g \in Registered(t) <=> g \in Registered(s)) /\ (g \in t.unloadable <=> g \in s.unloadable)
    /\ Registered(t) \subseteq Registered(s) \cup {f}
    /\ Len(t.queue) <= Len(s.queue) + 1

\* oul_plugin_probe
LEMMA ProbedFileIs ==
    ASSUME NEW s, SoundLists(s), NEW f \in PluginFile
    PROVE  ProbedOne(s, ProbedFile(s, f), f)
<1> DEFINE old == Named(s, Meta[f].base)
           t == ProbedFile(s, f)
<1>1. old = {g \in Registered(s) : Meta[g].base = Meta[f].base}
  BY NamedIs
<1>2. s \in PluginLists /\ Registered(s) \subseteq PluginFile /\ Len(s.queue) \in Nat
  BY ListsAre DEF SoundLists
<1>3. \A g \in Registered(s) : g \notin s.unloadable <=> Verdict(s, g) = "good"
  BY DEF SoundLists
<1>4. Represented(s, f) <=> \E g \in old : g \notin s.unloadable
  BY <1>1 DEF Represented
<1>5. CASE f \notin pluginDisk \/ f \in old \/ (old # {} /\ old \cap s.unloadable = {})
  <2>1. t = s
    BY <1>5 DEF ProbedFile
  <2>2. f \in pluginDisk /\ Verdict(s, f) = "good" => Represented(s, f)
    BY <1>1, <1>3, <1>4, <1>5
  <2> HIDE DEF t
  <2> QED
    BY <1>2, <2>1, <2>2, FollowsItself DEF ProbedOne, t
<1>6. CASE ~(f \notin pluginDisk \/ f \in old \/ (old # {} /\ old \cap s.unloadable = {}))
  <2> DEFINE u == IF old = {} THEN s ELSE DestroyedPlugin(s, CHOOSE g \in old : TRUE)
  <2>1. t = FoundPlugin(u, f)
    BY <1>6 DEF ProbedFile
  <2> HIDE DEF t
  <2>2. old \subseteq s.unloadable
    <3>1. \A g, h \in old : g = h
      BY <1>1 DEF SoundLists
    <3> QED
      BY <1>6, <3>1
  <2>3. /\ SoundLists(u) /\ u.loaded = s.loaded /\ u.failing = s.failing
        /\ Registered(u) = Registered(s) \ old /\ u.unloadable = s.unloadable \ old
        /\ Range(u.queue) = Range(s.queue) \ old /\ Len(u.queue) <= Len(s.queue)
    <3>1. CASE old = {}
      BY <1>2, <3>1
    <3>2. CASE old # {}
      <4> DEFINE g == CHOOSE g \in old : TRUE
      <4>1. u = DestroyedPlugin(s, g)
        BY <3>2
      <4>2. g \in old
        BY <3>2
      <4> HIDE DEF u, g
      <4>3. old = {g} /\ g \in Registered(s)
        BY <1>1, <4>2 DEF SoundLists
      <4>4. g \notin s.loaded
        BY <2>2, <4>2 DEF SoundLists
      <4> QED
        BY <4>1, <4>3, <4>4, DestroyedIs
    <3> QED
      BY <3>1, <3>2
  <2> HIDE DEF u
  <2>4. \A g \in Registered(u) : Meta[g].base # Meta[f].base
    BY <1>1, <2>3
  <2>5. \A g : Verdict(u, g) = Verdict(s, g)
    BY <2>3, SameVerdict, SameLoaders
  <2>6. f \notin Registered(s) /\ ~Represented(s, f)
    BY <1>1, <1>4, <1>6, <2>2
  <2>7. /\ Registered(t) \subseteq Registered(u) \cup {f} /\ Registered(u) \subseteq Registered(t)
        /\ SoundLists(t) /\ t.loaded = u.loaded /\ t.failing = u.failing
        /\ t.unloadable \subseteq u.unloadable \cup {f} /\ u.unloadable \subseteq t.unloadable
        /\ Len(t.queue) <= Len(u.queue) + 1
        /\ Verdict(u, f) = "good" => f \in Registered(t) /\ f \notin t.unloadable
        /\ f \in Registered(t) => f \in Range(t.queue)
        /\ \A g \in PluginFile : g # f => (g \in Range(t.queue) <=> g \in Range(u.queue))
    <3>1. Len(u.queue) \in Nat
      BY <2>3, ListsAre DEF SoundLists
    <3>2. CASE Verdict(u, f) = "none"
      <4>1. t = u
        BY <2>1, <2>3, <2>4, <3>2, FoundIs
      <4> QED
        BY <2>3, <2>4, <3>1, <3>2, <4>1
    <3>3. CASE Verdict(u, f) # "none"
      <4>1. f \notin Registered(u) /\ f \notin u.unloadable
        BY <2>3, <2>4 DEF SoundLists
      <4>2. /\ SoundLists(t)
            /\ t.loaded = u.loaded /\ t.failing = u.failing
            /\ Registered(t) = Registered(u) \cup {f}
            /\ t.unloadable = IF Verdict(u, f) = "grey" THEN u.unloadable \cup {f} ELSE u.unloadable
            /\ Range(t.queue) = Range(u.queue) \cup {f} /\ Len(t.queue) = Len(u.queue) + 1
        BY <2>1, <2>3, <2>4, <3>3, FoundIs
      <4> QED
        BY <3>1, <3>3, <4>1, <4>2
    <3> QED
      BY <3>2, <3>3
  <2>8. Follows(s, t)
    <3> SUFFICES ASSUME NEW g \in PluginFile, Represented(s, g) PROVE Represented(t, g)
      BY <2>3, <2>7 DEF Follows
    <3>1. PICK h \in Registered(s) : Meta[h].base = Meta[g].base /\ h \notin s.unloadable
      BY DEF Represented
    <3>2. h # f /\ h \notin old
      BY <2>2, <2>6, <3>1
    <3> QED
      BY <2>3, <2>7, <3>1, <3>2 DEF Represented
  <2>9. LoadersWait(s) => LoadersWait(t)
    <3> SUFFICES ASSUME LoadersWait(s), NEW l \in Registered(t), Meta[l].loader
                 PROVE  l \in t.loaded <=> l \notin Range(t.queue)
      BY DEF LoadersWait
    <3>1. CASE l = f
      <4>1. f \notin t.loaded
        BY <2>3, <2>6, <2>7 DEF SoundLists
      <4> QED
        BY <2>7, <3>1, <4>1
    <3>2. CASE l # f
      <4>1. l \in Registered(s) /\ l \notin old /\ l \in PluginFile
        BY <1>2, <2>3, <2>7, <3>2
      <4> QED
        BY <2>3, <2>7, <3>2, <4>1 DEF LoadersWait
    <3> QED
      BY <3>1, <3>2
  <2>10. Verdict(s, f) = "good" => Represented(t, f)
    BY <2>5, <2>7 DEF Represented
  <2>11. ASSUME NEW g \in PluginFile, Meta[g].base # Meta[f].base
         PROVE  (g \in Registered(t) <=> g \in Registered(s)) /\ (g \in t.unloadable <=> g \in s.unloadable)
    <3>1. g # f /\ g \notin old
      BY <1>1, <2>11
    <3> QED
      BY <2>3, <2>7, <3>1
  <2>12. Len(t.queue) <= Len(s.queue) + 1 /\ Registered(t) \subseteq Registered(s) \cup {f}
    <3>1. Len(u.queue) \in Nat /\ Len(t.queue) \in Nat
      BY <2>3, <2>7, ListsAre DEF SoundLists
    <3> QED
      BY <1>2, <2>3, <2>7, <3>1
  <2> QED
    BY <1>6, <2>3, <2>6, <2>7, <2>8, <2>9, <2>10, <2>11, <2>12 DEF ProbedOne, t
<1> QED
  BY <1>5, <1>6

Sound == {s \in PluginLists : SoundLists(s)}

\* A function with as many turns of a loop as wanted, each of which makes an element of D
\* of the one before.
Turning(D, s, n, F) == s \in D /\ n \in Nat /\ \A r \in D : \A i \in 1..n : F[r][i] \in D
Turned(f, D, s, n, F) == f \in [0..n -> D] /\ \A i \in 0..n : f[i] = IF i = 0 THEN s ELSE F[f[i - 1]][i]
LEMMA TurnsExist ==
    ASSUME NEW D, NEW s, NEW n, NEW F, Turning(D, s, n, F)
    PROVE  \E f : Turned(f, D, s, n, F)
<1> USE DEF Turning
<1> DEFINE Fits(f, m) == \A i \in 0..m : f[i] = IF i = 0 THEN s ELSE F[f[i - 1]][i]
           S == {m \in Nat : m <= n => \E f \in [0..m -> D] : Fits(f, m)}
<1>1. 0 \in S
  <2> DEFINE f == [i \in 0..0 |-> s]
  <2>1. f \in [0..0 -> D] /\ Fits(f, 0)
    OBVIOUS
  <2> QED
    BY <2>1
<1>2. ASSUME NEW m \in Nat, m \in S PROVE m + 1 \in S
  <2> SUFFICES ASSUME m + 1 <= n PROVE \E g \in [0..m + 1 -> D] : Fits(g, m + 1)
    OBVIOUS
  <2>1. PICK f \in [0..m -> D] : Fits(f, m)
    BY <1>2
  <2> DEFINE g == [i \in 0..m + 1 |-> IF i <= m THEN f[i] ELSE F[f[m]][m + 1]]
  <2>2. m + 1 \in 1..n /\ f[m] \in D
    OBVIOUS
  <2>3. F[f[m]][m + 1] \in D
    BY <2>2
  <2>4. g \in [0..m + 1 -> D]
    BY <2>3
  <2>5. g[m + 1] = F[f[m]][m + 1] /\ \A i \in 0..m : g[i] = f[i]
    OBVIOUS
  <2> HIDE DEF g
  <2>6. \A i \in 0..m : f[i] = IF i = 0 THEN s ELSE F[f[i - 1]][i]
    BY <2>1
  <2>7. ASSUME NEW i \in 0..m + 1 PROVE g[i] = IF i = 0 THEN s ELSE F[g[i - 1]][i]
    <3>1. CASE i = m + 1
      <4>1. i # 0 /\ i - 1 = m /\ g[m] = f[m]
        BY <2>5, <3>1
      <4> QED
        BY <2>5, <3>1, <4>1, Zenon
    <3>2. CASE i \in 0..m /\ i # 0
      <4>1. g[i] = f[i] /\ g[i - 1] = f[i - 1]
        BY <2>5, <3>2
      <4> QED
        BY <2>6, <3>2, <4>1
    <3>3. CASE i = 0
      BY <2>5, <2>6, <3>3
    <3> QED
      BY <3>1, <3>2, <3>3
  <2> QED
    BY <2>4, <2>7
<1>3. \A m \in Nat : m \in S
  <2> HIDE DEF S
  <2> QED
    BY <1>1, <1>2, Induct
<1>4. n \in S
  BY <1>3
<1> QED
  BY <1>4 DEF Turned

\* The turns of the search.
LEMMA SearchExists ==
    ASSUME NEW s, SoundLists(s), NEW native
    PROVE  \E f : f = [i \in 0..Len(SearchOrder) |->
                         IF i = 0 THEN s ELSE ProbedOfKind(f[i - 1], SearchOrder[i], native)]
<1> DEFINE n == Len(SearchOrder)
           Turn(r, i) == ProbedOfKind(r, SearchOrder[i], native)
           F == [r \in Sound |-> [i \in 1..n |-> Turn(r, i)]]
<1>1. n \in Nat /\ s \in Sound /\ \A i \in 1..n : SearchOrder[i] \in PluginFile
  BY PluginFilesAssumption DEF Sound, SoundLists
<1>2. ASSUME NEW r \in Sound, NEW i \in 1..n PROVE Turn(r, i) \in Sound
  BY <1>1, ProbedFileIs DEF Sound, ProbedOne, SoundLists, ProbedOfKind
<1> HIDE DEF n, Turn
<1>3. \A r \in Sound : \A i \in 1..n : F[r][i] = Turn(r, i)
  OBVIOUS
<1> HIDE DEF F
<1>4. Turning(Sound, s, n, F)
  BY <1>1, <1>2, <1>3 DEF Turning
<1>5. PICK f : Turned(f, Sound, s, n, F)
  BY <1>4, TurnsExist, Zenon
<1>6. \A i \in 0..n : f[i] = IF i = 0 THEN s ELSE Turn(f[i - 1], i)
  <2> SUFFICES ASSUME NEW i \in 0..n, i # 0 PROVE f[i] = Turn(f[i - 1], i)
    BY <1>5 DEF Turned
  <2>1. i \in 1..n /\ i - 1 \in 0..n
    BY <1>1
  <2>2. f[i - 1] \in Sound /\ f[i] = F[f[i - 1]][i]
    BY <1>5, <2>1 DEF Turned
  <2> QED
    BY <1>3, <2>1, <2>2
<1>7. f = [i \in 0..n |-> IF i = 0 THEN s ELSE Turn(f[i - 1], i)]
  <2>1. f = [i \in 0..n |-> f[i]]
    BY <1>5 DEF Turned
  <2> QED
    BY <1>6, <2>1
<1> QED
  BY <1>7 DEF n, Turn

LEMMA AllFoundKept ==
    ASSUME NEW s, NEW t, NEW D, NEW native, Follows(s, t), AllFound(s, D, native),
           native = TRUE \/ (Loaders(s) = {} <=> Loaders(t) = {})
    PROVE  AllFound(t, D, native)
<1> SUFFICES ASSUME NEW f \in D \cap FoundBySearch, Meta[f].native = native, Verdict(t, f) = "good"
             PROVE  Represented(t, f)
  BY DEF AllFound
<1>1. Verdict(s, f) = "good"
  BY SameVerdict
<1>2. Represented(s, f)
  BY <1>1 DEF AllFound
<1>3. f \in PluginFile /\ NoLoadersName(f)
  BY PluginFilesAssumption, RangeIn DEF FoundBySearch, NoLoadersName
<1> QED
  BY <1>2, <1>3 DEF Follows

\* What the first n turns of the search do.
Searched(s, t, native, n) ==
    /\ SoundLists(t) /\ t.loaded = s.loaded /\ Follows(s, t)
    /\ LoadersWait(s) => LoadersWait(t)
    /\ \A i \in 1..n : LET f == SearchOrder[i] IN
          Meta[f].native = native /\ NoLoadersName(f) /\ f \in pluginDisk /\ Verdict(s, f) = "good" => Represented(t, f)
    /\ Len(t.queue) <= Len(s.queue) + n

LEMMA SearchGoesOn ==
    ASSUME NEW s, SoundLists(s), NEW native, NEW r, NEW n \in Nat, n + 1 \in 1..Len(SearchOrder),
           Searched(s, r, native, n)
    PROVE  Searched(s, ProbedOfKind(r, SearchOrder[n + 1], native),
                    native, n + 1)
<1> DEFINE f == SearchOrder[n + 1]
           t == ProbedOfKind(r, f, native)
<1>1. f \in PluginFile /\ \A i \in 1..n : SearchOrder[i] \in PluginFile
  BY PluginFilesAssumption
<1>2. Len(s.queue) \in Nat /\ Len(r.queue) \in Nat
  BY ListsAre DEF SoundLists, Searched
<1> HIDE DEF f
<1>3. CASE Meta[f].native # native
  <2> SUFFICES Searched(s, r, native, n + 1)
    BY <1>3 DEF f, ProbedOfKind
  <2>1. ASSUME NEW i \in 1..n + 1, Meta[SearchOrder[i]].native = native, NoLoadersName(SearchOrder[i]),
               SearchOrder[i] \in pluginDisk, Verdict(s, SearchOrder[i]) = "good"
        PROVE  Represented(r, SearchOrder[i])
    <3>1. i \in 1..n
      BY <1>3, <2>1 DEF f
    <3> QED
      BY <2>1, <3>1 DEF Searched
  <2>2. Len(r.queue) <= Len(s.queue) + (n + 1)
    <3>1. Len(r.queue) <= Len(s.queue) + n
      BY DEF Searched
    <3> DEFINE a == Len(s.queue)
               b == Len(r.queue)
    <3>2. a \in Nat /\ b \in Nat /\ b <= a + n
      BY <1>2, <3>1
    <3> SUFFICES b <= a + (n + 1)
      OBVIOUS
    <3> HIDE DEF a, b
    <3> QED
      BY <3>2
  <2>3. SoundLists(r) /\ r.loaded = s.loaded /\ Follows(s, r) /\ (LoadersWait(s) => LoadersWait(r))
    BY DEF Searched
  <2> QED
    BY <2>1, <2>2, <2>3 DEF Searched
<1>4. CASE Meta[f].native = native
  <2>1. t = ProbedFile(r, f)
    BY <1>4 DEF ProbedOfKind
  <2> HIDE DEF t
  <2>2. ProbedOne(r, t, f)
    BY <1>1, <2>1, ProbedFileIs DEF Searched
  <2>3. SoundLists(t) /\ t.loaded = s.loaded /\ Len(t.queue) \in Nat
    BY <2>2, ListsAre DEF ProbedOne, Searched, SoundLists
  <2>4. Follows(s, t)
    BY <2>2, FollowsOn DEF ProbedOne, Searched
  <2>5. \A g : Verdict(r, g) = Verdict(s, g)
    BY SameVerdict, SameLoaders DEF Searched
  <2>6. ASSUME NEW i \in 1..n + 1, Meta[SearchOrder[i]].native = native, NoLoadersName(SearchOrder[i]),
               SearchOrder[i] \in pluginDisk, Verdict(s, SearchOrder[i]) = "good"
        PROVE  Represented(t, SearchOrder[i])
    <3>1. CASE i = n + 1
      BY <2>2, <2>5, <2>6, <3>1 DEF ProbedOne, f
    <3>2. CASE i \in 1..n
      <4>1. Represented(r, SearchOrder[i])
        BY <2>6, <3>2 DEF Searched
      <4> QED
        BY <1>1, <2>2, <2>6, <3>2, <4>1 DEF ProbedOne, Follows
    <3> QED
      BY <3>1, <3>2
  <2>7. Len(t.queue) <= Len(s.queue) + (n + 1)
    <3>1. Len(t.queue) <= Len(r.queue) + 1 /\ Len(r.queue) <= Len(s.queue) + n
      BY <2>2 DEF ProbedOne, Searched
    <3> DEFINE a == Len(s.queue)
               b == Len(r.queue)
               c == Len(t.queue)
    <3>2. a \in Nat /\ b \in Nat /\ c \in Nat /\ c <= b + 1 /\ b <= a + n
      BY <1>2, <2>3, <3>1
    <3> SUFFICES c <= a + (n + 1)
      OBVIOUS
    <3> HIDE DEF a, b, c
    <3> QED
      BY <3>2
  <2>8. LoadersWait(s) => LoadersWait(t)
    BY <2>2 DEF ProbedOne, Searched
  <2>9. Searched(s, t, native, n + 1)
    BY <2>3, <2>4, <2>6, <2>7, <2>8 DEF Searched
  <2> QED
    BY <2>9 DEF t, f
<1> QED
  BY <1>3, <1>4

\* The search paths are read for files of one kind.
LEMMA ProbedPluginsIs ==
    ASSUME NEW s, SoundLists(s), NEW native
    PROVE  LET t == ProbedPlugins(s, native) IN
           /\ SoundLists(t) /\ t.loaded = s.loaded /\ Follows(s, t)
           /\ LoadersWait(s) => LoadersWait(t)
           /\ AllFound(t, pluginDisk, native)
           /\ Len(t.queue) <= Len(s.queue) + Len(SearchOrder)
<1> DEFINE after == CHOOSE f : f = [i \in 0..Len(SearchOrder) |->
                         IF i = 0 THEN s ELSE ProbedOfKind(f[i - 1], SearchOrder[i], native)]
           t == ProbedPlugins(s, native)
<1>1. after = [i \in 0..Len(SearchOrder) |->
                 IF i = 0 THEN s ELSE ProbedOfKind(after[i - 1], SearchOrder[i], native)]
  <2>1. \E f : f = [i \in 0..Len(SearchOrder) |->
                 IF i = 0 THEN s ELSE ProbedOfKind(f[i - 1], SearchOrder[i], native)]
    BY SearchExists
  <2> QED
    BY <2>1, Zenon
<1>2. t = after[Len(SearchOrder)]
  BY Zenon DEF ProbedPlugins
<1> HIDE DEF after, t
<1>3. Len(SearchOrder) \in Nat
  BY PluginFilesAssumption
<1> DEFINE S == {n \in Nat : n <= Len(SearchOrder) => Searched(s, after[n], native, n)}
<1>4. 0 \in S
  <2>1. after[0] = s
    BY <1>1, <1>3
  <2>2. Len(s.queue) \in Nat
    BY ListsAre DEF SoundLists
  <2> QED
    BY <2>1, <2>2, FollowsItself DEF Searched
<1>5. ASSUME NEW n \in Nat, n \in S PROVE n + 1 \in S
  <2> SUFFICES ASSUME n + 1 <= Len(SearchOrder) PROVE Searched(s, after[n + 1], native, n + 1)
    OBVIOUS
  <2>1. n + 1 \in 0..Len(SearchOrder) /\ n + 1 # 0 /\ (n + 1) - 1 = n /\ n + 1 \in 1..Len(SearchOrder)
    BY <1>3
  <2>2. after[n + 1] = ProbedOfKind(after[n], SearchOrder[n + 1], native)
    BY <1>1, <2>1
  <2>3. Searched(s, after[n], native, n)
    BY <1>5, <2>1
  <2> QED
    BY <2>1, <2>2, <2>3, SearchGoesOn
<1>6. \A n \in Nat : n \in S
  <2> HIDE DEF S
  <2> QED
    BY <1>4, <1>5, Induct
<1>7. Searched(s, t, native, Len(SearchOrder))
  BY <1>2, <1>3, <1>6
<1>8. AllFound(t, pluginDisk, native)
  <2> SUFFICES ASSUME NEW f \in pluginDisk \cap FoundBySearch, Meta[f].native = native, Verdict(t, f) = "good"
               PROVE  Represented(t, f)
    BY DEF AllFound
  <2>1. PICK i \in 1..Len(SearchOrder) : f = SearchOrder[i]
    BY PluginFilesAssumption DEF FoundBySearch, Range
  <2>2. Verdict(s, f) = "good"
    BY <1>7, SameVerdict, SameLoaders DEF Searched
  <2> QED
    BY <1>7, <2>1, <2>2 DEF Searched, FoundBySearch, NoLoadersName
<1> QED
  BY <1>7, <1>8 DEF Searched, t

-----------------------------------------------------------------------------
(* Loading                                                                  *)

\* What the lists and the load functions have to do with whether f is loaded.
Loads(s, t, f, deps) ==
    /\ SoundLists(t) /\ t.plugins = s.plugins /\ t.queue = s.queue /\ t.unloadable = s.unloadable
    /\ t.failing = s.failing /\ t.disabled = s.disabled
    /\ s.loaded \subseteq t.loaded /\ t.loaded \subseteq s.loaded \cup {f} \cup deps

LEMMA LoadedAloneIs ==
    ASSUME NEW s, SoundLists(s), NEW f \in Registered(s), f \notin s.unloadable, NEW deps
    PROVE  /\ Loads(s, LoadedAlone(s, f, deps), f, {})
           /\ f \notin s.failing => f \in LoadedAlone(s, f, deps).loaded
<1> DEFINE t == LoadedAlone(s, f, deps)
           n == [g \in PluginFile |-> IF g \in deps THEN s.noted[g] + 1 ELSE s.noted[g]]
           u == [s EXCEPT !.noted = n]
           v == IF (~Meta[f].native /\ Loaders(s) = {}) \/ f \in s.failing THEN s.loaded ELSE s.loaded \cup {f}
<1>1. s \in PluginLists /\ f \in PluginFile
  BY ListsAre DEF SoundLists
<1>2. n \in [PluginFile -> Nat]
  BY <1>1 DEF PluginLists
<1>3. u = [s EXCEPT !.noted = [g \in PluginFile |-> IF g \in deps THEN @[g] + 1 ELSE @[g]]]
  BY <1>1 DEF PluginLists
<1> HIDE DEF n
<1>4. /\ u \in PluginLists /\ u.plugins = s.plugins /\ u.queue = s.queue /\ u.unloadable = s.unloadable
      /\ u.loaded = s.loaded /\ u.failing = s.failing /\ u.disabled = s.disabled
  BY <1>1, <1>2 DEF PluginLists
<1>5. t = IF ~Meta[f].native /\ Loaders(s) = {} THEN u
          ELSE IF f \in s.failing THEN u ELSE [u EXCEPT !.loaded = @ \cup {f}]
  BY <1>3 DEF LoadedAlone
<1> HIDE DEF u, t
<1>6. /\ t \in PluginLists /\ t.plugins = s.plugins /\ t.queue = s.queue /\ t.unloadable = s.unloadable
      /\ t.failing = s.failing /\ t.disabled = s.disabled /\ t.loaded = v
  BY <1>1, <1>4, <1>5 DEF PluginLists
<1>7. s.loaded \subseteq t.loaded /\ t.loaded \subseteq s.loaded \cup {f}
  BY <1>6
<1>8. \A g \in Registered(s) : Verdict(t, g) = Verdict(s, g)
  BY <1>7, VerdictStays DEF SoundLists
<1>9. Registered(t) = Registered(s)
  BY <1>6 DEF Registered
<1>10. t.loaded \subseteq Registered(s) /\ t.loaded \cap t.unloadable = {}
  BY <1>6, <1>7 DEF SoundLists
<1>11. SoundLists(t)
  BY <1>6, <1>8, <1>9, <1>10 DEF SoundLists
<1>12. f \notin s.failing => f \in t.loaded
  BY <1>6, VerdictIs DEF SoundLists
<1> QED
  BY <1>6, <1>7, <1>11, <1>12 DEF Loads, t

\* A plugin needs one other at most, and needs what is registered.
LEMMA NeededIs ==
    ASSUME NEW s, SoundLists(s), NEW f \in PluginFile
    PROVE  /\ NeededPlugins(s, f) = {g \in Registered(s) : Meta[g].base \in Meta[f].needs}
           /\ \A g, h \in NeededPlugins(s, f) : g = h
<1>1. NeededPlugins(s, f) = {g \in Registered(s) : Meta[g].base \in Meta[f].needs}
  BY NamedIs DEF NeededPlugins
<1>2. \A g, h \in NeededPlugins(s, f) : Meta[g].base = Meta[h].base
  BY <1>1, PluginFilesAssumption
<1> QED
  BY <1>1, <1>2 DEF SoundLists

\* Nothing is in the way of loading f.
Loadable(s, f) ==
    /\ ({f} \cup NeededPlugins(s, f)) \cap (s.failing \cup s.unloadable) = {}
    /\ \A base \in Meta[f].needs : Named(s, base) # {}

\* oul_plugin_load
LEMMA LoadedPluginIs ==
    ASSUME NEW s, SoundLists(s), NEW f \in Registered(s)
    PROVE  /\ Loads(s, LoadedPlugin(s, f), f, NeededPlugins(s, f))
           /\ Loadable(s, f) => f \in LoadedPlugin(s, f).loaded
<1> DEFINE t == LoadedPlugin(s, f)
           deps == NeededPlugins(s, f)
           u == WithNeeded(s, deps)
<1>1. f \in PluginFile
  BY ListsAre DEF SoundLists
<1>2. deps \subseteq Registered(s) /\ \A g, h \in deps : g = h
  BY <1>1, NeededIs
<1> HIDE DEF deps
<1>3. CASE f \in s.loaded \/ f \in s.unloadable \/ \E base \in Meta[f].needs : Named(s, base) = {}
  <2>1. t = s
    BY <1>3 DEF LoadedPlugin
  <2>2. Loads(s, s, f, deps)
    BY DEF Loads
  <2>3. Loadable(s, f) => f \in s.loaded
    BY <1>3 DEF Loadable
  <2> QED
    BY <2>1, <2>2, <2>3 DEF deps
<1>4. CASE ~(f \in s.loaded \/ f \in s.unloadable \/ \E base \in Meta[f].needs : Named(s, base) = {})
  <2>1. t = LoadedAfter(u, f, deps)
    BY <1>4 DEF LoadedPlugin, deps
  <2> HIDE DEF t
  <2>2. Loads(s, u, f, deps) /\ (deps \cap (s.failing \cup s.unloadable) = {} => deps \subseteq u.loaded)
    <3>1. CASE deps \subseteq s.loaded \cup s.unloadable
      <4>1. u = s
        BY <3>1 DEF WithNeeded
      <4> QED
        BY <3>1, <4>1 DEF Loads
    <3>2. CASE ~(deps \subseteq s.loaded \cup s.unloadable)
      <4> DEFINE g == CHOOSE g \in deps : TRUE
      <4>1. u = LoadedAlone(s, g, {})
        BY <3>2 DEF WithNeeded
      <4>2. g \in deps
        BY <3>2
      <4> HIDE DEF g, u
      <4>3. g \in Registered(s) /\ g \notin s.unloadable /\ deps = {g}
        BY <1>2, <3>2, <4>2
      <4>4. Loads(s, u, g, {}) /\ (g \notin s.failing => g \in u.loaded)
        BY <4>1, <4>3, LoadedAloneIs
      <4> QED
        BY <4>3, <4>4 DEF Loads
    <3> QED
      BY <3>1, <3>2
  <2> HIDE DEF u
  <2>3. CASE ~(deps \subseteq u.loaded)
    <3>1. t = u
      BY <2>1, <2>3 DEF LoadedAfter
    <3>2. ~Loadable(s, f)
      BY <2>2, <2>3 DEF Loadable, deps
    <3> QED
      BY <2>2, <3>1, <3>2 DEF t, deps
  <2>4. CASE deps \subseteq u.loaded
    <3>1. t = LoadedAlone(u, f, deps)
      BY <2>1, <2>4 DEF LoadedAfter
    <3>2. SoundLists(u) /\ f \in Registered(u) /\ f \notin u.unloadable
      BY <1>4, <2>2 DEF Loads, Registered
    <3>3. Loads(u, t, f, {}) /\ (f \notin u.failing => f \in t.loaded)
      BY <3>1, <3>2, LoadedAloneIs
    <3>4. Loads(s, t, f, deps)
      BY <2>2, <3>3 DEF Loads
    <3>5. Loadable(s, f) => f \in t.loaded
      BY <2>2, <3>3 DEF Loads, Loadable
    <3> QED
      BY <3>4, <3>5 DEF t, deps
  <2> QED
    BY <2>3, <2>4
<1> QED
  BY <1>3, <1>4

LEMMA LoadsFollows ==
    ASSUME NEW s, NEW t, NEW f, NEW deps, Loads(s, t, f, deps)
    PROVE  Follows(s, t) /\ Registered(t) = Registered(s)
BY DEF Loads, Follows, Represented, Registered

-----------------------------------------------------------------------------
(* The queue                                                                *)

LEMMA DequeuedIs ==
    ASSUME NEW s, SoundLists(s), s.queue # <<>>
    PROVE  LET t == [s EXCEPT !.queue = Tail(@)] IN
           /\ SoundLists(t) /\ t.loaded = s.loaded /\ t.failing = s.failing /\ t.unloadable = s.unloadable
           /\ Registered(t) = Registered(s) /\ Head(s.queue) \in Registered(s)
           /\ Range(t.queue) = Range(s.queue) \ {Head(s.queue)} /\ Len(t.queue) = Len(s.queue) - 1
<1> DEFINE t == [s EXCEPT !.queue = Tail(@)]
           q == Tail(s.queue)
<1>1. s \in PluginLists
  BY DEF SoundLists
<1>2. /\ q \in Seq(PluginFile) /\ Distinct(q) /\ Len(q) = Len(s.queue) - 1
      /\ Head(s.queue) \in Range(s.queue) /\ Range(q) = Range(s.queue) \ {Head(s.queue)}
  BY <1>1, ListsAre, TailIs DEF SoundLists
<1>3. t = [s EXCEPT !.queue = q]
  BY <1>1 DEF PluginLists
<1> HIDE DEF q, t
<1>4. /\ t \in PluginLists /\ t.plugins = s.plugins /\ t.loaded = s.loaded /\ t.failing = s.failing
      /\ t.unloadable = s.unloadable /\ t.queue = q
  BY <1>1, <1>2, <1>3 DEF PluginLists
<1>5. Registered(t) = Registered(s)
  BY <1>4 DEF Registered
<1>6. \A g : Verdict(t, g) = Verdict(s, g)
  BY <1>4, SameVerdict, SameLoaders
<1>7. SoundLists(t)
  BY <1>2, <1>4, <1>5, <1>6 DEF SoundLists
<1>8. Head(s.queue) \in Registered(s)
  BY <1>2 DEF SoundLists
<1> QED
  BY <1>2, <1>4, <1>5, <1>7, <1>8 DEF t

\* How many turns of the loop the queue needs at most.
TurnsLeft(s) == Len(s.queue) + (IF Loaders(s) = {} THEN Len(SearchOrder) ELSE 0)

LEMMA TurnsLeftIs ==
    ASSUME NEW s, SoundLists(s)
    PROVE  Len(s.queue) \in Nat /\ TurnsLeft(s) \in Nat /\ TurnsLeft(s) >= Len(s.queue)
<1>1. Len(s.queue) \in Nat /\ Len(SearchOrder) \in Nat
  BY ListsAre, PluginFilesAssumption DEF SoundLists
<1> DEFINE a == Len(s.queue)
           m == Len(SearchOrder)
<1>2. a \in Nat /\ m \in Nat
  BY <1>1
<1>3. TurnsLeft(s) = a + (IF Loaders(s) = {} THEN m ELSE 0)
  BY DEF TurnsLeft
<1> SUFFICES a \in Nat /\ TurnsLeft(s) \in Nat /\ TurnsLeft(s) >= a
  OBVIOUS
<1> HIDE DEF a, m
<1> QED
  BY <1>2, <1>3

\* A turn of the loop.
QueueTurn(s, t) ==
    /\ SoundLists(t) /\ LoadersWait(t) /\ Follows(s, t)
    /\ AllFound(s, pluginDisk, FALSE) => AllFound(t, pluginDisk, FALSE)
    /\ AllFound(s, pluginDisk, TRUE) => AllFound(t, pluginDisk, TRUE)
    /\ s.queue = <<>> => t = s
    /\ s.queue # <<>> => TurnsLeft(t) + 1 <= TurnsLeft(s)

\* A loader that was waiting is loaded and the files it can load are searched for, or it is destroyed.
LEMMA LoaderTriedIs ==
    ASSUME NEW s, SoundLists(s), NEW f \in Registered(s), Meta[f].loader, f \notin Range(s.queue), f \notin s.loaded
    PROVE  LET t == LoaderTried(LoadedPlugin(s, f), f) IN
           /\ SoundLists(t) /\ LoadersWait(t) /\ Follows(s, t)
           /\ AllFound(s, pluginDisk, FALSE) => AllFound(t, pluginDisk, FALSE)
           /\ AllFound(s, pluginDisk, TRUE) => AllFound(t, pluginDisk, TRUE)
           /\ Len(t.queue) <= Len(s.queue) + (IF Loaders(t) = {} THEN 0 ELSE Len(SearchOrder))
           /\ Loaders(s) = {}
<1> DEFINE r == LoadedPlugin(s, f)
           t == LoaderTried(r, f)
<1>1. f \in PluginFile /\ Len(s.queue) \in Nat
  BY ListsAre DEF SoundLists
<1>2. \A l \in PluginFile : Meta[l].loader => l = f
  BY <1>1, PluginFilesAssumption
<1>3. Loads(s, r, f, NeededPlugins(s, f))
  BY LoadedPluginIs
<1> HIDE DEF r
<1>4. SoundLists(r) /\ Follows(s, r) /\ Registered(r) = Registered(s) /\ r.queue = s.queue
  BY <1>3, LoadsFollows DEF Loads
<1>5. s.loaded \subseteq PluginFile /\ r.loaded \subseteq PluginFile /\ Registered(r) \subseteq PluginFile
  BY <1>4, ListsAre DEF SoundLists
<1>6. Loaders(s) = {}
  BY <1>2, <1>5 DEF Loaders
<1>7. AllFound(s, pluginDisk, TRUE) => AllFound(r, pluginDisk, TRUE)
  BY <1>4, AllFoundKept
<1>8. CASE f \in r.loaded
  <2>1. t = ProbedPlugins(r, FALSE)
    BY <1>8 DEF LoaderTried
  <2> HIDE DEF t
  <2>2. LoadersWait(r)
    BY <1>2, <1>4, <1>5, <1>8 DEF LoadersWait
  <2>3. /\ SoundLists(t) /\ t.loaded = r.loaded /\ Follows(r, t) /\ LoadersWait(t)
        /\ AllFound(t, pluginDisk, FALSE)
        /\ Len(t.queue) <= Len(r.queue) + Len(SearchOrder)
    BY <1>4, <2>1, <2>2, ProbedPluginsIs
  <2>4. Loaders(t) # {}
    BY <1>8, <2>3 DEF Loaders
  <2>5. AllFound(r, pluginDisk, TRUE) => AllFound(t, pluginDisk, TRUE)
    BY <2>3, AllFoundKept
  <2>6. Follows(s, t)
    BY <1>4, <2>3, FollowsOn
  <2> QED
    BY <1>4, <1>6, <1>7, <2>3, <2>4, <2>5, <2>6 DEF t, r
<1>9. CASE f \notin r.loaded
  <2>1. t = DestroyedPlugin(r, f)
    BY <1>9 DEF LoaderTried
  <2> HIDE DEF t
  <2>2. /\ SoundLists(t) /\ t.loaded = r.loaded /\ t.failing = r.failing
        /\ Registered(t) = Registered(r) \ {f} /\ t.unloadable = r.unloadable \ {f}
        /\ Len(t.queue) <= Len(r.queue)
    BY <1>4, <1>9, <2>1, DestroyedIs
  <2>3. LoadersWait(t)
    BY <1>2, <1>5, <2>2 DEF LoadersWait
  <2>4. Follows(r, t)
    <3> SUFFICES ASSUME NEW g \in PluginFile, NoLoadersName(g), Represented(r, g) PROVE Represented(t, g)
      BY <2>2 DEF Follows
    <3>1. PICK h \in Registered(r) : Meta[h].base = Meta[g].base /\ h \notin r.unloadable
      BY DEF Represented
    <3>2. h # f
      BY <1>1, <3>1 DEF NoLoadersName
    <3> QED
      BY <2>2, <3>1, <3>2 DEF Represented
  <2>5. Loaders(t) = {}
    BY <1>2, <1>5, <1>9, <2>2 DEF Loaders
  <2>6. Follows(s, t)
    BY <1>4, <2>4, FollowsOn
  <2>7. /\ AllFound(s, pluginDisk, FALSE) => AllFound(t, pluginDisk, FALSE)
        /\ AllFound(s, pluginDisk, TRUE) => AllFound(t, pluginDisk, TRUE)
    BY <1>6, <2>5, <2>6, AllFoundKept
  <2>8. Len(t.queue) <= Len(s.queue) + 0
    BY <1>1, <1>4, <2>2
  <2> QED
    BY <1>6, <2>2, <2>3, <2>5, <2>6, <2>7, <2>8 DEF t, r
<1> QED
  BY <1>8, <1>9

LEMMA FirstInQueueIs ==
    ASSUME NEW s, SoundLists(s), LoadersWait(s)
    PROVE  QueueTurn(s, FirstInQueue(s))
<1> DEFINE t == FirstInQueue(s)
           f == Head(s.queue)
           u == [s EXCEPT !.queue = Tail(@)]
<1>1. CASE s.queue = <<>>
  <2>1. t = s
    BY <1>1 DEF FirstInQueue
  <2> QED
    BY <1>1, <2>1, FollowsItself DEF QueueTurn
<1>2. CASE s.queue # <<>>
  <2>1. /\ SoundLists(u) /\ u.loaded = s.loaded /\ u.failing = s.failing /\ u.unloadable = s.unloadable
        /\ Registered(u) = Registered(s) /\ f \in Registered(s)
        /\ Range(u.queue) = Range(s.queue) \ {f} /\ Len(u.queue) = Len(s.queue) - 1
    BY <1>2, DequeuedIs
  <2>2. f \in Range(s.queue)
    BY <1>2, ListsAre, TailIs DEF SoundLists
  <2>3. t = IF ~Meta[f].loader THEN u ELSE LoaderTried(LoadedPlugin(u, f), f)
    BY <1>2 DEF FirstInQueue
  <2>4. Follows(s, u) /\ Loaders(u) = Loaders(s)
    BY <2>1, SameLoaders DEF Follows, Represented
  <2>5. Len(s.queue) \in Nat /\ Len(u.queue) \in Nat /\ Len(SearchOrder) \in Nat
    BY <2>1, ListsAre, PluginFilesAssumption DEF SoundLists
  <2>6. /\ AllFound(s, pluginDisk, FALSE) => AllFound(u, pluginDisk, FALSE)
        /\ AllFound(s, pluginDisk, TRUE) => AllFound(u, pluginDisk, TRUE)
    BY <2>4, AllFoundKept
  <2> HIDE DEF t, u, f
  <2>7. CASE ~Meta[f].loader
    <3>1. LoadersWait(u)
      BY <2>1, <2>7 DEF LoadersWait
    <3>2. TurnsLeft(u) + 1 <= TurnsLeft(s)
      BY <2>1, <2>4, <2>5 DEF TurnsLeft
    <3> QED
      BY <1>2, <2>1, <2>3, <2>4, <2>6, <2>7, <3>1, <3>2 DEF QueueTurn, t
  <2>8. CASE Meta[f].loader
    <3>1. f \notin u.loaded /\ f \notin Range(u.queue) /\ f \in Registered(u)
      BY <2>1, <2>2, <2>8 DEF LoadersWait
    <3>2. t = LoaderTried(LoadedPlugin(u, f), f)
      BY <2>3, <2>8
    <3>3. /\ SoundLists(t) /\ LoadersWait(t) /\ Follows(u, t)
          /\ AllFound(u, pluginDisk, FALSE) => AllFound(t, pluginDisk, FALSE)
          /\ AllFound(u, pluginDisk, TRUE) => AllFound(t, pluginDisk, TRUE)
          /\ Len(t.queue) <= Len(u.queue) + (IF Loaders(t) = {} THEN 0 ELSE Len(SearchOrder))
          /\ Loaders(u) = {}
      BY <2>1, <2>8, <3>1, <3>2, LoaderTriedIs
    <3>4. TurnsLeft(t) + 1 <= TurnsLeft(s)
      <4>1. Len(t.queue) \in Nat
        BY <3>3, ListsAre DEF SoundLists
      <4> DEFINE a == Len(s.queue)
                 b == Len(u.queue)
                 c == Len(t.queue)
                 m == Len(SearchOrder)
      <4>2. /\ a \in Nat /\ b \in Nat /\ c \in Nat /\ m \in Nat /\ b = a - 1
            /\ c <= b + (IF Loaders(t) = {} THEN 0 ELSE m)
        BY <2>1, <2>5, <3>3, <4>1
      <4>3. TurnsLeft(s) = a + m /\ TurnsLeft(t) = c + (IF Loaders(t) = {} THEN m ELSE 0)
        BY <2>4, <3>3 DEF TurnsLeft
      <4> HIDE DEF a, b, c, m
      <4> QED
        BY <4>2, <4>3
    <3>5. Follows(s, t)
      BY <2>4, <3>3, FollowsOn
    <3> QED
      BY <1>2, <2>6, <3>3, <3>4, <3>5 DEF QueueTurn, t
  <2> QED
    BY <2>7, <2>8
<1> QED
  BY <1>1, <1>2

LEMMA QueueExists ==
    ASSUME NEW s, SoundLists(s), LoadersWait(s)
    PROVE  \E f : f = [i \in 0..Turns(s) |-> IF i = 0 THEN s ELSE FirstInQueue(f[i - 1])]
<1> DEFINE n == Turns(s)
           D == {r \in Sound : LoadersWait(r)}
           F == [r \in D |-> [i \in 1..n |-> FirstInQueue(r)]]
<1>1. n \in Nat /\ s \in D
  BY PluginFilesAssumption, ListsAre DEF Sound, SoundLists, Turns
<1>2. ASSUME NEW r \in D PROVE FirstInQueue(r) \in D
  BY FirstInQueueIs DEF Sound, QueueTurn, SoundLists
<1> HIDE DEF n, D
<1>3. \A r \in D : \A i \in 1..n : F[r][i] = FirstInQueue(r)
  OBVIOUS
<1> HIDE DEF F
<1>4. Turning(D, s, n, F)
  BY <1>1, <1>2, <1>3 DEF Turning
<1>5. PICK f : Turned(f, D, s, n, F)
  BY <1>4, TurnsExist, Zenon
<1>6. \A i \in 0..n : f[i] = IF i = 0 THEN s ELSE FirstInQueue(f[i - 1])
  <2> SUFFICES ASSUME NEW i \in 0..n, i # 0 PROVE f[i] = FirstInQueue(f[i - 1])
    BY <1>5 DEF Turned
  <2>1. i \in 1..n /\ i - 1 \in 0..n
    BY <1>1
  <2>2. f[i - 1] \in D /\ f[i] = F[f[i - 1]][i]
    BY <1>5, <2>1 DEF Turned
  <2> QED
    BY <1>3, <2>1, <2>2
<1>7. f = [i \in 0..n |-> IF i = 0 THEN s ELSE FirstInQueue(f[i - 1])]
  <2>1. f = [i \in 0..n |-> f[i]]
    BY <1>5 DEF Turned
  <2> QED
    BY <1>6, <2>1
<1> QED
  BY <1>7 DEF n

\* What holds from turn to turn of the loop, and how many turns suffice.
QueueSoFar(s, t) ==
    /\ SoundLists(t) /\ LoadersWait(t) /\ Follows(s, t)
    /\ AllFound(s, pluginDisk, FALSE) => AllFound(t, pluginDisk, FALSE)
    /\ AllFound(s, pluginDisk, TRUE) => AllFound(t, pluginDisk, TRUE)
TurnsFor(t, n, i) == t.queue = <<>> \/ TurnsLeft(t) + i <= n

\* The loop of oul_plugins_probe ends with an empty queue.
LEMMA QueueDoneIs ==
    ASSUME NEW s, SoundLists(s), LoadersWait(s)
    PROVE  LET t == QueueDone(s) IN
           /\ SoundLists(t) /\ LoadersDone(t) /\ Follows(s, t) /\ t.queue = <<>>
           /\ AllFound(s, pluginDisk, FALSE) => AllFound(t, pluginDisk, FALSE)
           /\ AllFound(s, pluginDisk, TRUE) => AllFound(t, pluginDisk, TRUE)
<1> DEFINE n == Turns(s)
           after == CHOOSE f : f = [i \in 0..Turns(s) |-> IF i = 0 THEN s ELSE FirstInQueue(f[i - 1])]
           t == QueueDone(s)
<1>1. after = [i \in 0..Turns(s) |-> IF i = 0 THEN s ELSE FirstInQueue(after[i - 1])]
  <2>1. \E f : f = [i \in 0..Turns(s) |-> IF i = 0 THEN s ELSE FirstInQueue(f[i - 1])]
    BY QueueExists
  <2> QED
    BY <2>1, Zenon
<1>2. t = after[n]
  BY Zenon DEF QueueDone
<1> HIDE DEF after, t
<1>3. Len(s.queue) \in Nat /\ Len(SearchOrder) \in Nat /\ n = Len(s.queue) + Len(SearchOrder)
  BY PluginFilesAssumption, ListsAre DEF SoundLists, Turns
<1>4. n \in Nat /\ TurnsLeft(s) <= n
  BY <1>3 DEF TurnsLeft
<1>5. after[0] = s /\ \A i \in Nat : i + 1 <= n => after[i + 1] = FirstInQueue(after[i])
  <2>1. after = [i \in 0..n |-> IF i = 0 THEN s ELSE FirstInQueue(after[i - 1])]
    BY <1>1
  <2> HIDE DEF n
  <2>2. after[0] = s
    BY <1>4, <2>1
  <2>3. ASSUME NEW i \in Nat, i + 1 <= n PROVE after[i + 1] = FirstInQueue(after[i])
    <3>1. i + 1 \in 0..n /\ i + 1 # 0 /\ (i + 1) - 1 = i
      BY <1>4, <2>3
    <3> QED
      BY <2>1, <3>1
  <2> QED
    BY <2>2, <2>3
<1> HIDE DEF n
<1> DEFINE S == {i \in Nat : i <= n => QueueSoFar(s, after[i]) /\ TurnsFor(after[i], n, i)}
<1>6. 0 \in S
  <2>1. QueueSoFar(s, s)
    BY FollowsItself DEF QueueSoFar
  <2>2. TurnsFor(s, n, 0)
    BY <1>4, TurnsLeftIs DEF TurnsFor
  <2> QED
    BY <1>5, <2>1, <2>2
<1>7. ASSUME NEW i \in Nat, i \in S PROVE i + 1 \in S
  <2> SUFFICES ASSUME i + 1 <= n PROVE QueueSoFar(s, after[i + 1]) /\ TurnsFor(after[i + 1], n, i + 1)
    OBVIOUS
  <2> DEFINE r == after[i]
             u == after[i + 1]
  <2>1. QueueSoFar(s, r) /\ TurnsFor(r, n, i)
    BY <1>4, <1>7
  <2>2. u = FirstInQueue(r)
    BY <1>5
  <2> HIDE DEF r, u
  <2>3. QueueTurn(r, u)
    BY <2>1, <2>2, FirstInQueueIs DEF QueueSoFar
  <2>4. Follows(s, u)
    BY <2>1, <2>3, FollowsOn DEF QueueTurn, QueueSoFar
  <2>5. QueueSoFar(s, u)
    BY <2>1, <2>3, <2>4 DEF QueueTurn, QueueSoFar
  <2>6. TurnsFor(u, n, i + 1)
    <3>1. TurnsLeft(r) \in Nat /\ TurnsLeft(u) \in Nat
      BY <2>1, <2>5, TurnsLeftIs DEF QueueSoFar
    <3>2. (r.queue = <<>> => u.queue = <<>>) /\ (r.queue # <<>> => TurnsLeft(u) + 1 <= TurnsLeft(r))
      BY <2>3 DEF QueueTurn
    <3> DEFINE a == TurnsLeft(r)
               b == TurnsLeft(u)
    <3>3. r.queue # <<>> => b + (i + 1) <= n
      <4>1. r.queue # <<>> => a + i <= n /\ b + 1 <= a /\ a \in Nat /\ b \in Nat
        BY <2>1, <3>1, <3>2 DEF TurnsFor
      <4> HIDE DEF a, b
      <4> QED
        BY <1>4, <4>1
    <3> QED
      BY <3>2, <3>3 DEF TurnsFor
  <2> QED
    BY <2>5, <2>6 DEF u
<1>8. \A i \in Nat : i \in S
  <2> HIDE DEF S
  <2> QED
    BY <1>6, <1>7, Induct
<1>9. QueueSoFar(s, t) /\ TurnsFor(t, n, n)
  BY <1>2, <1>4, <1>8
<1>10. t.queue = <<>>
  <2>1. t.queue \in Seq(PluginFile) /\ TurnsLeft(t) \in Nat /\ TurnsLeft(t) >= Len(t.queue) /\ Len(t.queue) \in Nat
    BY <1>9, ListsAre, TurnsLeftIs DEF QueueSoFar, SoundLists
  <2>2. SUFFICES ASSUME t.queue # <<>> PROVE FALSE
    OBVIOUS
  <2>3. Len(t.queue) > 0
    BY <2>1, <2>2
  <2>4. TurnsLeft(t) + n <= n
    BY <1>9, <2>2 DEF TurnsFor
  <2> DEFINE a == TurnsLeft(t)
             b == Len(t.queue)
  <2>5. a \in Nat /\ b \in Nat /\ b > 0 /\ a >= b /\ a + n <= n
    BY <2>1, <2>3, <2>4
  <2> HIDE DEF a, b
  <2> QED
    BY <1>4, <2>5
<1>11. LoadersDone(t)
  BY <1>9, <1>10 DEF QueueSoFar, LoadersDone, LoadersWait, Range
<1> QED
  BY <1>9, <1>10, <1>11 DEF QueueSoFar, t

\* oul_plugins_probe(G_MODULE_SUFFIX)
LEMMA ProbedIs ==
    ASSUME NEW s, SoundLists(s), LoadersWait(s)
    PROVE  LET t == Probed(s) IN
           /\ SoundLists(t) /\ LoadersDone(t) /\ Follows(s, t) /\ t.queue = <<>>
           /\ AllFound(t, pluginDisk, TRUE)
           /\ AllFound(s, pluginDisk, FALSE) => AllFound(t, pluginDisk, FALSE)
<1> DEFINE r == ProbedPlugins(s, TRUE)
           t == Probed(s)
<1>1. t = QueueDone(r)
  BY DEF Probed
<1>2. SoundLists(r) /\ r.loaded = s.loaded /\ Follows(s, r) /\ LoadersWait(r) /\ AllFound(r, pluginDisk, TRUE)
  BY ProbedPluginsIs
<1> HIDE DEF r, t
<1>3. AllFound(s, pluginDisk, FALSE) => AllFound(r, pluginDisk, FALSE)
  BY <1>2, SameLoaders, AllFoundKept
<1>4. /\ SoundLists(t) /\ LoadersDone(t) /\ Follows(r, t) /\ t.queue = <<>>
      /\ AllFound(r, pluginDisk, FALSE) => AllFound(t, pluginDisk, FALSE)
      /\ AllFound(r, pluginDisk, TRUE) => AllFound(t, pluginDisk, TRUE)
  BY <1>1, <1>2, QueueDoneIs
<1>5. Follows(s, t)
  BY <1>2, <1>4, FollowsOn
<1> QED
  BY <1>2, <1>3, <1>4, <1>5 DEF t

-----------------------------------------------------------------------------
(* The plugins of the last session                                          *)

\* The lists between two calls, of which the last that probed found the files D.
Settled(s, D) ==
    /\ SoundLists(s) /\ LoadersWait(s) /\ LoadersDone(s)
    /\ AllFound(s, D, TRUE) /\ AllFound(s, D, FALSE)

LEMMA LoadingKeepsSettled ==
    ASSUME NEW s, NEW D, Settled(s, D), NEW t, NEW f, NEW deps, Loads(s, t, f, deps)
    PROVE  Settled(t, D)
<1>1. SoundLists(t) /\ t.queue = s.queue /\ s.loaded \subseteq t.loaded
  BY DEF Loads
<1>2. Follows(s, t) /\ Registered(t) = Registered(s)
  BY LoadsFollows
<1>3. LoadersWait(t) /\ LoadersDone(t)
  BY <1>1, <1>2 DEF Settled, LoadersWait, LoadersDone
<1>4. Loaders(t) = Loaders(s)
  BY <1>1, <1>2 DEF Loaders, Settled, LoadersDone, SoundLists
<1> QED
  BY <1>1, <1>2, <1>3, <1>4, AllFoundKept DEF Settled

LEMMA ProbingKeepsSettled ==
    ASSUME NEW s, Settled(s, pluginDisk), NEW f \in PluginFile, ~Meta[f].loader, NEW t, ProbedOne(s, t, f)
    PROVE  Settled(t, pluginDisk)
<1>1. SoundLists(t) /\ t.loaded = s.loaded /\ Follows(s, t) /\ LoadersWait(t)
  BY DEF ProbedOne, Settled
<1>2. LoadersDone(t)
  BY DEF ProbedOne, Settled, LoadersDone
<1> QED
  BY <1>1, <1>2, SameLoaders, AllFoundKept DEF Settled

\* The plugin at a path is the one of its name.
LEMMA AtPathIs ==
    ASSUME NEW s, SoundLists(s), NEW f \in PluginFile
    PROVE  AtPathOrNamed(s, f) = Named(s, Meta[f].base)
<1>1. Named(s, Meta[f].base) = {g \in Registered(s) : Meta[g].base = Meta[f].base}
  BY NamedIs
<1>2. f \in Registered(s) => {g \in Registered(s) : Meta[g].base = Meta[f].base} = {f}
  BY DEF SoundLists
<1> QED
  BY <1>1, <1>2 DEF AtPathOrNamed, Registered

\* What was on is on again as far as it can be loaded.
CanBeOn(s, g) == Loadable(s, g) /\ NeededPlugins(s, g) \subseteq FoundBySearch
Tried(s, f) == \A g \in Named(s, Meta[f].base) : CanBeOn(s, g) => g \in s.loaded

LEMMA CanBeOnStill ==
    ASSUME NEW s, NEW t, NEW f, NEW deps, Loads(s, t, f, deps), NEW g
    PROVE  /\ CanBeOn(t, g) <=> CanBeOn(s, g)
           /\ \A base : Named(t, base) = Named(s, base)
<1>1. t.plugins = s.plugins /\ t.failing = s.failing /\ t.unloadable = s.unloadable
  BY DEF Loads
<1>2. \A base : Named(t, base) = Named(s, base)
  BY <1>1 DEF Named
<1>3. NeededPlugins(t, g) = NeededPlugins(s, g)
  BY <1>2 DEF NeededPlugins
<1> QED
  BY <1>1, <1>2, <1>3 DEF CanBeOn, Loadable

\* Probing for a saved file that the search did not find changes nothing for what needs
\* only what the search finds.
LEMMA ProbingKeepsTried ==
    ASSUME NEW s, Settled(s, pluginDisk), NEW f \in PluginFile, Named(s, Meta[f].base) = {},
           NEW t, ProbedOne(s, t, f),
           NEW h \in PluginFile, Meta[h].base # Meta[f].base, Tried(s, h)
    PROVE  Tried(t, h)
<1> SUFFICES ASSUME NEW g \in Named(t, Meta[h].base), CanBeOn(t, g) PROVE g \in t.loaded
  BY DEF Tried
<1>1. SoundLists(s) /\ SoundLists(t)
  BY DEF Settled, ProbedOne
<1>2. Registered(s) \subseteq PluginFile /\ Registered(t) \subseteq PluginFile
  BY <1>1, ListsAre DEF SoundLists
<1>3. \A base : /\ Named(s, base) = {p \in Registered(s) : Meta[p].base = base}
                /\ Named(t, base) = {p \in Registered(t) : Meta[p].base = base}
  BY <1>1, NamedIs
<1>4. g \in Registered(t) /\ Meta[g].base = Meta[h].base /\ g \in PluginFile
  BY <1>2, <1>3
<1>5. g \in Registered(s) /\ g \in Named(s, Meta[h].base) /\ g \notin s.unloadable
  BY <1>3, <1>4 DEF ProbedOne, CanBeOn, Loadable
<1>6. ASSUME NEW d \in NeededPlugins(t, g) PROVE Meta[d].base # Meta[f].base
  <2> SUFFICES ASSUME Meta[d].base = Meta[f].base PROVE FALSE
    OBVIOUS
  <2>1. d \in Registered(t) /\ d \in FoundBySearch /\ d \notin t.unloadable
    BY <1>1, <1>4, <1>6, NeededIs DEF CanBeOn, Loadable
  <2>2. d \notin Registered(s)
    BY <1>3
  <2>3. d = f /\ t # s
    BY <2>1, <2>2 DEF ProbedOne
  <2>4. f \in pluginDisk
    BY <2>3 DEF ProbedOne
  <2>5. Verdict(t, f) = "good"
    BY <1>1, <2>1, <2>3 DEF SoundLists
  <2>6. Verdict(s, f) = "good"
    BY <2>5, SameVerdict, SameLoaders DEF ProbedOne
  <2>7. Represented(s, f)
    BY <2>1, <2>3, <2>4, <2>6, PluginFilesAssumption DEF Settled, AllFound
  <2> QED
    BY <1>3, <2>7 DEF Represented
<1>7. NeededPlugins(t, g) = NeededPlugins(s, g)
  <2>1. /\ NeededPlugins(s, g) = {p \in Registered(s) : Meta[p].base \in Meta[g].needs}
        /\ NeededPlugins(t, g) = {p \in Registered(t) : Meta[p].base \in Meta[g].needs}
    BY <1>1, <1>4, NeededIs
  <2>2. NeededPlugins(t, g) \subseteq NeededPlugins(s, g)
    BY <1>2, <1>6, <2>1 DEF ProbedOne
  <2>3. \A p \in Registered(s) : Meta[p].base # Meta[f].base
    BY <1>3
  <2>4. NeededPlugins(s, g) \subseteq NeededPlugins(t, g)
    BY <1>2, <2>1, <2>3 DEF ProbedOne
  <2> QED
    BY <2>2, <2>4
<1>8. ASSUME NEW base \in Meta[g].needs PROVE Named(s, base) # {}
  <2>1. PICK d \in Named(t, base) : TRUE
    BY <1>8 DEF CanBeOn, Loadable
  <2>2. d \in NeededPlugins(t, g)
    BY <1>8 DEF NeededPlugins
  <2>3. d \in Registered(s) /\ Meta[d].base = base
    BY <1>1, <1>3, <1>4, <1>7, <2>1, <2>2, NeededIs
  <2> QED
    BY <1>3, <2>3
<1>9. ({g} \cup NeededPlugins(s, g)) \cap (s.failing \cup s.unloadable) = {}
  <2>1. s.failing = t.failing
    BY DEF ProbedOne, Follows
  <2>2. \A d \in NeededPlugins(s, g) : d \in PluginFile /\ Meta[d].base # Meta[f].base
    BY <1>1, <1>2, <1>4, <1>6, <1>7, NeededIs
  <2> QED
    BY <1>5, <1>7, <2>1, <2>2 DEF CanBeOn, Loadable, ProbedOne
<1>10. CanBeOn(s, g)
  BY <1>7, <1>8, <1>9 DEF CanBeOn, Loadable
<1> QED
  BY <1>5, <1>10 DEF Tried, ProbedOne

\* A turn of the loop of oul_plugins_load_saved.
SavedTurn(s, t, f) ==
    /\ Settled(t, pluginDisk) /\ t.failing = s.failing
    /\ Tried(t, f)
    /\ \A h \in PluginFile : Tried(s, h) => Tried(t, h)

LEMMA LoadFoundIs ==
    ASSUME NEW s, Settled(s, pluginDisk), NEW f \in PluginFile
    PROVE  SavedTurn(s, LoadFound(s, f), f)
<1> DEFINE at == Named(s, Meta[f].base)
           t == LoadFound(s, f)
<1>1. SoundLists(s)
  BY DEF Settled
<1>2. at = {g \in Registered(s) : Meta[g].base = Meta[f].base} /\ AtPathOrNamed(s, f) = at
  BY <1>1, NamedIs, AtPathIs
<1>3. CASE at = {}
  <2>1. t = s
    BY <1>2, <1>3 DEF LoadFound
  <2> HIDE DEF t
  <2>2. Tried(s, f)
    BY <1>3 DEF Tried
  <2> QED
    BY <2>1, <2>2 DEF SavedTurn, t
<1>4. CASE at # {}
  <2> DEFINE g == CHOOSE g \in at : TRUE
  <2>1. t = LoadedPlugin(s, g)
    BY <1>2, <1>4 DEF LoadFound
  <2>2. g \in at
    BY <1>4
  <2> HIDE DEF g, t, at
  <2>3. g \in Registered(s) /\ at = {g}
    BY <1>1, <1>2, <2>2 DEF SoundLists
  <2>4. Loads(s, t, g, NeededPlugins(s, g)) /\ (Loadable(s, g) => g \in t.loaded)
    BY <1>1, <2>1, <2>3, LoadedPluginIs
  <2>5. Settled(t, pluginDisk)
    BY <2>4, LoadingKeepsSettled
  <2>6. /\ \A h : CanBeOn(t, h) <=> CanBeOn(s, h)
        /\ \A base : Named(t, base) = Named(s, base)
    BY <2>4, CanBeOnStill
  <2>7. Tried(t, f)
    BY <2>3, <2>4, <2>6 DEF Tried, CanBeOn, at
  <2>8. \A h \in PluginFile : Tried(s, h) => Tried(t, h)
    BY <2>4, <2>6 DEF Tried, Loads
  <2> QED
    BY <2>4, <2>5, <2>7, <2>8 DEF SavedTurn, Loads, t
<1> QED
  BY <1>3, <1>4

LEMMA LoadedSavedIs ==
    ASSUME NEW s, Settled(s, pluginDisk), NEW f \in PluginFile, ~Meta[f].loader
    PROVE  SavedTurn(s, LoadedSaved(s, f), f)
<1> DEFINE t == LoadedSaved(s, f)
           r == ProbedFile(s, f)
<1>1. SoundLists(s) /\ AtPathOrNamed(s, f) = Named(s, Meta[f].base)
  BY AtPathIs DEF Settled
<1>2. CASE Named(s, Meta[f].base) # {}
  <2>1. t = LoadFound(s, f)
    BY <1>1, <1>2 DEF LoadedSaved
  <2> QED
    BY <2>1, LoadFoundIs
<1>3. CASE Named(s, Meta[f].base) = {}
  <2>1. t = LoadFound(r, f)
    BY <1>1, <1>3 DEF LoadedSaved
  <2>2. ProbedOne(s, r, f)
    BY <1>1, ProbedFileIs
  <2> HIDE DEF r, t
  <2>3. Settled(r, pluginDisk) /\ r.failing = s.failing
    BY <2>2, ProbingKeepsSettled DEF ProbedOne, Follows
  <2>4. SavedTurn(r, t, f)
    BY <2>1, <2>3, LoadFoundIs
  <2>5. ASSUME NEW h \in PluginFile, Tried(s, h) PROVE Tried(t, h)
    <3>1. CASE Meta[h].base = Meta[f].base
      BY <2>4, <3>1 DEF SavedTurn, Tried
    <3>2. CASE Meta[h].base # Meta[f].base
      <4>1. Tried(r, h)
        BY <1>3, <2>2, <2>5, <3>2, ProbingKeepsTried
      <4> QED
        BY <2>4, <4>1 DEF SavedTurn
    <3> QED
      BY <3>1, <3>2
  <2> QED
    BY <2>3, <2>4, <2>5 DEF SavedTurn, t
<1> QED
  BY <1>2, <1>3

\* What holds from turn to turn of the loop of oul_plugins_load_saved.
SavedSoFar(s, t, order, n) ==
    /\ Settled(t, pluginDisk) /\ t.failing = s.failing
    /\ \A i \in 1..n : Tried(t, order[i])
NoLoaders(order) == \A i \in DOMAIN order : ~Meta[order[i]].loader

LEMMA SavedExists ==
    ASSUME NEW s, Settled(s, pluginDisk), NEW order \in Seq(PluginFile), NoLoaders(order)
    PROVE  \E f : f = [i \in 0..Len(order) |-> IF i = 0 THEN s ELSE LoadedSaved(f[i - 1], order[i])]
<1> DEFINE n == Len(order)
           D == {r \in Sound : Settled(r, pluginDisk)}
           F == [r \in D |-> [i \in 1..n |-> LoadedSaved(r, order[i])]]
<1>1. n \in Nat /\ s \in D /\ \A i \in 1..n : order[i] \in PluginFile /\ ~Meta[order[i]].loader
  <2>1. s \in D
    BY DEF Sound, SoundLists, Settled
  <2>2. n \in Nat /\ \A i \in 1..n : order[i] \in PluginFile /\ i \in DOMAIN order
    OBVIOUS
  <2> QED
    BY <2>1, <2>2 DEF NoLoaders
<1>2. ASSUME NEW r \in D, NEW i \in 1..n PROVE LoadedSaved(r, order[i]) \in D
  BY <1>1, LoadedSavedIs DEF Sound, SavedTurn, SoundLists, Settled
<1> HIDE DEF n, D
<1>3. \A r \in D : \A i \in 1..n : F[r][i] = LoadedSaved(r, order[i])
  OBVIOUS
<1> HIDE DEF F
<1>4. Turning(D, s, n, F)
  BY <1>1, <1>2, <1>3 DEF Turning
<1>5. PICK f : Turned(f, D, s, n, F)
  BY <1>4, TurnsExist, Zenon
<1>6. \A i \in 0..n : f[i] = IF i = 0 THEN s ELSE LoadedSaved(f[i - 1], order[i])
  <2> SUFFICES ASSUME NEW i \in 0..n, i # 0 PROVE f[i] = LoadedSaved(f[i - 1], order[i])
    BY <1>5 DEF Turned
  <2>1. i \in 1..n /\ i - 1 \in 0..n
    BY <1>1
  <2>2. f[i - 1] \in D /\ f[i] = F[f[i - 1]][i]
    BY <1>5, <2>1 DEF Turned
  <2> QED
    BY <1>3, <2>1, <2>2
<1>7. f = [i \in 0..n |-> IF i = 0 THEN s ELSE LoadedSaved(f[i - 1], order[i])]
  <2>1. f = [i \in 0..n |-> f[i]]
    BY <1>5 DEF Turned
  <2> QED
    BY <1>6, <2>1
<1> QED
  BY <1>7 DEF n

\* oul_plugins_load_saved
LEMMA AllSavedLoadedIs ==
    ASSUME NEW s, Settled(s, pluginDisk), NEW order \in Seq(PluginFile), NoLoaders(order)
    PROVE  SavedSoFar(s, AllSavedLoaded(s, order), order, Len(order))
<1> DEFINE n == Len(order)
           after == CHOOSE f : f = [i \in 0..Len(order) |-> IF i = 0 THEN s ELSE LoadedSaved(f[i - 1], order[i])]
           t == AllSavedLoaded(s, order)
<1>1. after = [i \in 0..Len(order) |-> IF i = 0 THEN s ELSE LoadedSaved(after[i - 1], order[i])]
  <2>1. \E f : f = [i \in 0..Len(order) |-> IF i = 0 THEN s ELSE LoadedSaved(f[i - 1], order[i])]
    BY SavedExists
  <2> QED
    BY <2>1, Zenon
<1>2. t = after[n]
  BY Zenon DEF AllSavedLoaded
<1> HIDE DEF after, t
<1>3. n \in Nat /\ \A i \in 1..n : order[i] \in PluginFile /\ ~Meta[order[i]].loader
  BY DEF NoLoaders
<1>4. after[0] = s /\ \A i \in Nat : i + 1 <= n => after[i + 1] = LoadedSaved(after[i], order[i + 1])
  <2>1. after = [i \in 0..n |-> IF i = 0 THEN s ELSE LoadedSaved(after[i - 1], order[i])]
    BY <1>1
  <2> HIDE DEF n
  <2>2. after[0] = s
    BY <1>3, <2>1
  <2>3. ASSUME NEW i \in Nat, i + 1 <= n PROVE after[i + 1] = LoadedSaved(after[i], order[i + 1])
    <3>1. i + 1 \in 0..n /\ i + 1 # 0 /\ (i + 1) - 1 = i
      BY <1>3, <2>3
    <3> QED
      BY <2>1, <3>1
  <2> QED
    BY <2>2, <2>3
<1> HIDE DEF n
<1> DEFINE S == {i \in Nat : i <= n => SavedSoFar(s, after[i], order, i)}
<1>5. 0 \in S
  BY <1>4 DEF SavedSoFar
<1>6. ASSUME NEW i \in Nat, i \in S PROVE i + 1 \in S
  <2> SUFFICES ASSUME i + 1 <= n PROVE SavedSoFar(s, after[i + 1], order, i + 1)
    OBVIOUS
  <2> DEFINE r == after[i]
             u == after[i + 1]
             f == order[i + 1]
  <2>1. SavedSoFar(s, r, order, i)
    BY <1>3, <1>6
  <2>2. u = LoadedSaved(r, f) /\ i + 1 \in 1..n
    BY <1>3, <1>4
  <2>3. f \in PluginFile /\ ~Meta[f].loader
    BY <1>3, <2>2
  <2> HIDE DEF r, u, f
  <2>4. SavedTurn(r, u, f)
    BY <2>1, <2>2, <2>3, LoadedSavedIs DEF SavedSoFar
  <2>5. ASSUME NEW j \in 1..i + 1 PROVE Tried(u, order[j])
    <3>1. CASE j = i + 1
      BY <2>4, <3>1 DEF SavedTurn, f
    <3>2. CASE j \in 1..i
      <4>1. j \in 1..n
        BY <1>3, <2>2, <3>2
      <4> QED
        BY <1>3, <2>1, <2>4, <3>2, <4>1 DEF SavedTurn, SavedSoFar
    <3> QED
      BY <3>1, <3>2
  <2>6. Settled(u, pluginDisk) /\ u.failing = s.failing
    BY <2>1, <2>4 DEF SavedTurn, SavedSoFar
  <2> QED
    BY <2>5, <2>6 DEF SavedSoFar, u
<1>7. \A i \in Nat : i \in S
  <2> HIDE DEF S
  <2> QED
    BY <1>5, <1>6, Induct
<1> QED
  BY <1>2, <1>3, <1>7 DEF n, t

-----------------------------------------------------------------------------
(* The program and its dialog                                               *)

\* What holds between two steps.
PluginFilesSound ==
    /\ saved \subseteq PluginFile /\ IsFiniteSet(saved) /\ \A f \in saved : ~Meta[f].loader
    /\ SoundLists(reg) /\ LoadersWait(reg) /\ LoadersDone(reg)
    /\ running => AllFound(reg, scanned, TRUE) /\ AllFound(reg, scanned, FALSE)
    /\ running /\ fresh => \A f \in saved : Tried(reg, f)
    /\ dialogRows = [open |-> dialogRows.open, of |-> dialogRows.of]
    /\ dialogRows.open => \A f \in DOMAIN dialogRows.of :
          f \in Registered(reg) /\ ~Meta[f].loader /\ dialogRows.of[f] = (f \in reg.loaded)
    /\ configs \subseteq reg.loaded
    /\ ~running => ~dialogRows.open /\ configs = {}
    /\ fresh => ~dialogRows.open

LEMMA NoPluginsIs ==
    ASSUME NEW failing \in SUBSET PluginFile, NEW D
    PROVE  LET s == NoPlugins(failing) IN
           /\ SoundLists(s) /\ LoadersWait(s) /\ LoadersDone(s) /\ AllFound(s, D, FALSE)
           /\ s.failing = failing
<1> DEFINE s == NoPlugins(failing)
<1>1. /\ s.plugins = <<>> /\ s.queue = <<>> /\ s.loaded = {} /\ s.unloadable = {} /\ s.failing = failing
  BY DEF NoPlugins
<1>2. s \in PluginLists
  BY DEF NoPlugins, PluginLists
<1> HIDE DEF s
<1>3. Registered(s) = {} /\ Range(s.queue) = {}
  BY <1>1 DEF Registered, Range
<1>4. SoundLists(s)
  BY <1>1, <1>2, <1>3 DEF SoundLists, Distinct
<1>5. LoadersWait(s) /\ LoadersDone(s)
  BY <1>3 DEF LoadersWait, LoadersDone
<1>6. AllFound(s, D, FALSE)
  BY <1>1, VerdictIs DEF AllFound, Loaders
<1> QED
  BY <1>1, <1>4, <1>5, <1>6 DEF s

LEMMA PluginFilesStart ==
    ASSUME PluginFilesInit
    PROVE  PluginFilesSound
<1>1. reg = NoPlugins({}) /\ saved \in OldSaved /\ dialogRows = NoRows /\ configs = {} /\ ~running /\ ~fresh
  BY DEF PluginFilesInit
<1>2. saved \subseteq PluginFile /\ IsFiniteSet(saved) /\ \A f \in saved : ~Meta[f].loader
  BY <1>1, PluginFilesAssumption
<1>3. SoundLists(reg) /\ LoadersWait(reg) /\ LoadersDone(reg)
  BY <1>1, NoPluginsIs
<1> QED
  BY <1>1, <1>2, <1>3 DEF PluginFilesSound, NoRows

LEMMA SavedKeeps ==
    ASSUME NEW s, SoundLists(s)
    PROVE  /\ ToSave(s) \subseteq PluginFile /\ IsFiniteSet(ToSave(s))
           /\ \A f \in ToSave(s) : ~Meta[f].loader
<1>1. ToSave(s) \subseteq Registered(s)
  BY DEF ToSave, SoundLists
<1>2. Registered(s) \subseteq PluginFile /\ IsFiniteSet(Registered(s))
  BY ListsAre DEF SoundLists
<1>3. IsFiniteSet(ToSave(s))
  BY <1>1, <1>2, FS_Subset
<1> QED
  BY <1>1, <1>2, <1>3 DEF ToSave

LEMMA StartKeeps ==
    ASSUME PluginFilesSound, StartPlugins
    PROVE  PluginFilesSound'
<1>1. PICK failing \in SUBSET MayFail, order \in Orders(saved) :
        reg' = AllSavedLoaded(Probed(NoPlugins(failing)), order)
  BY DEF StartPlugins
<1>2. failing \subseteq PluginFile
  BY PluginFilesAssumption
<1>3. order \in Seq(PluginFile) /\ Range(order) = saved /\ NoLoaders(order)
  <2>1. Cardinality(saved) \in Nat
    BY FS_CardinalityType DEF PluginFilesSound
  <2>2. order \in [1..Cardinality(saved) -> saved] /\ Range(order) = saved
    BY DEF Orders
  <2>3. order \in Seq(PluginFile)
    BY <2>1, <2>2 DEF PluginFilesSound
  <2> QED
    BY <2>2, <2>3 DEF NoLoaders, PluginFilesSound
<1> DEFINE s == NoPlugins(failing)
           t == Probed(s)
<1>4. SoundLists(s) /\ LoadersWait(s) /\ AllFound(s, pluginDisk, FALSE)
  BY <1>2, NoPluginsIs
<1> HIDE DEF s
<1>5. SoundLists(t) /\ LoadersDone(t) /\ t.queue = <<>> /\ AllFound(t, pluginDisk, TRUE) /\ AllFound(t, pluginDisk, FALSE)
  BY <1>4, ProbedIs
<1> HIDE DEF t
<1>6. LoadersWait(t)
  BY <1>5 DEF LoadersWait, LoadersDone, Range
<1>7. SavedSoFar(t, reg', order, Len(order))
  BY <1>1, <1>3, <1>5, <1>6, AllSavedLoadedIs DEF Settled, s, t
<1>8. Settled(reg', pluginDisk) /\ \A f \in saved : Tried(reg', f)
  BY <1>3, <1>7 DEF SavedSoFar, Range
<1>9. /\ saved' = saved /\ scanned' = pluginDisk /\ dialogRows' = dialogRows /\ configs' = configs
      /\ ~running /\ running'
  BY DEF StartPlugins
<1>10. AllFound(reg', scanned', TRUE) /\ AllFound(reg', scanned', FALSE)
  BY <1>8, <1>9 DEF Settled
<1>11. ~dialogRows.open /\ configs = {}
  BY <1>9 DEF PluginFilesSound
<1> QED
  BY <1>8, <1>9, <1>10, <1>11 DEF PluginFilesSound, Settled, LoadersWait, LoadersDone, AllFound, Tried, SoundLists, Registered

\* A step that leaves the lists as they are and the dialog's rows true.
SameLists == reg' = reg /\ saved' = saved /\ scanned' = scanned /\ running' = running /\ fresh' = fresh

LEMMA SameListsKeep ==
    ASSUME PluginFilesSound, SameLists,
           \/ dialogRows' = dialogRows /\ configs' \subseteq reg.loaded /\ (configs' \subseteq configs \/ running)
           \/ dialogRows' = NoRows /\ configs' = {}
    PROVE  PluginFilesSound'
<1>1. CASE dialogRows' = dialogRows /\ configs' \subseteq reg.loaded /\ (configs' \subseteq configs \/ running)
  BY <1>1 DEF SameLists, PluginFilesSound, LoadersWait, LoadersDone, AllFound, Tried, SoundLists, Registered
<1>2. CASE dialogRows' = NoRows /\ configs' = {}
  BY <1>2 DEF SameLists, PluginFilesSound, LoadersWait, LoadersDone, AllFound, Tried, SoundLists, Registered, NoRows
<1> QED
  BY <1>1, <1>2

LEMMA StopKeeps ==
    ASSUME PluginFilesSound, StopPlugins
    PROVE  PluginFilesSound'
<1>1. /\ reg' = NoPlugins({}) /\ saved' = saved /\ dialogRows' = NoRows /\ configs' = {} /\ ~running' /\ ~fresh'
  BY DEF StopPlugins
<1> DEFINE s == NoPlugins({})
<1>2. SoundLists(s) /\ LoadersWait(s) /\ LoadersDone(s)
  BY NoPluginsIs
<1> HIDE DEF s
<1>3. SoundLists(reg') /\ LoadersWait(reg') /\ LoadersDone(reg')
  BY <1>1, <1>2 DEF s
<1> QED
  BY <1>1, <1>3 DEF PluginFilesSound, NoRows, SoundLists, LoadersWait, LoadersDone, Registered

\* The lists are read anew, the queue is forgotten.
LEMMA QueueForgotten ==
    ASSUME NEW s, SoundLists(s), LoadersDone(s)
    PROVE  LET t == [s EXCEPT !.queue = <<>>] IN
           /\ SoundLists(t) /\ LoadersWait(t) /\ LoadersDone(t) /\ Follows(s, t)
           /\ Loaders(t) = Loaders(s)
<1> DEFINE t == [s EXCEPT !.queue = <<>>]
<1>1. s \in PluginLists
  BY DEF SoundLists
<1>2. /\ t \in PluginLists /\ t.plugins = s.plugins /\ t.loaded = s.loaded /\ t.unloadable = s.unloadable
      /\ t.queue = <<>> /\ t.failing = s.failing
  <2> DEFINE q == <<>>
  <2>1. q \in Seq(PluginFile) /\ t = [s EXCEPT !.queue = q]
    OBVIOUS
  <2> HIDE DEF q, t
  <2>2. /\ t \in PluginLists /\ t.plugins = s.plugins /\ t.loaded = s.loaded /\ t.unloadable = s.unloadable
        /\ t.queue = q /\ t.failing = s.failing
    BY <1>1, <2>1 DEF PluginLists
  <2> QED
    BY <2>2 DEF q
<1> HIDE DEF t
<1>3. Registered(t) = Registered(s) /\ Range(t.queue) = {} /\ Distinct(t.queue)
  BY <1>2 DEF Registered, Range, Distinct
<1>4. \A g : Verdict(t, g) = Verdict(s, g)
  BY <1>2, SameVerdict, SameLoaders
<1>5. SoundLists(t)
  BY <1>2, <1>3, <1>4 DEF SoundLists
<1>6. LoadersWait(t) /\ LoadersDone(t)
  BY <1>2, <1>3 DEF LoadersWait, LoadersDone
<1>7. Follows(s, t)
  BY <1>2, <1>3 DEF Follows, Represented
<1>8. Loaders(t) = Loaders(s)
  BY <1>2, SameLoaders
<1> QED
  BY <1>5, <1>6, <1>7, <1>8 DEF t

LEMMA ShowKeeps ==
    ASSUME PluginFilesSound, ShowDialog
    PROVE  PluginFilesSound'
<1> DEFINE s == Probed(reg)
           r == ProbedForLoaders(s)
           t == [r EXCEPT !.queue = <<>>]
<1>1. SoundLists(reg) /\ LoadersWait(reg)
  BY DEF PluginFilesSound
<1>2. SoundLists(s) /\ LoadersDone(s) /\ Follows(reg, s) /\ s.queue = <<>> /\ AllFound(s, pluginDisk, TRUE)
  BY <1>1, ProbedIs
<1> HIDE DEF s
<1>3. LoadersWait(s)
  BY <1>2 DEF LoadersWait, LoadersDone, Range
<1>4. /\ SoundLists(r) /\ LoadersDone(r) /\ Follows(s, r)
      /\ AllFound(r, pluginDisk, TRUE) /\ AllFound(r, pluginDisk, FALSE)
  <2>1. CASE ~ \E f \in Range(s.plugins) : Meta[f].loader
    <3>1. r = s
      BY <2>1 DEF ProbedForLoaders
    <3> HIDE DEF r
    <3>2. Loaders(s) = {}
      BY <1>2, <2>1 DEF Loaders, SoundLists, Registered
    <3>3. AllFound(s, pluginDisk, FALSE)
      BY <3>2, VerdictIs DEF AllFound
    <3> QED
      BY <1>2, <3>1, <3>3, FollowsItself
  <2>2. CASE \E f \in Range(s.plugins) : Meta[f].loader
    <3>1. r = ProbedPlugins(s, FALSE)
      BY <2>2 DEF ProbedForLoaders
    <3> HIDE DEF r
    <3>2. /\ SoundLists(r) /\ r.loaded = s.loaded /\ Follows(s, r) /\ LoadersWait(r)
          /\ AllFound(r, pluginDisk, FALSE)
      BY <1>2, <1>3, <3>1, ProbedPluginsIs
    <3>3. AllFound(r, pluginDisk, TRUE)
      BY <1>2, <3>2, AllFoundKept
    <3>4. LoadersDone(r)
      <4>1. PICK l \in s.loaded : Meta[l].loader
        BY <1>2, <2>2 DEF LoadersDone, Registered
      <4>2. Registered(r) \subseteq PluginFile /\ s.loaded \subseteq PluginFile
        BY <1>2, <3>2, ListsAre DEF SoundLists
      <4> QED
        BY <3>2, <4>1, <4>2, PluginFilesAssumption DEF LoadersDone
    <3> QED
      BY <3>2, <3>3, <3>4
  <2> QED
    BY <2>1, <2>2
<1> HIDE DEF r
<1>5. SoundLists(t) /\ LoadersWait(t) /\ LoadersDone(t) /\ Follows(r, t) /\ Loaders(t) = Loaders(r)
  BY <1>4, QueueForgotten
<1>6. reg' = t
  BY DEF ShowDialog, t, r, s
<1> HIDE DEF t
<1>7. AllFound(t, pluginDisk, TRUE) /\ AllFound(t, pluginDisk, FALSE)
  BY <1>4, <1>5, AllFoundKept
<1>8. reg.loaded \subseteq t.loaded
  BY <1>2, <1>4, <1>5 DEF Follows
<1>9. /\ saved' = saved /\ running' = running /\ configs' = configs /\ ~fresh' /\ running
      /\ scanned' = pluginDisk
      /\ dialogRows' = DialogRowsOf(t)
  BY <1>6 DEF ShowDialog
<1>10. /\ dialogRows' = [open |-> dialogRows'.open, of |-> dialogRows'.of]
       /\ \A f \in DOMAIN dialogRows'.of :
             f \in Registered(t) /\ ~Meta[f].loader /\ dialogRows'.of[f] = (f \in t.loaded)
  BY <1>9 DEF DialogRowsOf, Registered
<1>11. configs' \subseteq t.loaded
  BY <1>8, <1>9 DEF PluginFilesSound
<1>12. SoundLists(reg') /\ LoadersWait(reg') /\ LoadersDone(reg')
  BY <1>5, <1>6
<1>13. AllFound(reg', scanned', TRUE) /\ AllFound(reg', scanned', FALSE)
  BY <1>6, <1>7, <1>9
<1> QED
  BY <1>6, <1>9, <1>10, <1>11, <1>12, <1>13
     DEF PluginFilesSound, SoundLists, LoadersWait, LoadersDone, AllFound, Registered

\* The lists when the load functions fail otherwise than before.
LEMMA FailingChanged ==
    ASSUME NEW s, NEW D, Settled(s, D), NEW failing \in SUBSET PluginFile
    PROVE  LET t == [s EXCEPT !.failing = failing] IN
           Settled(t, D) /\ Registered(t) = Registered(s) /\ t.loaded = s.loaded
<1> DEFINE t == [s EXCEPT !.failing = failing]
<1>1. SoundLists(s) /\ s \in PluginLists
  BY DEF SoundLists, Settled
<1>2. /\ t \in PluginLists /\ t.plugins = s.plugins /\ t.loaded = s.loaded /\ t.unloadable = s.unloadable
      /\ t.queue = s.queue
  BY <1>1 DEF PluginLists
<1> HIDE DEF t
<1>3. Registered(t) = Registered(s)
  BY <1>2 DEF Registered
<1>4. \A g : Verdict(t, g) = Verdict(s, g)
  BY <1>2, SameVerdict, SameLoaders
<1>5. SoundLists(t)
  BY <1>1, <1>2, <1>3, <1>4 DEF SoundLists
<1>6. LoadersWait(t) /\ LoadersDone(t)
  BY <1>2, <1>3 DEF Settled, LoadersWait, LoadersDone
<1>7. \A f : Represented(s, f) => Represented(t, f)
  BY <1>2, <1>3 DEF Represented
<1>8. AllFound(t, D, TRUE) /\ AllFound(t, D, FALSE)
  BY <1>4, <1>7 DEF AllFound, Settled
<1> QED
  BY <1>2, <1>3, <1>5, <1>6, <1>8 DEF Settled, t

LEMMA TurnOnKeeps ==
    ASSUME PluginFilesSound, NEW f \in PluginFile, TurnOn(f)
    PROVE  PluginFilesSound'
<1>1. PICK failing \in SUBSET MayFail : reg' = LoadedPlugin([reg EXCEPT !.failing = failing], f)
  BY DEF TurnOn
<1> DEFINE s == [reg EXCEPT !.failing = failing]
           t == LoadedPlugin(s, f)
           of == dialogRows.of
<1>2. /\ dialogRows.open /\ f \in DOMAIN of
      /\ saved' = ToSave(reg') /\ scanned' = scanned /\ running' = running /\ fresh' = fresh /\ configs' = configs
      /\ dialogRows' = [dialogRows EXCEPT !.of = [RowsChanged(reg, reg') EXCEPT ![f] = f \in reg'.loaded]]
  BY DEF TurnOn
<1>3. running /\ ~fresh /\ f \in Registered(reg) /\ dialogRows = [open |-> dialogRows.open, of |-> of]
  BY <1>2 DEF PluginFilesSound
<1>4. Settled(reg, scanned)
  BY <1>3 DEF PluginFilesSound, Settled
<1>5. failing \subseteq PluginFile
  BY PluginFilesAssumption
<1>6. Settled(s, scanned) /\ Registered(s) = Registered(reg) /\ s.loaded = reg.loaded
  BY <1>4, <1>5, FailingChanged
<1>7. reg' = t
  BY <1>1
<1> HIDE DEF s, t
<1>8. Loads(s, t, f, NeededPlugins(s, f))
  BY <1>3, <1>6, LoadedPluginIs DEF Settled, t
<1>9. Settled(t, scanned) /\ Registered(t) = Registered(reg) /\ reg.loaded \subseteq t.loaded
  BY <1>6, <1>8, LoadingKeepsSettled, LoadsFollows DEF Loads
<1>10. /\ dialogRows'.of = [RowsChanged(reg, t) EXCEPT ![f] = f \in t.loaded]
       /\ dialogRows' = [open |-> dialogRows'.open, of |-> dialogRows'.of]
  BY <1>2, <1>3, <1>7
<1>11. ASSUME NEW g \in DOMAIN dialogRows'.of
       PROVE  g \in Registered(t) /\ ~Meta[g].loader /\ dialogRows'.of[g] = (g \in t.loaded)
  <2>1. g \in DOMAIN of
    BY <1>10, <1>11 DEF RowsChanged
  <2>2. g \in Registered(reg) /\ ~Meta[g].loader /\ of[g] = (g \in reg.loaded)
    BY <1>2, <2>1 DEF PluginFilesSound
  <2>3. RowsChanged(reg, t)[g] = (g \in t.loaded)
    BY <2>1, <2>2 DEF RowsChanged
  <2>4. dialogRows'.of[g] = (g \in t.loaded)
    BY <1>10, <1>11, <2>3
  <2> QED
    BY <1>9, <2>2, <2>4
<1>12. configs' \subseteq t.loaded
  BY <1>2, <1>9 DEF PluginFilesSound
<1>13. saved' \subseteq PluginFile /\ IsFiniteSet(saved') /\ \A g \in saved' : ~Meta[g].loader
  BY <1>2, <1>7, <1>9, SavedKeeps DEF Settled
<1>14. Settled(reg', scanned')
  BY <1>2, <1>7, <1>9
<1> QED
  BY <1>2, <1>3, <1>7, <1>10, <1>11, <1>12, <1>13, <1>14
     DEF PluginFilesSound, Settled, SoundLists, LoadersWait, LoadersDone, AllFound, Registered

\* The lists when a plugin that is no loader is off, or will not be saved.
LEMMA TurnedOff ==
    ASSUME NEW s, NEW D, Settled(s, D), NEW f \in Registered(s), ~Meta[f].loader,
           NEW t, t = UnloadedPlugin(s, f) \/ t = RefusingPlugin(s, f)
    PROVE  /\ Settled(t, D) /\ Registered(t) = Registered(s)
           /\ t.loaded \subseteq s.loaded /\ s.loaded \ {f} \subseteq t.loaded
<1> DEFINE n == [g \in PluginFile |-> IF g \in NeededPlugins(s, f) /\ s.noted[g] > 0 THEN s.noted[g] - 1 ELSE s.noted[g]]
           u == [s EXCEPT !.noted = n]
<1>1. SoundLists(s) /\ s \in PluginLists
  BY DEF SoundLists, Settled
<1>2. f \in PluginFile
  BY <1>1, ListsAre
<1>3. n \in [PluginFile -> Nat]
  BY <1>1 DEF PluginLists
<1>4. Forgets(s, f) = u
  BY <1>1 DEF Forgets, PluginLists
<1> HIDE DEF n
<1>5. /\ u \in PluginLists /\ u.plugins = s.plugins /\ u.queue = s.queue /\ u.unloadable = s.unloadable
      /\ u.loaded = s.loaded /\ u.failing = s.failing
  BY <1>1, <1>3 DEF PluginLists
<1>6. \/ t = [u EXCEPT !.loaded = @ \ {f}, !.disabled = @ \ {f}]
      \/ t = [u EXCEPT !.disabled = @ \cup {f}]
  BY <1>4 DEF UnloadedPlugin, RefusingPlugin
<1> HIDE DEF u
<1>7. /\ t \in PluginLists /\ t.plugins = s.plugins /\ t.queue = s.queue /\ t.unloadable = s.unloadable
      /\ t.loaded \in {s.loaded, s.loaded \ {f}}
  <2> DEFINE l == u.loaded \ {f}
             d == u.disabled \ {f}
             e == u.disabled \cup {f}
  <2>1. l \subseteq PluginFile /\ d \subseteq PluginFile /\ e \subseteq PluginFile /\ l = s.loaded \ {f}
    BY <1>2, <1>5 DEF PluginLists
  <2>2. t = [u EXCEPT !.loaded = l, !.disabled = d] \/ t = [u EXCEPT !.disabled = e]
    BY <1>6
  <2> HIDE DEF l, d, e
  <2>3. CASE t = [u EXCEPT !.loaded = l, !.disabled = d]
    BY <1>5, <2>1, <2>3 DEF PluginLists
  <2>4. CASE t = [u EXCEPT !.disabled = e]
    BY <1>5, <2>1, <2>4 DEF PluginLists
  <2> QED
    BY <2>2, <2>3, <2>4
<1>8. Registered(t) = Registered(s) /\ Loaders(t) = Loaders(s)
  BY <1>7 DEF Registered, Loaders
<1>9. \A g : Verdict(t, g) = Verdict(s, g)
  BY <1>8, SameVerdict
<1>10. t.loaded \subseteq s.loaded /\ s.loaded \ {f} \subseteq t.loaded
  BY <1>7
<1>11. SoundLists(t)
  BY <1>1, <1>7, <1>8, <1>9, <1>10 DEF SoundLists
<1>12. LoadersWait(t) /\ LoadersDone(t)
  BY <1>7, <1>8 DEF Settled, LoadersWait, LoadersDone
<1>13. \A g : Represented(s, g) => Represented(t, g)
  BY <1>7, <1>8 DEF Represented
<1>14. AllFound(t, D, TRUE) /\ AllFound(t, D, FALSE)
  BY <1>9, <1>13 DEF AllFound, Settled
<1> QED
  BY <1>8, <1>10, <1>11, <1>12, <1>14 DEF Settled

LEMMA TurnOffKeeps ==
    ASSUME PluginFilesSound, NEW f \in PluginFile, TurnOff(f)
    PROVE  PluginFilesSound'
<1> DEFINE of == dialogRows.of
<1>1. /\ dialogRows.open /\ f \in DOMAIN of /\ f \in reg.loaded
      /\ scanned' = scanned /\ running' = running /\ fresh' = fresh /\ configs' = configs \ {f}
  BY DEF TurnOff
<1>2. /\ running /\ ~fresh /\ f \in Registered(reg) /\ ~Meta[f].loader
      /\ dialogRows = [open |-> dialogRows.open, of |-> of]
  BY <1>1 DEF PluginFilesSound
<1>3. CASE reg' = reg /\ dialogRows' = dialogRows /\ saved' = saved
  BY <1>1, <1>3, SameListsKeep DEF SameLists, PluginFilesSound
<1>4. CASE /\ reg' = UnloadedPlugin(reg, f) \/ reg' = RefusingPlugin(reg, f)
           /\ dialogRows' = [dialogRows EXCEPT !.of[f] = f \in reg'.loaded]
           /\ saved' = ToSave(reg')
  <2> DEFINE t == reg'
  <2>1. Settled(reg, scanned)
    BY <1>2 DEF PluginFilesSound, Settled
  <2>2. /\ Settled(t, scanned) /\ Registered(t) = Registered(reg)
        /\ t.loaded \subseteq reg.loaded /\ reg.loaded \ {f} \subseteq t.loaded
    BY <1>2, <1>4, <2>1, TurnedOff
  <2>3. /\ dialogRows'.of = [of EXCEPT ![f] = f \in t.loaded]
        /\ dialogRows' = [open |-> dialogRows'.open, of |-> dialogRows'.of]
    BY <1>2, <1>4
  <2>4. ASSUME NEW g \in DOMAIN dialogRows'.of
        PROVE  g \in Registered(t) /\ ~Meta[g].loader /\ dialogRows'.of[g] = (g \in t.loaded)
    <3>1. g \in DOMAIN of
      BY <2>3, <2>4
    <3>2. g \in Registered(reg) /\ ~Meta[g].loader /\ of[g] = (g \in reg.loaded)
      BY <1>1, <3>1 DEF PluginFilesSound
    <3>3. dialogRows'.of[g] = (g \in t.loaded)
      BY <2>2, <2>3, <3>1, <3>2
    <3> QED
      BY <2>2, <3>2, <3>3
  <2>5. configs' \subseteq t.loaded
    BY <1>1, <2>2 DEF PluginFilesSound
  <2>6. saved' \subseteq PluginFile /\ IsFiniteSet(saved') /\ \A g \in saved' : ~Meta[g].loader
    BY <1>4, <2>2, SavedKeeps DEF Settled
  <2>7. Settled(reg', scanned')
    BY <1>1, <2>2
  <2> HIDE DEF t
  <2> QED
    BY <1>1, <1>2, <2>3, <2>4, <2>5, <2>6, <2>7
       DEF PluginFilesSound, Settled, SoundLists, LoadersWait, LoadersDone, AllFound, Registered, t
<1> QED
  BY <1>3, <1>4 DEF TurnOff

LEMMA PluginFilesStep ==
    ASSUME PluginFilesSound, [PluginFilesNext]_pluginFileVars
    PROVE  PluginFilesSound'
<1>1. CASE StartPlugins
  BY <1>1, StartKeeps
<1>2. CASE StopPlugins
  BY <1>2, StopKeeps
<1>3. CASE ShowDialog
  BY <1>3, ShowKeeps
<1>4. CASE CloseDialog
  BY <1>4, SameListsKeep DEF CloseDialog, SameLists
<1>5. ASSUME NEW f \in PluginFile, DiskChanges(f) PROVE PluginFilesSound'
  BY <1>5, SameListsKeep DEF DiskChanges, SameLists, PluginFilesSound
<1>6. ASSUME NEW f \in PluginFile, TurnOn(f) PROVE PluginFilesSound'
  BY <1>6, TurnOnKeeps
<1>7. ASSUME NEW f \in PluginFile, TurnOff(f) PROVE PluginFilesSound'
  BY <1>7, TurnOffKeeps
<1>8. ASSUME NEW f \in PluginFile, Configure(f) PROVE PluginFilesSound'
  BY <1>8, SameListsKeep DEF Configure, SameLists, PluginFilesSound
<1>9. ASSUME NEW f \in PluginFile, CloseConfig(f) PROVE PluginFilesSound'
  BY <1>9, SameListsKeep DEF CloseConfig, SameLists, PluginFilesSound
<1>10. CASE UNCHANGED pluginFileVars
  BY <1>10, SameListsKeep DEF pluginFileVars, SameLists, PluginFilesSound
<1> QED
  BY <1>1, <1>2, <1>3, <1>4, <1>5, <1>6, <1>7, <1>8, <1>9, <1>10 DEF PluginFilesNext

LEMMA SoundMeansFound == ASSUME PluginFilesSound PROVE PluginsAreFound
<1>1. SoundLists(reg) /\ reg.plugins \in Seq(PluginFile) /\ Registered(reg) \subseteq PluginFile
  BY ListsAre DEF PluginFilesSound, SoundLists
<1>2. OneOfEachName
  BY <1>1 DEF OneOfEachName, SoundLists, Distinct, Registered, Range
<1>3. \A base : Named(reg, base) = {g \in Registered(reg) : Meta[g].base = base}
  BY <1>1, NamedIs
<1>4. GoodOnesAreFound
  <2> SUFFICES ASSUME running, NEW f \in scanned \cap FoundBySearch, Verdict(reg, f) = "good"
               PROVE  \E g \in Named(reg, Meta[f].base) : g \notin reg.unloadable
    BY DEF GoodOnesAreFound
  <2>1. Meta[f].native \in BOOLEAN
    BY PluginFilesAssumption, RangeIn DEF FoundBySearch
  <2>2. Represented(reg, f)
    BY <2>1 DEF AllFound, PluginFilesSound
  <2> QED
    BY <1>3, <2>2 DEF Represented
<1>5. SavedOnesAreLoaded
  BY DEF SavedOnesAreLoaded, PluginFilesSound, Tried, CanBeOn, Loadable
<1>6. DialogIsTrue
  BY DEF DialogIsTrue, PluginFilesSound, Registered
<1> QED
  BY <1>2, <1>4, <1>5, <1>6 DEF PluginsAreFound

\* Whatever files come and go, whichever load functions fail and whatever the user turns on
\* and off: of each name one plugin is registered, a good one where there is one; the
\* plugins of the last session are on again where they can be; and the rows of the dialog
\* and the windows with preferences show what is loaded (oul_plugin_probe, oul_plugins_probe,
\* oul_plugins_load_saved, gtkplugin.c).
THEOREM FoundAndShown == PluginFilesSpec => []PluginsAreFound
<1>1. PluginFilesInit => PluginFilesSound
  BY PluginFilesStart
<1>2. PluginFilesSound /\ [PluginFilesNext]_pluginFileVars => PluginFilesSound'
  BY PluginFilesStep
<1>3. PluginFilesSound => PluginsAreFound
  BY SoundMeansFound
<1> QED
  BY <1>1, <1>2, <1>3, PTL DEF PluginFilesSpec
=============================================================================
