------------------------ MODULE Preferences_proofs -------------------------
(***************************************************************************)
(* For every set of preferences, values and plugins: changes of settings   *)
(* are never forgotten while the program runs, the plugins of a session    *)
(* that was quit come back, and the file is always a whole snapshot.       *)
(*                                                                         *)
(* SettingsAreKept is not inductive: what quitting leaves behind depends   *)
(* on what the list of plugins was before it.  Kept adds how that list in  *)
(* memory follows the plugins loaded, and carries it through the save at   *)
(* quitting.                                                               *)
(*                                                                         *)
(* For every tree of preferences and any callbacks: everybody is told.  A  *)
(* notification goes up from the preference to the root, and the proof is  *)
(* that whoever has not been told is still ahead of one that is under way. *)
(***************************************************************************)
EXTENDS Preferences, PrefTree, FiniteSetTheorems, SequenceTheorems, WellFoundedInduction,
        TLAPS

\* The list L names the plugins of S, and others only if they failed to load.
Names(L, S) == S \subseteq L /\ L \subseteq S \cup failed

\* The file has everything but what was only added.
InFile == mem.list = file.list /\ \A p \in Pref \ added : mem.prefs[p] = file.prefs[p]

\* Each phase of the program, and what its next save or its end relies on.
Starting == phase = "starting" =>
    InFile /\ connected /\ to_disable = {}

Running == phase \in {"running", "sync"} => connected /\ Names(mem.list, ToSave(loaded, to_disable))

Quitting ==
    /\ phase = "q_sync" => Names(mem.list, atquit)
    /\ phase = "q_destroy" /\ ended # "disk" => Names(file.list, atquit)

Kept ==
    /\ SettingsAreKept
    /\ Starting
    /\ Running
    /\ Quitting

-----------------------------------------------------------------------------
(* The settings a session starts with. *)

LEMMA WithDefaultsType ==
    ASSUME NEW f \in Prefs
    PROVE  WithDefaults(f) \in Prefs /\ WithDefaults(f).list = f.list
BY PrefsAssumption DEF Prefs, WithDefaults

LEMMA NoFileType == NoFile \in Prefs
BY DEF NoFile, Prefs

LEMMA SetType ==
    ASSUME NEW m \in Prefs, NEW p \in Pref, NEW v \in Val
    PROVE  LET n == [m EXCEPT !.prefs[p] = v]
           IN  /\ n \in Prefs /\ n.list = m.list /\ n.prefs[p] = v
               /\ \A q \in Pref \ {p} : n.prefs[q] = m.prefs[q]
BY DEF Prefs

LEMMA ListType ==
    ASSUME NEW m \in Prefs, NEW S \in SUBSET Plugin
    PROVE  LET n == [m EXCEPT !.list = S]
           IN  n \in Prefs /\ n.list = S /\ n.prefs = m.prefs
BY DEF Prefs

-----------------------------------------------------------------------------
LEMMA InitKept == Init => Kept
<1> SUFFICES ASSUME Init PROVE Kept
  OBVIOUS
<1>1. file \in Prefs
  <2>1. CASE file = NoFile
    BY <2>1, NoFileType
  <2>2. ASSUME NEW S \in SUBSET Plugin, file = [prefs |-> [p \in Pref |-> default], list |-> S]
        PROVE  file \in Prefs
    BY <2>2, PrefsAssumption DEF Prefs
  <2> QED
    BY <2>1, <2>2 DEF Init
<1>2. mem \in Prefs
  BY <1>1, WithDefaultsType DEF Init
<1> QED
  BY <1>1, <1>2 DEF Init, Kept, SettingsAreKept, TypeOK, ChangesAreScheduled,
     PluginsComeBack, Starting, Running, Quitting

LEMMA NextKept ==
    ASSUME Kept, [Next]_vars
    PROVE  Kept'
<1> USE DEF Kept, SettingsAreKept
<1>1. CASE Start
  <2>1. mem' \in Prefs /\ mem'.list = file.list
    BY <1>1, WithDefaultsType DEF Start, TypeOK
  <2>2. added' \subseteq Pref /\ \A p \in Pref \ added' : mem'.prefs[p] = file'.prefs[p]
    BY <1>1 DEF Start
  <2> QED
    BY <1>1, <2>1, <2>2 DEF Start, TypeOK, ChangesAreScheduled,
       PluginsComeBack, Starting, Running, Quitting, InFile
<1>2. CASE LoadSaved
  BY <1>2 DEF LoadSaved, TypeOK, ChangesAreScheduled, PluginsComeBack,
     Starting, Running, Quitting, InFile, Names, ToSave, Prefs
<1>3. ASSUME NEW p \in Pref, NEW v \in Val, Set(p, v), phase \in {"running", "q_destroy"},
             UNCHANGED <<phase, file, temp, connected, plugins, ended>>
      PROVE  Kept'
  <2>1. /\ mem' \in Prefs /\ mem'.list = mem.list
        /\ \A q \in Pref \ {p} : mem'.prefs[q] = mem.prefs[q]
    BY <1>3, SetType DEF Set, TypeOK
  <2>2. added' \subseteq Pref /\ save_timer' \in BOOLEAN
    BY <1>3 DEF Set, Changed, TypeOK
  <2>3. save_timer => save_timer'
    BY <1>3 DEF Set, Changed
  <2>4. phase = "running" => save_timer' \/ added' = added \cup {p}
    BY <1>3 DEF Set, Changed, Running
  <2> QED
    BY <1>3, <2>1, <2>2, <2>3, <2>4 DEF plugins, TypeOK, ChangesAreScheduled,
       PluginsComeBack, Starting, Running, Quitting, Names, ToSave
<1>4. CASE AddPref
  <2>1. PICK p \in Pref : /\ mem' = [mem EXCEPT !.prefs[p] = default]
                          /\ added' = added \cup {p}
    BY <1>4 DEF AddPref
  <2>2. /\ mem' \in Prefs /\ mem'.list = mem.list
        /\ \A q \in Pref \ {p} : mem'.prefs[q] = mem.prefs[q]
    BY <2>1, SetType, PrefsAssumption DEF TypeOK
  <2> QED
    BY <1>4, <2>1, <2>2 DEF AddPref, plugins, TypeOK, ChangesAreScheduled,
       PluginsComeBack, Starting, Running, Quitting, Names, ToSave
<1>5. ASSUME NEW p \in Plugin, Toggle(p)
      PROVE  Kept'
  <2>1. loaded' \subseteq Plugin /\ to_disable' \subseteq loaded'
    BY <1>5 DEF Toggle, TypeOK
  <2>2. ToSave(loaded', to_disable') \in SUBSET Plugin
    BY <2>1 DEF ToSave
  <2>3. mem' \in Prefs /\ mem'.list = ToSave(loaded', to_disable')
    BY <1>5, <2>2, ListType DEF Toggle, TypeOK
  <2>4. save_timer'
    BY <1>5 DEF Toggle, Changed, Running
  <2> QED
    BY <1>5, <2>1, <2>3, <2>4 DEF Toggle, TypeOK, ChangesAreScheduled,
       PluginsComeBack, Starting, Running, Quitting, Names
<1>6. CASE SaveCb
  BY <1>6 DEF SaveCb, plugins, TypeOK, ChangesAreScheduled, PluginsComeBack,
     Starting, Running, Quitting, Names, ToSave
<1>7. CASE WriteTemp
  BY <1>7 DEF WriteTemp, Saving, plugins, TypeOK, ChangesAreScheduled,
     PluginsComeBack, Starting, Running, Quitting, Names, ToSave
<1>8. CASE Rename
  <2>1. file' = mem /\ mem' = mem
    BY <1>8 DEF Rename
  <2> QED
    BY <1>8, <2>1 DEF Rename, Saving, AfterSave, plugins, TypeOK, ChangesAreScheduled,
       PluginsComeBack, Starting, Running, Quitting, Names, ToSave
<1>9. CASE WriteFails
  BY <1>9 DEF WriteFails, Saving, AfterSave, plugins, TypeOK, ChangesAreScheduled,
     PluginsComeBack, Starting, Running, Quitting, Names, ToSave
<1>10. CASE Quit
  BY <1>10 DEF Quit, TypeOK, ChangesAreScheduled, PluginsComeBack,
     Starting, Running, Quitting, Names, ToSave
<1>11. CASE QuitUi
  <2>1. mem' \in Prefs /\ save_timer' \in BOOLEAN
    BY <1>11, ListType DEF QuitUi, Changed, TypeOK
  <2> QED
    BY <1>11, <2>1 DEF QuitUi, TypeOK, ChangesAreScheduled, PluginsComeBack,
       Starting, Running, Quitting, Names
<1>12. CASE Die
  BY <1>12 DEF Die, TypeOK, ChangesAreScheduled, PluginsComeBack,
     Starting, Running, Quitting
<1>13. CASE UNCHANGED vars
  BY <1>13 DEF vars, TypeOK, ChangesAreScheduled, PluginsComeBack,
     Starting, Running, Quitting, InFile, Names, ToSave
<1>14. CASE SetPref
  BY <1>3, <1>14 DEF SetPref
<1> QED
  BY <1>1, <1>2, <1>4, <1>5, <1>6, <1>7, <1>8, <1>9, <1>10, <1>11, <1>12, <1>13, <1>14
     DEF Next, Saves

LEMMA Invariant == Spec => []Kept
BY InitKept, NextKept, PTL DEF Spec

\* Nothing that was set is forgotten: while the program runs, what differs from
\* the file is scheduled to be saved, and the plugins loaded when the user quit
\* are in the file (schedule_prefs_save, oul_core_quit, beasy_plugins_save),
\* through failed writes, crashes and any number of sessions.
THEOREM KeptForever == Spec => []SettingsAreKept
<1>1. Kept => SettingsAreKept
  BY DEF Kept
<1> QED
  BY <1>1, Invariant, PTL

-----------------------------------------------------------------------------
(* The refinement. *)

LEMMA InitDurable == Init => Durable!Init
<1> SUFFICES ASSUME Init PROVE Durable!Init
  OBVIOUS
<1>1. file \in Prefs
  BY InitKept DEF Kept, SettingsAreKept, TypeOK
<1> QED
  BY <1>1 DEF Init, Durable!Init

LEMMA NextDurable ==
    ASSUME Kept, Kept', [Next]_vars
    PROVE  [Durable!Next]_<<mem, file>>
<1> USE DEF Durable!Next
<1>1. mem' \in Prefs
  BY DEF Kept, SettingsAreKept, TypeOK
<1>2. CASE Start
  BY <1>2 DEF Start, Durable!Restart
<1>3. CASE SetPref \/ AddPref \/ (\E p \in Plugin : Toggle(p)) \/ QuitUi
  BY <1>1, <1>3 DEF SetPref, AddPref, Toggle, QuitUi, Durable!Change
<1>4. CASE Rename
  BY <1>4 DEF Rename, Durable!Save
<1>5. CASE LoadSaved \/ SaveCb \/ WriteTemp \/ WriteFails \/ Quit \/ Die \/ UNCHANGED vars
  BY <1>5 DEF LoadSaved, SaveCb, WriteTemp, WriteFails, Quit, Die, vars
<1> QED
  BY <1>2, <1>3, <1>4, <1>5 DEF Next, Saves

\* prefs.c implements the promise of SavedSettings: the file only ever becomes
\* the settings in memory, all of them, and a session starts from the file,
\* whatever write fails and wherever the process dies between two steps.
THEOREM Durability == Spec => DurablePromise
<1>1. Init => Durable!Init
  BY InitDurable
<1>2. Kept /\ Kept' /\ [Next]_vars => [Durable!Next]_<<mem, file>>
  BY NextDurable
<1> QED
  BY <1>1, <1>2, Invariant, PTL DEF Spec, DurablePromise, Durable!Spec

-----------------------------------------------------------------------------
(* Numbers and lists, for the walks over the tree of preferences            *)

\* A set of natural numbers has a least one.
LEMMA Least ==
    ASSUME NEW S \in SUBSET Nat, S # {}
    PROVE  \E m \in S : \A n \in S : m <= n
<1>1. PICK x \in S : \A y \in S : ~ (<<y, x>> \in OpToRel(<, Nat))
  BY WFMin, NatLessThanWellFounded, Zenon
<1>2. \A y \in S : y < x => <<y, x>> \in OpToRel(<, Nat)
  BY DEF OpToRel
<1>3. \A y \in S : x \in Int /\ y \in Int
  OBVIOUS
<1>4. \A y \in S : ~ (y < x)
  BY <1>1, <1>2, Zenon
<1> QED
  BY <1>3, <1>4

\* A set with 0 and with the successors of its elements has all natural numbers.
LEMMA Induct ==
    ASSUME NEW S, 0 \in S, \A n \in Nat : n \in S => n + 1 \in S
    PROVE  \A n \in Nat : n \in S
<1> SUFFICES ASSUME Nat \ S # {} PROVE FALSE
  OBVIOUS
<1>1. PICK m \in Nat \ S : \A n \in Nat \ S : m <= n
  BY Least
<1>2. m # 0 /\ m - 1 \in Nat /\ m - 1 \in S
  BY <1>1
<1> QED
  BY <1>1, <1>2

LEMMA UpToIs ==
    ASSUME NEW n \in Nat
    PROVE  IsFiniteSet(1..n) /\ Cardinality(1..n) = n
<1>1. 1 \in Int /\ n \in Int /\ (1 > n => n = 0) /\ n - 1 + 1 = n
  OBVIOUS
<1> QED
  BY <1>1, FS_Interval

LEMMA FrontIs ==
    ASSUME NEW E, NEW l \in Seq(E), l # <<>>
    PROVE  /\ Front(l) \in Seq(E) /\ Len(l) \in DOMAIN l /\ Last(l) = l[Len(l)]
           /\ DOMAIN Front(l) = 1..(Len(l) - 1) /\ DOMAIN Front(l) \subseteq DOMAIN l
           /\ \A n \in DOMAIN Front(l) : Front(l)[n] = l[n] /\ n # Len(l)
<1>1. Len(l) \in Nat /\ Len(l) # 0 /\ \A n \in 1..Len(l) : l[n] \in E
  OBVIOUS
<1>2. /\ SubSeq(l, 1, Len(l) - 1) \in Seq(E) /\ Len(SubSeq(l, 1, Len(l) - 1)) = Len(l) - 1
      /\ \A n \in 1..(Len(l) - 1) : SubSeq(l, 1, Len(l) - 1)[n] = l[n]
  <2> DEFINE k == Len(l) - 1
  <2>1. k \in Nat /\ 1 \in 1..(Len(l) + 1) /\ k \in 0..Len(l)
    BY <1>1
  <2> HIDE DEF k
  <2>2. \A n \in 1 .. k - 1 + 1 : n \in 1..Len(l)
    BY <1>1, <2>1
  <2>3. /\ SubSeq(l, 1, k) \in Seq(E)
        /\ Len(SubSeq(l, 1, k)) = IF 1 <= k THEN k - 1 + 1 ELSE 0
        /\ \A n \in 1 .. k - 1 + 1 : SubSeq(l, 1, k)[n] = l[1 + n - 1]
    <3>1. \A n \in 1 .. k : l[n] \in E
      BY <1>1, <2>1 DEF k
    <3> QED
      BY <2>1, <3>1, SubSeqProperties
  <2>4. 1 .. k - 1 + 1 = 1..k /\ \A n \in 1..k : 1 + n - 1 = n
    BY <2>1
  <2>5. Len(SubSeq(l, 1, k)) = k /\ \A n \in 1..k : SubSeq(l, 1, k)[n] = l[n]
    BY <2>1, <2>3, <2>4
  <2> QED
    BY <2>3, <2>5 DEF k
<1>3. DOMAIN SubSeq(l, 1, Len(l) - 1) = 1..(Len(l) - 1)
  BY <1>2
<1> QED
  BY <1>1, <1>2, <1>3 DEF Front, Last

-----------------------------------------------------------------------------
(* The tree of preferences: lists and paths                                 *)

\* The fields of a callback.
LEMMA CallbackFields ==
    ASSUME NEW c \in CallbackData
    PROVE  c.id \in CallbackId /\ c.handle \in PrefHandle \cup {"prefs"}
BY DEF CallbackData

\* What remains of a list has the elements that stay at their places, in their order.
LEMMA RemainingIs ==
    ASSUME NEW l \in Seq(CallbackData), NEW ids
    PROVE  /\ Remaining(l, ids) \in Seq(CallbackData)
           /\ \A i \in Staying(l, ids) :
                PlaceLeft(l, ids, i) \in DOMAIN Remaining(l, ids) /\ Remaining(l, ids)[PlaceLeft(l, ids, i)] = l[i]
           /\ \A k \in DOMAIN Remaining(l, ids) : \E i \in Staying(l, ids) : PlaceLeft(l, ids, i) = k
           /\ \A i, j \in Staying(l, ids) : i < j => PlaceLeft(l, ids, i) < PlaceLeft(l, ids, j)
<1> DEFINE D == Staying(l, ids)
           n == Cardinality(D)
           place(i) == PlaceLeft(l, ids, i)
           upto(i) == {j \in D : j <= i}
           r == Remaining(l, ids)
<1>1. Len(l) \in Nat /\ DOMAIN l = 1..Len(l) /\ D \in SUBSET (1..Len(l)) /\ D \subseteq Int
  BY DEF Staying
<1>2. IsFiniteSet(D) /\ n \in Nat
  BY <1>1, UpToIs, FS_Subset, FS_CardinalityType
<1>3. \A i \in D : place(i) = Cardinality(upto(i))
  BY DEF PlaceLeft
<1> HIDE DEF D, n, place
<1>4. ASSUME NEW i \in D
      PROVE  /\ IsFiniteSet(upto(i)) /\ Cardinality(upto(i)) \in 1..Cardinality(D)
             /\ upto(i) \in SUBSET D
  <2>1. upto(i) \in SUBSET D /\ i \in upto(i)
    BY <1>1
  <2>2. IsFiniteSet(upto(i)) /\ Cardinality(upto(i)) \in Nat /\ Cardinality(upto(i)) <= Cardinality(D)
    BY <1>2, <2>1, FS_Subset, FS_CardinalityType
  <2>3. Cardinality(upto(i)) # 0
    BY <2>1, <2>2, FS_EmptySet
  <2> QED
    BY <1>2, <2>1, <2>2, <2>3 DEF n
<1>5. ASSUME NEW i \in D, NEW j \in D, i < j PROVE place(i) < place(j)
  <2>0. i \in Int /\ j \in Int /\ \A k \in D : k \in Int
    BY <1>1
  <2>4. \A k \in D : k <= i => k <= j
    BY <2>0, <1>5
  <2>5. j \notin upto(i) /\ j \in upto(j)
    BY <2>0, <1>5
  <2>1. upto(i) \in SUBSET upto(j) /\ j \in upto(j) /\ j \notin upto(i)
    BY <2>4, <2>5
  <2>2. upto(i) # upto(j)
    BY <2>1
  <2>3. /\ Cardinality(upto(i)) <= Cardinality(upto(j)) /\ Cardinality(upto(i)) # Cardinality(upto(j))
        /\ Cardinality(upto(i)) \in Nat /\ Cardinality(upto(j)) \in Nat
    BY <1>4, <2>1, <2>2, FS_Subset, FS_CardinalityType
  <2> QED
    BY <1>3, <2>3
<1>6. \A i \in D : place(i) \in 1..n
  BY <1>3, <1>4 DEF n
<1> HIDE DEF upto
<1>7. \A i, j \in D : place(i) = place(j) => i = j
  BY <1>1, <1>2, <1>5, <1>6
<1> DEFINE f == [i \in D |-> place(i)]
<1>8. \A k \in 1..n : \E i \in D : place(i) = k
  <2>1. f \in [D -> 1..n]
    BY <1>6
  <2>2. \A i, j \in D : f[i] = f[j] => i = j
    BY <1>7
  <2>3. \A i \in D : f[i] = place(i)
    OBVIOUS
  <2> HIDE DEF f
  <2>4. f \in Injection(D, 1..n)
    BY <2>1, <2>2 DEF Injection, IsInjective
  <2>5. IsFiniteSet(1..n) /\ Cardinality(1..n) = n
    BY <1>2, UpToIs
  <2>6. f \in Surjection(D, 1..n)
    BY <1>2, <2>4, <2>5, FS_Injection DEF n
  <2> QED
    BY <2>3, <2>6 DEF Surjection
<1> DEFINE at(k) == CHOOSE i \in D : place(i) = k
<1>9. \A k \in 1..n : at(k) \in D /\ place(at(k)) = k
  BY <1>8
<1>10. r = [k \in 1..n |-> l[at(k)]]
  BY Zenon DEF Remaining, D, n, place
<1>11. \A i \in D : at(place(i)) = i
  BY <1>6, <1>7, <1>9
<1> HIDE DEF at, r
<1>16. \A i \in 1..Len(l) : l[i] \in CallbackData
  OBVIOUS
<1>17. \A i \in D : i \in 1..Len(l)
  BY <1>1
<1>12. \A k \in 1..n : l[at(k)] \in CallbackData
  BY <1>9, <1>16, <1>17
<1>13. r \in Seq(CallbackData) /\ DOMAIN r = 1..n
  BY <1>2, <1>10, <1>12
<1>14. \A i \in D : place(i) \in DOMAIN r /\ r[place(i)] = l[i]
  BY <1>6, <1>10, <1>11, <1>13
<1>15. \A k \in DOMAIN r : \E i \in D : place(i) = k
  BY <1>8, <1>13
<1> QED
  BY <1>5, <1>13, <1>14, <1>15 DEF r, D, place

-----------------------------------------------------------------------------
\* The first names of a path.
LEMMA PathParts ==
    ASSUME NEW p \in Seq(STRING), NEW n \in 0..Len(p)
    PROVE  /\ SubSeq(p, 1, n) \in Seq(STRING) /\ Len(SubSeq(p, 1, n)) = n
           /\ \A i \in 1..n : SubSeq(p, 1, n)[i] = p[i]
           /\ \A m \in 0..n : SubSeq(SubSeq(p, 1, n), 1, m) = SubSeq(p, 1, m)
<1>1. Len(p) \in Nat /\ n \in Nat /\ n <= Len(p) /\ \A i \in 1..n : p[i] \in STRING
  OBVIOUS
<1>2. /\ SubSeq(p, 1, n) \in Seq(STRING) /\ Len(SubSeq(p, 1, n)) = n
      /\ \A i \in 1..n : SubSeq(p, 1, n)[i] = p[i]
  BY <1>1
<1>3. ASSUME NEW m \in 0..n PROVE SubSeq(SubSeq(p, 1, n), 1, m) = SubSeq(p, 1, m)
  <2> DEFINE q == SubSeq(p, 1, n)
  <2>1. m \in Nat /\ m <= n
    BY <1>1
  <2>2. q \in Seq(STRING) /\ Len(q) = n /\ \A i \in 1..n : q[i] = p[i]
    BY <1>2
  <2> HIDE DEF q
  <2>3. SubSeq(q, 1, m) \in Seq(STRING) /\ Len(SubSeq(q, 1, m)) = m /\ \A i \in 1..m : SubSeq(q, 1, m)[i] = q[i]
    BY <1>1, <2>1, <2>2
  <2>4. SubSeq(p, 1, m) \in Seq(STRING) /\ Len(SubSeq(p, 1, m)) = m /\ \A i \in 1..m : SubSeq(p, 1, m)[i] = p[i]
    BY <1>1, <2>1
  <2>5. \A i \in 1..m : SubSeq(q, 1, m)[i] = SubSeq(p, 1, m)[i]
    BY <1>1, <2>1, <2>2, <2>3, <2>4
  <2>6. SubSeq(q, 1, m) = SubSeq(p, 1, m)
    BY <2>3, <2>4, <2>5, SeqEqual
  <2> QED
    BY <2>6 DEF q
<1> QED
  BY <1>2, <1>3

\* Two paths above a third one: the shorter one is above the parent of the longer one.
LEMMA AboveOrdered ==
    ASSUME NEW p \in Seq(STRING), NEW q \in Above(p), NEW r \in Above(p)
    PROVE  /\ q \in Seq(STRING)
           /\ Len(r) = Len(q) => r = q
           /\ Len(r) < Len(q) => q # <<>> /\ r \in Above(Front(q))
<1>1. PICK n \in 0..Len(p) : q = SubSeq(p, 1, n)
  BY DEF Above
<1>2. PICK m \in 0..Len(p) : r = SubSeq(p, 1, m)
  BY DEF Above
<1>3. q \in Seq(STRING) /\ Len(q) = n /\ Len(r) = m
  BY <1>1, <1>2, PathParts
<1>4. ASSUME m < n PROVE q # <<>> /\ r \in Above(Front(q))
  <2>1. n \in Nat /\ m \in Nat /\ Len(p) \in Nat /\ n - 1 \in 0..Len(p) /\ m \in 0..n - 1 /\ n - 1 \in 0..n
    BY <1>4
  <2>2. Front(q) = SubSeq(p, 1, n - 1)
    BY <1>1, <1>3, <2>1, PathParts DEF Front
  <2>3. Len(SubSeq(p, 1, n - 1)) = n - 1 /\ r = SubSeq(SubSeq(p, 1, n - 1), 1, m)
    BY <1>2, <2>1, PathParts
  <2>4. r \in Above(Front(q))
    BY <2>1, <2>2, <2>3 DEF Above
  <2> QED
    BY <1>3, <1>4, <2>1, <2>4
<1> QED
  BY <1>1, <1>2, <1>3, <1>4

\* A path and the paths above it.
LEMMA AboveIs ==
    ASSUME NEW p \in Seq(STRING)
    PROVE  /\ p \in Above(p)
           /\ \A q \in Above(p) : q \in Seq(STRING) /\ Len(q) <= Len(p) /\ Above(q) \subseteq Above(p)
           /\ p # <<>> => Front(p) \in Above(p) /\ Above(p) = {p} \cup Above(Front(p))
           /\ p = <<>> => Above(p) = {p}
<1>1. Len(p) \in Nat /\ Len(p) \in 0..Len(p) /\ SubSeq(p, 1, Len(p)) = p
  BY SubSeqFull
<1>2. p \in Above(p)
  BY <1>1 DEF Above
<1>3. ASSUME NEW q \in Above(p)
      PROVE  q \in Seq(STRING) /\ Len(q) <= Len(p) /\ Above(q) \subseteq Above(p)
  <2>1. PICK n \in 0..Len(p) : q = SubSeq(p, 1, n)
    BY DEF Above
  <2>2. q \in Seq(STRING) /\ Len(q) = n /\ \A m \in 0..n : SubSeq(q, 1, m) = SubSeq(p, 1, m)
    BY <2>1, PathParts
  <2>3. \A m \in 0..n : m \in 0..Len(p)
    BY <1>1
  <2>4. Above(q) \subseteq Above(p)
    BY <2>2, <2>3 DEF Above
  <2> QED
    BY <1>1, <2>2, <2>4
<1>4. ASSUME p # <<>> PROVE Front(p) \in Above(p) /\ Above(p) = {p} \cup Above(Front(p))
  <2>1. Len(p) - 1 \in 0..Len(p)
    BY <1>1, <1>4
  <2>2. Front(p) \in Above(p)
    BY <2>1 DEF Above, Front
  <2>3. ASSUME NEW r \in Above(p), r # p PROVE r \in Above(Front(p))
    <3>1. Len(r) <= Len(p) /\ Len(r) # Len(p) /\ Len(r) \in Nat
      BY <1>2, <1>3, <2>3, AboveOrdered
    <3>2. Len(r) < Len(p)
      BY <1>1, <3>1
    <3> QED
      BY <1>2, <3>2, AboveOrdered
  <2> QED
    BY <1>2, <1>3, <2>2, <2>3
<1>5. p = <<>> => Above(p) = {p}
  <2> SUFFICES ASSUME p = <<>>, NEW r \in Above(p) PROVE r = p
    BY <1>2
  <2>1. Len(p) = 0 /\ Len(r) <= Len(p) /\ Len(r) \in Nat
    BY <1>3
  <2> QED
    BY <1>2, <2>1, AboveOrdered
<1> QED
  BY <1>2, <1>3, <1>4, <1>5

\* The paths above a known path are known paths.
LEMMA AbovePaths ==
    ASSUME PrefTreeAssumption, NEW p \in PrefPath
    PROVE  p \in Seq(STRING) /\ Above(p) \subseteq PrefPath
<1>1. PrefPath \subseteq Seq(STRING)
  BY DEF PrefTreeAssumption
<1> DEFINE S == {n \in Nat : \A q \in PrefPath : Len(q) = n => Above(q) \subseteq PrefPath}
<1>2. 0 \in S
  <2> SUFFICES ASSUME NEW q \in PrefPath, Len(q) = 0 PROVE Above(q) \subseteq PrefPath
    OBVIOUS
  <2>1. q \in Seq(STRING) /\ q = <<>>
    BY <1>1
  <2> QED
    BY <2>1, AboveIs
<1>3. ASSUME NEW n \in Nat, n \in S PROVE n + 1 \in S
  <2> SUFFICES ASSUME NEW q \in PrefPath, Len(q) = n + 1 PROVE Above(q) \subseteq PrefPath
    OBVIOUS
  <2>1. q \in Seq(STRING) /\ q # <<>>
    BY <1>1
  <2>2. Front(q) \in PrefPath
    BY <2>1 DEF PrefTreeAssumption
  <2>3. Len(Front(q)) = n
    BY <2>1 DEF Front
  <2>4. Above(Front(q)) \subseteq PrefPath
    BY <1>3, <2>2, <2>3
  <2> QED
    BY <2>1, <2>4, AboveIs
<1> HIDE DEF S
<1>4. \A n \in Nat : n \in S
  BY <1>2, <1>3, Induct
<1>5. p \in Seq(STRING) /\ Len(p) \in Nat
  BY <1>1
<1> QED
  BY <1>4, <1>5 DEF S

\* The fields of a preference; one that is absent has none.
LEMMA PrefFields ==
    ASSUME NEW n, IsPref(n)
    PROVE  /\ n.children \in Seq(STRING) /\ n.callbacks \in Seq(CallbackData)
           /\ n # NoPref <=> n.kind \in PrefKinds
           /\ n = NoPref => n.children = <<>> /\ n.callbacks = <<>>
BY DEF IsPref, NoPref, PrefKinds, Lists

\* A preference with other children.
LEMMA PrefWithChildren ==
    ASSUME NEW n, IsPref(n), n # NoPref, NEW c \in Seq(STRING)
    PROVE  /\ IsPref([n EXCEPT !.children = c]) /\ [n EXCEPT !.children = c] # NoPref
           /\ [n EXCEPT !.children = c].children = c
           /\ [n EXCEPT !.children = c].callbacks = n.callbacks
BY DEF IsPref, NoPref, PrefKinds, Lists

\* A preference with other callbacks.
LEMMA PrefWithCallbacks ==
    ASSUME NEW n, IsPref(n), NEW c \in Seq(CallbackData), n # NoPref \/ c = <<>>
    PROVE  /\ IsPref([n EXCEPT !.callbacks = c]) /\ ([n EXCEPT !.callbacks = c] # NoPref <=> n # NoPref)
           /\ [n EXCEPT !.callbacks = c].children = n.children
           /\ [n EXCEPT !.callbacks = c].callbacks = c
BY DEF IsPref, NoPref, PrefKinds, Lists

\* A preference with another value.
LEMMA PrefWithValue ==
    ASSUME NEW n, IsPref(n), n # NoPref, NEW v
    PROVE  /\ IsPref([n EXCEPT !.value = v]) /\ [n EXCEPT !.value = v] # NoPref
           /\ [n EXCEPT !.value = v].children = n.children
           /\ [n EXCEPT !.value = v].callbacks = n.callbacks
BY DEF IsPref, NoPref, PrefKinds, Lists

\* add_pref makes a preference without children and callbacks.
LEMMA NewPrefIs ==
    ASSUME NEW kind \in PrefKinds, NEW v
    PROVE  /\ IsPref(NewPref(kind, v)) /\ NewPref(kind, v) # NoPref
           /\ NewPref(kind, v).children = <<>> /\ NewPref(kind, v).callbacks = <<>>
<1> DEFINE n == NewPref(kind, v)
<1>1. n = [kind |-> kind, value |-> v, children |-> <<>>, callbacks |-> <<>>]
  <2> DEFINE e == <<>>
           m == NoPref
           k == kind
  <2>1. m = [kind |-> "absent", value |-> e, children |-> e, callbacks |-> e]
    BY DEF NoPref
  <2>2. n = [m EXCEPT !.kind = k, !.value = v]
    BY DEF NewPref
  <2> HIDE DEF e, m, n, k
  <2>3. n = [kind |-> k, value |-> v, children |-> e, callbacks |-> e]
    BY <2>1, <2>2
  <2> QED
    BY <2>3 DEF e, k
<1>2. NoPref.kind = "absent" /\ kind # "absent"
  BY DEF NoPref, PrefKinds, Lists
<1> HIDE DEF n
<1>3. n.kind = kind /\ n.value = v /\ n.children = <<>> /\ n.callbacks = <<>>
  BY <1>1
<1>4. <<>> \in Seq(STRING) /\ <<>> \in Seq(CallbackData)
  OBVIOUS
<1>5. IsPref(n) /\ n # NoPref
  BY <1>1, <1>2, <1>3, <1>4 DEF IsPref
<1> QED
  BY <1>3, <1>5 DEF n

\* A path is known by its parent and its name.
LEMMA PathIs ==
    ASSUME PrefTreeAssumption, NEW p \in PrefPath, p # <<>>
    PROVE  /\ Front(p) \in PrefPath /\ Last(p) \in STRING
           /\ Len(p) \in Nat /\ Len(Front(p)) = Len(p) - 1
           /\ \A q \in PrefPath \ {<<>>} : Front(q) = Front(p) /\ Last(q) = Last(p) => q = p
<1>1. \A q \in PrefPath : q \in Seq(STRING)
  BY DEF PrefTreeAssumption
<1>2. \A q \in PrefPath \ {<<>>} : Front(q) \in PrefPath
  BY DEF PrefTreeAssumption
<1>3. ASSUME NEW q \in PrefPath \ {<<>>}
      PROVE  /\ Len(Front(q)) = Len(q) - 1 /\ Len(q) \in Nat /\ Len(q) \in 1..Len(q)
             /\ Last(q) \in STRING /\ Last(q) = q[Len(q)]
             /\ \A i \in 1..(Len(q) - 1) : Front(q)[i] = q[i]
  <2>1. q \in Seq(STRING) /\ q # <<>>
    BY <1>1
  <2>2. Front(q) \in Seq(STRING) /\ DOMAIN Front(q) = 1..(Len(q) - 1)
        /\ Last(q) = q[Len(q)] /\ Len(q) \in DOMAIN q /\ \A n \in DOMAIN Front(q) : Front(q)[n] = q[n]
    BY <2>1, FrontIs
  <2>3. Len(q) \in Nat /\ Len(q) # 0 /\ Len(Front(q)) \in Nat /\ DOMAIN Front(q) = 1..Len(Front(q))
    BY <2>1, <2>2
  <2>4. Len(Front(q)) = Len(q) - 1
    BY <2>1, SMTT(30) DEF Front
  <2>5. Len(q) \in 1..Len(q) /\ Last(q) \in STRING
    BY <2>1, <2>2, <2>3
  <2> QED
    BY <2>2, <2>3, <2>4, <2>5
<1>4. ASSUME NEW q \in PrefPath \ {<<>>}, Front(q) = Front(p), Last(q) = Last(p) PROVE q = p
  <2>1. Len(q) = Len(p) /\ Len(p) \in Nat
    BY <1>3, <1>4
  <2>2. ASSUME NEW i \in 1..Len(q) PROVE q[i] = p[i]
    <3>1. CASE i = Len(q)
      BY <1>3, <1>4, <2>1, <3>1
    <3>2. CASE i # Len(q)
      <4>1. i \in 1..(Len(q) - 1)
        BY <2>1, <3>2
      <4>2. Front(q)[i] = q[i]
        BY <1>3, <4>1
      <4>3. Front(p)[i] = p[i]
        BY <1>3, <2>1, <4>1
      <4> QED
        BY <1>4, <4>2, <4>3
    <3> QED
      BY <3>1, <3>2
  <2>3. q \in Seq(STRING) /\ p \in Seq(STRING)
    BY <1>1
  <2> QED
    BY <2>1, <2>2, <2>3, SeqEqual
<1> QED
  BY <1>2, <1>3, <1>4

\* A name that is new among the children.
LEMMA OneMore ==
    ASSUME NEW S, NEW c \in Seq(S), NEW name \in S, name \notin ToSet(c)
    PROVE  /\ Append(c, name) \in Seq(S) /\ ToSet(Append(c, name)) = ToSet(c) \cup {name}
           /\ IsInjective(c) => IsInjective(Append(c, name))
<1> DEFINE d == Append(c, name)
<1>1. /\ d \in Seq(S) /\ DOMAIN d = 1..(Len(c) + 1) /\ DOMAIN c = 1..Len(c) /\ Len(c) \in Nat
      /\ d[Len(c) + 1] = name /\ \A i \in 1..Len(c) : d[i] = c[i]
  <2>3. Append(c, name) \in Seq(S) /\ Len(Append(c, name)) = Len(c) + 1
    OBVIOUS
  <2>4. Append(c, name)[Len(c) + 1] = name
    OBVIOUS
  <2>5. \A i \in 1..Len(c) : Append(c, name)[i] = c[i]
    OBVIOUS
  <2>1. /\ d \in Seq(S) /\ Len(d) = Len(c) + 1 /\ d[Len(c) + 1] = name
        /\ \A i \in 1..Len(c) : d[i] = c[i]
    BY <2>3, <2>4, <2>5
  <2>2. DOMAIN d = 1..Len(d) /\ DOMAIN c = 1..Len(c) /\ Len(c) \in Nat
    BY <2>1, LenProperties
  <2> QED
    BY <2>1, <2>2
<1> HIDE DEF d
<1>2. \A i \in DOMAIN d : i \in DOMAIN c \/ i = Len(c) + 1
  BY <1>1
<1>3. \A i \in DOMAIN c : c[i] # name /\ i \in DOMAIN d
  BY <1>1 DEF ToSet
<1>4. ToSet(d) = ToSet(c) \cup {name}
  <2>1. Len(c) + 1 \in DOMAIN d
    BY <1>1
  <2>2. ASSUME NEW x \in ToSet(d) PROVE x \in ToSet(c) \cup {name}
    BY <1>1, <1>2 DEF ToSet
  <2>3. ASSUME NEW x \in ToSet(c) PROVE x \in ToSet(d)
    BY <1>1, <1>3 DEF ToSet
  <2>4. name \in ToSet(d)
    BY <1>1, <2>1 DEF ToSet
  <2> QED
    BY <2>2, <2>3, <2>4
<1>5. IsInjective(c) => IsInjective(d)
  <2> SUFFICES ASSUME IsInjective(c), NEW i \in DOMAIN d, NEW j \in DOMAIN d, d[i] = d[j] PROVE i = j
    BY DEF IsInjective
  <2>1. CASE i \in DOMAIN c /\ j \in DOMAIN c
    BY <1>1, <2>1 DEF IsInjective
  <2>2. CASE i \notin DOMAIN c \/ j \notin DOMAIN c
    BY <1>1, <1>2, <1>3, <2>2
  <2> QED
    BY <2>1, <2>2
<1> QED
  BY <1>1, <1>4, <1>5 DEF d

\* A list of one.
LEMMA Single ==
    ASSUME NEW x
    PROVE  ToSet(<<x>>) = {x}
<1> DEFINE c == <<x>>
<1>1. c \in Seq({x}) /\ Len(c) = 1 /\ c[1] = x
  OBVIOUS
<1> HIDE DEF c
<1>2. DOMAIN c = 1..1
  BY <1>1
<1>3. ToSet(c) = {x}
  BY <1>1, <1>2 DEF ToSet
<1> QED
  BY <1>3 DEF c

\* Adding a preference.
LEMMA AddToIs ==
    ASSUME PrefTreeAssumption, NEW tree, TreeIsSound(tree), NEW p \in PrefPath \ {<<>>},
           NEW kind \in PrefKinds, NEW value
    PROVE  /\ TreeIsSound(AddTo(tree, p, kind, value))
           /\ \A q \in PrefPath : AddTo(tree, p, kind, value)[q].callbacks = tree[q].callbacks
<1> DEFINE f == Front(p)
           new == AddTo(tree, p, kind, value)
           c == Append(tree[f].children, Last(p))
<1>1. CASE ~Known(tree, f) \/ Last(p) \in ToSet(tree[f].children)
  BY <1>1 DEF AddTo
<1>2. CASE Known(tree, f) /\ Last(p) \notin ToSet(tree[f].children)
  <2>1. /\ f \in PrefPath /\ Last(p) \in STRING /\ Len(p) \in Nat /\ Len(f) = Len(p) - 1
        /\ \A q \in PrefPath \ {<<>>} : Front(q) = f /\ Last(q) = Last(p) => q = p
    BY PathIs
  <2>2. f # p
    BY <2>1
  <2>3. new = [tree EXCEPT ![p] = NewPref(kind, value), ![f].children = Append(@, Last(p))]
    BY <1>2 DEF AddTo
  <2>4. tree = [q \in PrefPath |-> tree[q]] /\ \A q \in PrefPath : IsPref(tree[q])
    BY DEF TreeIsSound
  <2>20. TableAgrees(tree)
    BY DEF TreeIsSound
  <2> HIDE DEF f
  <2>5. tree[f] # NoPref /\ IsPref(tree[f]) /\ tree[f].children \in Seq(STRING)
    BY <1>2, <2>1, <2>4, PrefFields DEF Known
  <2>6. c \in Seq(STRING) /\ ToSet(c) = ToSet(tree[f].children) \cup {Last(p)}
        /\ (IsInjective(tree[f].children) => IsInjective(c))
    BY <1>2, <2>1, <2>5, OneMore
  <2>7. /\ new = [q \in PrefPath |-> new[q]] /\ new[p] = NewPref(kind, value)
        /\ new[f] = [tree[f] EXCEPT !.children = c]
        /\ \A q \in PrefPath : q # p /\ q # f => new[q] = tree[q]
    BY <2>1, <2>2, <2>3, <2>4
  <2> HIDE DEF new, c
  <2>8. /\ IsPref(new[p]) /\ new[p] # NoPref /\ new[p].children = <<>> /\ new[p].callbacks = <<>>
    BY <2>7, NewPrefIs
  <2>9. /\ IsPref(new[f]) /\ new[f] # NoPref /\ new[f].children = c /\ new[f].callbacks = tree[f].callbacks
    <3>1. /\ IsPref([tree[f] EXCEPT !.children = c]) /\ [tree[f] EXCEPT !.children = c] # NoPref
          /\ [tree[f] EXCEPT !.children = c].children = c
          /\ [tree[f] EXCEPT !.children = c].callbacks = tree[f].callbacks
      BY <2>5, <2>6, PrefWithChildren, Zenon
    <3> QED
      BY <2>7, <3>1, Zenon
  <2>10. tree[p] = NoPref /\ tree[p].children = <<>> /\ tree[p].callbacks = <<>>
    <3>1. tree[p] = NoPref
      BY <1>2, <2>20 DEF TableAgrees, Known, f
    <3> QED
      BY <3>1 DEF NoPref
  <2>11. ASSUME NEW q \in PrefPath PROVE IsPref(new[q]) /\ new[q].callbacks = tree[q].callbacks
    BY <2>4, <2>7, <2>8, <2>9, <2>10
  <2>12. ASSUME NEW q \in PrefPath \ {<<>>} PROVE IsInjective(new[q].children)
    <3>1. IsInjective(tree[q].children)
      BY <2>20 DEF TableAgrees
    <3>2. IsInjective(<<>>)
      BY DEF IsInjective
    <3> QED
      BY <2>6, <2>7, <2>8, <2>9, <3>1, <3>2
  <2>13. ASSUME NEW q \in PrefPath \ {<<>>}
         PROVE  new[q] # NoPref <=> Last(q) \in ToSet(new[Front(q)].children)
    <3>1. tree[q] # NoPref <=> Last(q) \in ToSet(tree[Front(q)].children)
      BY <2>20 DEF TableAgrees, Known
    <3>2. Front(q) \in PrefPath /\ Len(q) \in Nat /\ Len(Front(q)) = Len(q) - 1
      BY PathIs
    <3>3. CASE Front(q) = f
      <4>1. q # f
        BY <3>2, <3>3
      <4>2. CASE q = p
        BY <2>6, <2>8, <2>9, <3>3, <4>2
      <4>3. CASE q # p
        <5>1. Last(q) # Last(p) /\ new[q] = tree[q]
          BY <2>1, <2>7, <3>3, <4>1, <4>3
        <5> QED
          BY <2>6, <2>9, <3>1, <3>3, <5>1
      <4> QED
        BY <4>2, <4>3
    <3>4. CASE Front(q) = p
      <4>1. q # p /\ q # f
        BY <2>1, <3>2, <3>4
      <4>2. new[q] = tree[q] /\ new[Front(q)].children = tree[Front(q)].children
        BY <2>7, <2>8, <2>10, <3>4, <4>1
      <4> QED
        BY <3>1, <4>2
    <3>5. CASE Front(q) # f /\ Front(q) # p
      <4>1. q # p
        BY <3>5 DEF f
      <4>2. new[Front(q)] = tree[Front(q)] /\ (new[q] # NoPref <=> tree[q] # NoPref)
        BY <2>5, <2>7, <2>9, <3>2, <3>5, <4>1
      <4> QED
        BY <3>1, <4>2
    <3> QED
      BY <3>3, <3>4, <3>5
  <2>14. TableAgrees(new)
    BY <2>12, <2>13 DEF TableAgrees, Known
  <2>15. TreeIsSound(new)
    BY <2>7, <2>11, <2>14 DEF TreeIsSound
  <2> QED
    BY <2>11, <2>15 DEF new
<1> QED
  BY <1>1, <1>2

\* A change of nodes that leaves the children and what is known.
Reshaped(tree, new) ==
    /\ new = [q \in PrefPath |-> new[q]]
    /\ \A q \in PrefPath : /\ IsPref(new[q]) /\ new[q].children = tree[q].children
                           /\ new[q] # NoPref <=> tree[q] # NoPref
LEMMA SameShape ==
    ASSUME PrefTreeAssumption, NEW tree, TreeIsSound(tree), NEW new, Reshaped(tree, new)
    PROVE  TreeIsSound(new)
<1>1. TableAgrees(tree)
  BY DEF TreeIsSound
<1>2. \A q \in PrefPath \ {<<>>} : Front(q) \in PrefPath
  BY DEF PrefTreeAssumption
<1>3. TableAgrees(new)
  BY <1>1, <1>2 DEF TableAgrees, Known, Reshaped
<1> QED
  BY <1>3 DEF TreeIsSound, Reshaped

\* oul_prefs_add_* and oul_prefs_set_* keep the callbacks.
LEMMA SetInIs ==
    ASSUME PrefTreeAssumption, NEW tree, TreeIsSound(tree), NEW p \in PrefPath \ {<<>>},
           NEW kind \in PrefKinds, NEW value
    PROVE  /\ TreeIsSound(SetIn(tree, p, kind, value))
           /\ \A q \in PrefPath : SetIn(tree, p, kind, value)[q].callbacks = tree[q].callbacks
<1> DEFINE v == Stored(kind, value)
           new == [tree EXCEPT ![p].value = v]
           set == SetIn(tree, p, kind, value)
<1>1. CASE ~Accepted(kind, value)
  <2>1. set = tree
    BY <1>1 DEF SetIn
  <2> QED
    BY <2>1
<1>2. CASE Accepted(kind, value) /\ ~Known(tree, p)
  <2>1. set = AddTo(tree, p, kind, v)
    BY <1>2 DEF SetIn
  <2> HIDE DEF set, v
  <2>2. TreeIsSound(set) /\ \A q \in PrefPath : set[q].callbacks = tree[q].callbacks
    BY <2>1, AddToIs
  <2> QED
    BY <2>2 DEF set
<1>3. CASE Accepted(kind, value) /\ Known(tree, p) /\ Fits(kind, tree[p])
  <2>1. set = new
    BY <1>3 DEF SetIn
  <2>2. tree = [q \in PrefPath |-> tree[q]] /\ \A q \in PrefPath : IsPref(tree[q])
    BY DEF TreeIsSound
  <2> HIDE DEF v
  <2>3. /\ new = [q \in PrefPath |-> new[q]] /\ new[p] = [tree[p] EXCEPT !.value = v]
        /\ \A q \in PrefPath : q # p => new[q] = tree[q]
    BY <2>2
  <2> HIDE DEF new, set
  <2>4. /\ IsPref(new[p]) /\ new[p] # NoPref
        /\ new[p].children = tree[p].children /\ new[p].callbacks = tree[p].callbacks
    <3>1. IsPref(tree[p]) /\ tree[p] # NoPref
      BY <1>3, <2>2 DEF Known
    <3>2. /\ IsPref([tree[p] EXCEPT !.value = v]) /\ [tree[p] EXCEPT !.value = v] # NoPref
          /\ [tree[p] EXCEPT !.value = v].children = tree[p].children
          /\ [tree[p] EXCEPT !.value = v].callbacks = tree[p].callbacks
      BY <3>1, PrefWithValue, Zenon
    <3> QED
      BY <2>3, <3>2, Zenon
  <2>5. \A q \in PrefPath : /\ IsPref(new[q]) /\ new[q].children = tree[q].children
                            /\ new[q] # NoPref <=> tree[q] # NoPref
                            /\ new[q].callbacks = tree[q].callbacks
    <3> SUFFICES ASSUME NEW q \in PrefPath
                 PROVE  /\ IsPref(new[q]) /\ new[q].children = tree[q].children
                        /\ new[q] # NoPref <=> tree[q] # NoPref
                        /\ new[q].callbacks = tree[q].callbacks
      OBVIOUS
    <3>3. tree[p] # NoPref
      BY <1>3 DEF Known
    <3>1. CASE q = p
      BY <2>4, <3>1, <3>3
    <3>2. CASE q # p
      BY <2>2, <2>3, <3>2
    <3> QED
      BY <3>1, <3>2
  <2>6. TreeIsSound(new)
    <3>1. Reshaped(tree, new)
      BY <2>3, <2>5 DEF Reshaped
    <3> QED
      BY <3>1, SameShape
  <2>7. TreeIsSound(set) /\ \A q \in PrefPath : set[q].callbacks = tree[q].callbacks
    BY <2>1, <2>5, <2>6
  <2> QED
    BY <2>7 DEF set
<1>4. CASE Accepted(kind, value) /\ Known(tree, p) /\ ~Fits(kind, tree[p])
  <2>1. set = tree
    BY <1>4 DEF SetIn
  <2> QED
    BY <2>1
<1> QED
  BY <1>1, <1>2, <1>3, <1>4

\* No callback is connected twice.
IdsOnce(tree) ==
    \A p, q \in PrefPath :
        \A i \in DOMAIN tree[p].callbacks, j \in DOMAIN tree[q].callbacks :
            tree[p].callbacks[i].id = tree[q].callbacks[j].id => p = q /\ i = j

\* Every preference has a list of callbacks.
Connections(tree) == \A p \in PrefPath : tree[p].callbacks \in Seq(CallbackData)

\* The callbacks after the one with this id, in its list or above it.
Before(tree, p, a, b) ==
    \E i, j \in DOMAIN tree[p].callbacks :
        i < j /\ tree[p].callbacks[i].id = a /\ tree[p].callbacks[j].id = b
Later(tree, at, id, other) ==
    \/ Before(tree, at, id, other)
    \/ at # <<>> /\ \E q \in Above(Front(at)) : other \in CallbackIds(tree, q)

\* The ids of the callbacks of a preference.
LEMMA IdsAre ==
    ASSUME NEW tree, Connections(tree), NEW p \in PrefPath
    PROVE  /\ CallbackIds(tree, p) \subseteq CallbackId
           /\ \A id : id \in CallbackIds(tree, p) <=>
                        \E i \in DOMAIN tree[p].callbacks : tree[p].callbacks[i].id = id
<1> DEFINE l == tree[p].callbacks
<1>1. l \in Seq(CallbackData)
  BY DEF Connections
<1>2. \A id : id \in CallbackIds(tree, p) <=> \E i \in DOMAIN l : l[i].id = id
  BY DEF CallbackIds, ToSet
<1> HIDE DEF l
<1>3. \A i \in DOMAIN l : l[i] \in CallbackData
  BY <1>1
<1>4. \A i \in DOMAIN l : l[i].id \in CallbackId
  BY <1>3, CallbackFields
<1> QED
  BY <1>2, <1>4 DEF l

\* What goes on is at a callback above p, and what remains to be told of S is later.
GoesOn(tree, p, S, node) ==
    /\ node = <<>> => S = {}
    /\ node # <<>> =>
        \E q \in Above(p) : \E id \in CallbackIds(tree, q) :
            node = <<q, id>> /\ \A o \in S : o = id \/ Later(tree, q, id, o)

\* The longest of some paths above a path.
LEMMA Longest ==
    ASSUME NEW p \in Seq(STRING), NEW H \in SUBSET Above(p), H # {}
    PROVE  \E q \in H : \A o \in H : Len(o) <= Len(q)
<1>1. \A q \in H : Len(q) \in Nat /\ Len(q) <= Len(p)
  BY AboveIs
<1>2. Len(p) \in Nat
  OBVIOUS
<1> DEFINE D == {n \in Nat : \E q \in H : Len(q) + n = Len(p)}
<1>3. \A q \in H : Len(p) - Len(q) \in D
  <2> SUFFICES ASSUME NEW q \in H PROVE Len(p) - Len(q) \in D
    OBVIOUS
  <2>1. Len(p) - Len(q) \in Nat /\ Len(q) + (Len(p) - Len(q)) = Len(p)
    BY <1>1, <1>2
  <2> QED
    BY <2>1
<1>4. D # {} /\ D \in SUBSET Nat
  BY <1>3
<1>5. PICK n \in D : \A m \in D : n <= m
  BY <1>4, Least
<1>6. PICK q \in H : Len(q) + n = Len(p)
  BY <1>5
<1> HIDE DEF D
<1>7. ASSUME NEW o \in H PROVE Len(o) <= Len(q)
  <2>1. n <= Len(p) - Len(o) /\ n \in Nat
    BY <1>3, <1>4, <1>5
  <2>2. Len(o) \in Nat /\ Len(q) \in Nat
    BY <1>1
  <2> QED
    BY <1>2, <1>6, <2>1, <2>2
<1> QED
  BY <1>7

\* do_callbacks starts at a callback that all others above the preference are later than.
LEMMA FirstFromIs ==
    ASSUME PrefTreeAssumption, NEW tree, Connections(tree), NEW p \in PrefPath
    PROVE  GoesOn(tree, p, UNION {CallbackIds(tree, q) : q \in Above(p)}, FirstFrom(tree, p))
<1> DEFINE having == {q \in Above(p) : tree[q].callbacks # <<>>}
           S == UNION {CallbackIds(tree, q) : q \in Above(p)}
           node == FirstFrom(tree, p)
<1> SUFFICES GoesOn(tree, p, S, node)
  OBVIOUS
<1>1. p \in Seq(STRING) /\ Above(p) \subseteq PrefPath
  BY AbovePaths
<1>2. \A q \in Above(p) : tree[q].callbacks \in Seq(CallbackData)
  BY <1>1 DEF Connections
<1>3. ASSUME NEW q \in Above(p), tree[q].callbacks = <<>> PROVE CallbackIds(tree, q) = {}
  BY <1>3 DEF CallbackIds, ToSet
<1>4. CASE having = {}
  <2>1. node = <<>>
    BY <1>4 DEF FirstFrom
  <2>2. S = {}
    BY <1>3, <1>4
  <2> QED
    BY <2>1, <2>2 DEF GoesOn
<1>5. CASE having # {}
  <2> DEFINE q == CHOOSE q \in having : \A o \in having : Len(o) <= Len(q)
             l == tree[q].callbacks
             id == Head(l).id
  <2>1. q \in having /\ \A o \in having : Len(o) <= Len(q)
    <3>1. having \in SUBSET Above(p)
      OBVIOUS
    <3> HIDE DEF having
    <3>2. \E r \in having : \A o \in having : Len(o) <= Len(r)
      BY <1>1, <1>5, <3>1, Longest
    <3> QED
      BY <3>2
  <2>2. node = <<q, id>>
    BY <1>5 DEF FirstFrom
  <2> HIDE DEF q, node
  <2>3. q \in Above(p) /\ l \in Seq(CallbackData) /\ l # <<>>
    BY <1>2, <2>1
  <2>4. Head(l) = l[1] /\ 1 \in DOMAIN l
    BY <2>3
  <2>5. id \in CallbackIds(tree, q)
    BY <1>1, <2>3, <2>4, IdsAre
  <2>6. ASSUME NEW r \in Above(p), NEW o \in CallbackIds(tree, r)
        PROVE  o = id \/ Later(tree, q, id, o)
    <3>1. r \in having
      BY <1>3, <2>6
    <3>2. Len(r) <= Len(q) /\ Len(r) \in Nat /\ Len(q) \in Nat
      BY <1>1, <2>1, <2>3, <3>1, AboveIs
    <3>3. CASE Len(r) < Len(q)
      <4>1. q # <<>> /\ r \in Above(Front(q))
        BY <1>1, <2>3, <3>3, AboveOrdered
      <4> QED
        BY <4>1 DEF Later
    <3>4. CASE Len(r) = Len(q)
      <4>1. r = q
        BY <1>1, <2>3, <3>4, AboveOrdered
      <4>2. PICK j \in DOMAIN l : l[j].id = o
        BY <1>1, <2>3, <4>1, IdsAre
      <4>3. j = 1 \/ 1 < j
        BY <2>3
      <4>4. CASE 1 < j
        BY <2>4, <4>2, <4>4 DEF Later, Before
      <4> QED
        BY <2>4, <4>2, <4>3, <4>4
    <3> QED
      BY <3>2, <3>3, <3>4
  <2>7. \A o \in S : o = id \/ Later(tree, q, id, o)
    BY <2>6
  <2> HIDE DEF S, id, l
  <2> QED
    BY <1>5, <2>2, <2>3, <2>5, <2>7 DEF GoesOn
<1> QED
  BY <1>4, <1>5

\* do_callbacks goes on, and misses nobody who is later.
LEMMA AfterCallbackIs ==
    ASSUME PrefTreeAssumption, NEW tree, Connections(tree), IdsOnce(tree), NEW p \in PrefPath,
           NEW id \in CallbackIds(tree, p)
    PROVE  GoesOn(tree, p, {o \in CallbackId : Later(tree, p, id, o)}, AfterCallback(tree, p, id))
<1> DEFINE l == tree[p].callbacks
           k == CHOOSE k \in DOMAIN l : l[k].id = id
           S == {o \in CallbackId : Later(tree, p, id, o)}
           node == AfterCallback(tree, p, id)
<1> SUFFICES GoesOn(tree, p, S, node)
  OBVIOUS
<1>1. p \in Seq(STRING) /\ Above(p) \subseteq PrefPath /\ p \in Above(p)
  BY AbovePaths, AboveIs
<1>2. l \in Seq(CallbackData)
  BY DEF Connections
<1>3. k \in DOMAIN l /\ l[k].id = id
  BY IdsAre
<1>4. node = IF k < Len(l) THEN <<p, l[k + 1].id>>
             ELSE IF p = <<>> THEN <<>> ELSE FirstFrom(tree, Front(p))
  BY DEF AfterCallback
<1>5. \A i \in DOMAIN l : l[i].id = id => i = k
  BY <1>3 DEF IdsOnce
<1> HIDE DEF k, node
<1>6. k \in 1..Len(l) /\ Len(l) \in Nat
  BY <1>2, <1>3
<1>7. \A o : Before(tree, p, id, o) => \E j \in DOMAIN l : k < j /\ l[j].id = o
  BY <1>5 DEF Before
<1>8. CASE k < Len(l)
  <2> DEFINE n == l[k + 1].id
  <2>1. k + 1 \in DOMAIN l
    BY <1>2, <1>6, <1>8
  <2>2. n \in CallbackIds(tree, p)
    BY <2>1, IdsAre
  <2>3. ASSUME NEW o \in S PROVE o = n \/ Later(tree, p, n, o)
    <3>1. Later(tree, p, id, o)
      OBVIOUS
    <3>2. CASE Before(tree, p, id, o)
      <4>1. PICK j \in DOMAIN l : k < j /\ l[j].id = o
        BY <1>7, <3>2
      <4>2. j = k + 1 \/ k + 1 < j
        BY <1>2, <1>6, <4>1
      <4>3. CASE k + 1 < j
        BY <2>1, <4>1, <4>3 DEF Later, Before
      <4> QED
        BY <4>1, <4>2, <4>3
    <3>3. CASE ~Before(tree, p, id, o)
      BY <3>1, <3>3 DEF Later
    <3> QED
      BY <3>2, <3>3
  <2>4. node = <<p, n>>
    BY <1>4, <1>8
  <2> HIDE DEF S, n
  <2> QED
    BY <1>1, <2>2, <2>3, <2>4 DEF GoesOn
<1>9. CASE ~(k < Len(l))
  <2>1. \A o : ~Before(tree, p, id, o)
    <3> SUFFICES ASSUME NEW j \in DOMAIN l, k < j PROVE FALSE
      BY <1>7
    <3> QED
      BY <1>2, <1>6, <1>9
  <2>2. CASE p = <<>>
    <3>1. node = <<>>
      BY <1>4, <1>9, <2>2
    <3>2. S = {}
      BY <2>1, <2>2 DEF Later
    <3> QED
      BY <3>1, <3>2 DEF GoesOn
  <2>3. CASE p # <<>>
    <3> DEFINE f == Front(p)
               T == UNION {CallbackIds(tree, q) : q \in Above(f)}
    <3>1. f \in PrefPath /\ Above(f) \subseteq Above(p)
      BY <1>1, <2>3, AboveIs DEF PrefTreeAssumption
    <3>2. GoesOn(tree, f, T, node)
      BY <1>4, <1>9, <2>3, <3>1, FirstFromIs
    <3>3. S \subseteq T
      BY <2>1 DEF Later
    <3> HIDE DEF f, S, T
    <3> QED
      BY <3>1, <3>2, <3>3 DEF GoesOn
  <2> QED
    BY <2>2, <2>3
<1> QED
  BY <1>8, <1>9 DEF node

-----------------------------------------------------------------------------
(* Walks                                                                    *)

\* A walk is at a callback of the preference or of one above it.
IsWalk(w, tree) ==
    /\ w = [pref |-> w.pref, value |-> w.value, at |-> w.at, id |-> w.id]
    /\ w.pref \in PrefPath /\ w.at \in Above(w.pref) /\ w.id \in CallbackIds(tree, w.at)

\* The stack of the walks under way.
WalksAre(calls, tree) ==
    /\ \E S : calls \in Seq(S)
    /\ \A k \in 1..Len(calls) : IsWalk(calls[k], tree)

\* A walk will come to the callback that is to be told.
WillBeTold(calls, tree, o) ==
    /\ o = <<o[1], o[2]>> /\ o[1] \in CallbackId
    /\ \E k \in 1..Len(calls) : calls[k].pref = o[2] /\ Later(tree, calls[k].at, calls[k].id, o[1])

\* A list of anything with one more element.
LEMMA Appended ==
    ASSUME NEW S, NEW l \in Seq(S), NEW x
    PROVE  /\ \E T : Append(l, x) \in Seq(T)
           /\ Len(l) \in Nat /\ Len(Append(l, x)) = Len(l) + 1 /\ Append(l, x)[Len(l) + 1] = x
           /\ \A i \in 1..Len(l) : Append(l, x)[i] = l[i]
<1> DEFINE T == S \cup {x}
<1>1. \A s \in S : s \in T
  OBVIOUS
<1>2. x \in T
  OBVIOUS
<1> HIDE DEF T
<1>3. l \in Seq(T)
  BY <1>1
<1>4. /\ Append(l, x) \in Seq(T) /\ Len(l) \in Nat /\ Len(Append(l, x)) = Len(l) + 1
      /\ Append(l, x)[Len(l) + 1] = x
      /\ \A i \in 1..Len(l) : Append(l, x)[i] = l[i]
  BY <1>2, <1>3
<1> QED
  BY <1>4

\* From a tree to a later one: the callbacks of K that were connected are connected, in
\* the same order.
KeepsOrder(tree, new, K) ==
    \A p \in PrefPath :
        /\ \A a \in K : a \in CallbackIds(tree, p) => a \in CallbackIds(new, p)
        /\ \A a, b \in K : Before(tree, p, a, b) => Before(new, p, a, b)

\* What is later stays later.
LEMMA LaterKept ==
    ASSUME PrefTreeAssumption, NEW tree, NEW new, NEW K, KeepsOrder(tree, new, K), NEW p \in PrefPath,
           NEW a \in K, NEW b \in K, Later(tree, p, a, b)
    PROVE  Later(new, p, a, b)
<1>1. CASE Before(tree, p, a, b)
  BY <1>1 DEF Later, KeepsOrder
<1>2. CASE ~Before(tree, p, a, b)
  <2>1. PICK q \in Above(Front(p)) : b \in CallbackIds(tree, q)
    BY <1>2 DEF Later
  <2>2. p # <<>>
    BY <1>2 DEF Later
  <2>3. Front(p) \in PrefPath
    BY <2>2 DEF PrefTreeAssumption
  <2>4. q \in PrefPath
    BY <2>3, AbovePaths
  <2>5. b \in CallbackIds(new, q)
    BY <2>1, <2>4 DEF KeepsOrder
  <2> QED
    BY <2>1, <2>2, <2>5 DEF Later
<1> QED
  BY <1>1, <1>2

\* Walks go on in a tree that keeps the order of their callbacks.
LEMMA WalksKept ==
    ASSUME PrefTreeAssumption, NEW tree, NEW new, NEW K, KeepsOrder(tree, new, K),
           NEW calls, WalksAre(calls, tree), \A k \in 1..Len(calls) : calls[k].id \in K
    PROVE  /\ WalksAre(calls, new)
           /\ \A o : o[1] \in K /\ WillBeTold(calls, tree, o) => WillBeTold(calls, new, o)
<1>1. ASSUME NEW k \in 1..Len(calls)
      PROVE  IsWalk(calls[k], tree) /\ calls[k].at \in PrefPath
  <2>1. IsWalk(calls[k], tree)
    BY DEF WalksAre
  <2>2. calls[k].pref \in PrefPath /\ calls[k].at \in Above(calls[k].pref)
    BY <2>1 DEF IsWalk
  <2> QED
    BY <2>1, <2>2, AbovePaths
<1>2. \A k \in 1..Len(calls) : IsWalk(calls[k], new)
  BY <1>1 DEF IsWalk, KeepsOrder
<1>3. WalksAre(calls, new)
  BY <1>2 DEF WalksAre
<1>4. ASSUME NEW o, o[1] \in K, WillBeTold(calls, tree, o) PROVE WillBeTold(calls, new, o)
  <2>1. PICK k \in 1..Len(calls) : calls[k].pref = o[2] /\ Later(tree, calls[k].at, calls[k].id, o[1])
    BY <1>4 DEF WillBeTold
  <2>2. Later(new, calls[k].at, calls[k].id, o[1])
    BY <1>1, <1>4, <2>1, LaterKept
  <2> QED
    BY <1>4, <2>1, <2>2 DEF WillBeTold
<1> QED
  BY <1>3, <1>4

\* Callbacks stay at their places.
LEMMA GrowthKeeps ==
    ASSUME NEW tree, NEW new, Connections(tree), Connections(new),
           \A p \in PrefPath : \A i \in DOMAIN tree[p].callbacks :
                i \in DOMAIN new[p].callbacks /\ new[p].callbacks[i].id = tree[p].callbacks[i].id
    PROVE  KeepsOrder(tree, new, CallbackId)
<1>1. ASSUME NEW p \in PrefPath, NEW a \in CallbackIds(tree, p) PROVE a \in CallbackIds(new, p)
  <2>1. PICK i \in DOMAIN tree[p].callbacks : tree[p].callbacks[i].id = a
    BY IdsAre
  <2> QED
    BY <2>1, IdsAre
<1>2. ASSUME NEW p \in PrefPath, NEW a, NEW b, Before(tree, p, a, b) PROVE Before(new, p, a, b)
  BY <1>2 DEF Before
<1> QED
  BY <1>1, <1>2 DEF KeepsOrder

-----------------------------------------------------------------------------
(* Calling                                                                  *)

\* A walk at another callback.
LEMMA WalkMoves ==
    ASSUME NEW w, w = [pref |-> w.pref, value |-> w.value, at |-> w.at, id |-> w.id], NEW q, NEW i
    PROVE  /\ [w EXCEPT !.at = q, !.id = i]
                = [pref |-> w.pref, value |-> w.value, at |-> q, id |-> i]
<1> DEFINE p == w.pref
           v == w.value
           a == w.at
           d == w.id
           x == [w EXCEPT !.at = q, !.id = i]
<1>1. w = [pref |-> p, value |-> v, at |-> a, id |-> d]
  OBVIOUS
<1>2. x = [w EXCEPT !.at = q, !.id = i]
  OBVIOUS
<1> HIDE DEF p, v, a, d, x
<1>3. x = [pref |-> p, value |-> v, at |-> q, id |-> i]
  BY <1>1, <1>2
<1> QED
  BY <1>3 DEF p, v, x

\* What is owed will be told by the walks, or by w, which goes on from p to node.
MayCall(walks, w, tree, node, owed, p, S) ==
    /\ WalksAre(walks, tree)
    /\ w = [pref |-> w.pref, value |-> w.value, at |-> w.at, id |-> w.id] /\ w.pref \in PrefPath
    /\ p \in Above(w.pref) /\ S \in SUBSET CallbackId /\ GoesOn(tree, p, S, node)
    /\ \A o \in owed : WillBeTold(walks, tree, o) \/ (o[1] \in S /\ o = <<o[1], w.pref>>)

\* The walk calls the next callback, and whoever it does not call now is later.
LEMMA CallsIs ==
    ASSUME PrefTreeAssumption, NEW walks, NEW w, NEW tree, NEW node, NEW owed, NEW p, NEW S,
           MayCall(walks, w, tree, node, owed, p, S), Calls(walks, w, tree, node, owed)
    PROVE  WalksAre(prefCalls', tree) /\ \A o \in prefOwed' : WillBeTold(prefCalls', tree, o)
<1>0. /\ WalksAre(walks, tree)
      /\ w = [pref |-> w.pref, value |-> w.value, at |-> w.at, id |-> w.id] /\ w.pref \in PrefPath
      /\ p \in Above(w.pref) /\ S \in SUBSET CallbackId /\ GoesOn(tree, p, S, node)
      /\ \A o \in owed : WillBeTold(walks, tree, o) \/ (o[1] \in S /\ o = <<o[1], w.pref>>)
  BY DEF MayCall
<1>1. CASE node = <<>>
  <2>1. prefCalls' = walks /\ prefOwed' = owed
    BY <1>1 DEF Calls
  <2>2. S = {}
    BY <1>0, <1>1 DEF GoesOn
  <2> QED
    BY <1>0, <2>1, <2>2
<1>2. CASE node # <<>>
  <2> DEFINE u == [w EXCEPT !.at = node[1], !.id = node[2]]
             calls == Append(walks, u)
  <2>1. /\ prefCalls' = calls
        /\ prefOwed' = owed \ {<<node[2], w.pref>>}
    BY <1>2 DEF Calls, Handed
  <2>14. PICK q \in Above(p) : \E id \in CallbackIds(tree, q) :
            node = <<q, id>> /\ \A o \in S : o = id \/ Later(tree, q, id, o)
    BY <1>0, <1>2 DEF GoesOn
  <2>2. PICK id \in CallbackIds(tree, q) :
            node = <<q, id>> /\ \A o \in S : o = id \/ Later(tree, q, id, o)
    BY <2>14
  <2>3. u = [pref |-> w.pref, value |-> w.value, at |-> q, id |-> id]
    <3>1. u = [pref |-> w.pref, value |-> w.value, at |-> node[1], id |-> node[2]]
      BY <1>0, WalkMoves
    <3>2. node[1] = q /\ node[2] = id
      BY <2>2
    <3> QED
      BY <3>1, <3>2
  <2> HIDE DEF u
  <2>4. u.pref = w.pref /\ u.value = w.value /\ u.at = q /\ u.id = id
    BY <2>3
  <2>5. q \in Above(w.pref)
    <3>1. w.pref \in Seq(STRING) /\ Above(p) \subseteq Above(w.pref)
      BY <1>0, AbovePaths, AboveIs
    <3> QED
      BY <3>1
  <2>6. IsWalk(u, tree)
    BY <1>0, <2>3, <2>4, <2>5 DEF IsWalk
  <2>7. PICK T : walks \in Seq(T)
    BY <1>0 DEF WalksAre
  <2>8. /\ \E R : calls \in Seq(R)
        /\ Len(walks) \in Nat /\ Len(calls) = Len(walks) + 1 /\ calls[Len(walks) + 1] = u
        /\ \A i \in 1..Len(walks) : calls[i] = walks[i]
    <3>1. \E R : Append(walks, u) \in Seq(R)
      BY <2>7, Appended
    <3>2. /\ Len(walks) \in Nat /\ Len(Append(walks, u)) = Len(walks) + 1
          /\ Append(walks, u)[Len(walks) + 1] = u
          /\ \A i \in 1..Len(walks) : Append(walks, u)[i] = walks[i]
      BY <2>7, Appended
    <3> QED
      BY <3>1, <3>2, Zenon
  <2>9. \A k \in 1..Len(walks) : IsWalk(walks[k], tree)
    BY <1>0 DEF WalksAre
  <2> HIDE DEF calls
  <2>10. \A k \in 1..Len(calls) : k \in 1..Len(walks) \/ k = Len(walks) + 1
    BY <2>8
  <2>11. WalksAre(calls, tree)
    BY <2>6, <2>8, <2>9, <2>10 DEF WalksAre
  <2>12. Len(walks) + 1 \in 1..Len(calls) /\ \A k \in 1..Len(walks) : k \in 1..Len(calls)
    BY <2>8
  <2>13. ASSUME NEW o \in prefOwed' PROVE WillBeTold(calls, tree, o)
    <3>1. o \in owed /\ o # <<id, w.pref>>
      BY <2>1, <2>2
    <3>2. CASE WillBeTold(walks, tree, o)
      <4>1. PICK k \in 1..Len(walks) :
                walks[k].pref = o[2] /\ Later(tree, walks[k].at, walks[k].id, o[1])
        BY <3>2 DEF WillBeTold
      <4> QED
        BY <2>8, <2>12, <3>2, <4>1 DEF WillBeTold
    <3>3. CASE o[1] \in S /\ o = <<o[1], w.pref>>
      <4>1. o[1] # id /\ o[2] = w.pref
        BY <3>1, <3>3
      <4>2. Later(tree, q, id, o[1])
        BY <2>2, <3>3, <4>1
      <4>3. calls[Len(walks) + 1].pref = o[2]
            /\ Later(tree, calls[Len(walks) + 1].at, calls[Len(walks) + 1].id, o[1])
        BY <2>4, <2>8, <4>1, <4>2
      <4>4. o = <<o[1], o[2]>> /\ o[1] \in CallbackId
        BY <1>0, <3>3, <4>1
      <4> QED
        BY <2>12, <4>3, <4>4 DEF WillBeTold
    <3> QED
      BY <1>0, <3>1, <3>2, <3>3
  <2> QED
    BY <2>1, <2>11, <2>13
<1> QED
  BY <1>1, <1>2

-----------------------------------------------------------------------------
(* The invariant                                                            *)

\* Tree and table agree, every callback is connected once, walks are at callbacks, and who
\* has not been told the present value is later in the walk of a change of it.
PrefsInv ==
    /\ TreeIsSound(prefTree) /\ IdsOnce(prefTree)
    /\ WalksAre(prefCalls, prefTree)
    /\ \A o \in prefOwed : WillBeTold(prefCalls, prefTree, o)

\* The callbacks of a sound tree are lists.
LEMMA SoundConnections ==
    ASSUME NEW tree, TreeIsSound(tree)
    PROVE  Connections(tree)
BY PrefFields DEF TreeIsSound, Connections

\* oul_prefs_set_* and oul_prefs_add_*
LEMMA SetOrAddStep ==
    ASSUME PrefTreeAssumption, PrefsInv, NEW p \in PrefPath \ {<<>>}, NEW kind \in PrefKinds, NEW value,
           SetOrAdd(p, kind, value)
    PROVE  PrefsInv'
<1> DEFINE new == SetIn(prefTree, p, kind, value)
<1>1. prefTree' = new
  BY DEF SetOrAdd
<1>2. TreeIsSound(new) /\ \A q \in PrefPath : new[q].callbacks = prefTree[q].callbacks
  BY SetInIs DEF PrefsInv
<1> HIDE DEF new
<1>3. Connections(prefTree) /\ Connections(new)
  BY <1>2, SoundConnections DEF PrefsInv
<1>4. KeepsOrder(prefTree, new, CallbackId)
  BY <1>2, <1>3, GrowthKeeps
<1>5. IdsOnce(new)
  <2>1. IdsOnce(prefTree)
    BY DEF PrefsInv
  <2>2. \A q \in PrefPath : new[q].callbacks = prefTree[q].callbacks
    BY <1>2
  <2> QED
    BY <2>1, <2>2, SMTT(30) DEF IdsOnce
<1>6. /\ WalksAre(prefCalls, new)
      /\ \A o \in prefOwed : WillBeTold(prefCalls, new, o)
  <2>1. WalksAre(prefCalls, prefTree) /\ \A o \in prefOwed : WillBeTold(prefCalls, prefTree, o)
    BY DEF PrefsInv
  <2>2. \A k \in 1..Len(prefCalls) : prefCalls[k].id \in CallbackId
    <3> SUFFICES ASSUME NEW k \in 1..Len(prefCalls) PROVE prefCalls[k].id \in CallbackId
      OBVIOUS
    <3>1. IsWalk(prefCalls[k], prefTree)
      BY <2>1 DEF WalksAre
    <3>2. prefCalls[k].at \in PrefPath /\ prefCalls[k].id \in CallbackIds(prefTree, prefCalls[k].at)
      BY <3>1, AbovePaths DEF IsWalk
    <3> QED
      BY <1>3, <3>2, IdsAre
  <2>3. \A o \in prefOwed : o[1] \in CallbackId
    BY <2>1 DEF WillBeTold
  <2>4. /\ WalksAre(prefCalls, new)
        /\ \A o : o[1] \in CallbackId /\ WillBeTold(prefCalls, prefTree, o) => WillBeTold(prefCalls, new, o)
    BY <1>4, <2>1, <2>2, WalksKept
  <2> QED
    BY <2>1, <2>3, <2>4
<1>7. CASE ~IsChange(prefTree, p, kind, value)
  <2>1. prefCalls' = prefCalls /\ prefOwed' = prefOwed
    BY <1>7 DEF SetOrAdd
  <2> QED
    BY <1>1, <1>2, <1>5, <1>6, <2>1 DEF PrefsInv
<1>8. CASE IsChange(prefTree, p, kind, value)
  <2> DEFINE w == [pref |-> p, value |-> new[p].value, at |-> <<>>, id |-> 0]
             S == UNION {CallbackIds(new, q) : q \in Above(p)}
             owed == prefOwed \cup {<<id, p>> : id \in S}
             node == FirstFrom(new, p)
  <2>1. Calls(prefCalls, w, new, node, owed)
    BY <1>1, <1>8 DEF SetOrAdd, DoCallbacks
  <2>2. GoesOn(new, p, S, node)
    BY <1>3, FirstFromIs
  <2>3. p \in Above(p) /\ Above(p) \subseteq PrefPath
    BY AbovePaths, AboveIs
  <2>4. S \in SUBSET CallbackId
    BY <1>3, <2>3, IdsAre
  <2>5. w = [pref |-> w.pref, value |-> w.value, at |-> w.at, id |-> w.id] /\ w.pref = p
    OBVIOUS
  <2>6. \A o \in owed : WillBeTold(prefCalls, new, o) \/ (o[1] \in S /\ o = <<o[1], p>>)
    <3>1. \A o \in {<<id, p>> : id \in S} : o[1] \in S /\ o = <<o[1], p>>
      OBVIOUS
    <3> HIDE DEF S
    <3> QED
      BY <1>6, <3>1
  <2> HIDE DEF w, S, owed, node
  <2>8. MayCall(prefCalls, w, new, node, owed, p, S)
    BY <1>6, <2>2, <2>3, <2>4, <2>5, <2>6 DEF MayCall
  <2>7. WalksAre(prefCalls', new) /\ \A o \in prefOwed' : WillBeTold(prefCalls', new, o)
    BY <2>1, <2>8, CallsIs
  <2> QED
    BY <1>1, <1>2, <1>5, <2>7 DEF PrefsInv
<1> QED
  BY <1>7, <1>8

\* What walks and debts refer to.
LEMMA CallsTyped ==
    ASSUME PrefTreeAssumption, PrefsInv
    PROVE  /\ Connections(prefTree)
           /\ \A k \in 1..Len(prefCalls) : /\ IsWalk(prefCalls[k], prefTree) /\ prefCalls[k].at \in PrefPath
                                           /\ prefCalls[k].id \in CallbackId
           /\ \A o \in prefOwed : o[1] \in CallbackId
<1>1. Connections(prefTree)
  BY SoundConnections DEF PrefsInv
<1>2. ASSUME NEW k \in 1..Len(prefCalls)
      PROVE  /\ IsWalk(prefCalls[k], prefTree) /\ prefCalls[k].at \in PrefPath
             /\ prefCalls[k].id \in CallbackId
  <2>1. IsWalk(prefCalls[k], prefTree)
    BY DEF PrefsInv, WalksAre
  <2>2. prefCalls[k].at \in PrefPath /\ prefCalls[k].id \in CallbackIds(prefTree, prefCalls[k].at)
    BY <2>1, AbovePaths DEF IsWalk
  <2> QED
    BY <1>1, <2>1, <2>2, IdsAre
<1> QED
  BY <1>1, <1>2 DEF PrefsInv, WillBeTold

\* do_callbacks after a callback
LEMMA CallbackReturnsStep ==
    ASSUME PrefTreeAssumption, PrefsInv, CallbackReturns
    PROVE  PrefsInv'
<1> DEFINE w == Last(prefCalls)
           walks == Front(prefCalls)
           S == {o \in CallbackId : Later(prefTree, w.at, w.id, o)}
           node == AfterCallback(prefTree, w.at, w.id)
           n == Len(prefCalls)
<1>1. PICK E : prefCalls \in Seq(E)
  BY DEF PrefsInv, WalksAre
<1>2. prefCalls # <<>>
  BY DEF CallbackReturns, NobodyCalled
<1>3. Calls(walks, w, prefTree, node, prefOwed) /\ prefTree' = prefTree
  BY DEF CallbackReturns
<1>4. /\ walks \in Seq(E) /\ n \in DOMAIN prefCalls /\ w = prefCalls[n]
      /\ DOMAIN walks = 1..(n - 1)
      /\ \A k \in DOMAIN walks : walks[k] = prefCalls[k] /\ k \in DOMAIN prefCalls
  BY <1>1, <1>2, FrontIs
<1>5. DOMAIN prefCalls = 1..n /\ n \in Nat /\ DOMAIN walks = 1..Len(walks) /\ Len(walks) \in Nat
  BY <1>1, <1>4
<1> HIDE DEF w, walks, S, node, n
<1>6. /\ IsWalk(w, prefTree) /\ w.at \in PrefPath /\ w.id \in CallbackId /\ Connections(prefTree)
  BY <1>4, <1>5, CallsTyped DEF n
<1>7. /\ w = [pref |-> w.pref, value |-> w.value, at |-> w.at, id |-> w.id]
      /\ w.pref \in PrefPath /\ w.at \in Above(w.pref) /\ w.id \in CallbackIds(prefTree, w.at)
  BY <1>6 DEF IsWalk
<1>8. WalksAre(walks, prefTree)
  BY <1>4, <1>5, CallsTyped DEF WalksAre, n
<1>9. GoesOn(prefTree, w.at, S, node)
  BY <1>6, <1>7, AfterCallbackIs DEF PrefsInv, S, node
<1>10. ASSUME NEW o \in prefOwed
       PROVE  WillBeTold(walks, prefTree, o) \/ (o[1] \in S /\ o = <<o[1], w.pref>>)
  <2>1. WillBeTold(prefCalls, prefTree, o)
    BY DEF PrefsInv
  <2>2. PICK k \in 1..n : prefCalls[k].pref = o[2] /\ Later(prefTree, prefCalls[k].at, prefCalls[k].id, o[1])
    BY <2>1 DEF WillBeTold, n
  <2>3. CASE k = n
    BY <1>4, <2>1, <2>2, <2>3 DEF WillBeTold, S
  <2>4. CASE k # n
    <3>1. k \in 1..(n - 1)
      BY <1>5, <2>4
    <3> QED
      BY <1>4, <1>5, <2>1, <2>2, <3>1 DEF WillBeTold
  <2> QED
    BY <2>3, <2>4
<1>11. S \in SUBSET CallbackId
  BY DEF S
<1>12. WalksAre(prefCalls', prefTree) /\ \A o \in prefOwed' : WillBeTold(prefCalls', prefTree, o)
  <2>1. \A o \in prefOwed : WillBeTold(walks, prefTree, o) \/ (o[1] \in S /\ o = <<o[1], w.pref>>)
    BY <1>10
  <2>2. Calls(walks, w, prefTree, node, prefOwed)
    BY <1>3
  <2>3. MayCall(walks, w, prefTree, node, prefOwed, w.at, S)
    BY <1>7, <1>8, <1>9, <1>11, <2>1 DEF MayCall
  <2> QED
    BY <2>2, <2>3, CallsIs
<1> QED
  BY <1>3, <1>12 DEF PrefsInv

\* A free id belongs to no callback.
LEMMA FreshId ==
    ASSUME PrefTreeAssumption, FreeIds # {}
    PROVE  Min(FreeIds) \in CallbackId /\ Min(FreeIds) \notin AllCallbacks(prefTree)
<1>1. FreeIds \in SUBSET Nat
  BY DEF FreeIds, CallbackId, PrefTreeAssumption
<1> DEFINE F == FreeIds
<1>2. \E m \in F : \A n \in F : m <= n
  BY <1>1, Least
<1>3. Min(F) \in F
  BY <1>2 DEF Min
<1> QED
  BY <1>3 DEF FreeIds

\* oul_prefs_connect_callback
LEMMA ConnectCallbackStep ==
    ASSUME PrefTreeAssumption, PrefsInv, NEW p \in PrefMayConnect, NEW handle \in PrefHandle,
           ConnectCallback(p, handle)
    PROVE  PrefsInv'
<1> DEFINE id == Min(FreeIds)
           x == [id |-> id, handle |-> handle]
           l == prefTree[p].callbacks
           new == [prefTree EXCEPT ![p].callbacks = Append(@, x)]
<1>1. p \in PrefPath /\ Known(prefTree, p) /\ id \in CallbackId /\ id \notin AllCallbacks(prefTree)
  BY FreshId DEF PrefTreeAssumption, ConnectCallback
<1>2. prefTree' = new /\ prefCalls' = prefCalls /\ prefOwed' = prefOwed
  BY DEF ConnectCallback
<1> HIDE DEF id
<1>3. x \in CallbackData /\ x.id = id
  BY <1>1 DEF CallbackData
<1>4. prefTree = [q \in PrefPath |-> prefTree[q]] /\ \A q \in PrefPath : IsPref(prefTree[q])
  BY DEF PrefsInv, TreeIsSound
<1>5. Connections(prefTree) /\ l \in Seq(CallbackData)
  BY <1>1, CallsTyped DEF Connections
<1> HIDE DEF x
<1> DEFINE c == Append(l, x)
<1>6. /\ c \in Seq(CallbackData) /\ DOMAIN c = 1..(Len(l) + 1) /\ DOMAIN l = 1..Len(l) /\ Len(l) \in Nat
      /\ c[Len(l) + 1] = x /\ \A i \in DOMAIN l : c[i] = l[i] /\ i \in DOMAIN c
  BY <1>3, <1>5, SMTT(60)
<1>7. /\ new = [q \in PrefPath |-> new[q]] /\ new[p] = [prefTree[p] EXCEPT !.callbacks = c]
      /\ \A q \in PrefPath : q # p => new[q] = prefTree[q]
  BY <1>1, <1>4
<1> HIDE DEF new, c
<1>8. /\ IsPref(new[p]) /\ new[p] # NoPref
      /\ new[p].children = prefTree[p].children /\ new[p].callbacks = c
  <2>1. IsPref(prefTree[p]) /\ prefTree[p] # NoPref
    BY <1>1, <1>4 DEF Known
  <2>2. /\ IsPref([prefTree[p] EXCEPT !.callbacks = c]) /\ [prefTree[p] EXCEPT !.callbacks = c] # NoPref
        /\ [prefTree[p] EXCEPT !.callbacks = c].children = prefTree[p].children
        /\ [prefTree[p] EXCEPT !.callbacks = c].callbacks = c
    <3>1. c \in Seq(CallbackData)
      BY <1>6
    <3> QED
      BY <2>1, <3>1, PrefWithCallbacks
  <2> QED
    BY <1>7, <2>2, Zenon
<1>9. TreeIsSound(new)
  <2>1. TreeIsSound(prefTree)
    BY DEF PrefsInv
  <2>2. \A q \in PrefPath : /\ IsPref(new[q]) /\ new[q].children = prefTree[q].children
                            /\ new[q] # NoPref <=> prefTree[q] # NoPref
    BY <1>1, <1>4, <1>7, <1>8 DEF Known
  <2> QED
    <3>1. Reshaped(prefTree, new)
      BY <1>7, <2>2 DEF Reshaped
    <3> QED
      BY <2>1, <3>1, SameShape
<1>10. Connections(new)
  BY <1>9, SoundConnections
<1>11. ASSUME NEW q \in PrefPath, NEW i \in DOMAIN prefTree[q].callbacks
       PROVE  i \in DOMAIN new[q].callbacks /\ new[q].callbacks[i].id = prefTree[q].callbacks[i].id
  BY <1>6, <1>7, <1>8 DEF l
<1>12. KeepsOrder(prefTree, new, CallbackId)
  BY <1>5, <1>10, <1>11, GrowthKeeps
<1>13. IdsOnce(new)
  <2>1. \A q \in PrefPath : \A i \in DOMAIN prefTree[q].callbacks : prefTree[q].callbacks[i].id # id
    BY <1>1, <1>5, IdsAre DEF AllCallbacks
  <2>2. ASSUME NEW q \in PrefPath, NEW i \in DOMAIN new[q].callbacks
        PROVE  \/ i \in DOMAIN prefTree[q].callbacks /\ new[q].callbacks[i].id = prefTree[q].callbacks[i].id
               \/ q = p /\ i = Len(l) + 1 /\ new[q].callbacks[i].id = id
    <3>1. CASE q # p
      BY <1>7, <3>1
    <3>2. CASE q = p
      <4>2. i \in 1..(Len(l) + 1) /\ Len(l) \in Nat
        BY <1>6, <1>8, <3>2
      <4>3. i \in 1..Len(l) \/ i = Len(l) + 1
        BY <4>2, SMTT(30)
      <4>1. i \in DOMAIN l \/ i = Len(l) + 1
        BY <1>6, <4>3
      <4>4. new[q].callbacks[i].id = c[i].id
        BY <1>8, <3>2
      <4>5. CASE i \in DOMAIN l
        BY <1>6, <3>2, <4>4, <4>5
      <4>6. CASE i = Len(l) + 1
        BY <1>3, <1>6, <3>2, <4>4, <4>6
      <4> QED
        BY <4>1, <4>5, <4>6
    <3> QED
      BY <3>1, <3>2
  <2>3. IdsOnce(prefTree)
    BY DEF PrefsInv
  <2> SUFFICES ASSUME NEW q \in PrefPath, NEW r \in PrefPath,
                      NEW i \in DOMAIN new[q].callbacks, NEW j \in DOMAIN new[r].callbacks,
                      new[q].callbacks[i].id = new[r].callbacks[j].id
               PROVE  q = r /\ i = j
    BY DEF IdsOnce
  <2>4. /\ \/ i \in DOMAIN prefTree[q].callbacks /\ new[q].callbacks[i].id = prefTree[q].callbacks[i].id
           \/ q = p /\ i = Len(l) + 1 /\ new[q].callbacks[i].id = id
        /\ \/ j \in DOMAIN prefTree[r].callbacks /\ new[r].callbacks[j].id = prefTree[r].callbacks[j].id
           \/ r = p /\ j = Len(l) + 1 /\ new[r].callbacks[j].id = id
    BY <2>2
  <2>5. CASE new[q].callbacks[i].id = id
    BY <2>1, <2>4, <2>5
  <2>6. CASE new[q].callbacks[i].id # id
    BY <2>3, <2>4, <2>6 DEF IdsOnce
  <2> QED
    BY <2>5, <2>6
<1>14. /\ WalksAre(prefCalls, new)
       /\ \A o \in prefOwed : WillBeTold(prefCalls, new, o)
  <2>1. WalksAre(prefCalls, prefTree) /\ \A o \in prefOwed : WillBeTold(prefCalls, prefTree, o)
    BY DEF PrefsInv
  <2>2. /\ WalksAre(prefCalls, new)
        /\ \A o : o[1] \in CallbackId /\ WillBeTold(prefCalls, prefTree, o) => WillBeTold(prefCalls, new, o)
    BY <1>12, <2>1, CallsTyped, WalksKept
  <2> QED
    BY <2>1, <2>2, CallsTyped
<1> QED
  BY <1>2, <1>9, <1>13, <1>14 DEF PrefsInv

\* What is left of the callbacks, by place.
LEMMA ListThinned ==
    ASSUME NEW l \in Seq(CallbackData), NEW ids
    PROVE  /\ Remaining(l, ids) \in Seq(CallbackData)
           /\ \A k \in DOMAIN Remaining(l, ids) : \E i \in DOMAIN l :
                l[i].id \notin ids /\ Remaining(l, ids)[k] = l[i] /\ k = PlaceLeft(l, ids, i)
           /\ \A i, j \in DOMAIN l : l[i].id \notin ids /\ l[j].id \notin ids /\ i < j =>
                /\ PlaceLeft(l, ids, i) < PlaceLeft(l, ids, j)
                /\ PlaceLeft(l, ids, i) \in DOMAIN Remaining(l, ids)
                /\ PlaceLeft(l, ids, j) \in DOMAIN Remaining(l, ids)
                /\ Remaining(l, ids)[PlaceLeft(l, ids, i)] = l[i]
                /\ Remaining(l, ids)[PlaceLeft(l, ids, j)] = l[j]
           /\ \A i \in DOMAIN l : l[i].id \notin ids =>
                /\ PlaceLeft(l, ids, i) \in DOMAIN Remaining(l, ids)
                /\ Remaining(l, ids)[PlaceLeft(l, ids, i)] = l[i]
           /\ l = <<>> => Remaining(l, ids) = <<>>
<1> DEFINE r == Remaining(l, ids)
           at(i) == PlaceLeft(l, ids, i)
           D == Staying(l, ids)
<1>1. \A i : i \in D <=> i \in DOMAIN l /\ l[i].id \notin ids
  BY DEF Staying
<1>2. /\ r \in Seq(CallbackData)
      /\ \A i \in D : at(i) \in DOMAIN r /\ r[at(i)] = l[i]
      /\ \A k \in DOMAIN r : \E i \in D : at(i) = k
      /\ \A i, j \in D : i < j => at(i) < at(j)
  BY RemainingIs
<1> HIDE DEF r, at, D
<1>3. l = <<>> => r = <<>>
  <2> SUFFICES ASSUME l = <<>> PROVE r = <<>>
    OBVIOUS
  <2>1. DOMAIN r = {}
    BY <1>1, <1>2
  <2> QED
    BY <1>2, <2>1
<1>4. \A k \in DOMAIN r : \E i \in DOMAIN l : l[i].id \notin ids /\ r[k] = l[i] /\ k = at(i)
  BY <1>1, <1>2
<1>5. \A i, j \in DOMAIN l : l[i].id \notin ids /\ l[j].id \notin ids /\ i < j =>
        /\ at(i) < at(j) /\ at(i) \in DOMAIN r /\ at(j) \in DOMAIN r
        /\ r[at(i)] = l[i] /\ r[at(j)] = l[j]
  BY <1>1, <1>2
<1>6. \A i \in DOMAIN l : l[i].id \notin ids => at(i) \in DOMAIN r /\ r[at(i)] = l[i]
  BY <1>1, <1>2
<1> QED
  BY <1>2, <1>3, <1>4, <1>5, <1>6 DEF r, at

\* The tree without some callbacks.
LEMMA WithoutIs ==
    ASSUME PrefTreeAssumption, NEW tree, TreeIsSound(tree), IdsOnce(tree), NEW ids
    PROVE  /\ TreeIsSound(WithoutCallbacks(tree, ids)) /\ IdsOnce(WithoutCallbacks(tree, ids))
           /\ KeepsOrder(tree, WithoutCallbacks(tree, ids), CallbackId \ ids)
           /\ \A id \in AllCallbacks(WithoutCallbacks(tree, ids)) : id \in CallbackId \ ids
<1> DEFINE new == WithoutCallbacks(tree, ids)
<1>1. tree = [q \in PrefPath |-> tree[q]] /\ \A q \in PrefPath : IsPref(tree[q])
  BY DEF TreeIsSound
<1>2. /\ new = [q \in PrefPath |-> new[q]]
      /\ \A q \in PrefPath : new[q] = [tree[q] EXCEPT !.callbacks = Remaining(tree[q].callbacks, ids)]
  BY DEF WithoutCallbacks
<1> HIDE DEF new
<1>3. Connections(tree)
  BY SoundConnections
<1>4. ASSUME NEW q \in PrefPath
      PROVE  /\ IsPref(new[q]) /\ new[q].children = tree[q].children
             /\ new[q] # NoPref <=> tree[q] # NoPref
             /\ new[q].callbacks = Remaining(tree[q].callbacks, ids)
  <2> DEFINE c == Remaining(tree[q].callbacks, ids)
             n == tree[q]
  <2>1. n.callbacks \in Seq(CallbackData) /\ IsPref(n)
    BY <1>1, <1>3 DEF Connections
  <2>2. c \in Seq(CallbackData) /\ (n.callbacks = <<>> => c = <<>>)
    BY <2>1, ListThinned
  <2>3. new[q] = [n EXCEPT !.callbacks = c]
    BY <1>2
  <2>4. n = NoPref => n.callbacks = <<>>
    BY DEF NoPref
  <2> HIDE DEF c, n
  <2>5. /\ IsPref([n EXCEPT !.callbacks = c]) /\ ([n EXCEPT !.callbacks = c] # NoPref <=> n # NoPref)
        /\ [n EXCEPT !.callbacks = c].children = n.children
        /\ [n EXCEPT !.callbacks = c].callbacks = c
    BY <2>1, <2>2, <2>4, PrefWithCallbacks
  <2>6. /\ IsPref(new[q]) /\ (new[q] # NoPref <=> n # NoPref)
        /\ new[q].children = n.children /\ new[q].callbacks = c
    BY <2>3, <2>5, Zenon
  <2> QED
    BY <2>6 DEF n, c
<1>5. TreeIsSound(new)
  <2>1. Reshaped(tree, new)
    BY <1>2, <1>4 DEF Reshaped
  <2> QED
    BY <2>1, SameShape
<1>6. Connections(new)
  BY <1>5, SoundConnections
<1>7. ASSUME NEW q \in PrefPath
      PROVE  /\ \A k \in DOMAIN new[q].callbacks : \E i \in DOMAIN tree[q].callbacks :
                    /\ tree[q].callbacks[i].id \notin ids /\ new[q].callbacks[k] = tree[q].callbacks[i]
                    /\ k = PlaceLeft(tree[q].callbacks, ids, i)
             /\ \A i, j \in DOMAIN tree[q].callbacks :
                    /\ tree[q].callbacks[i].id \notin ids /\ tree[q].callbacks[j].id \notin ids /\ i < j
                    => \E k, m \in DOMAIN new[q].callbacks :
                        k < m /\ new[q].callbacks[k] = tree[q].callbacks[i] /\ new[q].callbacks[m] = tree[q].callbacks[j]
             /\ \A i \in DOMAIN tree[q].callbacks : tree[q].callbacks[i].id \notin ids =>
                    \E k \in DOMAIN new[q].callbacks : new[q].callbacks[k] = tree[q].callbacks[i]
  <2> DEFINE l == tree[q].callbacks
             r == new[q].callbacks
             at(i) == PlaceLeft(l, ids, i)
  <2>1. l \in Seq(CallbackData) /\ r = Remaining(l, ids)
    BY <1>3, <1>4 DEF Connections
  <2> HIDE DEF l, r
  <2>2. /\ \A k \in DOMAIN r : \E i \in DOMAIN l : l[i].id \notin ids /\ r[k] = l[i] /\ k = at(i)
        /\ \A i, j \in DOMAIN l : l[i].id \notin ids /\ l[j].id \notin ids /\ i < j =>
                /\ at(i) < at(j) /\ at(i) \in DOMAIN r /\ at(j) \in DOMAIN r
                /\ r[at(i)] = l[i] /\ r[at(j)] = l[j]
        /\ \A i \in DOMAIN l : l[i].id \notin ids => at(i) \in DOMAIN r /\ r[at(i)] = l[i]
    BY <2>1, ListThinned
  <2> HIDE DEF at
  <2>3. \A i, j \in DOMAIN l : l[i].id \notin ids /\ l[j].id \notin ids /\ i < j =>
            \E k, m \in DOMAIN r : k < m /\ r[k] = l[i] /\ r[m] = l[j]
    BY <2>2
  <2>4. \A i \in DOMAIN l : l[i].id \notin ids => \E k \in DOMAIN r : r[k] = l[i]
    BY <2>2
  <2> QED
    BY <2>2, <2>3, <2>4 DEF l, r, at
<1>8. IdsOnce(new)
  <2> SUFFICES ASSUME NEW q \in PrefPath, NEW p \in PrefPath,
                      NEW k \in DOMAIN new[q].callbacks, NEW m \in DOMAIN new[p].callbacks,
                      new[q].callbacks[k].id = new[p].callbacks[m].id
               PROVE  q = p /\ k = m
    BY DEF IdsOnce
  <2>1. PICK i \in DOMAIN tree[q].callbacks :
            new[q].callbacks[k] = tree[q].callbacks[i] /\ k = PlaceLeft(tree[q].callbacks, ids, i)
    BY <1>7
  <2>2. PICK j \in DOMAIN tree[p].callbacks :
            new[p].callbacks[m] = tree[p].callbacks[j] /\ m = PlaceLeft(tree[p].callbacks, ids, j)
    BY <1>7
  <2>3. q = p /\ i = j
    BY <2>1, <2>2 DEF IdsOnce
  <2> QED
    BY <2>1, <2>2, <2>3
<1>9. ASSUME NEW q \in PrefPath, NEW id \in CallbackIds(new, q)
      PROVE  id \in CallbackId \ ids
  <2>1. PICK k \in DOMAIN new[q].callbacks : new[q].callbacks[k].id = id
    BY <1>6, IdsAre
  <2>2. id \in CallbackId
    BY <1>6, IdsAre
  <2> QED
    BY <1>7, <2>1, <2>2
<1>10. \A id \in AllCallbacks(new) : id \in CallbackId \ ids
  BY <1>9 DEF AllCallbacks
<1>11. ASSUME NEW q \in PrefPath, NEW a \in CallbackId \ ids, a \in CallbackIds(tree, q)
       PROVE  a \in CallbackIds(new, q)
  <2>1. PICK i \in DOMAIN tree[q].callbacks : tree[q].callbacks[i].id = a
    BY <1>3, <1>11, IdsAre
  <2>2. PICK k \in DOMAIN new[q].callbacks : new[q].callbacks[k] = tree[q].callbacks[i]
    BY <1>7, <2>1
  <2> QED
    BY <1>6, <2>1, <2>2, IdsAre
<1>12. ASSUME NEW q \in PrefPath, NEW a \in CallbackId \ ids, NEW b \in CallbackId \ ids, Before(tree, q, a, b)
       PROVE  Before(new, q, a, b)
  <2>1. PICK i \in DOMAIN tree[q].callbacks, j \in DOMAIN tree[q].callbacks :
            i < j /\ tree[q].callbacks[i].id = a /\ tree[q].callbacks[j].id = b
    BY <1>12 DEF Before
  <2>2. PICK k \in DOMAIN new[q].callbacks, m \in DOMAIN new[q].callbacks :
            k < m /\ new[q].callbacks[k] = tree[q].callbacks[i] /\ new[q].callbacks[m] = tree[q].callbacks[j]
    BY <1>7, <2>1
  <2> QED
    BY <2>1, <2>2 DEF Before
<1>13. KeepsOrder(tree, new, CallbackId \ ids)
  BY <1>11, <1>12 DEF KeepsOrder
<1> QED
  BY <1>5, <1>8, <1>10, <1>13 DEF new

\* oul_prefs_disconnect_callback and oul_prefs_disconnect_by_handle
LEMMA DisconnectsStep ==
    ASSUME PrefTreeAssumption, PrefsInv, NEW ids, Disconnects(WithoutCallbacks(prefTree, ids))
    PROVE  PrefsInv'
<1> DEFINE new == WithoutCallbacks(prefTree, ids)
           K == CallbackId \ ids
<1>1. /\ BeingCalled \subseteq AllCallbacks(new) /\ prefTree' = new /\ prefCalls' = prefCalls
      /\ prefOwed' = {o \in prefOwed : o[1] \in AllCallbacks(new)}
  BY DEF Disconnects
<1>2. /\ TreeIsSound(new) /\ IdsOnce(new) /\ KeepsOrder(prefTree, new, K)
      /\ \A id \in AllCallbacks(new) : id \in K
  BY WithoutIs DEF PrefsInv
<1>3. WalksAre(prefCalls, prefTree) /\ \A o \in prefOwed : WillBeTold(prefCalls, prefTree, o)
  BY DEF PrefsInv
<1> HIDE DEF new, K
<1>4. \A k \in 1..Len(prefCalls) : prefCalls[k].id \in K
  <2>1. PICK E : prefCalls \in Seq(E)
    BY <1>3 DEF WalksAre
  <2>2. DOMAIN prefCalls = 1..Len(prefCalls)
    BY <2>1
  <2>3. \A k \in 1..Len(prefCalls) : prefCalls[k].id \in BeingCalled
    BY <2>2 DEF BeingCalled, ToSet
  <2> QED
    BY <1>1, <1>2, <2>3
<1>5. /\ WalksAre(prefCalls, new)
      /\ \A o : o[1] \in K /\ WillBeTold(prefCalls, prefTree, o) => WillBeTold(prefCalls, new, o)
  BY <1>2, <1>3, <1>4, WalksKept
<1>6. \A o \in prefOwed' : WillBeTold(prefCalls, new, o)
  BY <1>1, <1>2, <1>3, <1>5
<1> QED
  BY <1>1, <1>2, <1>5, <1>6 DEF PrefsInv

\* Whatever sound tree without callbacks was read.
LEMMA SavingIs ==
    ASSUME PrefTreeAssumption, NEW tree, TreeIsSound(tree), Known(tree, <<>>),
           \A p \in PrefPath : tree[p].callbacks = <<>>
    PROVE  TreeIsSound(WithSaving(tree)) /\ IdsOnce(WithSaving(tree))
<1> DEFINE x == [id |-> 1, handle |-> "prefs"]
           c == <<x>>
           r == <<>>
           new == WithSaving(tree)
<1>1. r \in PrefPath
  BY DEF PrefTreeAssumption
<1>2. 1 \in CallbackId
  BY DEF PrefTreeAssumption, CallbackId
<1>3. x \in CallbackData
  BY <1>2 DEF CallbackData
<1>4. x.id = 1
  OBVIOUS
<1> HIDE DEF x
<1>5. c \in Seq(CallbackData) /\ DOMAIN c = {1} /\ c[1] = x
  BY <1>3
<1>6. tree = [q \in PrefPath |-> tree[q]] /\ \A q \in PrefPath : IsPref(tree[q])
  BY DEF TreeIsSound
<1>7. new = [tree EXCEPT ![r].callbacks = c]
  BY DEF WithSaving, x
<1>8. tree[r] # NoPref /\ \A q \in PrefPath : tree[q].callbacks = <<>>
  BY DEF Known
<1> HIDE DEF c, r, new
<1>9. /\ new = [q \in PrefPath |-> new[q]] /\ new[r] = [tree[r] EXCEPT !.callbacks = c]
      /\ \A q \in PrefPath : q # r => new[q] = tree[q]
  BY <1>1, <1>6, <1>7
<1>10. /\ IsPref(new[r]) /\ new[r] # NoPref /\ new[r].children = tree[r].children /\ new[r].callbacks = c
  <2>1. /\ IsPref([tree[r] EXCEPT !.callbacks = c]) /\ [tree[r] EXCEPT !.callbacks = c] # NoPref
        /\ [tree[r] EXCEPT !.callbacks = c].children = tree[r].children
        /\ [tree[r] EXCEPT !.callbacks = c].callbacks = c
    <3>1. c \in Seq(CallbackData) /\ IsPref(tree[r]) /\ tree[r] # NoPref
      BY <1>1, <1>5, <1>6, <1>8
    <3> QED
      BY <3>1, PrefWithCallbacks
  <2> QED
    BY <1>9, <2>1, Zenon
<1>11. \A q \in PrefPath : /\ IsPref(new[q]) /\ new[q].children = tree[q].children
                           /\ new[q] # NoPref <=> tree[q] # NoPref
  BY <1>6, <1>8, <1>9, <1>10
<1>12. TreeIsSound(new)
  <2>1. Reshaped(tree, new)
    BY <1>9, <1>11 DEF Reshaped
  <2> QED
    BY <2>1, SameShape
<1>13. \A q \in PrefPath : \A i \in DOMAIN new[q].callbacks : q = r /\ i = 1
  <2>1. DOMAIN <<>> = {}
    OBVIOUS
  <2> QED
    BY <1>5, <1>8, <1>9, <1>10, <2>1
<1>14. IdsOnce(new)
  BY <1>13 DEF IdsOnce
<1> QED
  BY <1>12, <1>14 DEF new

\* The tree oul_prefs_init makes before it reads the file.
LEMMA BareTreeIs ==
    ASSUME PrefTreeAssumption
    PROVE  /\ TreeIsSound(BareTree) /\ Known(BareTree, <<>>)
           /\ \A p \in PrefPath : BareTree[p].callbacks = <<>>
<1> DEFINE r == <<>>
           oul == <<"oul">>
           n == NewPref("none", <<>>)
           c == <<"oul">>
           top == [n EXCEPT !.children = c]
<1>1. r \in PrefPath /\ oul \in PrefPath /\ oul # r
  BY DEF PrefTreeAssumption
<1>2. /\ BareTree = [q \in PrefPath |-> BareTree[q]]
      /\ BareTree[r] = top /\ BareTree[oul] = n
      /\ \A q \in PrefPath : q # r /\ q # oul => BareTree[q] = NoPref
  BY <1>1 DEF BareTree
<1>3. Front(oul) = r /\ Last(oul) = "oul"
  BY DEF Front, Last
<1>4. c \in Seq(STRING) /\ ToSet(c) = {"oul"} /\ r \in Seq(STRING) /\ r \in Seq(CallbackData)
  <2>1. r \in Seq(STRING) /\ r \in Seq(CallbackData)
    BY EmptySeq
  <2>2. c \in Seq(STRING)
    BY DEF PrefTreeAssumption
  <2>4. ToSet(c) = {"oul"}
    BY Single
  <2>3. c \in Seq(STRING) /\ ToSet(c) = {"oul"}
    BY <2>2, <2>4
  <2> QED
    BY <2>1, <2>3
<1>5. IsPref(n) /\ n # NoPref /\ n.children = r /\ n.callbacks = r
  BY NewPrefIs DEF PrefKinds
<1>6. NoPref.children = r /\ NoPref.callbacks = r /\ IsPref(NoPref)
  <2>1. NoPref.children = r /\ NoPref.callbacks = r
    BY DEF NoPref
  <2>2. NoPref = [kind |-> NoPref.kind, value |-> NoPref.value, children |-> NoPref.children, callbacks |-> NoPref.callbacks]
    BY DEF NoPref
  <2> HIDE DEF r
  <2> QED
    BY <1>4, <2>1, <2>2 DEF IsPref
<1> HIDE DEF n, c
<1>7. IsPref(top) /\ top # NoPref /\ top.children = c /\ top.callbacks = n.callbacks
  BY <1>4, <1>5, PrefWithChildren
<1>8. IsInjective(r) /\ ToSet(r) = {}
  BY DEF IsInjective, ToSet
<1> HIDE DEF r, oul, top
<1>9. \A q \in PrefPath : /\ IsPref(BareTree[q]) /\ BareTree[q].callbacks = r
                          /\ q # r => BareTree[q].children = r
  BY <1>2, <1>5, <1>6, <1>7
<1>10. ASSUME NEW q \in PrefPath, q # r
       PROVE  BareTree[q] # NoPref <=> Last(q) \in ToSet(BareTree[Front(q)].children)
  <2>1. Front(q) \in PrefPath
    BY <1>10 DEF PrefTreeAssumption, r
  <2>2. CASE Front(q) = r
    <3>1. q = oul <=> Last(q) = "oul"
      <4>1. q # <<>> /\ oul \in PrefPath \ {<<>>}
        BY <1>1, <1>10 DEF r
      <4> QED
        BY <1>3, <2>2, <4>1, PathIs
    <3>2. ToSet(BareTree[Front(q)].children) = {"oul"}
      BY <1>2, <1>4, <1>7, <2>2
    <3> QED
      BY <1>2, <1>5, <1>10, <3>1, <3>2
  <2>3. CASE Front(q) # r
    <3>1. q # oul
      BY <1>3, <2>3
    <3> QED
      BY <1>2, <1>8, <1>9, <1>10, <2>1, <2>3, <3>1
  <2> QED
    BY <2>2, <2>3
<1>11. TableAgrees(BareTree)
  BY <1>8, <1>9, <1>10 DEF TableAgrees, Known, r
<1>12. Known(BareTree, r)
  BY <1>2, <1>7 DEF Known
<1> QED
  BY <1>2, <1>9, <1>11, <1>12 DEF TreeIsSound, r

\* The next session, whatever the file says by then.
NextSession ==
    /\ NobodyCalled
    /\ \E tree : MayBeRead(tree) /\ prefTree' = WithSaving(tree)
    /\ prefOwed' = {} /\ UNCHANGED prefCalls

SessionsSpec == PrefTreeInit /\ [][DuringSession \/ NextSession]_prefTreeVars

\* A session starts with a sound tree and nothing under way.
LEMMA SessionStarts ==
    ASSUME PrefTreeAssumption, NEW tree, MayBeRead(tree), prefTree = WithSaving(tree),
           prefCalls = <<>>, prefOwed = {}
    PROVE  PrefsInv
<1>1. TreeIsSound(prefTree) /\ IdsOnce(prefTree)
  BY SavingIs DEF MayBeRead
<1>2. (\E S : <<>> \in Seq(S)) /\ Len(<<>>) = 0
  <2>1. <<>> \in Seq({})
    OBVIOUS
  <2> QED
    BY <2>1
<1>3. \A k \in 1..Len(prefCalls) : FALSE
  BY <1>2
<1>4. WalksAre(prefCalls, prefTree)
  BY <1>2, <1>3 DEF WalksAre
<1> QED
  BY <1>1, <1>4 DEF PrefsInv

\* Another session.
LEMMA NextSessionStep ==
    ASSUME PrefTreeAssumption, NextSession
    PROVE  PrefsInv'
<1>1. PICK tree : MayBeRead(tree) /\ prefTree' = WithSaving(tree)
  BY DEF NextSession
<1>2. prefCalls' = <<>> /\ prefOwed' = {}
  BY DEF NextSession, NobodyCalled
<1>3. TreeIsSound(prefTree') /\ IdsOnce(prefTree')
  BY <1>1, SavingIs DEF MayBeRead
<1>4. (\E S : <<>> \in Seq(S)) /\ Len(<<>>) = 0
  <2>1. <<>> \in Seq({})
    OBVIOUS
  <2> QED
    BY <2>1
<1>5. WalksAre(prefCalls', prefTree')
  BY <1>2, <1>4 DEF WalksAre
<1> QED
  BY <1>2, <1>3, <1>5 DEF PrefsInv

\* The first session.
LEMMA PrefsStart == ASSUME PrefTreeAssumption, PrefTreeInit PROVE PrefsInv
<1>1. MayBeRead(BareTree)
  BY BareTreeIs DEF MayBeRead
<1> QED
  BY <1>1, SessionStarts DEF PrefTreeInit

\* Every step keeps the invariant.
LEMMA PrefsStep ==
    ASSUME PrefTreeAssumption, PrefsInv, [DuringSession \/ NextSession]_prefTreeVars
    PROVE  PrefsInv'
<1>1. ASSUME NEW c \in PrefChange, SetOrAdd(c[1], c[2], c[3]) PROVE PrefsInv'
  <2>1. c[1] \in PrefPath \ {<<>>} /\ c[2] \in PrefKinds
    BY DEF PrefTreeAssumption
  <2> QED
    BY <1>1, <2>1, SetOrAddStep
<1>2. CASE CallbackReturns
  BY <1>2, CallbackReturnsStep
<1>3. ASSUME NEW h \in PrefHandle, DisconnectHandle(h) PROVE PrefsInv'
  BY <1>3, DisconnectsStep DEF DisconnectHandle
<1>4. ASSUME NEW h \in PrefHandle, NEW p \in PrefMayConnect, ConnectCallback(p, h) PROVE PrefsInv'
  BY <1>4, ConnectCallbackStep
<1>5. ASSUME NEW id \in CallbackId, DisconnectCallback(id) PROVE PrefsInv'
  BY <1>5, DisconnectsStep DEF DisconnectCallback
<1>6. CASE NextSession
  BY <1>6, NextSessionStep
<1>7. CASE UNCHANGED prefTreeVars
  BY <1>7 DEF prefTreeVars, PrefsInv
<1> QED
  BY <1>1, <1>2, <1>3, <1>4, <1>5, <1>6, <1>7 DEF DuringSession

\* The invariant says more than the property.
LEMMA PrefsGive == ASSUME PrefTreeAssumption, PrefsInv PROVE PrefsAreTold
<1>1. TreeIsSound(prefTree)
  BY DEF PrefsInv
<1>2. ASSUME prefCalls = <<>>, NEW o \in prefOwed PROVE FALSE
  <2>1. \E k \in 1..Len(prefCalls) : TRUE
    BY DEF PrefsInv, WillBeTold
  <2> QED
    BY <1>2, <2>1
<1>3. EverybodyKnows
  BY <1>2 DEF EverybodyKnows, NobodyCalled
<1> QED
  BY <1>1, <1>3 DEF PrefsAreTold

\* Whatever sound tree a session reads, a preference is known by its full name exactly when
\* it is a child of its parent, and when a change and everything callbacks made of it is
\* over, every callback of the preference and of its parents was last told the value it
\* has: do_callbacks goes on from its list node although callbacks set preferences again,
\* connect and disconnect meanwhile.
THEOREM ToldInAnySession == SessionsSpec => []PrefsAreTold
<1>1. PrefTreeInit => PrefsInv
  BY PrefTreeAssumption, PrefsStart
<1>2. PrefsInv /\ [DuringSession \/ NextSession]_prefTreeVars => PrefsInv'
  BY PrefTreeAssumption, PrefsStep
<1>3. PrefsInv => PrefsAreTold
  BY PrefTreeAssumption, PrefsGive
<1> QED
  BY <1>1, <1>2, <1>3, PTL DEF SessionsSpec

\* The same of sessions that read prefs.xml, as long as the file means the tree it was
\* written from, when oul_prefs_init reads it again.
THEOREM EverybodyIsTold == PrefTreeSpec /\ []FileMeansTree => []PrefsAreTold
<1>1. FileMeansTree /\ RestartPrefs => NextSession
  BY DEF FileMeansTree, RestartPrefs, NextSession
<1>2. FileMeansTree /\ [PrefTreeNext]_prefTreeVars => [DuringSession \/ NextSession]_prefTreeVars
  BY <1>1 DEF PrefTreeNext
<1>3. PrefTreeInit => PrefsInv
  BY PrefTreeAssumption, PrefsStart
<1>4. PrefsInv /\ [DuringSession \/ NextSession]_prefTreeVars => PrefsInv'
  BY PrefTreeAssumption, PrefsStep
<1>5. PrefsInv => PrefsAreTold
  BY PrefTreeAssumption, PrefsGive
<1> QED
  BY <1>2, <1>3, <1>4, <1>5, PTL DEF PrefTreeSpec
=============================================================================
