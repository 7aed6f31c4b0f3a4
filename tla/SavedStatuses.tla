--------------------------- MODULE SavedStatuses ---------------------------
(***************************************************************************)
(* Saved statuses: liboul/savedstatuses.c.  A list of statuses, sorted by  *)
(* popularity, with a table that finds one by the time it was created,     *)
(* which is its identity in the preferences.  Changes are written to       *)
(* status.xml by a timer five seconds later.                               *)
(*                                                                         *)
(* The program itself asks for the current status when the tray icon is    *)
(* updated; the other operations are those the library offers.  It ends    *)
(* without oul_savedstatuses_uninit (oul_core_quit does not call it), so   *)
(* both endings are modelled, and the preferences are saved by themselves  *)
(* at any time.                                                            *)
(***************************************************************************)
EXTENDS Integers, FiniteSets, SequencesExt

CONSTANTS
    Status,         \* addresses of OulSavedStatus
    Title,          \* titles users give, as sequences of words
    Type,           \* what a status says: its primitive and message
    Offline,        \* the type of a default status
    MaxTransients,  \* MAX_TRANSIENTS
    Day,            \* by how much one use counts
    UsesThatCount,  \* how many uses count
    MaxTime,        \* bound on the clock
    OldFiles        \* what an earlier version may have left in status.xml

ASSUME StatusesAssumption ==
    /\ Offline \in Type
    /\ MaxTransients \in Nat /\ MaxTime \in Nat /\ Day \in Nat /\ UsesThatCount \in Nat
    /\ IsFiniteSet(Status) /\ Type \subseteq STRING
    /\ Title \subseteq Seq(STRING) \ {<<>>}
    /\ \A f \in OldFiles :
        /\ f \in Seq([addr : {"none"}, title : Seq(STRING), type : STRING,
                     created : Nat, lastused : Nat, usage : Nat])
        /\ Len(f) <= Cardinality(Status)

VARIABLES
    saved_statuses, \* list of [addr, title, type, created, lastused, usage]
    creation_times, \* created -> addr
    status_timer,   \* save_timer is pending
    default_status, \* /oul/savedstatus/default in memory
    status_xml,     \* the list in the file
    session,        \* "on" between init and the end of the program
    clock

statusVars == <<saved_statuses, creation_times, status_timer, default_status,
                status_xml, session, clock>>

Nowhere == "none"     \* the address of a status in the file
Transient == <<>>       \* a title of NULL
IsTransient(s) == s.title = Transient
On == session = "on"
\* The address a new status gets.
Fresh(list) == CHOOSE a \in Status : a \notin {list[i].addr : i \in DOMAIN list}
Full(list) == Len(list) = Cardinality(Status)
Addrs(list) == {list[i].addr : i \in DOMAIN list}
FindTitle(list, t) == {i \in DOMAIN list : list[i].title = t}
PlaceOf(list, a) == CHOOSE i \in DOMAIN list : list[i].addr = a

\* set_creation_time: the first time from t on that no other status has.
UniqueTime(times, t) ==
    LET from == IF t = 0 THEN 1 ELSE t
    IN CHOOSE u \in from..(from + Cardinality(DOMAIN times)) :
            /\ u \notin DOMAIN times
            /\ \A v \in from..(u - 1) : v \in DOMAIN times

PutTime(times, t, a) == [u \in DOMAIN times \cup {t} |-> IF u = t THEN a ELSE times[u]]
DropTime(times, t) == [u \in DOMAIN times \ {t} |-> times[u]]

\* saved_statuses_sort_func: a status is the more popular the later it was used,
\* a day for each time, up to ten.
Magic(s) == s.lastused + (IF s.usage < UsesThatCount THEN s.usage ELSE UsesThatCount) * Day

\* g_list_insert_sorted: behind those that are more popular.
Insert(list, s) ==
    InsertAt(list, 1 + Cardinality({i \in DOMAIN list : Magic(list[i]) > Magic(s)}), s)
\* g_list_remove
WithoutStatus(list, a) == RemoveAt(list, PlaceOf(list, a))

\* The elements of list that have a place, at that place.
Arranged(list, place) ==
    [k \in 1..Cardinality(DOMAIN place) |-> list[CHOOSE i \in DOMAIN place : place[i] = k]]

\* g_list_sort, which is stable.
Precedes(list, i, j) ==
    Magic(list[i]) > Magic(list[j]) \/ (Magic(list[i]) = Magic(list[j]) /\ i < j)
Sorted(list) ==
    Arranged(list, [i \in DOMAIN list |-> 1 + Cardinality({j \in DOMAIN list : Precedes(list, j, i)})])

-----------------------------------------------------------------------------
(* Reading: load_statuses and parse_status.                                *)

\* The title, made unique by a number behind it.
UniqueTitle(list, t) ==
    IF t = Transient \/ FindTitle(list, t) = {} THEN t
    ELSE Append(t, CHOOSE n \in 2..(Len(list) + 2) :
                /\ FindTitle(list, Append(t, n)) = {}
                /\ \A m \in 2..(n - 1) : FindTitle(list, Append(t, m)) # {})

\* parse_status: one status is read and put in front.  Nothing is found for a
\* substatus: parse_substatus never has a plugin.
Parsed(acc, x) ==
    LET a == Fresh(acc.list)
        t == UniqueTime(acc.times, x.created)
        s == [x EXCEPT !.addr = a, !.title = UniqueTitle(acc.list, x.title),
                       !.created = t]
    IN [list |-> <<s>> \o acc.list, times |-> PutTime(acc.times, t, a)]

Load(xml) ==
    LET read[i \in 0..Len(xml)] ==
            IF i = 0 THEN [list |-> <<>>, times |-> <<>>] ELSE Parsed(read[i - 1], xml[i])
    IN read[Len(xml)]

\* oul_savedstatuses_init.  The preferences are saved at times of their own: the
\* default may be that of any earlier session.
InitStatuses ==
    /\ session = "off"
    /\ LET read == Load(status_xml)
       IN saved_statuses' = Sorted(read.list) /\ creation_times' = read.times
    /\ default_status' \in 0..MaxTime
    /\ session' = "on"
    /\ UNCHANGED <<status_timer, status_xml, clock>>

-----------------------------------------------------------------------------
(* Operations, on a record of the list, the table, the timer and the        *)
(* default preference.                                                      *)

Memory == [list |-> saved_statuses, times |-> creation_times,
           timer |-> status_timer, default |-> default_status]
MemoryBecomes(m) == /\ saved_statuses' = m.list /\ creation_times' = m.times
              /\ status_timer' = m.timer /\ default_status' = m.default

\* oul_savedstatus_new
New(m, title, type) ==
    LET t == UniqueTime(m.times, clock)
        a == Fresh(m.list)
        s == [addr |-> a, title |-> title, type |-> type, created |-> t,
              lastused |-> 0, usage |-> 0]
    IN [m EXCEPT !.list = Insert(@, s), !.times = PutTime(@, t, a), !.timer = TRUE]

\* oul_savedstatus_get_default: a default status is made when there is none.
WithCurrent(m) ==
    IF m.default \in DOMAIN m.times THEN m
    ELSE LET n == New(m, Transient, Offline)
         IN [n EXCEPT !.default = n.list[PlaceOf(n.list, Fresh(m.list))].created]
Current(m) == m.times[m.default]

\* Mutant: a status that goes is still found by its time.
Deleted_StaysInTable(m, a) ==
    LET t == m.list[PlaceOf(m.list, a)].created
    IN [m EXCEPT !.list = WithoutStatus(@, a), !.timer = TRUE, !.default = IF @ = t THEN 0 ELSE @]

\* oul_savedstatus_delete_by_status
Deleted(m, a) ==
    LET t == m.list[PlaceOf(m.list, a)].created
    IN [m EXCEPT !.list = WithoutStatus(@, a), !.times = DropTime(@, t), !.timer = TRUE,
                 !.default = IF @ = t THEN 0 ELSE @]

\* remove_old_transient_statuses on the list that has the current status: of the
\* transient ones the first MAX_TRANSIENTS stay, and the current one.
Expired(m) ==
    LET transients(i) == Cardinality({j \in 1..i : IsTransient(m.list[j])})
        stay == {i \in DOMAIN m.list : \/ ~IsTransient(m.list[i])
                                        \/ transients(i) <= MaxTransients
                                        \/ m.list[i].addr = Current(m)}
        kept == {m.list[i].addr : i \in stay}
    IN [m EXCEPT !.list = Arranged(@, [i \in stay |-> Cardinality({j \in stay : j <= i})]),
                 !.times = [t \in {t \in DOMAIN @ : @[t] \in kept} |-> @[t]],
                 !.timer = @ \/ transients(Len(m.list)) >= MaxTransients]

\* There is an address for a default status, should one have to be made.
RoomForDefault == ~Full(saved_statuses) \/ default_status \in DOMAIN creation_times
Do(m) == On /\ MemoryBecomes(m) /\ UNCHANGED <<status_xml, session, clock>>

\* The tray icon asks for the current status.
GetCurrent == RoomForDefault /\ Do(WithCurrent(Memory))

\* A status with a title nobody has, or a transient one.
NewStatus(title, type) ==
    /\ ~Full(saved_statuses)
    /\ title # Transient => FindTitle(saved_statuses, title) = {}
    /\ Do(New(Memory, title, type))

\* oul_savedstatus_set_title, _set_type and _set_message
Modify(a, title, type) ==
    /\ a \in Addrs(saved_statuses)
    /\ LET i == PlaceOf(saved_statuses, a)
       IN /\ \/ title = saved_statuses[i].title
             \/ title # Transient /\ FindTitle(saved_statuses, title) = {}
          /\ Do([Memory EXCEPT !.list[i].title = title, !.list[i].type = type, !.timer = TRUE])

\* oul_savedstatus_set_substatus: the substatus itself is never read again.
SetSubstatus == saved_statuses # <<>> /\ Do([Memory EXCEPT !.timer = TRUE])

\* oul_savedstatus_delete: not the current one, which is made when there is none.
DeleteTitle(title) ==
    /\ RoomForDefault /\ FindTitle(saved_statuses, title) # {}
    /\ LET m == WithCurrent(Memory)
           a == m.list[CHOOSE i \in FindTitle(m.list, title) : TRUE].addr
       IN Do(IF Current(m) = a THEN m ELSE Deleted(m, a))

DeleteByStatus(a) == a \in Addrs(saved_statuses) /\ Do(Deleted(Memory, a))

\* oul_savedstatus_activate up to its walk over the plugins.
Activated(m, a) ==
    LET s == m.list[PlaceOf(m.list, a)]
        used == [s EXCEPT !.lastused = clock, !.usage = IF @ < UsesThatCount THEN @ + 1 ELSE @]
    IN [m EXCEPT !.list = Insert(WithoutStatus(@, a), used), !.default = s.created]

Activate(a) == /\ RoomForDefault /\ a \in Addrs(saved_statuses)
               /\ Do(Activated(WithCurrent(Memory), a))

-----------------------------------------------------------------------------
(* Writing, and the end of the program.                                    *)

\* statuses_to_xmlnode.  Substatuses are written without their plugin, so that
\* they cannot be read again.
StatusesToXml(list) == [i \in DOMAIN list |-> [list[i] EXCEPT !.addr = Nowhere]]

\* save_cb with sync_statuses
SaveStatuses ==
    /\ On /\ status_timer
    /\ status_xml' = StatusesToXml(saved_statuses) /\ status_timer' = FALSE
    /\ UNCHANGED <<saved_statuses, creation_times, default_status, session, clock>>

SessionEnded == /\ saved_statuses' = <<>> /\ creation_times' = <<>> /\ status_timer' = FALSE
         /\ default_status' = 0 /\ session' = "off"

\* oul_savedstatuses_uninit
UninitStatuses ==
    /\ On /\ RoomForDefault
    /\ LET e == Expired(WithCurrent(Memory))
       IN status_xml' = IF e.timer THEN StatusesToXml(e.list) ELSE status_xml
    /\ SessionEnded /\ UNCHANGED <<clock>>

\* The program quits, crashes or is killed, also by the walk of
\* oul_savedstatus_activate over a list that was never set.
ExitStatuses == On /\ SessionEnded /\ UNCHANGED <<status_xml, clock>>

Tick == On /\ clock < MaxTime /\ clock' = clock + 1
        /\ UNCHANGED <<saved_statuses, creation_times, status_timer, default_status,
                       status_xml, session>>

StatusesInit ==
    /\ saved_statuses = <<>> /\ creation_times = <<>> /\ status_timer = FALSE
    /\ default_status = 0 /\ session = "off" /\ clock = 1
    /\ status_xml \in OldFiles

StatusesNext ==
    \/ InitStatuses \/ GetCurrent \/ Tick
    \/ \E title \in Title \cup {Transient}, type \in Type :
        NewStatus(title, type) \/ \E a \in Status : Modify(a, title, type)
    \/ \E title \in Title : DeleteTitle(title)
    \/ \E a \in Status : \/ DeleteByStatus(a) \/ Activate(a)
    \/ SetSubstatus \/ SaveStatuses \/ UninitStatuses \/ ExitStatuses

StatusesSpec == StatusesInit /\ [][StatusesNext]_statusVars

-----------------------------------------------------------------------------
(* A status is found by its creation time and by its title, whatever was     *)
(* read, made, renamed, deleted or activated before: creation_times has the   *)
(* addresses of the list, each under its own time, and no two statuses have   *)
(* the same title (set_creation_time, parse_status).                          *)
FoundByKey ==
    /\ {<<t, creation_times[t]>> : t \in DOMAIN creation_times}
            = {<<saved_statuses[i].created, saved_statuses[i].addr>> : i \in DOMAIN saved_statuses}
    /\ 0 \notin DOMAIN creation_times
    /\ Cardinality(Addrs(saved_statuses)) = Len(saved_statuses)
    /\ \A i, j \in DOMAIN saved_statuses :
        i # j => \/ IsTransient(saved_statuses[i])
                 \/ saved_statuses[i].title # saved_statuses[j].title

\* What the user gave a status, without how often he used it.
Given(list) == {<<s.title, s.type>> : s \in ToSet(list)}

(* While the program runs, what the user made, changed or deleted is in      *)
(* status.xml or on its way into it; titles that were made unique when they  *)
(* were read need not be (schedule_save, savedstatuses.h:48).                 *)
StatusesAreScheduled ==
    On => \/ status_timer
          \/ Given(saved_statuses) = Given(status_xml)
          \/ Given(saved_statuses) = Given(Load(status_xml).list)

\* The saved statuses can be found and are not lost (savedstatuses.c).
StatusesAreKept == FoundByKey /\ StatusesAreScheduled
=============================================================================
