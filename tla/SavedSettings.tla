--------------------------- MODULE SavedSettings ---------------------------
(***************************************************************************)
(* What the preferences promise to the rest of the program, whatever       *)
(* happens to the process: the file holds the settings of one moment, all  *)
(* of them, and the next session starts from it.                           *)
(***************************************************************************)
CONSTANTS
    Settings,           \* assignments of values to preferences
    Started(_)          \* the settings a session starts with, given the saved ones

VARIABLES
    current,            \* the settings in memory
    saved               \* the settings in the file

Init == saved \in Settings /\ current = Started(saved)

Change == current' \in Settings /\ UNCHANGED saved

Save == saved' = current /\ UNCHANGED current

Restart == current' = Started(saved) /\ UNCHANGED saved

Next == Change \/ Save \/ Restart

Spec == Init /\ [][Next]_<<current, saved>>
=============================================================================
