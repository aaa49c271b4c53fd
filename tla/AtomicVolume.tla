---------------------------- MODULE AtomicVolume ----------------------------
(***************************************************************************)
(* What atomic commit promises of a volume that holds one file: the state  *)
(* that is durable changes only by a commit, which makes the whole state   *)
(* of the file durable in one step, and a mount after a crash finds        *)
(* exactly what was committed last.                                        *)
(***************************************************************************)
CONSTANTS
    Files,       \* states of the file
    Initial,     \* state of the file on a new volume
    Lost         \* the state in memory while the volume is not mounted

VARIABLES
    file,        \* as operations on the mounted volume see it
    durable      \* as a mount would find it

vars == <<file, durable>>

Init == file = Initial /\ durable = Initial

Change(new) == file # Lost /\ file' = new /\ UNCHANGED durable

Commit == file # Lost /\ durable' = file /\ UNCHANGED file

Crash == file' = Lost /\ UNCHANGED durable

Mount == file = Lost /\ file' = durable /\ UNCHANGED durable

Next == (\E new \in Files : Change(new)) \/ Commit \/ Crash \/ Mount

Spec == Init /\ [][Next]_vars
=============================================================================
