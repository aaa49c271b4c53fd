------------------------------ MODULE FreeRuns ------------------------------
(***************************************************************************)
(* What the block allocator promises of a search that starts at block      *)
(* start of a volume of vol blocks and visits every block once, wrapping   *)
(* to block 0.  A segment is contiguous, so it does not wrap.              *)
(***************************************************************************)
EXTENDS Naturals, FiniteSets, FiniteSetsExt

(* The p-th block visited. *)
Visit(vol, start, p) == (start + p) % vol

(* n free contiguous blocks from the p-th visited on. *)
IsRun(bitmap, vol, start, p, n) ==
    /\ p + n <= vol
    /\ \A i \in 0 .. n - 1 : /\ Visit(vol, start, p + i) \notin bitmap
                             /\ Visit(vol, start, p + i) = Visit(vol, start, p) + i

(* Where segments of k blocks begin that a request of n blocks can get.  A  *)
(* shorter one counts when a used block or the end of the volume stops it;  *)
(* one that the end of the search stops is missed.                          *)
Runs(bitmap, vol, start, n, k) ==
    {p \in 0 .. vol - 1 :
        /\ IsRun(bitmap, vol, start, p, k)
        /\ k = n \/ (p + k < vol /\ Visit(vol, start, p + k) \in bitmap \union {0})}

(* The segment for a request of n blocks: the first one of n blocks, else,  *)
(* if partial, the first of the longest ones; {} stands for ENOSPC.         *)
Segment(bitmap, vol, start, n, partial) ==
    LET lengths == {k \in 1 .. n : (partial \/ k = n) /\ Runs(bitmap, vol, start, n, k) # {}}
        count   == Max(lengths)
        first   == Visit(vol, start, Min(Runs(bitmap, vol, start, n, count)))
    IN  IF lengths = {} THEN {} ELSE first .. first + count - 1
=============================================================================
