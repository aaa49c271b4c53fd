------------------------------- MODULE Balloc -------------------------------
(***************************************************************************)
(* The block allocator (kernel/balloc.c): the cyclic search of             *)
(* balloc_from_range() over the blocks of the bitmap file, and             *)
(* bitmap_test_and_modify() for bfree() and replay.                        *)
(*                                                                         *)
(* Each turn of the two nested loops is a step.  Positions in the bitmap   *)
(* are block numbers: pos and limit are the code's mapoffset and maplimit, *)
(* counted from block 0 and not from the first bit of the bitmap block.    *)
(***************************************************************************)
EXTENDS Naturals, FiniteSets, FreeRuns

CONSTANTS
    volblocks,     \* blocks of the volume
    mapsize,       \* bits in one block of the bitmap
    MaxRequest     \* bound: blocks in one call

ASSUME VolumeAssumption == volblocks \in Nat \ {0} /\ mapsize \in Nat \ {0}
ASSUME RequestAssumption == MaxRequest \in 1 .. volblocks

Volume == 0 .. volblocks - 1
BALLOC_PARTIAL == 1

NoSeg == [block |-> 0, count |-> 0]

VARIABLES
    bitmap,        \* the blocks whose bit is set
    freeblocks, nextblock,
    pc,            \* "idle", "outer", "inner", "take", "modify", "return" or,
                   \* after tux3_fs_error(), "stopped"
    blocks,        \* blocks requested or, in "modify", still to be modified
    flags,         \* 0 or BALLOC_PARTIAL
    start, len,    \* the range still to be searched or modified
    need,          \* blocks that lack to the request
    pos, limit,    \* rest of the current bitmap block
    seg,           \* the segment found, or the longest one so far
    set,           \* "modify": set the bits or clear them
    ret,           \* what the call returns
    before, goal   \* history: bitmap and nextblock when the call began

volVars  == <<bitmap, freeblocks, nextblock>>
callVars == <<blocks, flags, set, before, goal>>
loopVars == <<start, len, need, pos, limit, seg>>
vars == <<volVars, callVars, loopVars, pc, ret>>

Returns == {"none", "ok", "ENOSPC", "EIO"}

(* Every variable stays in its range: the search never leaves the volume    *)
(* and nextblock is a block of it.                                          *)
TypeOK ==
    /\ bitmap \subseteq Volume /\ before \subseteq Volume
    /\ freeblocks \in 0 .. volblocks
    /\ nextblock \in Volume /\ goal \in Volume
    /\ pc \in {"idle", "outer", "inner", "take", "modify", "return", "stopped"}
    /\ blocks \in 0 .. volblocks /\ need \in 0 .. volblocks
    /\ flags \in {0, BALLOC_PARTIAL} /\ set \in {0, 1}
    /\ start \in 0 .. volblocks /\ len \in 0 .. volblocks
    /\ pos \in 0 .. volblocks /\ limit \in 0 .. volblocks
    /\ seg \in [block : 0 .. volblocks, count : 0 .. volblocks]
    /\ ret \in Returns

(* A new volume. *)
Init ==
    /\ bitmap = {} /\ freeblocks = volblocks /\ nextblock = 0
    /\ pc = "idle" /\ ret = "none"
    /\ blocks = 0 /\ flags = 0 /\ set = 0 /\ before = {} /\ goal = 0
    /\ start = 0 /\ len = 0 /\ need = 0 /\ pos = 0 /\ limit = 0 /\ seg = NoSeg

-----------------------------------------------------------------------------
(* find_next_bit_le() in the first case, find_next_zero_bit_le() in the     *)
(* second: i is the first bit from "from" on that is set (clear), or "to".  *)
IsNextBit(i, from, to) ==
    i \in from .. to /\ (i = to \/ i \in bitmap) /\ \A b \in from .. i - 1 : b \notin bitmap

IsNextZeroBit(i, from, to) ==
    i \in from .. to /\ (i = to \/ i \notin bitmap) /\ \A b \in from .. i - 1 : b \in bitmap

(* save_seg(): keep the longest segment. *)
save_seg(s, block, count) ==
    IF s.count < count THEN [block |-> block, count |-> count] ELSE s

SmallerOf(a, b) == IF a < b THEN a ELSE b

(* balloc(), balloc_partial(): search the whole volume from nextblock on. *)
Balloc(n, f) ==
    /\ pc = "idle" /\ pc' = "outer"
    /\ blocks' = n /\ need' = n /\ flags' = f
    /\ start' = nextblock /\ len' = volblocks
    /\ seg' = NoSeg
    /\ before' = bitmap /\ goal' = nextblock
    /\ UNCHANGED <<volVars, set, pos, limit, ret>>

(* Mutant: the part found at the end of the volume still counts.            *)
Wrap_KeepNeed ==
    /\ pc = "outer" /\ len > 0 /\ start >= volblocks
    /\ start' = 0
    /\ UNCHANGED <<volVars, callVars, len, need, pos, limit, seg, pc, ret>>

(* The part found so far at the end of the volume is not contiguous with    *)
(* block 0: keep it if it is the longest and start again.                   *)
Wrap ==
    /\ pc = "outer" /\ len > 0 /\ start >= volblocks
    /\ seg' = IF need < blocks THEN save_seg(seg, volblocks - (blocks - need), blocks - need)
              ELSE seg
    /\ start' = 0 /\ need' = blocks
    /\ UNCHANGED <<volVars, callVars, len, pos, limit, pc, ret>>

(* Read the block of the bitmap that start is in. *)
ReadMap ==
    LET mapstart == (start \div mapsize) * mapsize
        maplimit == SmallerOf(mapstart + mapsize, start + len)
    IN  /\ pc = "outer" /\ len > 0 /\ start < volblocks
        /\ pc' = "inner"
        /\ pos' = start
        /\ limit' = IF maplimit > volblocks THEN mapstart + (volblocks % mapsize) ELSE maplimit
        /\ UNCHANGED <<volVars, callVars, start, len, need, seg, ret>>

(* Mutant: start alone is advanced, so the search goes round for ever.      *)
NextMap_KeepLen == start' = limit /\ len' = len /\ pc' = "outer"

(* Go on with the next block of the bitmap. *)
NextMap == start' = limit /\ len' = len - (limit - start) /\ pc' = "outer"

(* All bits are clear, up to the end of the request or of the bitmap block. *)
FreeBits ==
    LET mapnext == SmallerOf(pos + need, limit)
    IN  /\ pc = "inner"
        /\ IsNextBit(mapnext, pos, mapnext)
        /\ need' = need - (mapnext - pos)
        /\ IF need' > 0 THEN NextMap /\ UNCHANGED seg
           ELSE /\ seg' = [block |-> mapnext - blocks, count |-> blocks]
                /\ pc' = "take"
                /\ UNCHANGED <<start, len>>
        /\ UNCHANGED <<volVars, callVars, pos, limit, ret>>

(* Mutant: the blocks before the set bit still count for the next run.      *)
UsedBits_KeepNeed ==
    LET mapnext == SmallerOf(pos + need, limit)
    IN  \E idx \in pos .. mapnext - 1, next \in pos + 1 .. limit :
        /\ pc = "inner"
        /\ IsNextBit(idx, pos, mapnext)
        /\ LET blks == blocks - (need - (idx - pos))
           IN  seg' = IF blks > 0 THEN save_seg(seg, idx - blks, blks) ELSE seg
        /\ need' = need - (idx - pos)
        /\ IsNextZeroBit(next, idx + 1, limit)
        /\ pos' = next
        /\ IF next = limit THEN NextMap ELSE UNCHANGED <<start, len, pc>>
        /\ UNCHANGED <<volVars, callVars, limit, ret>>

(* Bit idx is set: keep what was found up to it, and skip the set bits. *)
UsedBits ==
    LET mapnext == SmallerOf(pos + need, limit)
    IN  \E idx \in pos .. mapnext - 1, next \in pos + 1 .. limit :
        /\ pc = "inner"
        /\ IsNextBit(idx, pos, mapnext)
        /\ LET blks == blocks - (need - (idx - pos))
           IN  seg' = IF blks > 0 THEN save_seg(seg, idx - blks, blks) ELSE seg
        /\ need' = blocks
        /\ IsNextZeroBit(next, idx + 1, limit)
        /\ pos' = next
        /\ IF next = limit THEN NextMap ELSE UNCHANGED <<start, len, pc>>
        /\ UNCHANGED <<volVars, callVars, limit, ret>>

(* A block of the bitmap cannot be read: the call fails where it is. *)
ReadError ==
    /\ \/ pc = "outer" /\ len > 0 /\ start < volblocks
       \/ pc = "modify" /\ blocks > 0
    /\ pc' = "return" /\ ret' = "EIO"
    /\ UNCHANGED <<volVars, callVars, loopVars>>

(* The whole range was searched. *)
SearchEnd ==
    /\ pc = "outer" /\ len = 0
    /\ IF flags = BALLOC_PARTIAL /\ seg.count > 0 THEN pc' = "take" /\ UNCHANGED ret
                                   ELSE pc' = "return" /\ ret' = "ENOSPC"
    /\ UNCHANGED <<volVars, callVars, loopVars>>

(* set_bits(), clear_bits(), all_set() and all_clear() (kernel/utility.c).  *)
set_bits(map, first, n) == map \union first .. first + n - 1
clear_bits(map, first, n) == map \ (first .. first + n - 1)
all_set(map, first, n) == first .. first + n - 1 \subseteq map
all_clear(map, first, n) == (first .. first + n - 1) \cap map = {}

(* bitmap_modify_bits() and, over several bitmap blocks, bitmap_modify() *)
bitmap_modify(first, n, s) ==
    /\ bitmap' = IF s = 1 THEN set_bits(bitmap, first, n) ELSE clear_bits(bitmap, first, n)
    /\ freeblocks' = IF s = 1 THEN freeblocks - n ELSE freeblocks + n

(* Mutant: the whole request is charged for a partial segment.              *)
Take_Request ==
    LET end == seg.block + seg.count
    IN  /\ pc = "take" /\ pc' = "return" /\ ret' = "ok"
        /\ bitmap' = bitmap \union seg.block .. end - 1
        /\ freeblocks' = freeblocks - SmallerOf(blocks, freeblocks)
        /\ nextblock' = IF end >= volblocks THEN 0 ELSE end
        /\ UNCHANGED <<callVars, loopVars>>

(* The segment found is marked, without a test of its bits. *)
Take ==
    LET end == seg.block + seg.count
    IN  /\ pc = "take" /\ pc' = "return" /\ ret' = "ok"
        /\ bitmap_modify(seg.block, seg.count, 1)
        /\ nextblock' = IF end >= volblocks THEN 0 ELSE end
        /\ UNCHANGED <<callVars, loopVars>>

(* A block of the bitmap cannot be modified: those before it stay modified. *)
TakeError ==
    \E n \in 0 .. seg.count - 1 :
        /\ pc = "take" /\ pc' = "return" /\ ret' = "EIO"
        /\ n = 0 \/ (seg.block + n) % mapsize = 0
        /\ bitmap_modify(seg.block, n, 1)
        /\ UNCHANGED <<nextblock, callVars, loopVars>>

-----------------------------------------------------------------------------
(* bfree() and replay_update_bitmap(). *)
TestAndModify(first, n, s) ==
    /\ pc = "idle" /\ pc' = "modify"
    /\ first + n <= volblocks
    /\ start' = first /\ blocks' = n /\ set' = s
    /\ before' = bitmap /\ goal' = nextblock
    /\ UNCHANGED <<volVars, flags, len, need, pos, limit, seg, ret>>

(* Are n bits from first on as the caller expects them? *)
AsExpected(first, n) == IF set = 1 THEN all_clear(bitmap, first, n) ELSE all_set(bitmap, first, n)

(* One block of the bitmap *)
ModifyMap ==
    LET n == SmallerOf(mapsize - (start % mapsize), blocks)
    IN  /\ pc = "modify" /\ blocks > 0
        /\ AsExpected(start, n)
        /\ bitmap_modify(start, n, set)
        /\ start' = start + n /\ blocks' = blocks - n
        /\ UNCHANGED <<nextblock, flags, set, before, goal, len, need, pos, limit, seg, pc, ret>>

(* "already allocated" or "double free": tux3_fs_error() stops the program. *)
ModifyError ==
    /\ pc = "modify" /\ blocks > 0
    /\ ~ AsExpected(start, SmallerOf(mapsize - (start % mapsize), blocks))
    /\ pc' = "stopped"
    /\ UNCHANGED <<volVars, callVars, loopVars, ret>>

ModifyEnd ==
    /\ pc = "modify" /\ blocks = 0
    /\ pc' = "return" /\ ret' = "ok"
    /\ UNCHANGED <<volVars, callVars, loopVars>>

(* The caller takes the result; nothing of the call is left. *)
Return ==
    /\ pc = "return" /\ pc' = "idle" /\ ret' = "none"
    /\ blocks' = 0 /\ flags' = 0 /\ set' = 0 /\ before' = {} /\ goal' = 0
    /\ start' = 0 /\ len' = 0 /\ need' = 0 /\ pos' = 0 /\ limit' = 0 /\ seg' = NoSeg
    /\ UNCHANGED volVars

Steps ==
    \/ Wrap \/ ReadMap \/ FreeBits \/ UsedBits \/ ReadError \/ SearchEnd
    \/ Take \/ TakeError \/ ModifyMap \/ ModifyError \/ ModifyEnd
    \/ Return

Next ==
    \/ \E n \in 1 .. MaxRequest, f \in {0, BALLOC_PARTIAL} : Balloc(n, f)
    \/ \E first \in Volume, n \in 1 .. MaxRequest, s \in {0, 1} : TestAndModify(first, n, s)
    \/ Steps

Spec == Init /\ [][Next]_vars

-----------------------------------------------------------------------------
(* The bits from first up to and without end are clear. *)
IsFree(first, end) == \A b \in first .. end - 1 : b \notin bitmap

(* bitmap_modify() sets the bits of the segment found without testing them: *)
(* they must all be clear and in the volume, whichever of the three         *)
(* save_seg() calls and however many bitmap blocks and wraps the segment    *)
(* comes from (its comment: the caller may want to check).                  *)
TakeFree ==
    pc = "take" =>
        /\ seg.count \in 1 .. blocks
        /\ seg.block + seg.count <= volblocks
        /\ IsFree(seg.block, seg.block + seg.count)

(* freeblocks is the number of clear bits, also in the middle of a call and *)
(* after one that failed half way ("modified bits and ->freeblocks are not  *)
(* restored to original", kernel/balloc.c:166).                             *)
FreeblocksExact == freeblocks = volblocks - Cardinality(bitmap)

(* The search finds what FreeRuns promises, from any nextblock and any      *)
(* bitmap and however its bits are split over blocks of the bitmap file; it *)
(* reports ENOSPC exactly when there is no such segment, and changes        *)
(* nothing then.                                                            *)
SearchCorrect ==
    LET found == Segment(before, volblocks, goal, blocks, flags = BALLOC_PARTIAL)
    IN  /\ pc = "take" => seg.block .. seg.block + seg.count - 1 = found
        /\ ret = "ENOSPC" => found = {} /\ bitmap = before /\ nextblock = goal

(* Bits of the range that the search has not looked at yet. *)
Rest == len - (IF pc = "inner" THEN pos - start ELSE 0)

(* How many steps a call can still take, in the worst case. *)
Rank ==
    IF pc = "outer" THEN 4 * Rest + (IF start >= volblocks THEN 3 ELSE 2)
    ELSE IF pc = "inner" THEN 4 * Rest + 1
    ELSE IF pc = "modify" THEN 4 * blocks + 2
    ELSE IF pc = "take" THEN 1 ELSE 0

(* Every call of balloc(), bfree() or replay_update_bitmap() ends: the      *)
(* cyclic search goes round the volume once, because each turn of its two   *)
(* loops, the wrap and the cut last bitmap block included, comes nearer to  *)
(* the end (balloc_from_range(), "while (len > 0)").                        *)
CallAdvances == [][pc # "idle" => Rank' < Rank \/ pc' = "idle"]_vars
=============================================================================
