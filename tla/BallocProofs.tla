---------------------------- MODULE BallocProofs ----------------------------
(***************************************************************************)
(* Proofs about the block allocator for volumes and bitmap blocks of any   *)
(* size: whatever balloc() takes is free and inside the volume, freeblocks *)
(* is exact, every call comes to its end, and the search finds the segment *)
(* that FreeRuns promises, or reports ENOSPC when there is none.           *)
(***************************************************************************)
EXTENDS Balloc, Integers, FiniteSetTheorems, TLAPS

USE VolumeAssumption, RequestAssumption

(* Where the search has got to: the blocks before it, as many as are no     *)
(* longer needed, are free.                                                 *)
Reached == IF pc = "inner" THEN pos ELSE start

(* The blocks that a search has collected so far are free, up to the one it *)
(* looks at next.                                                           *)
Collected ==
    pc \in {"outer", "inner"} =>
        /\ need \in 1 .. blocks
        /\ blocks - need <= Reached
        /\ IsFree(Reached - (blocks - need), Reached)

(* The longest segment saved is free. *)
Saved ==
    pc \in {"outer", "inner"} =>
        /\ seg.count <= blocks
        /\ seg.block + seg.count <= volblocks
        /\ IsFree(seg.block, seg.block + seg.count)

(* The part of the bitmap block that is searched is inside the range and    *)
(* inside the volume.                                                       *)
MapRange ==
    pc = "inner" =>
        /\ start <= pos /\ pos < limit /\ limit <= volblocks
        /\ limit - start <= len

(* What is left to modify is inside the volume. *)
ModifyRange == pc = "modify" => start + blocks <= volblocks

(* The inductive invariant. *)
IInv == /\ TypeOK /\ FreeblocksExact /\ TakeFree
        /\ Collected /\ Saved /\ MapRange /\ ModifyRange

-----------------------------------------------------------------------------
(* Bitmap block arithmetic: the first bit of the block that holds s, and    *)
(* the last block of the bitmap cut at the end of the volume.               *)
LEMMA MapBlock ==
    ASSUME NEW s \in Nat, NEW v \in Nat, NEW m \in Nat \ {0}, s < v
    PROVE  /\ (s \div m) * m \in Nat
           /\ (s \div m) * m <= s
           /\ s < (s \div m) * m + m
           /\ v % m \in Nat
           /\ (s \div m) * m + m > v => (s \div m) * m + (v % m) = v
<1> DEFINE k == s \div m
           q == v \div m
<1>1. /\ k \in Nat /\ s % m \in Nat /\ s % m < m /\ s = k * m + (s % m)
  OBVIOUS
<1>2. /\ q \in Nat /\ v % m \in Nat /\ v % m < m /\ v = q * m + (v % m)
  OBVIOUS
<1> HIDE DEF k, q
<1>3. k * m \in Nat /\ q * m \in Nat
  BY <1>1, <1>2
<1>4. k * m <= s /\ s < k * m + m
  BY <1>1, <1>3
<1>5. ASSUME k * m + m > v PROVE k * m + (v % m) = v
  <2>1. (k + 1) * m = k * m + m
    BY <1>1
  <2>2. q * m < (k + 1) * m
    BY <1>2, <1>3, <1>5, <2>1
  <2>3. q < k + 1
    BY <1>1, <1>2, <2>2
  <2>4. k * m < (q + 1) * m
    <3>1. (q + 1) * m = q * m + m
      BY <1>2
    <3> QED BY <1>2, <1>3, <1>4, <3>1
  <2>5. k < q + 1
    BY <1>1, <1>2, <2>4
  <2>6. k = q
    BY <1>1, <1>2, <2>3, <2>5
  <2> QED BY <1>2, <1>3, <2>6
<1> QED BY <1>2, <1>3, <1>4, <1>5 DEF k

(* A bitmap has at most as many set bits as the volume has blocks. *)
LEMMA CardinalityBound ==
    \A B \in SUBSET Volume : IsFiniteSet(B) /\ Cardinality(B) \in 0 .. volblocks
<1> SUFFICES ASSUME NEW B \in SUBSET Volume
             PROVE  IsFiniteSet(B) /\ Cardinality(B) \in 0 .. volblocks
  OBVIOUS
<1>1. IsFiniteSet(Volume) /\ Cardinality(Volume) = volblocks
  BY FS_Interval DEF Volume
<1>2. IsFiniteSet(B) /\ Cardinality(B) \in Nat /\ Cardinality(B) <= Cardinality(Volume)
  BY <1>1, FS_Subset, FS_CardinalityType
<1> QED BY <1>1, <1>2

(* Setting clear bits and clearing set bits of an interval of the volume    *)
(* change the number of set bits by the length of the interval.             *)
LEMMA CountBits ==
    ASSUME NEW B \in SUBSET Volume, NEW a \in Nat, NEW n \in Nat, a + n <= volblocks
    PROVE  /\ (a .. a + n - 1) \in SUBSET Volume
           /\ (\A b \in a .. a + n - 1 : b \notin B) =>
                Cardinality(B \union (a .. a + n - 1)) = Cardinality(B) + n
           /\ (a .. a + n - 1) \subseteq B =>
                Cardinality(B \ (a .. a + n - 1)) = Cardinality(B) - n
<1> DEFINE S == a .. a + n - 1
<1>2. IsFiniteSet(B) /\ Cardinality(B) \in Nat
  BY CardinalityBound
<1>3. IsFiniteSet(S) /\ Cardinality(S) = n
  BY FS_Interval
<1>4. S \in SUBSET Volume
  BY DEF Volume
<1>5. ASSUME \A b \in S : b \notin B PROVE Cardinality(B \union S) = Cardinality(B) + n
  <2>1. B \cap S = {}
    BY <1>5
  <2>2. Cardinality(B \cap S) = 0
    BY <2>1, FS_EmptySet
  <2> HIDE DEF S
  <2>3. Cardinality(B \union S) = Cardinality(B) + Cardinality(S) - Cardinality(B \cap S)
    BY <1>2, <1>3, FS_Union
  <2> QED BY <1>2, <1>3, <2>2, <2>3
<1>6. ASSUME S \subseteq B PROVE Cardinality(B \ S) = Cardinality(B) - n
  <2>1. B \cap S = S
    BY <1>6
  <2> HIDE DEF S
  <2> QED BY <1>2, <1>3, <2>1, FS_Difference
<1> QED BY <1>4, <1>5, <1>6

(* bitmap_modify() of clear bits keeps freeblocks exact.                    *)
LEMMA SetsBits ==
    ASSUME bitmap \in SUBSET Volume, FreeblocksExact,
           NEW a \in Nat, NEW n \in Nat, a + n <= volblocks,
           \A b \in a .. a + n - 1 : b \notin bitmap, bitmap_modify(a, n, 1)
    PROVE  bitmap' \subseteq Volume /\ FreeblocksExact' /\ freeblocks' \in 0 .. volblocks
<1> DEFINE bits == a .. a + n - 1
<1>1. bits \in SUBSET Volume /\ Cardinality(bitmap \union bits) = Cardinality(bitmap) + n
  BY CountBits, Zenon
<1>2. bitmap' = bitmap \union bits /\ freeblocks' = freeblocks - n
  BY DEF bitmap_modify, set_bits
<1>3. bitmap' \in SUBSET Volume
  BY <1>1, <1>2
<1>4. Cardinality(bitmap) \in 0 .. volblocks /\ Cardinality(bitmap') \in 0 .. volblocks
  BY <1>3, CardinalityBound
<1>5. Cardinality(bitmap') = Cardinality(bitmap) + n
  BY <1>1, <1>2
<1> QED BY <1>2, <1>3, <1>4, <1>5 DEF FreeblocksExact

LEMMA SmallerOfFacts ==
    ASSUME NEW a \in Int, NEW b \in Int
    PROVE  /\ SmallerOf(a, b) \in {a, b}
           /\ SmallerOf(a, b) <= a /\ SmallerOf(a, b) <= b
BY DEF SmallerOf

LEMMA InitInv == Init => IInv
<1> SUFFICES ASSUME Init PROVE IInv
  OBVIOUS
<1>1. TypeOK
  BY DEF Init, TypeOK, Returns, NoSeg, Volume, BALLOC_PARTIAL
<1>2. FreeblocksExact
  BY FS_EmptySet DEF Init, FreeblocksExact
<1> QED BY <1>1, <1>2 DEF Init, IInv, TakeFree, Collected, Saved, MapRange, ModifyRange

-----------------------------------------------------------------------------
(* Every step of the search, of bfree() and of replay keeps the invariant.  *)
LEMMA StepInv == IInv /\ [Next]_vars => IInv'
<1> SUFFICES ASSUME IInv, [Next]_vars PROVE IInv'
  OBVIOUS
<1> USE DEF IInv, TypeOK, Returns, BALLOC_PARTIAL
<1> USE DEF volVars, callVars, loopVars
<1>1. ASSUME NEW n \in 1 .. MaxRequest, NEW f \in {0, BALLOC_PARTIAL}, Balloc(n, f)
      PROVE  IInv'
  BY <1>1 DEF Balloc, NoSeg, Volume, FreeblocksExact, TakeFree, Collected, Saved, MapRange,
              ModifyRange, Reached, IsFree
<1>2. ASSUME NEW first \in Volume, NEW n \in 1 .. MaxRequest, NEW s \in {0, 1},
             TestAndModify(first, n, s)
      PROVE  IInv'
  BY <1>2 DEF TestAndModify, Volume, FreeblocksExact, TakeFree, Collected, Saved, MapRange,
              ModifyRange
<1>3. CASE Wrap
  BY <1>3 DEF Wrap, save_seg, FreeblocksExact, TakeFree, Collected, Saved, MapRange,
              ModifyRange, Reached, IsFree
<1>4. CASE ReadMap
  <2> DEFINE mapstart == (start \div mapsize) * mapsize
             maplimit == SmallerOf(mapstart + mapsize, start + len)
  <2>1. /\ mapstart \in Nat /\ mapstart <= start /\ start < mapstart + mapsize
        /\ mapstart + mapsize > volblocks => mapstart + (volblocks % mapsize) = volblocks
    <3>1. start \in Nat /\ start < volblocks /\ volblocks \in Nat /\ mapsize \in Nat \ {0}
      BY <1>4 DEF ReadMap
    <3> QED BY ONLY <3>1, MapBlock
  <2> HIDE DEF mapstart
  <2>2. /\ maplimit \in Nat /\ maplimit > start /\ maplimit <= start + len
        /\ maplimit > volblocks => mapstart + mapsize > volblocks
    BY <1>4, <2>1 DEF ReadMap, SmallerOf
  <2>3. /\ limit' = IF maplimit > volblocks THEN mapstart + (volblocks % mapsize) ELSE maplimit
        /\ pc = "outer" /\ start < volblocks /\ pc' = "inner" /\ pos' = start
        /\ UNCHANGED <<volVars, callVars, start, len, need, seg, ret>>
    BY <1>4 DEF ReadMap, mapstart
  <2> HIDE DEF maplimit
  <2>4. limit' > start /\ limit' <= volblocks /\ limit' <= start + len /\ limit' \in Nat
    BY <2>1, <2>2, <2>3
  <2> QED BY <2>3, <2>4 DEF FreeblocksExact, TakeFree, Collected, Saved, MapRange, ModifyRange,
             Reached, IsFree
<1>5. CASE FreeBits
  <2> DEFINE mapnext == SmallerOf(pos + need, limit)
  <2>1. /\ mapnext \in Nat /\ mapnext > pos /\ mapnext <= limit /\ mapnext <= pos + need
        /\ mapnext < limit => mapnext = pos + need
    BY <1>5 DEF FreeBits, SmallerOf, MapRange, Collected
  <2>2. /\ pc = "inner" /\ need' = need - (mapnext - pos)
        /\ \A b \in pos .. mapnext - 1 : b \notin bitmap
        /\ UNCHANGED <<volVars, callVars, pos, limit, ret>>
    BY <1>5 DEF FreeBits, IsNextBit
  <2>3. CASE need' > 0
    <3>1. NextMap /\ UNCHANGED seg
      BY <1>5, <2>3 DEF FreeBits
    <3> HIDE DEF mapnext
    <3>2. mapnext = limit
      BY <2>1, <2>2, <2>3
    <3> QED BY <2>1, <2>2, <2>3, <3>1, <3>2 DEF NextMap, FreeblocksExact, TakeFree, Collected,
               Saved, MapRange, ModifyRange, Reached, IsFree
  <2>4. CASE ~ (need' > 0)
    <3>1. /\ seg' = [block |-> mapnext - blocks, count |-> blocks]
          /\ pc' = "take" /\ UNCHANGED <<start, len>>
      BY <1>5, <2>4 DEF FreeBits
    <3> HIDE DEF mapnext
    <3>2. need' = 0 /\ mapnext = pos + need
      BY <2>1, <2>2, <2>4
    <3> QED BY <2>1, <2>2, <3>1, <3>2 DEF FreeblocksExact, TakeFree, Collected,
               Saved, MapRange, ModifyRange, Reached, IsFree
  <2> QED BY <2>3, <2>4
<1>6. CASE UsedBits
  <2> DEFINE mapnext == SmallerOf(pos + need, limit)
  <2>1. /\ mapnext \in Nat /\ mapnext > pos /\ mapnext <= limit /\ mapnext <= pos + need
    BY <1>6 DEF UsedBits, SmallerOf, MapRange, Collected
  <2>2. PICK idx \in pos .. mapnext - 1, next \in pos + 1 .. limit :
          /\ pc = "inner"
          /\ IsNextBit(idx, pos, mapnext)
          /\ LET blks == blocks - (need - (idx - pos))
             IN  seg' = IF blks > 0 THEN save_seg(seg, idx - blks, blks) ELSE seg
          /\ need' = blocks
          /\ pos' = next
          /\ IF next = limit THEN NextMap ELSE UNCHANGED <<start, len, pc>>
          /\ UNCHANGED <<volVars, callVars, limit, ret>>
    BY <1>6 DEF UsedBits
  <2> HIDE DEF mapnext
  <2> DEFINE blks == blocks - (need - (idx - pos))
  <2>3. /\ idx \in Nat /\ idx >= pos /\ idx < limit /\ blks \in 0 .. blocks /\ blks <= idx
        /\ \A b \in idx - blks .. idx - 1 : b \notin bitmap
    BY <2>1, <2>2 DEF IsNextBit, Collected, Reached, IsFree, MapRange
  <2>4. seg' \in [block : 0 .. volblocks, count : 0 .. volblocks] /\ Saved'
    BY <2>2, <2>3 DEF save_seg, Saved, IsFree, MapRange
  <2>5. CASE next = limit
    BY <2>2, <2>4, <2>5 DEF NextMap, FreeblocksExact, TakeFree, Collected, MapRange,
          ModifyRange, Reached, IsFree
  <2>6. CASE next # limit
    BY <2>2, <2>4, <2>6 DEF FreeblocksExact, TakeFree, Collected, MapRange,
          ModifyRange, Reached, IsFree
  <2> QED BY <2>5, <2>6
<1>7. CASE SearchEnd
  BY <1>7 DEF SearchEnd, FreeblocksExact, TakeFree, Collected, Saved, MapRange,
              ModifyRange, Reached, IsFree
<1>8. CASE Take
  <2> DEFINE end == seg.block + seg.count
  <2>1. /\ seg.block \in Nat /\ seg.count \in Nat \ {0} /\ seg.count <= blocks
        /\ end <= volblocks
        /\ \A b \in seg.block .. end - 1 : b \notin bitmap
    BY <1>8 DEF Take, TakeFree, IsFree
  <2>2. /\ bitmap_modify(seg.block, seg.count, 1)
        /\ nextblock' = IF end >= volblocks THEN 0 ELSE end
        /\ pc' = "return" /\ ret' = "ok"
        /\ UNCHANGED <<callVars, loopVars>>
    BY <1>8 DEF Take
  <2>3. bitmap' \subseteq Volume /\ FreeblocksExact' /\ freeblocks' \in 0 .. volblocks
    BY <2>1, <2>2, SetsBits
  <2>4. nextblock' \in Volume
    BY <2>1, <2>2 DEF Volume
  <2> QED BY <2>2, <2>3, <2>4 DEF TakeFree, Collected, Saved, MapRange, ModifyRange
<1>13. CASE TakeError
  <2>1. PICK n \in 0 .. seg.count - 1 :
            /\ pc = "take" /\ pc' = "return" /\ ret' = "EIO"
            /\ bitmap_modify(seg.block, n, 1)
            /\ UNCHANGED <<nextblock, callVars, loopVars>>
    BY <1>13 DEF TakeError
  <2>2. /\ seg.block \in Nat /\ n \in Nat /\ seg.block + n <= volblocks
        /\ \A b \in seg.block .. seg.block + n - 1 : b \notin bitmap
    BY <2>1 DEF TakeFree, IsFree
  <2>3. bitmap' \subseteq Volume /\ FreeblocksExact' /\ freeblocks' \in 0 .. volblocks
    BY <2>1, <2>2, SetsBits
  <2> QED BY <2>1, <2>3 DEF TakeFree, Collected, Saved, MapRange, ModifyRange
<1>9. CASE ModifyMap
  <2> DEFINE n == SmallerOf(mapsize - (start % mapsize), blocks)
             bits == start .. start + n - 1
  <2>1. n \in Nat /\ n <= blocks
    <3>1. start % mapsize \in 0 .. mapsize - 1
      OBVIOUS
    <3> QED BY <3>1 DEF SmallerOf
  <2>2. /\ pc = "modify"
        /\ IF set = 1 THEN bits \cap bitmap = {} ELSE bits \subseteq bitmap
        /\ bitmap' = IF set = 1 THEN bitmap \union bits ELSE bitmap \ bits
        /\ freeblocks' = IF set = 1 THEN freeblocks - n ELSE freeblocks + n
        /\ start' = start + n /\ blocks' = blocks - n
        /\ UNCHANGED <<nextblock, flags, set, before, goal, len, need, pos, limit, seg, pc, ret>>
    BY <1>9 DEF ModifyMap, AsExpected, bitmap_modify, set_bits, clear_bits, all_set, all_clear
  <2> HIDE DEF n
  <2>3. start + n <= volblocks
    BY <2>1, <2>2 DEF ModifyRange
  <2>4. bits \in SUBSET Volume /\ bitmap' \subseteq Volume
    BY <2>1, <2>2, <2>3 DEF Volume
  <2>5. /\ Cardinality(bitmap) \in 0 .. volblocks /\ Cardinality(bitmap') \in 0 .. volblocks
        /\ Cardinality(bitmap') = IF set = 1 THEN Cardinality(bitmap) + n
                                             ELSE Cardinality(bitmap) - n
    <3>1. bitmap \in SUBSET Volume /\ start \in Nat
      OBVIOUS
    <3>2. CASE set = 1
      <4>1. \A b \in bits : b \notin bitmap
        BY <2>2, <3>2
      <4> QED BY <2>1, <2>2, <2>3, <2>4, <3>1, <3>2, <4>1, CountBits, CardinalityBound, Zenon
    <3>3. CASE set # 1
      BY <2>1, <2>2, <2>3, <2>4, <3>1, <3>3, CountBits, CardinalityBound, Zenon
    <3> QED BY <3>2, <3>3
  <2>6. FreeblocksExact' /\ freeblocks' \in 0 .. volblocks
    BY <2>1, <2>2, <2>5 DEF FreeblocksExact
  <2> QED BY <2>1, <2>2, <2>3, <2>4, <2>6 DEF TakeFree, Collected, Saved, MapRange, ModifyRange
<1>10. CASE ReadError \/ ModifyError \/ ModifyEnd
  BY <1>10 DEF ReadError, ModifyError, ModifyEnd, FreeblocksExact, TakeFree, Collected, Saved, MapRange,
               ModifyRange
<1>11. CASE Return
  BY <1>11 DEF Return, NoSeg, Volume, FreeblocksExact, TakeFree, Collected, Saved, MapRange,
               ModifyRange
<1>12. CASE UNCHANGED vars
  BY <1>12 DEF vars, FreeblocksExact, TakeFree, Collected, Saved, MapRange, ModifyRange,
               Reached, IsFree
<1> QED BY <1>1, <1>2, <1>3, <1>4, <1>5, <1>6, <1>7, <1>8, <1>9, <1>10, <1>11, <1>12,
           <1>13 DEF Next, Steps

-----------------------------------------------------------------------------
(* The invariant holds in every state of the allocator. *)
THEOREM Invariance == Spec => []IInv
BY InitInv, StepInv, PTL DEF Spec

(* The search stays inside the volume and nextblock is a block of it, for   *)
(* any volume size, also one that does not fill its last bitmap block.      *)
THEOREM TypeCorrect == Spec => []TypeOK
BY Invariance, PTL DEF IInv

(* balloc() sets only bits that are clear and inside the volume.            *)
THEOREM TakesOnlyFree == Spec => []TakeFree
BY Invariance, PTL DEF IInv

(* freeblocks counts the clear bits exactly, also in the middle of a call   *)
(* and after a failed bfree().                                              *)
THEOREM FreeblocksCorrect == Spec => []FreeblocksExact
BY Invariance, PTL DEF IInv

-----------------------------------------------------------------------------
(* Each step of a call brings it nearer to its end: the search cannot go    *)
(* round the volume for ever, whatever the sizes.                           *)
LEMMA StepAdvances == IInv /\ [Next]_vars => [pc # "idle" => Rank' < Rank \/ pc' = "idle"]_vars
<1> SUFFICES ASSUME IInv, Next, pc # "idle" PROVE Rank' < Rank \/ pc' = "idle"
  OBVIOUS
<1> USE DEF IInv, TypeOK, volVars, callVars, loopVars, Rank, Rest
<1>1. CASE \E n \in 1 .. MaxRequest, f \in {0, BALLOC_PARTIAL} : Balloc(n, f)
  BY <1>1 DEF Balloc
<1>2. CASE \E first \in Volume, n \in 1 .. MaxRequest, s \in {0, 1} : TestAndModify(first, n, s)
  BY <1>2 DEF TestAndModify
<1>3. CASE Wrap
  BY <1>3 DEF Wrap
<1>4. CASE ReadMap
  BY <1>4 DEF ReadMap
<1>5. CASE FreeBits
  BY <1>5 DEF FreeBits, NextMap, MapRange
<1>6. CASE UsedBits
  BY <1>6 DEF UsedBits, NextMap, MapRange
<1>7. CASE SearchEnd
  BY <1>7 DEF SearchEnd
<1>8. CASE Take \/ TakeError
  BY <1>8 DEF Take, TakeError
<1>9. CASE ModifyMap
  <2>1. start % mapsize \in 0 .. mapsize - 1
    OBVIOUS
  <2>2. SmallerOf(mapsize - (start % mapsize), blocks) >= 1
    BY <1>9, <2>1 DEF ModifyMap, SmallerOf
  <2> QED BY <1>9, <2>1, <2>2, SmallerOfFacts DEF ModifyMap
<1>10. CASE ReadError \/ ModifyError \/ ModifyEnd
  BY <1>10 DEF ReadError, ModifyError, ModifyEnd
<1>11. CASE Return
  BY <1>11 DEF Return
<1> QED BY <1>1, <1>2, <1>3, <1>4, <1>5, <1>6, <1>7, <1>8, <1>9, <1>10, <1>11 DEF Next, Steps

(* Every call of the allocator returns, for every volume size, bitmap block *)
(* size and request.                                                        *)
THEOREM CallsAdvance == Spec => CallAdvances
BY Invariance, StepAdvances, PTL DEF Spec, CallAdvances

-----------------------------------------------------------------------------
(* The search visits every block once, block 0 after the last one.          *)
(* Positions count the blocks in the order of the visit.                    *)
BlockAt(p) == IF goal + p < volblocks THEN goal + p ELSE goal + p - volblocks
PosOf(b)   == IF b >= goal THEN b - goal ELSE b + volblocks - goal

(* Blocks with consecutive numbers, all free, at positions p .. p + k - 1.  *)
FreeAt(p, k) ==
    /\ p + k <= volblocks
    /\ \A q \in p .. p + k - 1 : BlockAt(q) \notin bitmap
    /\ \A q \in p + 1 .. p + k - 1 : BlockAt(q) # 0

(* A used block, or the end of the volume, stops a run before position q.   *)
Stopped(q) == q < volblocks /\ (BlockAt(q) \in bitmap \/ BlockAt(q) = 0)

(* No run begins before position b that satisfies the request.              *)
NoneBefore(b) == \A p \in Volume : FreeAt(p, blocks) => p >= b

(* s is the first of the longest runs that are stopped before position e.   *)
Longest(s, e) ==
    /\ s.count < blocks
    /\ s.count # 0 => /\ s.block < volblocks
                      /\ FreeAt(PosOf(s.block), s.count)
                      /\ Stopped(PosOf(s.block) + s.count)
                      /\ PosOf(s.block) + s.count < e
    /\ \A p \in Volume, k \in 1 .. blocks - 1 :
          FreeAt(p, k) /\ Stopped(p + k) /\ p + k < e
             => k <= s.count /\ (k = s.count => PosOf(s.block) <= p)

(* The search is at position Seen, Gathered blocks into a run; what stops   *)
(* a run at Seen was noticed already if it is the end of the volume.        *)
Searching == pc \in {"outer", "inner"}
Gathered  == blocks - need
Seen      == volblocks - Rest
Noticed   == IF Reached = 0 THEN Seen + 1 ELSE Seen

(* A run that is still gathered before position e cannot begin before b.    *)
BeginsAt(b, e) ==
    b = 0 \/ (BlockAt(b) = 0 /\ b < e) \/ BlockAt(b - 1) \in bitmap

(* The search goes round the volume once, and all it has seen is the        *)
(* bitmap as it was when the call began.                                    *)
Lap ==
    /\ Rest \in 0 .. volblocks
    /\ Reached \in {goal + Seen, goal + Seen - volblocks}
    /\ Gathered <= Seen
    /\ before = bitmap /\ nextblock = goal

(* What is known of the runs while the search goes on.                      *)
SInv ==
    Searching => /\ Lap
                 /\ BeginsAt(Seen - Gathered, Noticed)
                 /\ NoneBefore(Seen - Gathered)
                 /\ Longest(seg, Noticed)

(* A result is there only when the call has ended.                          *)
Returned == ret # "none" => pc = "return"

-----------------------------------------------------------------------------
(* Positions and blocks correspond, and consecutive positions are           *)
(* consecutive blocks except at block 0.                                    *)
LEMMA Positions ==
    ASSUME goal \in Volume
    PROVE  /\ \A p \in Volume : BlockAt(p) \in Volume /\ PosOf(BlockAt(p)) = p
           /\ \A b \in Volume : PosOf(b) \in Volume /\ BlockAt(PosOf(b)) = b
           /\ \A p \in Volume : p > 0 /\ BlockAt(p) # 0 => BlockAt(p) = BlockAt(p - 1) + 1
BY DEF BlockAt, PosOf, Volume

(* Without block 0 among them, the blocks at positions from p on are        *)
(* numbered one after the other.                                            *)
LEMMA Consecutive ==
    ASSUME goal \in Volume, NEW p \in Nat, NEW n \in Nat, p + n < volblocks
    PROVE  (\A q \in p + 1 .. p + n : BlockAt(q) # 0) <=> BlockAt(p + n) = BlockAt(p) + n
<1>1. /\ goal \in Nat /\ goal < volblocks /\ volblocks \in Nat
  BY DEF Volume
<1>2. CASE goal + p >= volblocks
  BY <1>1, <1>2 DEF BlockAt
<1>3. CASE goal + p + n < volblocks
  BY <1>1, <1>3 DEF BlockAt
<1>4. CASE goal + p < volblocks /\ goal + p + n >= volblocks
  <2>1. BlockAt(volblocks - goal) = 0 /\ volblocks - goal \in p + 1 .. p + n
    BY <1>1, <1>4 DEF BlockAt
  <2>2. BlockAt(p + n) # BlockAt(p) + n
    BY <1>1, <1>4 DEF BlockAt
  <2> QED BY <2>1, <2>2
<1> QED BY <1>1, <1>2, <1>3, <1>4

LEMMA VisitIsBlockAt ==
    ASSUME goal \in Volume, NEW p \in Volume
    PROVE  Visit(volblocks, goal, p) = BlockAt(p)
BY DEF Visit, BlockAt, Volume

(* FreeAt is the run of free blocks of the abstract search.                 *)
LEMMA RunIsFreeAt ==
    ASSUME goal \in Volume, NEW p \in Volume, NEW k \in Nat \ {0}
    PROVE  IsRun(bitmap, volblocks, goal, p, k) <=> FreeAt(p, k)
<1>0. p \in Nat /\ volblocks \in Nat
  BY DEF Volume
<1>1. CASE p + k <= volblocks
  <2>1. \A i \in 0 .. k - 1 : p + i \in Volume /\ Visit(volblocks, goal, p + i) = BlockAt(p + i)
    BY <1>0, <1>1, VisitIsBlockAt DEF Volume
  <2>2. Visit(volblocks, goal, p) = BlockAt(p)
    BY VisitIsBlockAt
  <2>3. \A i \in 0 .. k - 1 : p + i < volblocks /\ p + i \in Nat
    BY <1>0, <1>1
  <2>4. ASSUME FreeAt(p, k) PROVE IsRun(bitmap, volblocks, goal, p, k)
    <3> SUFFICES ASSUME NEW i \in 0 .. k - 1
                 PROVE  BlockAt(p + i) \notin bitmap /\ BlockAt(p + i) = BlockAt(p) + i
      BY <1>1, <2>1, <2>2 DEF IsRun
    <3>1. \A q \in p + 1 .. p + i : BlockAt(q) # 0
      BY <1>0, <2>4 DEF FreeAt
    <3>2. i \in Nat /\ p + i < volblocks
      BY <2>3
    <3>3. BlockAt(p + i) = BlockAt(p) + i
      BY ONLY <1>0, <3>1, <3>2, goal \in Volume, Consecutive, VolumeAssumption
    <3> QED BY <1>0, <2>4, <3>3 DEF FreeAt
  <2>5. ASSUME IsRun(bitmap, volblocks, goal, p, k) PROVE FreeAt(p, k)
    <3>1. \A i \in 0 .. k - 1 : BlockAt(p + i) \notin bitmap /\ BlockAt(p + i) = BlockAt(p) + i
      BY <2>1, <2>2, <2>5 DEF IsRun
    <3>2. \A q \in p .. p + k - 1 : q - p \in 0 .. k - 1 /\ p + (q - p) = q
      BY <1>0
    <3>3. \A q \in p .. p + k - 1 : BlockAt(q) \notin bitmap
      BY <3>1, <3>2
    <3>4. BlockAt(p + (k - 1)) = BlockAt(p) + (k - 1) /\ k - 1 \in Nat /\ p + (k - 1) < volblocks
      BY <1>0, <1>1, <3>1
    <3>5. \A q \in p + 1 .. p + (k - 1) : BlockAt(q) # 0
      BY <1>0, <3>4, Consecutive
    <3> QED BY <1>0, <1>1, <3>3, <3>5 DEF FreeAt
  <2> QED BY <2>4, <2>5
<1>2. CASE ~ (p + k <= volblocks)
  BY <1>2 DEF IsRun, FreeAt
<1> QED BY <1>1, <1>2

(* The runs a request can get, in terms of positions. *)
LEMMA RunsArePositions ==
    ASSUME goal \in Volume, NEW k \in Nat \ {0}, NEW n \in Nat
    PROVE  Runs(bitmap, volblocks, goal, n, k)
             = {p \in Volume : FreeAt(p, k) /\ (k = n \/ Stopped(p + k))}
<1> SUFFICES ASSUME NEW p \in Volume
             PROVE  (/\ IsRun(bitmap, volblocks, goal, p, k)
                     /\ k = n \/ (p + k < volblocks
                                    /\ Visit(volblocks, goal, p + k) \in bitmap \union {0}))
                     <=> (FreeAt(p, k) /\ (k = n \/ Stopped(p + k)))
  BY DEF Runs, Volume
<1>1. IsRun(bitmap, volblocks, goal, p, k) <=> FreeAt(p, k)
  BY RunIsFreeAt
<1>2. p + k < volblocks => p + k \in Volume
  BY DEF Volume
<1>3. p + k < volblocks => Visit(volblocks, goal, p + k) = BlockAt(p + k)
  BY <1>2, VisitIsBlockAt
<1> QED BY <1>1, <1>3 DEF Stopped

(* The least and the greatest element of a set, when one is known. *)
LEMMA MinIs ==
    ASSUME NEW S \in SUBSET Nat, NEW m \in S, \A y \in S : m <= y PROVE Min(S) = m
<1>1. \A x \in S : (\A y \in S : x =< y) => x = m
  OBVIOUS
<1> QED BY <1>1 DEF Min

LEMMA MaxIs ==
    ASSUME NEW S \in SUBSET Nat, NEW m \in S, \A y \in S : m >= y PROVE Max(S) = m
<1>1. \A x \in S : (\A y \in S : x >= y) => x = m
  OBVIOUS
<1> QED BY <1>1 DEF Max

-----------------------------------------------------------------------------
(* The first run of the whole request is what the search must find. *)
LEMMA FirstRun ==
    ASSUME goal \in Volume, bitmap \subseteq Volume, blocks \in 1 .. volblocks,
           NEW b \in Volume, FreeAt(b, blocks), NoneBefore(b), NEW partial \in BOOLEAN
    PROVE  Segment(bitmap, volblocks, goal, blocks, partial)
             = BlockAt(b) .. BlockAt(b) + blocks - 1
<1> DEFINE R(k) == Runs(bitmap, volblocks, goal, blocks, k)
           lengths == {k \in 1 .. blocks : (partial \/ k = blocks) /\ R(k) # {}}
<1>1. R(blocks) = {p \in Volume : FreeAt(p, blocks)}
  BY RunsArePositions
<1>2. b \in R(blocks) /\ \A p \in R(blocks) : b <= p
  BY <1>1 DEF NoneBefore, Volume
<1>3. R(blocks) \in SUBSET Nat
  BY <1>1 DEF Volume
<1>4. Min(R(blocks)) = b
  BY <1>2, <1>3, MinIs
<1>5. blocks \in lengths /\ lengths \in SUBSET Nat /\ \A k \in lengths : blocks >= k
  BY <1>2
<1>6. Max(lengths) = blocks
  BY <1>5, MaxIs
<1>7. Visit(volblocks, goal, b) = BlockAt(b)
  BY VisitIsBlockAt
<1>8. lengths # {}
  BY <1>5
<1>9. Segment(bitmap, volblocks, goal, blocks, partial)
        = IF lengths = {} THEN {}
          ELSE Visit(volblocks, goal, Min(R(Max(lengths))))
                .. Visit(volblocks, goal, Min(R(Max(lengths)))) + Max(lengths) - 1
  BY DEF Segment
<1> QED BY <1>4, <1>6, <1>7, <1>8, <1>9

(* When no run satisfies the request, the search must find the first of the *)
(* longest runs if part of the request will do, and nothing otherwise.      *)
LEMMA LongestRun ==
    ASSUME goal \in Volume, bitmap \subseteq Volume, blocks \in 1 .. volblocks,
           NEW s \in [block : 0 .. volblocks, count : 0 .. volblocks], Longest(s, volblocks),
           NoneBefore(volblocks), NEW partial \in BOOLEAN
    PROVE  Segment(bitmap, volblocks, goal, blocks, partial)
             = IF partial /\ s.count > 0 THEN s.block .. s.block + s.count - 1 ELSE {}
<1> DEFINE R(k) == Runs(bitmap, volblocks, goal, blocks, k)
           lengths == {k \in 1 .. blocks : (partial \/ k = blocks) /\ R(k) # {}}
<1>1. \A k \in 1 .. blocks : R(k) = {p \in Volume : FreeAt(p, k) /\ (k = blocks \/ Stopped(p + k))}
  BY RunsArePositions
<1>2. R(blocks) = {}
  BY <1>1 DEF NoneBefore, Volume
<1>3. \A k \in 1 .. blocks - 1, p \in Volume :
         p \in R(k) => k <= s.count /\ (k = s.count => PosOf(s.block) <= p)
  BY <1>1 DEF Longest, Stopped
<1>4. R(blocks) = {} /\ \A k \in lengths : k \in 1 .. blocks - 1 /\ k <= s.count
  <2>1. \A k \in 1 .. blocks : R(k) \subseteq Volume
    BY <1>1
  <2> QED BY <1>2, <1>3, <2>1
<1>9. Segment(bitmap, volblocks, goal, blocks, partial)
        = IF lengths = {} THEN {}
          ELSE Visit(volblocks, goal, Min(R(Max(lengths))))
                .. Visit(volblocks, goal, Min(R(Max(lengths)))) + Max(lengths) - 1
  BY DEF Segment
<1>5. CASE partial /\ s.count > 0
  <2> DEFINE p == PosOf(s.block)
  <2>1. s.block \in Volume /\ s.count \in 1 .. blocks - 1
    BY <1>5 DEF Longest, Volume
  <2>2. p \in Volume /\ BlockAt(p) = s.block
    BY <2>1, Positions
  <2>3. FreeAt(p, s.count) /\ Stopped(p + s.count)
    BY <1>5, <2>1 DEF Longest
  <2>4. p \in R(s.count) /\ R(s.count) \in SUBSET Nat /\ \A q \in R(s.count) : p <= q
    <3>1. p \in R(s.count) /\ R(s.count) \subseteq Volume
      BY <1>1, <2>1, <2>2, <2>3
    <3> HIDE DEF R
    <3> QED BY <1>3, <2>1, <3>1 DEF Volume
  <2>5. Min(R(s.count)) = p
    BY <2>4, MinIs
  <2>6. s.count \in lengths /\ lengths \in SUBSET Nat /\ \A k \in lengths : s.count >= k
    BY <1>4, <1>5, <2>1, <2>4
  <2>7. Max(lengths) = s.count
    BY <2>6, MaxIs
  <2>8. Visit(volblocks, goal, p) = BlockAt(p)
    BY <2>2, VisitIsBlockAt
  <2>10. lengths # {}
    BY <2>6
  <2> QED BY <1>5, <1>9, <2>2, <2>5, <2>7, <2>8, <2>10
<1>6. CASE ~ (partial /\ s.count > 0)
  <2>1. lengths = {}
    BY <1>4, <1>6
  <2> QED BY <1>6, <1>9, <2>1
<1> QED BY <1>5, <1>6

-----------------------------------------------------------------------------
(* What is known of the runs when the search comes to position u with the   *)
(* run it gathers beginning at b.  If u stops it, no run began before b,    *)
(* and it is saved when it is longer than the longest one so far.           *)
LEMMA Keeps ==
    ASSUME goal \in Volume, bitmap \subseteq Volume, blocks \in 1 .. volblocks,
           NEW s \in [block : 0 .. volblocks, count : 0 .. volblocks],
           NEW b \in Nat, NEW u \in Nat, b <= u, u - b < blocks, u <= volblocks,
           Longest(s, u), Stopped(u),
           u > b => FreeAt(b, u - b),
           BeginsAt(b, u)
    PROVE  Longest(save_seg(s, BlockAt(b), u - b), u + 1)
<1> DEFINE t == save_seg(s, BlockAt(b), u - b)
<1>1. volblocks \in Nat /\ goal \in Nat /\ goal < volblocks /\ blocks \in Nat
  BY DEF Volume
<1>2. ASSUME NEW p \in Volume, NEW k \in 1 .. blocks - 1, FreeAt(p, k), p + k = u
      PROVE  b <= p
  <2>1. \A q \in p .. p + k - 1 : BlockAt(q) \notin bitmap
    BY <1>2 DEF FreeAt
  <2>2. \A q \in p + 1 .. p + k - 1 : BlockAt(q) # 0
    BY <1>2 DEF FreeAt
  <2>3. p \in Nat /\ k \in Nat /\ k >= 1
    BY <1>1, <1>2 DEF Volume
  <2> QED BY <1>1, <1>2, <2>1, <2>2, <2>3 DEF BeginsAt
<1>3. CASE s.count < u - b
  <2>1. t = [block |-> BlockAt(b), count |-> u - b]
    BY <1>3 DEF save_seg
  <2>2. b \in Volume /\ BlockAt(b) \in Volume /\ PosOf(BlockAt(b)) = b
    <3>1. b \in Volume
      BY <1>1, <1>3 DEF Volume
    <3> QED BY <3>1, Positions
  <2>3. t.count < blocks /\ t.count # 0 /\ t.count = u - b /\ PosOf(t.block) = b /\ t.block < volblocks
    BY <1>1, <1>3, <2>1, <2>2 DEF Volume
  <2> HIDE DEF t
  <2>4. FreeAt(b, t.count)
    BY <1>1, <1>3, <2>3
  <2>5. b + t.count = u
    BY <1>1, <2>3
  <2>6. ASSUME NEW p \in Volume, NEW k \in 1 .. blocks - 1,
               FreeAt(p, k), Stopped(p + k), p + k < u + 1
        PROVE  k <= t.count /\ (k = t.count => b <= p)
    <3>1. CASE p + k = u
      BY <1>1, <1>2, <2>3, <2>6, <3>1 DEF Volume
    <3>2. CASE p + k < u
      <4>1. k <= s.count
        BY <2>6, <3>2 DEF Longest
      <4> QED BY <1>1, <1>3, <2>3, <4>1
    <3> QED BY <1>1, <2>6, <3>1, <3>2 DEF Volume
  <2>7. Stopped(b + t.count) /\ b + t.count < u + 1
    BY <2>5
  <2>8. Longest(t, u + 1)
    BY <2>3, <2>4, <2>6, <2>7 DEF Longest
  <2> QED BY <2>8 DEF t
<1>4. CASE ~ (s.count < u - b)
  <2>1. t = s
    BY <1>4 DEF save_seg
  <2> HIDE DEF t
  <2>2. ASSUME NEW p \in Volume, NEW k \in 1 .. blocks - 1,
               FreeAt(p, k), Stopped(p + k), p + k < u + 1
        PROVE  k <= s.count /\ (k = s.count => PosOf(s.block) <= p)
    <3>1. CASE p + k = u
      <4>1. b <= p /\ p \in Nat /\ k \in Nat /\ k >= 1
        BY <1>1, <1>2, <2>2, <3>1 DEF Volume
      <4>2. k <= s.count /\ s.count # 0
        BY <1>1, <1>4, <3>1, <4>1
      <4>3. PosOf(s.block) + s.count < u /\ PosOf(s.block) \in Nat
        BY <1>1, <4>2, Positions DEF Longest, Volume
      <4> QED BY <1>1, <3>1, <4>1, <4>2, <4>3
    <3>2. CASE p + k < u
      BY <2>2, <3>2 DEF Longest
    <3> QED BY <1>1, <2>2, <3>1, <3>2 DEF Volume
  <2>3. s.count # 0 => PosOf(s.block) \in Nat
    BY Positions DEF Longest, Volume
  <2>4. s.count # 0 => PosOf(s.block) + s.count < u + 1
    BY <1>1, <2>3 DEF Longest
  <2>5. Longest(s, u + 1)
    BY <2>2, <2>4 DEF Longest
  <2> QED BY <2>1, <2>5 DEF t
<1> QED BY <1>3, <1>4

(* Where no run is stopped, nothing is missed.                              *)
LEMMA Misses ==
    ASSUME goal \in Volume, blocks \in 1 .. volblocks,
           NEW s \in [block : 0 .. volblocks, count : 0 .. volblocks],
           NEW d \in Nat, NEW e \in Nat, d <= e, Longest(s, d),
           \A p \in Volume, k \in 1 .. blocks - 1 :
              FreeAt(p, k) /\ Stopped(p + k) /\ p + k < e => p + k < d
    PROVE  Longest(s, e)
<1>1. s.count # 0 => PosOf(s.block) \in Nat
  BY Positions DEF Longest, Volume
<1>2. ASSUME NEW p \in Volume, NEW k \in 1 .. blocks - 1,
             FreeAt(p, k), Stopped(p + k), p + k < e
      PROVE  k <= s.count /\ (k = s.count => PosOf(s.block) <= p)
  BY <1>2 DEF Longest
<1> QED BY <1>1, <1>2 DEF Longest

-----------------------------------------------------------------------------
(* The blocks around the one the search has reached, from the gathered ones *)
(* to the last of the range that is left, have consecutive positions.       *)
LEMMA Around ==
    ASSUME IInv, Searching, Lap
    PROVE  /\ goal \in Volume /\ bitmap \subseteq Volume /\ blocks \in 1 .. volblocks
           /\ Seen \in 0 .. volblocks /\ Rest = volblocks - Seen
           /\ Reached \in 0 .. volblocks
           /\ Gathered \in 0 .. blocks - 1 /\ Gathered <= Seen /\ Gathered <= Reached
           /\ \A i \in 0 - Gathered .. Rest - 1 :
                 Reached + i < volblocks =>
                    Seen + i \in Volume /\ BlockAt(Seen + i) = Reached + i
           /\ \A i \in 0 - Gathered .. 0 - 1 : Reached + i \notin bitmap
           /\ Noticed = IF Reached = 0 THEN Seen + 1 ELSE Seen
<1> USE DEF IInv, TypeOK, Searching, Lap
<1>1. /\ goal \in Volume /\ bitmap \subseteq Volume /\ blocks \in 1 .. volblocks
      /\ Reached \in 0 .. volblocks /\ Gathered \in 0 .. blocks - 1
      /\ Gathered <= Seen /\ Gathered <= Reached
  BY DEF Collected, Gathered, Reached
<1>2. Seen \in 0 .. volblocks /\ Rest = volblocks - Seen /\ Rest \in 0 .. volblocks
  BY DEF Seen
<1>3. \A i \in 0 - Gathered .. 0 - 1 : Reached + i \notin bitmap
  <2>1. \A b \in Reached - Gathered .. Reached - 1 : b \notin bitmap
    BY DEF Collected, IsFree, Gathered
  <2> QED BY <1>1, <2>1
<1>4. Reached \in {goal + Seen, goal + Seen - volblocks}
  OBVIOUS
<1>5. ASSUME NEW i \in 0 - Gathered .. Rest - 1, Reached + i < volblocks
      PROVE  Seen + i \in Volume /\ BlockAt(Seen + i) = Reached + i
  BY ONLY <1>1, <1>2, <1>4, <1>5, VolumeAssumption DEF Volume, BlockAt
<1> QED BY <1>1, <1>2, <1>3, <1>5 DEF Noticed

(* The blocks gathered are a run, and it goes on with d more free blocks.   *)
LEMMA GatheredRun ==
    ASSUME IInv, Searching, Lap, NEW d \in 0 .. Rest, Reached + d <= volblocks,
           IsFree(Reached, Reached + d), Gathered + d > 0
    PROVE  /\ Seen - Gathered \in Volume
           /\ FreeAt(Seen - Gathered, Gathered + d)
           /\ BlockAt(Seen - Gathered) = Reached - Gathered
<1> DEFINE b == Seen - Gathered
<1>1. /\ Seen \in Nat /\ Gathered \in Nat /\ Reached \in Nat /\ Rest = volblocks - Seen
      /\ Gathered <= Seen /\ Gathered <= Reached /\ volblocks \in Nat /\ d \in Nat
      /\ Seen <= volblocks /\ d <= Rest
  BY Around
<1>2. \A i \in 0 - Gathered .. d - 1 :
         /\ Seen + i \in Volume /\ BlockAt(Seen + i) = Reached + i
         /\ Reached + i \notin bitmap
  <2>1. ASSUME NEW i \in 0 - Gathered .. d - 1
        PROVE  Reached + i < volblocks /\ i \in 0 - Gathered .. Rest - 1
               /\ (i \in 0 - Gathered .. 0 - 1 \/ Reached + i \in Reached .. Reached + d - 1)
    BY <1>1
  <2> QED BY <2>1, Around DEF IsFree
<1>3. \A q \in b .. b + (Gathered + d) - 1 :
         q - Seen \in 0 - Gathered .. d - 1 /\ Seen + (q - Seen) = q
  BY <1>1
<1>4. \A q \in b .. b + (Gathered + d) - 1 :
         q \in Volume /\ BlockAt(q) = Reached + (q - Seen) /\ BlockAt(q) \notin bitmap
  BY <1>2, <1>3
<1>5. b \in b .. b + (Gathered + d) - 1 /\ b \in Nat
  BY <1>1
<1>6. b \in Volume /\ BlockAt(b) = Reached - Gathered
  <2>1. b \in Volume /\ BlockAt(b) = Reached + (b - Seen)
    BY <1>4, <1>5
  <2> QED BY <1>1, <2>1
<1>7. b + (Gathered + d) <= volblocks
  BY <1>1
<1>8. \A q \in b + 1 .. b + (Gathered + d) - 1 : BlockAt(q) # 0
  <2>1. \A q \in b + 1 .. b + (Gathered + d) - 1 :
           q \in b .. b + (Gathered + d) - 1 /\ Reached + (q - Seen) # 0
    BY <1>1
  <2> QED BY <1>4, <2>1
<1> QED BY <1>4, <1>6, <1>7, <1>8 DEF FreeAt

(* d free blocks stop no run. *)
LEMMA FreeStopsNone ==
    ASSUME IInv, Searching, Lap, NEW d \in 0 .. Rest, Reached + d <= volblocks,
           IsFree(Reached, Reached + d)
    PROVE  \A q \in Nat : Stopped(q) /\ q < Seen + d => q < Noticed
<1>1. /\ Seen \in Nat /\ Gathered \in Nat /\ Reached \in Nat /\ Rest = volblocks - Seen
      /\ volblocks \in Nat /\ d \in Nat /\ d <= Rest
      /\ Noticed = IF Reached = 0 THEN Seen + 1 ELSE Seen
  BY Around
<1> SUFFICES ASSUME NEW q \in Nat, Stopped(q), q < Seen + d, q >= Seen
             PROVE  Reached = 0 /\ q = Seen
  BY <1>1
<1>2. /\ q - Seen \in 0 - Gathered .. Rest - 1 /\ Reached + (q - Seen) < volblocks
      /\ Seen + (q - Seen) = q /\ Reached + (q - Seen) \in Reached .. Reached + d - 1
  BY <1>1
<1>3. BlockAt(q) = Reached + (q - Seen)
  BY <1>2, Around
<1>4. Reached + (q - Seen) \notin bitmap
  <2>1. \A x \in Reached .. Reached + d - 1 : x \notin bitmap
    BY <1>1 DEF IsFree
  <2> QED BY <1>2, <2>1, Zenon
<1>5. BlockAt(q) \in bitmap \/ BlockAt(q) = 0
  BY DEF Stopped
<1>6. Reached + (q - Seen) = 0
  BY <1>3, <1>4, <1>5, Zenon
<1> QED BY <1>1, <1>6

(* A run of the whole request contains every position where the run that is *)
(* gathered stops.                                                          *)
LEMMA NoneUpTo ==
    ASSUME goal \in Volume, blocks \in 1 .. volblocks, NEW b \in Nat, NEW u \in Nat, NEW e \in Nat,
           b <= u, u - b < blocks, u <= e, NoneBefore(b),
           u < e => \A q \in u .. e - 1 : q \in Volume /\ BlockAt(q) \in bitmap,
           u = e => (e \in Volume /\ BlockAt(e) = 0) \/ e = volblocks
    PROVE  NoneBefore(e)
<1> SUFFICES ASSUME NEW p \in Volume, FreeAt(p, blocks), p < e PROVE FALSE
  BY DEF NoneBefore, Volume
<1>1. /\ b <= p /\ p + blocks <= volblocks /\ p \in Nat /\ blocks \in Nat
      /\ volblocks \in Nat
  BY DEF NoneBefore, FreeAt, Volume
<1>2. \A q \in p .. p + blocks - 1 : BlockAt(q) \notin bitmap
  BY DEF FreeAt
<1>3. \A q \in p + 1 .. p + blocks - 1 : BlockAt(q) # 0
  BY DEF FreeAt
<1>4. CASE u < e
  <2>1. p < u
    BY <1>1, <1>2, <1>4
  <2>2. u \in p .. p + blocks - 1 /\ u \in u .. e - 1
    BY <1>1, <1>4, <2>1
  <2> QED BY <1>2, <1>4, <2>2
<1>5. CASE u = e
  <2>1. e \in p + 1 .. p + blocks - 1
    BY <1>1, <1>5
  <2> QED BY <1>1, <1>3, <1>5, <2>1
<1> QED BY <1>4, <1>5

(* What the invariant says of the bitmap goes over to a state with the same *)
(* bitmap and call.                                                         *)
LEMMA SInvNext ==
    ASSUME UNCHANGED <<bitmap, blocks, goal, before, nextblock>>, before = bitmap, nextblock = goal,
           NEW s, s = Seen', NEW g, g = Gathered', NEW e, e = Noticed',
           Rest' \in 0 .. volblocks, Reached' \in {goal + s, goal + s - volblocks}, g <= s,
           BeginsAt(s - g, e), NoneBefore(s - g), Longest(seg', e)
    PROVE  SInv'
<1>1. Lap'
  BY DEF Lap
<1>2. BeginsAt(s - g, e)'
  BY DEF BeginsAt, BlockAt
<1>3. NoneBefore(s - g)'
  BY DEF NoneBefore, BlockAt, FreeAt
<1>4. \A t : Longest(t, e) => Longest(t, e)'
  BY DEF Longest, BlockAt, FreeAt, Stopped, PosOf
<1>5. Longest(seg, e)'
  BY <1>4 DEF Longest, BlockAt, FreeAt, Stopped, PosOf
<1> QED BY <1>1, <1>2, <1>3, <1>5 DEF SInv, BeginsAt, BlockAt, NoneBefore, FreeAt, Longest, Stopped, PosOf

-----------------------------------------------------------------------------
(* d more blocks are free and the request is not satisfied yet.             *)
LEMMA GoesOn ==
    ASSUME IInv, SInv, Searching, NEW d \in 1 .. Rest, Reached + d <= volblocks,
           IsFree(Reached, Reached + d),
           UNCHANGED <<bitmap, blocks, goal, before, nextblock, seg>>,
           Reached' = Reached + d, Rest' = Rest - d, need' = need - d
    PROVE  SInv'
<1> DEFINE b == Seen - Gathered
           e == Seen + d
<1>1. Lap /\ BeginsAt(b, Noticed) /\ NoneBefore(b) /\ Longest(seg, Noticed)
  BY DEF SInv
<1>2. /\ Seen \in Nat /\ Gathered \in Nat /\ Reached \in Nat /\ Rest = volblocks - Seen
      /\ Gathered <= Seen /\ volblocks \in Nat /\ d \in Nat \ {0} /\ d <= Rest
      /\ need \in Nat /\ blocks \in Nat /\ Seen <= volblocks /\ Gathered = blocks - need
      /\ Noticed = IF Reached = 0 THEN Seen + 1 ELSE Seen
  BY <1>1, Around DEF IInv, TypeOK, Gathered
<1>3. Seen' = e /\ Gathered' = Gathered + d /\ Noticed' = e
  <2>1. Seen' = volblocks - Rest' /\ Gathered' = blocks' - need'
    BY DEF Seen, Gathered
  <2>2. Noticed' = IF Reached' = 0 THEN Seen' + 1 ELSE Seen'
    BY DEF Noticed
  <2> QED BY <1>2, <2>1, <2>2
<1>4. e - (Gathered + d) = b /\ b \in Nat /\ e \in Nat /\ Noticed \in Nat /\ Noticed <= e
  BY <1>2
<1>5. BeginsAt(b, e)
  BY <1>1, <1>4 DEF BeginsAt
<1>6. Longest(seg, e)
  <2> HIDE DEF e, b
  <2>1. \A q \in Nat : Stopped(q) /\ q < Seen + d => q < Noticed
    BY <1>1, FreeStopsNone
  <2>2. \A p \in Volume, k \in 1 .. blocks - 1 :
           FreeAt(p, k) /\ Stopped(p + k) /\ p + k < e => p + k < Noticed
    <3>1. \A p \in Volume, k \in 1 .. blocks - 1 : p + k \in Nat
      BY <1>2 DEF Volume
    <3> QED BY <2>1, <3>1 DEF e
  <2> QED BY <1>1, <1>4, <2>2, Around, Misses DEF IInv, TypeOK
<1>7. /\ Rest' \in 0 .. volblocks /\ Reached' \in {goal + e, goal + e - volblocks}
      /\ Gathered + d <= e /\ before = bitmap /\ nextblock = goal
  <2>1. /\ Reached \in {goal + Seen, goal + Seen - volblocks} /\ goal \in Nat
        /\ before = bitmap /\ nextblock = goal
    BY <1>1, Around DEF Lap, Volume
  <2> QED BY <1>2, <2>1
<1>8. BeginsAt(e - (Gathered + d), e) /\ NoneBefore(e - (Gathered + d))
  BY <1>1, <1>4, <1>5
<1> HIDE DEF e, b
<1> QED BY <1>3, <1>6, <1>7, <1>8, SInvNext

(* d more blocks satisfy the request. *)
LEMMA Finds ==
    ASSUME IInv, SInv, Searching, NEW d \in 1 .. Rest, Reached + d <= volblocks,
           IsFree(Reached, Reached + d), d = need, NEW partial \in BOOLEAN
    PROVE  Segment(before, volblocks, goal, blocks, partial)
             = (Reached + d - blocks) .. (Reached + d - blocks) + blocks - 1
<1> DEFINE b == Seen - Gathered
<1>1. Lap /\ NoneBefore(b) /\ before = bitmap
  BY DEF SInv, Lap
<1>2. /\ Gathered \in Nat /\ Reached \in Nat /\ need \in Nat /\ blocks \in Nat
      /\ Gathered = blocks - need /\ d \in Nat \ {0} /\ d \in 0 .. Rest
      /\ goal \in Volume /\ bitmap \subseteq Volume /\ blocks \in 1 .. volblocks
  BY <1>1, Around DEF IInv, TypeOK, Gathered
<1>3. Gathered + d = blocks /\ Gathered + d > 0 /\ Reached + d - blocks = Reached - Gathered
  BY <1>2
<1>4. b \in Volume /\ FreeAt(b, blocks) /\ BlockAt(b) = Reached - Gathered
  BY <1>1, <1>2, <1>3, GatheredRun
<1> HIDE DEF b
<1>5. Segment(bitmap, volblocks, goal, blocks, partial) = BlockAt(b) .. BlockAt(b) + blocks - 1
  BY <1>1, <1>2, <1>4, FirstRun
<1> QED BY <1>1, <1>3, <1>4, <1>5

(* After d free blocks come used ones: what was gathered is saved, and the  *)
(* next run can only begin after them.                                      *)
LEMMA Skips ==
    ASSUME IInv, SInv, Searching, NEW d \in Nat, NEW n \in 1 .. Rest, d < n,
           Reached + n <= volblocks, IsFree(Reached, Reached + d),
           \A x \in Reached + d .. Reached + n - 1 : x \in bitmap, Gathered + d < blocks,
           UNCHANGED <<bitmap, blocks, goal, before, nextblock>>,
           seg' = IF Gathered + d > 0 THEN save_seg(seg, Reached - Gathered, Gathered + d) ELSE seg,
           Reached' = Reached + n, Rest' = Rest - n, need' = blocks
    PROVE  SInv'
<1> DEFINE b == Seen - Gathered
           u == Seen + d
           e == Seen + n
<1>1. Lap /\ BeginsAt(b, Noticed) /\ NoneBefore(b) /\ Longest(seg, Noticed)
  BY DEF SInv
<1>2. /\ Seen \in Nat /\ Gathered \in Nat /\ Reached \in Nat /\ Rest = volblocks - Seen
      /\ Gathered <= Seen /\ Gathered <= Reached /\ volblocks \in Nat /\ n \in Nat \ {0} /\ n <= Rest
      /\ Seen <= volblocks /\ Noticed = IF Reached = 0 THEN Seen + 1 ELSE Seen
      /\ goal \in Volume /\ bitmap \subseteq Volume /\ blocks \in 1 .. volblocks
      /\ seg \in [block : 0 .. volblocks, count : 0 .. volblocks] /\ blocks \in Nat
  BY <1>1, Around DEF IInv, TypeOK
<1>3. Seen' = e /\ Gathered' = 0 /\ Noticed' = e
  <2>1. Seen' = volblocks - Rest' /\ Gathered' = blocks' - need'
    BY DEF Seen, Gathered
  <2>2. Noticed' = IF Reached' = 0 THEN Seen' + 1 ELSE Seen'
    BY DEF Noticed
  <2> QED BY <1>2, <2>1, <2>2
<1>4. /\ b \in Nat /\ u \in Nat /\ e \in Nat /\ Noticed \in Nat /\ b <= u /\ u < e /\ e <= volblocks
      /\ u - b = Gathered + d
  BY <1>2
<1>5. \A q \in u .. e - 1 : q \in Volume /\ BlockAt(q) \in bitmap
  <2> SUFFICES ASSUME NEW q \in u .. e - 1 PROVE q \in Volume /\ BlockAt(q) \in bitmap
    OBVIOUS
  <2>1. /\ q - Seen \in 0 - Gathered .. Rest - 1 /\ Reached + (q - Seen) < volblocks
        /\ Seen + (q - Seen) = q /\ Reached + (q - Seen) \in Reached + d .. Reached + n - 1
    BY <1>2
  <2>2. q \in Volume /\ BlockAt(q) = Reached + (q - Seen)
    BY <1>1, <2>1, Around
  <2> QED BY <2>1, <2>2
<1>6. Stopped(u)
  BY <1>2, <1>4, <1>5 DEF Stopped, Volume
<1>7. BeginsAt(e, e)
  BY <1>4, <1>5 DEF BeginsAt
<1>8. d \in 0 .. Rest /\ Reached + d <= volblocks
  BY <1>2
<1>9. Gathered + d > 0 =>
         b \in Volume /\ FreeAt(b, Gathered + d) /\ BlockAt(b) = Reached - Gathered
  BY <1>1, <1>8, GatheredRun
<1>10. \A q \in Nat : Stopped(q) /\ q < u => q < Noticed
  BY <1>1, <1>8, FreeStopsNone
<1>11. \A p \in Volume, k \in 1 .. blocks - 1 : p \in Nat /\ k \in Nat /\ k >= 1 /\ p + k \in Nat
  BY <1>2 DEF Volume
<1>12. seg' \in [block : 0 .. volblocks, count : 0 .. volblocks]
  BY <1>2, <1>4 DEF save_seg
<1> HIDE DEF b, u, e
<1>13. NoneBefore(e)
  <2>1. u - b < blocks /\ u <= e /\ ~ (u = e) /\ u < e
    BY <1>2, <1>4
  <2> QED BY <1>1, <1>2, <1>4, <1>5, <2>1, NoneUpTo
<1>14. Longest(seg', u + 1)
  <2>1. CASE Noticed <= u
    <3>1. Longest(seg, u)
      BY <1>1, <1>2, <1>4, <1>10, <1>11, <2>1, Misses
    <3>2. BeginsAt(b, u)
      BY <1>1, <1>4, <2>1 DEF BeginsAt
    <3>3. u > b => FreeAt(b, u - b)
      BY <1>2, <1>4, <1>9
    <3>4. u - b < blocks /\ u <= volblocks
      BY <1>2, <1>4
    <3>5. Longest(save_seg(seg, BlockAt(b), u - b), u + 1)
      BY <1>2, <1>4, <1>6, <3>1, <3>2, <3>3, <3>4, Keeps
    <3>6. CASE Gathered + d > 0
      BY <1>4, <1>9, <3>5, <3>6
    <3>7. CASE ~ (Gathered + d > 0)
      BY <1>2, <1>4, <3>5, <3>7 DEF save_seg
    <3> QED BY <3>6, <3>7
  <2>2. CASE Noticed > u
    BY <1>1, <1>2, <2>2 DEF u
  <2> QED BY <1>4, <2>1, <2>2
<1>15. Longest(seg', e)
  <2>1. ASSUME NEW p \in Volume, NEW k \in 1 .. blocks - 1,
               FreeAt(p, k), Stopped(p + k), p + k < e
        PROVE  p + k < u + 1
    <3>1. p + k - 1 \in p .. p + k - 1 /\ p \in Nat /\ k \in Nat /\ k >= 1
      BY <1>11
    <3>2. BlockAt(p + k - 1) \notin bitmap
      BY <2>1, <3>1 DEF FreeAt
    <3>3. p + k - 1 \notin u .. e - 1
      BY <1>5, <3>2
    <3> QED BY <1>4, <2>1, <3>1, <3>3
  <2> QED BY <1>2, <1>4, <1>12, <1>14, <2>1, Misses
<1>16. /\ Rest' \in 0 .. volblocks /\ Reached' \in {goal + e, goal + e - volblocks}
       /\ 0 <= e /\ before = bitmap /\ nextblock = goal
  <2>1. /\ Reached \in {goal + Seen, goal + Seen - volblocks} /\ goal \in Nat
        /\ before = bitmap /\ nextblock = goal
    BY <1>1, <1>2 DEF Lap, Volume
  <2> QED BY <1>2, <2>1 DEF e
<1>17. e - 0 = e
  BY <1>4
<1> QED BY <1>3, <1>7, <1>13, <1>15, <1>16, <1>17, SInvNext

(* At the end of the volume the search goes on at block 0.                  *)
LEMMA GoesRound ==
    ASSUME IInv, SInv, pc = "outer", Wrap
    PROVE  SInv'
<1> DEFINE b == Seen - Gathered
<1>0. Searching
  BY DEF Searching
<1>1. Lap /\ BeginsAt(b, Noticed) /\ NoneBefore(b) /\ Longest(seg, Noticed)
  BY <1>0 DEF SInv
<1>2. /\ Seen \in Nat /\ Gathered \in Nat /\ Reached \in 0 .. volblocks /\ Rest = volblocks - Seen
      /\ Gathered <= Seen /\ Gathered <= Reached /\ volblocks \in Nat \ {0}
      /\ Seen <= volblocks /\ Noticed = IF Reached = 0 THEN Seen + 1 ELSE Seen
      /\ goal \in Volume /\ bitmap \subseteq Volume /\ blocks \in 1 .. volblocks
      /\ seg \in [block : 0 .. volblocks, count : 0 .. volblocks] /\ blocks \in Nat
      /\ Gathered = blocks - need /\ need \in Nat
  BY <1>0, <1>1, Around DEF IInv, TypeOK, Gathered
<1>3. /\ UNCHANGED <<bitmap, blocks, goal, before, nextblock>>
      /\ seg' = IF need < blocks THEN save_seg(seg, volblocks - (blocks - need), blocks - need)
                ELSE seg
      /\ need' = blocks
  BY DEF Wrap, volVars, callVars
<1>4. Reached = volblocks /\ Reached' = 0 /\ Rest > 0 /\ Rest' = Rest
  BY <1>2 DEF Wrap, Reached, Rest, IInv, TypeOK
<1>5. Seen' = Seen /\ Gathered' = 0 /\ Noticed' = Seen + 1 /\ Noticed = Seen
  <2>1. Seen' = volblocks - Rest' /\ Gathered' = blocks' - need' /\ Seen = volblocks - Rest
    BY DEF Seen, Gathered
  <2>2. Noticed' = IF Reached' = 0 THEN Seen' + 1 ELSE Seen'
    BY DEF Noticed
  <2> QED BY <1>2, <1>3, <1>4, <2>1, <2>2
<1>6. Reached = goal + Seen /\ Seen \in Volume /\ BlockAt(Seen) = 0
  <2>1. Reached \in {goal + Seen, goal + Seen - volblocks}
    BY <1>1 DEF Lap
  <2> QED BY <1>2, <1>4, <2>1 DEF Volume, BlockAt
<1>7. b \in Nat /\ b <= Seen /\ Seen - b = Gathered /\ Gathered < blocks
  BY <1>0, <1>1, <1>2, Around
<1>8. Gathered > 0 => FreeAt(b, Gathered) /\ BlockAt(b) = volblocks - (blocks - need)
  <2>1. 0 \in 0 .. Rest /\ Reached + 0 <= volblocks /\ IsFree(Reached, Reached + 0)
        /\ Gathered + 0 = Gathered
    BY <1>2, <1>4 DEF IsFree
  <2>2. Gathered > 0 => FreeAt(b, Gathered) /\ BlockAt(b) = Reached - Gathered
    <3>1. Gathered + 0 > 0 => FreeAt(b, Gathered + 0) /\ BlockAt(b) = Reached - Gathered
      BY <1>0, <1>1, <2>1, GatheredRun
    <3> QED BY <2>1, <3>1
  <2> QED BY <1>2, <1>4, <2>2
<1>9. Stopped(Seen)
  BY <1>6 DEF Stopped, Volume
<1> HIDE DEF b
<1>10. NoneBefore(Seen)
  BY <1>1, <1>2, <1>6, <1>7, NoneUpTo
<1>11. Longest(save_seg(seg, BlockAt(b), Seen - b), Seen + 1)
  <2>1. Longest(seg, Seen) /\ BeginsAt(b, Seen) /\ (Seen > b => FreeAt(b, Seen - b))
    BY <1>1, <1>2, <1>5, <1>7, <1>8
  <2> QED BY <1>2, <1>7, <1>9, <2>1, Keeps
<1>12. Longest(seg', Seen + 1)
  <2>1. CASE need < blocks
    BY <1>2, <1>3, <1>7, <1>8, <1>11, <2>1
  <2>2. CASE ~ (need < blocks)
    BY <1>2, <1>3, <1>7, <1>11, <2>2 DEF save_seg
  <2> QED BY <2>1, <2>2
<1>13. BeginsAt(Seen, Seen + 1)
  BY <1>2, <1>6 DEF BeginsAt
<1>14. /\ Rest' \in 0 .. volblocks /\ Reached' \in {goal + Seen, goal + Seen - volblocks}
       /\ 0 <= Seen /\ before = bitmap /\ nextblock = goal
  BY <1>1, <1>2, <1>4, <1>6 DEF Lap, Volume
<1>15. Seen - 0 = Seen
  BY <1>2
<1> QED BY <1>3, <1>5, <1>10, <1>12, <1>13, <1>14, <1>15, SInvNext

(* When the whole volume was searched, no run satisfies the request, and    *)
(* the longest one was saved.                                               *)
LEMMA Searched ==
    ASSUME IInv, SInv, pc = "outer", len = 0, NEW partial \in BOOLEAN
    PROVE  /\ before = bitmap /\ nextblock = goal
           /\ Segment(before, volblocks, goal, blocks, partial)
                = IF partial /\ seg.count > 0 THEN seg.block .. seg.block + seg.count - 1 ELSE {}
<1>0. Searching
  BY DEF Searching
<1>1. /\ Lap /\ NoneBefore(Seen - Gathered) /\ Longest(seg, Noticed)
      /\ before = bitmap /\ nextblock = goal
  BY <1>0 DEF SInv, Lap
<1>2. /\ Seen \in Nat /\ Gathered \in Nat /\ Rest = volblocks - Seen
      /\ Gathered <= Seen /\ volblocks \in Nat \ {0} /\ Gathered < blocks
      /\ Noticed = IF Reached = 0 THEN Seen + 1 ELSE Seen
      /\ goal \in Volume /\ bitmap \subseteq Volume /\ blocks \in 1 .. volblocks
      /\ seg \in [block : 0 .. volblocks, count : 0 .. volblocks] /\ blocks \in Nat
  BY <1>0, <1>1, Around DEF IInv, TypeOK
<1>3. Seen = volblocks
  BY <1>2 DEF Rest, IInv, TypeOK
<1>4. NoneBefore(volblocks)
  <2> SUFFICES ASSUME NEW p \in Volume, FreeAt(p, blocks) PROVE FALSE
    BY DEF NoneBefore
  <2>1. p >= volblocks - Gathered /\ p + blocks <= volblocks /\ p \in Nat
    BY <1>1, <1>3 DEF NoneBefore, FreeAt, Volume
  <2> QED BY <1>2, <2>1
<1>5. Longest(seg, volblocks)
  <2>1. seg.count # 0 => Stopped(PosOf(seg.block) + seg.count)
    BY <1>1 DEF Longest
  <2>2. seg.count # 0 => PosOf(seg.block) + seg.count < volblocks
    BY <2>1 DEF Stopped
  <2>3. \A p \in Volume, k \in 1 .. blocks - 1 :
           FreeAt(p, k) /\ Stopped(p + k) /\ p + k < volblocks => p + k < Noticed
    BY <1>2, <1>3 DEF Volume
  <2> QED BY <1>1, <2>2, <2>3 DEF Longest
<1> QED BY <1>1, <1>2, <1>4, <1>5, LongestRun

-----------------------------------------------------------------------------

(* The invariant of the search. *)
SearchInv == SInv /\ SearchCorrect /\ Returned

LEMMA InitSearch == Init => SearchInv
BY DEF Init, SearchInv, SInv, Searching, SearchCorrect, Returned

(* A new search has seen nothing. *)
LEMMA Starts ==
    ASSUME IInv, NEW n \in 1 .. MaxRequest, NEW f \in {0, BALLOC_PARTIAL}, Balloc(n, f)
    PROVE  SInv'
<1>1. /\ goal' = nextblock /\ nextblock' = nextblock /\ before' = bitmap /\ bitmap' = bitmap
      /\ need' = n /\ blocks' = n /\ start' = nextblock /\ len' = volblocks /\ pc' = "outer"
      /\ seg' = NoSeg /\ nextblock \in Volume /\ n \in 1 .. volblocks
  BY DEF Balloc, volVars, IInv, TypeOK
<1>2. Rest' = volblocks /\ Reached' = nextblock /\ Gathered' = 0
  BY <1>1 DEF Rest, Reached, Gathered
<1>3. Seen' = 0 /\ Noticed' \in {0, 1}
  BY <1>1, <1>2 DEF Seen, Noticed
<1>4. Lap'
  BY <1>1, <1>2, <1>3 DEF Lap, Volume
<1>5. BeginsAt(Seen - Gathered, Noticed)'
  BY <1>2, <1>3 DEF BeginsAt
<1>6. NoneBefore(Seen - Gathered)'
  BY <1>2, <1>3 DEF NoneBefore, Volume
<1>7. Longest(seg, Noticed)'
  <2>1. \A p \in Volume, k \in 1 .. blocks' - 1 : ~ (p + k < Noticed')
    BY <1>1, <1>3 DEF Volume
  <2> QED BY <1>1, <2>1 DEF Longest, NoSeg
<1> QED BY <1>4, <1>5, <1>6, <1>7 DEF SInv

(* Every step of the search keeps what is known of the runs. *)
LEMMA StepSInv == IInv /\ IInv' /\ SInv /\ Next => SInv'
<1> SUFFICES ASSUME IInv, IInv', SInv, Next PROVE SInv'
  OBVIOUS
<1> USE DEF volVars, callVars, loopVars
<1>1. CASE \E n \in 1 .. MaxRequest, f \in {0, BALLOC_PARTIAL} : Balloc(n, f)
  BY <1>1, Starts
<1>2. CASE \E first \in Volume, n \in 1 .. MaxRequest, s \in {0, 1} : TestAndModify(first, n, s)
  BY <1>2 DEF TestAndModify, SInv, Searching
<1>3. CASE Wrap
  BY <1>3, GoesRound DEF Wrap
<1>4. CASE ReadMap
  <2>0. len \in Nat /\ start \in Nat
    BY DEF IInv, TypeOK
  <2>1. /\ UNCHANGED <<bitmap, blocks, goal, before, nextblock, seg>>
        /\ need' = need /\ Searching
        /\ Reached' = Reached /\ Rest' = Rest
    BY <1>4, <2>0 DEF ReadMap, Reached, Rest, Searching
  <2>2. Seen' = Seen /\ Gathered' = Gathered /\ Noticed' = Noticed
    BY <2>1 DEF Seen, Gathered, Noticed
  <2>3. /\ Lap /\ BeginsAt(Seen - Gathered, Noticed) /\ NoneBefore(Seen - Gathered)
        /\ Longest(seg, Noticed)
    BY <2>1 DEF SInv
  <2> QED BY <2>1, <2>2, <2>3, SInvNext DEF Lap
<1>5. CASE FreeBits
  <2> DEFINE mapnext == SmallerOf(pos + need, limit)
             d == mapnext - pos
  <2>1. /\ pc = "inner" /\ Searching /\ Reached = pos /\ need' = need - d
        /\ \A b \in pos .. mapnext - 1 : b \notin bitmap
        /\ UNCHANGED <<volVars, callVars, pos, limit, ret>>
        /\ IF need' > 0 THEN NextMap /\ UNCHANGED seg ELSE pc' = "take"
    BY <1>5 DEF FreeBits, IsNextBit, Searching, Reached
  <2>2. /\ mapnext \in Nat /\ mapnext > pos /\ mapnext <= limit /\ mapnext <= pos + need
        /\ mapnext < limit => mapnext = pos + need
        /\ pos \in Nat /\ limit \in Nat /\ start \in Nat /\ len \in Nat /\ need \in Nat
        /\ start <= pos /\ limit <= volblocks /\ limit - start <= len
    BY <2>1 DEF SmallerOf, MapRange, Collected, IInv, TypeOK
  <2> HIDE DEF mapnext
  <2>3. CASE need' > 0
    <3>1. NextMap /\ UNCHANGED seg /\ mapnext = limit
      BY <2>1, <2>2, <2>3
    <3>2. Rest = len - (pos - start) /\ Rest' = len' /\ Reached' = limit
      BY <2>1, <3>1 DEF NextMap, Rest, Reached, IInv, TypeOK
    <3>3. d \in 1 .. Rest /\ Reached + d = limit /\ Rest' = Rest - d
      BY <2>1, <2>2, <3>1, <3>2 DEF NextMap
    <3>4. IsFree(Reached, Reached + d)
      BY <2>1, <3>1, <3>3 DEF IsFree
    <3>5. Reached + d <= volblocks /\ Reached' = Reached + d
      BY <2>2, <3>2, <3>3
    <3>6. UNCHANGED <<bitmap, blocks, goal, before, nextblock, seg>>
      BY <2>1, <3>1
    <3> HIDE DEF d
    <3> QED BY <2>1, <3>3, <3>4, <3>5, <3>6, GoesOn
  <2>4. CASE ~ (need' > 0)
    BY <2>1, <2>4 DEF SInv, Searching
  <2> QED BY <2>3, <2>4
<1>6. CASE UsedBits
  <2> DEFINE mapnext == SmallerOf(pos + need, limit)
  <2>1. PICK idx \in pos .. mapnext - 1, next \in pos + 1 .. limit :
          /\ pc = "inner"
          /\ IsNextBit(idx, pos, mapnext)
          /\ LET blks == blocks - (need - (idx - pos))
             IN  seg' = IF blks > 0 THEN save_seg(seg, idx - blks, blks) ELSE seg
          /\ need' = blocks
          /\ IsNextZeroBit(next, idx + 1, limit)
          /\ pos' = next
          /\ IF next = limit THEN NextMap ELSE UNCHANGED <<start, len, pc>>
          /\ UNCHANGED <<volVars, callVars, limit, ret>>
    BY <1>6 DEF UsedBits
  <2>2. /\ mapnext \in Nat /\ mapnext <= limit /\ mapnext <= pos + need
        /\ pos \in Nat /\ limit \in Nat /\ start \in Nat /\ len \in Nat /\ need \in Nat
        /\ start <= pos /\ limit <= volblocks /\ limit - start <= len
        /\ blocks \in Nat /\ need <= blocks /\ pc = "inner" /\ pos < limit
    BY <2>1 DEF SmallerOf, MapRange, Collected, IInv, TypeOK
  <2>3. /\ idx \in Nat /\ next \in Nat /\ pos <= idx /\ idx < mapnext /\ idx < next /\ next <= limit
        /\ \A b \in pos .. idx - 1 : b \notin bitmap
        /\ \A b \in idx .. next - 1 : b \in bitmap
    <3>1. /\ idx \in Nat /\ next \in Nat /\ pos <= idx /\ idx < mapnext /\ next <= limit
          /\ next \in idx + 1 .. limit /\ idx \in bitmap
          /\ \A b \in pos .. idx - 1 : b \notin bitmap
          /\ \A b \in idx + 1 .. next - 1 : b \in bitmap
      BY <2>1, <2>2 DEF IsNextBit, IsNextZeroBit
    <3>2. \A b \in idx .. next - 1 : b = idx \/ b \in idx + 1 .. next - 1
      BY <3>1
    <3> QED BY <2>2, <3>1, <3>2
  <2> HIDE DEF mapnext
  <2> DEFINE d == idx - pos
             n == next - pos
  <2>4. Searching /\ Reached = pos /\ Rest = len - (pos - start) /\ Gathered = blocks - need
    BY <2>2 DEF Searching, Reached, Rest, Gathered
  <2>5. /\ d \in Nat /\ n \in 1 .. Rest /\ d < n /\ Reached + n = next /\ Reached + n <= volblocks
        /\ Reached + d = idx /\ Gathered + d < blocks
        /\ Gathered + d = blocks - (need - (idx - pos)) /\ Reached - Gathered = idx - (Gathered + d)
    BY <2>2, <2>3, <2>4
  <2>6. Reached' = next /\ Rest' = Rest - n
    <3>1. CASE next = limit
      <4>1. NextMap
        BY <2>1, <3>1
      <4>2. Reached' = limit /\ Rest' = len - (limit - start)
        BY <2>2, <4>1 DEF NextMap, Reached, Rest
      <4> QED BY <2>2, <2>3, <2>4, <3>1, <4>2
    <3>2. CASE next # limit
      <4>1. UNCHANGED <<start, len, pc>> /\ pos' = next
        BY <2>1, <3>2
      <4>2. Reached' = next /\ Rest' = len - (next - start)
        BY <2>2, <4>1 DEF Reached, Rest
      <4> QED BY <2>2, <2>3, <2>4, <4>2
    <3> QED BY <3>1, <3>2
  <2>7. IsFree(Reached, Reached + d) /\ \A x \in Reached + d .. Reached + n - 1 : x \in bitmap
    <3>1. IsFree(pos, idx)
      BY <2>3 DEF IsFree
    <3>2. \A x \in idx .. next - 1 : x \in bitmap
      BY <2>3
    <3> HIDE DEF d, n
    <3>3. Reached = pos /\ Reached + d = idx /\ Reached + n = next
      BY <2>4, <2>5
    <3>4. IsFree(Reached, Reached + d)
      BY ONLY <3>1, <3>3, Zenon
    <3>5. \A x \in Reached + d .. Reached + n - 1 : x \in bitmap
      <4>1. Reached \in Nat /\ next \in Nat /\ n \in Int
        BY <2>2, <2>3, <3>3 DEF n
      <4> QED BY ONLY <3>2, <3>3, <4>1
    <3> QED BY <3>4, <3>5
  <2>8. seg' = IF Gathered + d > 0 THEN save_seg(seg, Reached - Gathered, Gathered + d) ELSE seg
    BY <2>1, <2>5
  <2>9. UNCHANGED <<bitmap, blocks, goal, before, nextblock>> /\ need' = blocks
    BY <2>1
  <2> HIDE DEF d, n
  <2> QED BY <2>4, <2>5, <2>6, <2>7, <2>8, <2>9, Skips
<1>7. CASE \/ ReadError \/ SearchEnd \/ Take \/ TakeError
           \/ ModifyMap \/ ModifyError \/ ModifyEnd \/ Return
  BY <1>7 DEF ReadError, SearchEnd, Take, TakeError, ModifyMap, ModifyError, ModifyEnd, Return,
              SInv, Searching
<1> QED BY <1>1, <1>2, <1>3, <1>4, <1>5, <1>6, <1>7 DEF Next, Steps

(* What the search found is what it had to find. *)
LEMMA StepSearch == IInv /\ IInv' /\ SearchInv /\ [Next]_vars => SearchInv'
<1> SUFFICES ASSUME IInv, IInv', SearchInv, [Next]_vars PROVE SearchInv'
  OBVIOUS
<1>1. CASE Next
  <2>1. SInv'
    BY <1>1, StepSInv DEF SearchInv
  <2> DEFINE Found == Segment(before, volblocks, goal, blocks, flags = BALLOC_PARTIAL)
  <2>2. Returned /\ SearchCorrect /\ SInv /\ (flags = BALLOC_PARTIAL) \in BOOLEAN
    BY DEF SearchInv
  <2>3. SearchCorrect' /\ Returned'
    <3> USE DEF volVars, callVars, loopVars
    <3>1. CASE \E n \in 1 .. MaxRequest, f \in {0, BALLOC_PARTIAL} : Balloc(n, f)
      BY <2>2, <3>1 DEF Balloc, SearchCorrect, Returned
    <3>2. CASE \E first \in Volume, n \in 1 .. MaxRequest, s \in {0, 1} : TestAndModify(first, n, s)
      BY <2>2, <3>2 DEF TestAndModify, SearchCorrect, Returned
    <3>3. CASE Wrap \/ ReadMap \/ UsedBits
      BY <2>2, <3>3 DEF Wrap, ReadMap, UsedBits, NextMap, SearchCorrect, Returned
    <3>4. CASE FreeBits
      <4> DEFINE mapnext == SmallerOf(pos + need, limit)
                 d == mapnext - pos
      <4>1. /\ pc = "inner" /\ Searching /\ Reached = pos /\ need' = need - d
            /\ \A b \in pos .. mapnext - 1 : b \notin bitmap
            /\ UNCHANGED <<volVars, callVars, pos, limit, ret>>
            /\ IF need' > 0 THEN NextMap
               ELSE pc' = "take" /\ seg' = [block |-> mapnext - blocks, count |-> blocks]
        BY <3>4 DEF FreeBits, IsNextBit, Searching, Reached
      <4>2. /\ mapnext \in Nat /\ mapnext > pos /\ mapnext <= limit /\ mapnext <= pos + need
            /\ pos \in Nat /\ limit \in Nat /\ start \in Nat /\ len \in Nat /\ need \in Nat
            /\ start <= pos /\ limit <= volblocks /\ limit - start <= len
        BY <4>1 DEF SmallerOf, MapRange, Collected, IInv, TypeOK
      <4> HIDE DEF mapnext
      <4>3. CASE need' > 0
        BY <2>2, <4>1, <4>3 DEF NextMap, SearchCorrect, Returned
      <4>4. CASE ~ (need' > 0)
        <5>1. d = need /\ Rest = len - (pos - start)
          BY <4>1, <4>2, <4>4 DEF Rest
        <5>2. d \in 1 .. Rest /\ Reached + d = mapnext /\ Reached + d <= volblocks
          BY <4>1, <4>2, <5>1
        <5>3. IsFree(Reached, Reached + d)
          BY <4>1, <5>2 DEF IsFree
        <5> HIDE DEF d
        <5>4. Found = (Reached + d - blocks) .. (Reached + d - blocks) + blocks - 1
          BY <2>2, <4>1, <5>1, <5>2, <5>3, Finds
        <5>5. pc' = "take" /\ seg' = [block |-> mapnext - blocks, count |-> blocks] /\ ret' = "none"
          BY <2>2, <4>1, <4>4 DEF Returned
        <5>6. UNCHANGED <<before, goal, blocks, flags>>
          BY <4>1
        <5>7. seg'.block .. seg'.block + seg'.count - 1 = Found
          <6>1. Reached \in Nat /\ mapnext \in Nat /\ d \in Int /\ blocks \in Nat
            BY <4>1, <4>2 DEF d, IInv, TypeOK
          <6> QED BY <5>2, <5>4, <5>5, <6>1
        <5> QED BY <5>5, <5>6, <5>7 DEF SearchCorrect, Returned
      <4> QED BY <4>3, <4>4
    <3>5. CASE SearchEnd
      <4>1. /\ before = bitmap /\ nextblock = goal
            /\ Found = IF flags = BALLOC_PARTIAL /\ seg.count > 0
                       THEN seg.block .. seg.block + seg.count - 1 ELSE {}
        BY <2>2, <3>5, Searched DEF SearchEnd
      <4>2. UNCHANGED <<bitmap, nextblock, before, goal, blocks, flags, seg>>
        BY <3>5 DEF SearchEnd
      <4>3. CASE flags = BALLOC_PARTIAL /\ seg.count > 0
        <5>1. pc' = "take" /\ ret' = "none"
          BY <2>2, <3>5, <4>3 DEF SearchEnd, Returned
        <5> QED BY <4>1, <4>2, <4>3, <5>1 DEF SearchCorrect, Returned
      <4>4. CASE ~ (flags = BALLOC_PARTIAL /\ seg.count > 0)
        <5>1. pc' = "return" /\ ret' = "ENOSPC"
          BY <3>5, <4>4 DEF SearchEnd
        <5> QED BY <4>1, <4>2, <4>4, <5>1 DEF SearchCorrect, Returned
      <4> QED BY <4>3, <4>4
    <3>6. CASE ReadError \/ Take \/ TakeError \/ ModifyError \/ ModifyEnd
      BY <2>2, <3>6 DEF ReadError, Take, TakeError, ModifyError, ModifyEnd, SearchCorrect, Returned
    <3>7. CASE ModifyMap \/ Return
      BY <2>2, <3>7 DEF ModifyMap, Return, SearchCorrect, Returned
    <3> QED BY <1>1, <3>1, <3>2, <3>3, <3>4, <3>5, <3>6, <3>7 DEF Next, Steps
  <2> QED BY <2>1, <2>3 DEF SearchInv
<1>2. CASE UNCHANGED vars
  <2>1. UNCHANGED <<bitmap, nextblock, before, goal, blocks, flags, seg, pc, ret, need, start, len,
                    pos>>
    BY <1>2 DEF vars, volVars, callVars, loopVars
  <2>2. SearchCorrect' /\ Returned'
    BY <2>1 DEF SearchInv, SearchCorrect, Returned
  <2>3. CASE Searching
    <3>1. Seen' = Seen /\ Gathered' = Gathered /\ Noticed' = Noticed /\ Rest' = Rest
          /\ Reached' = Reached
      BY <2>1 DEF Seen, Gathered, Noticed, Rest, Reached
    <3>2. /\ Lap /\ BeginsAt(Seen - Gathered, Noticed) /\ NoneBefore(Seen - Gathered)
          /\ Longest(seg, Noticed)
      BY <2>3 DEF SearchInv, SInv
    <3>3. SInv'
      BY <2>1, <3>1, <3>2, SInvNext DEF Lap
    <3> QED BY <2>2, <3>3 DEF SearchInv
  <2>4. CASE ~ Searching
    BY <2>1, <2>2, <2>4 DEF SearchInv, SInv, Searching
  <2> QED BY <2>3, <2>4
<1> QED BY <1>1, <1>2

(* The search finds what FreeRuns promises, for every volume, bitmap block  *)
(* size, bitmap and request, and from any nextblock.                        *)
THEOREM SearchesCorrectly == Spec => []SearchCorrect
<1>1. Init => IInv /\ SearchInv
  BY InitInv, InitSearch
<1>2. IInv /\ SearchInv /\ [Next]_vars => (IInv /\ SearchInv)'
  BY StepInv, StepSearch
<1>3. SearchInv => SearchCorrect
  BY DEF SearchInv
<1> QED BY <1>1, <1>2, <1>3, PTL DEF Spec
=============================================================================
