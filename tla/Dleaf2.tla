------------------------------- MODULE Dleaf2 --------------------------------
(***************************************************************************)
(* The leaf format of a file's data (kernel/dleaf2.c) under btree_write(), *)
(* btree_read() and btree_chop(): extents sorted by logical address, each  *)
(* reaching to the next, the last one a sentinel.  A write overwrites what *)
(* is in its way and splits the leaf when it does not fit; then what could *)
(* not be written yet stands as a temporary hole.                          *)
(*                                                                         *)
(* A segment that was allocated partially and checked again is the request *)
(* for what was granted; the version of an extent is ignored by the code.  *)
(***************************************************************************)
EXTENDS Integers, Sequences, SequencesExt, FiniteSets, FiniteSetsExt

CONSTANTS
    MaxBlock,        \* bound: logical blocks are 0 .. MaxBlock - 1
    EntriesPerLeaf,  \* btree->entries_per_leaf, sentinel included
    MaxSegs          \* bound: segments of a write

Logical  == 0 .. MaxBlock - 1
HOLE     == 0
Physical == 1 .. MaxBlock * MaxBlock

VARIABLES
    leaves,      \* from left to right, the parent's key and the extents
    req,         \* the write under way: what is left of its segments
    file,        \* history: logical block -> physical block or HOLE
    freed,       \* history: the blocks the last chop gave to log_bfree()
    wanted       \* history: the blocks it had to

vars == <<leaves, req, file, freed, wanted>>

Extent == [logical : 0 .. MaxBlock, physical : Physical \union {HOLE}]
NoReq  == [start |-> 0, segs |-> <<>>]

TypeOK ==
    /\ leaves \in Seq([key : Nat, table : Seq(Extent)])
    /\ req.start \in 0 .. MaxBlock /\ req.segs \in Seq([block : Physical, count : Nat])
    /\ file \in [Logical -> Physical \union {HOLE}]
    /\ \A i \in DOMAIN leaves : Len(leaves[i].table) <= EntriesPerLeaf

Ex(logical, physical) == [logical |-> logical, physical |-> physical]

(* put_extent() and get_extent() of a block inside an extent *)
Shift(ex, n) == IF ex.physical = HOLE THEN HOLE ELSE ex.physical + n

-----------------------------------------------------------------------------
(* One leaf *)

(* dleaf2_lookup_index(): the last extent at or below index, and one past   *)
(* the table when index is above the sentinel.                              *)
dleaf2_lookup_index(table, index) ==
    IF \A i \in DOMAIN table : table[i].logical < index
    THEN Len(table) + 1
    ELSE Max({i \in DOMAIN table : table[i].logical <= index})

(* dleaf2_init_sentinel() *)
dleaf2_init_sentinel(table, bottom) ==
    IF table = <<>> THEN <<Ex(bottom, HOLE)>> ELSE table

(* dleaf2_split(): the key of the right leaf and both tables *)
dleaf2_split(table, hint) ==
    LET at == dleaf2_lookup_index(table, hint)
    IN  IF at > Len(table)
        THEN [key |-> Last(table).logical, from |-> table, into |-> <<>>]
        ELSE [key  |-> table[at].logical,
              from |-> Append(SubSeq(table, 1, at - 1), Ex(table[at].logical, HOLE)),
              into |-> SubSeq(table, at, Len(table))]

(* Does the first extent of from take the place of the sentinel of into? *)
SameStart(into, from) == Last(into).logical = Head(from).logical

(* Does dleaf2_merge() find the room? *)
CanMerge(into, from) ==
    \/ Len(from) <= 1
    \/ into = <<>>
    \/ LET merge == IF Head(from).physical = HOLE \/ SameStart(into, from) THEN 1 ELSE 0
       IN  Len(into) + Len(from) - merge <= EntriesPerLeaf

(* dleaf2_merge() when there is room *)
dleaf2_merge(into, from) ==
    IF Len(from) <= 1 THEN into
    ELSE IF into = <<>> THEN from
    ELSE IF Head(from).physical = HOLE THEN into \o Tail(from)
    ELSE IF SameStart(into, from) THEN Front(into) \o from
    ELSE into \o from

(* dleaf2_chop() of everything from start on: the table and the runs of     *)
(* blocks it frees.                                                         *)
dleaf2_chop(table, start) ==
    LET at    == dleaf2_lookup_index(table, start)
        ex    == table[at]
        merge == start = ex.logical /\ at > 1 /\ table[at - 1].physical = HOLE
        left  == IF merge THEN SubSeq(table, 1, at - 1)
                 ELSE IF start = ex.logical
                      THEN Append(SubSeq(table, 1, at - 1), Ex(start, HOLE))
                 ELSE IF ex.physical = HOLE THEN SubSeq(table, 1, at)
                 ELSE Append(SubSeq(table, 1, at), Ex(start, HOLE))
        run(i) == LET from == Max({start, table[i].logical})
                  IN  Shift(table[i], from - table[i].logical)
                      .. Shift(table[i], table[i + 1].logical - table[i].logical) - 1
    IN  IF at >= Len(table)
        THEN [table |-> table, freed |-> {}]
        ELSE [table |-> left,
              freed |-> UNION {run(i) : i \in {j \in at .. Len(table) - 1 :
                                                table[j].physical # HOLE}}]

(* dleaf2_split_at_center() *)
dleaf2_split_at_center(table) == table[Len(table) \div 2 + 1].logical

Count(segs) == FoldLeft(LAMBDA n, seg : n + seg.count, 0, segs)

(* The extents for segs from start on *)
Extents(start, segs) ==
    [i \in DOMAIN segs |-> Ex(start + Count(SubSeq(segs, 1, i - 1)), segs[i].block)]

(* Mutant: the block after the write is mapped as if nothing was cut off. *)
EndPhysical_NoOffset(table, limit) ==
    LET end == dleaf2_lookup_index(table, limit)
    IN  IF end > Len(table) THEN HOLE ELSE table[end].physical

(* What the first block after the write is mapped to *)
EndPhysical(table, limit) ==
    LET end == dleaf2_lookup_index(table, limit)
    IN  IF end > Len(table) THEN HOLE
        ELSE Shift(table[end], limit - table[end].logical)

(* dleaf2_write(): as many segments as there is room for, a temporary hole  *)
(* for the others and an extent that maps what follows as before.  done is  *)
(* the number of segments written, hint the key to split at for the others. *)
dleaf2_write(table0, bottom, start, segs) ==
    LET table == dleaf2_init_sentinel(table0, bottom)
        limit == start + Count(segs)
        head  == SelectSeq(table, LAMBDA ex : ex.logical < start)
        tail  == SubSeq(table, dleaf2_lookup_index(table, limit) + 1, Len(table))
        rest  == Len(head) + Len(segs) + 1 + Len(tail) - EntriesPerLeaf
        fill(done) == head \o Extents(start, SubSeq(segs, 1, done))
                      \o (IF done = Len(segs) THEN <<>>
                          ELSE <<Ex(start + Count(SubSeq(segs, 1, done)), HOLE)>>)
                      \o <<Ex(limit, EndPhysical(table, limit))>> \o tail
        next  == Len(head) + 2
        part  == fill(Len(segs) - rest - 1)
    IN  IF rest <= 0
        THEN [table |-> fill(Len(segs)), done |-> Len(segs), hint |-> limit]
        ELSE IF rest < Len(segs)
        THEN [table |-> part, done |-> Len(segs) - rest - 1,
              hint |-> dleaf2_split_at_center(part)]
        ELSE [table |-> table, done |-> 0,
              hint |-> IF next < Len(table) THEN table[next].logical ELSE start]

(* dleaf2_read(): at most max segments for start .. start + len - 1, as far *)
(* as this leaf goes, and holes after its sentinel.                         *)
dleaf2_read(table0, limit, start, len, max) ==
    LET table   == dleaf2_init_sentinel(table0, start)
        end     == Min({start + len, limit})
        from(i) == Max({start, table[i].logical})
        to(i)   == IF i = Len(table) THEN end ELSE Min({end, table[i + 1].logical})
        first   == Min({dleaf2_lookup_index(table, start), Len(table)})
        segs    == [i \in 1 .. Len(table) - first + 1 |->
                      [block |-> Shift(table[first + i - 1],
                                       from(first + i - 1) - table[first + i - 1].logical),
                       count |-> to(first + i - 1) - from(first + i - 1)]]
        useful  == SelectSeq(segs, LAMBDA seg : seg.count > 0)
    IN  SubSeq(useful, 1, Min({max, Len(useful)}))

-----------------------------------------------------------------------------
(* The leaves of a file under their parent *)

Leaf(index) == Max({i \in DOMAIN leaves : leaves[i].key <= index})

(* cursor_next_key() *)
NextKey(i) == IF i = Len(leaves) THEN MaxBlock ELSE leaves[i + 1].key

(* Where the blocks of a segment are allocated: a run for every start, so   *)
(* that no two segments adjoin by chance.                                   *)
seg_alloc(start, counts) ==
    [i \in DOMAIN counts |->
        [block |-> 1 + (start + FoldLeft(+, 0, SubSeq(counts, 1, i - 1))) * MaxBlock,
         count |-> counts[i]]]

(* The file f with the blocks of segs mapped from start on *)
Mapped(f, start, segs) ==
    LET At(i) == start + Count(SubSeq(segs, 1, i - 1))
    IN  [l \in Logical |->
            IF l \in start .. start + Count(segs) - 1
            THEN LET i == Max({k \in DOMAIN segs : At(k) <= l})
                 IN  segs[i].block + l - At(i)
            ELSE f[l]]

Init ==
    /\ leaves = <<[key |-> 0, table |-> <<>>]>>
    /\ req = NoReq
    /\ file = [l \in Logical |-> HOLE]
    /\ freed = {} /\ wanted = {}

(* map_region2() asks for blocks and calls btree_write(), for no more than  *)
(* the leaf has that btree_read() found.                                    *)
Write ==
    /\ req = NoReq
    /\ \E n \in 1 .. MaxSegs : \E start \in Logical, counts \in [1 .. n -> 1 .. MaxBlock - n + 1] :
        LET segs == seg_alloc(start, counts)
        IN  /\ start + Count(segs) <= NextKey(Leaf(start))
            /\ req' = [start |-> start, segs |-> segs]
            /\ file' = Mapped(file, start, segs)
    /\ freed' = {} /\ wanted' = {}
    /\ UNCHANGED leaves

(* One turn of btree_write(): dleaf2_write() in the leaf of the key, then   *)
(* dleaf2_split() and insert_leaf() if segments are left.                   *)
WriteLeaf ==
    LET i    == Leaf(req.start)
        w    == dleaf2_write(leaves[i].table, leaves[i].key, req.start, req.segs)
        two  == dleaf2_split(w.table, w.hint)
        done == w.done = Len(req.segs)
    IN  /\ req # NoReq
        /\ leaves' = IF done
                     THEN [leaves EXCEPT ![i].table = w.table]
                     ELSE InsertAt([leaves EXCEPT ![i].table = two.from], i + 1,
                                   [key |-> two.key, table |-> two.into])
        /\ req' = IF done THEN NoReq
                  ELSE [start |-> req.start + Count(SubSeq(req.segs, 1, w.done)),
                        segs  |-> SubSeq(req.segs, w.done + 1, Len(req.segs))]
        /\ UNCHANGED <<file, freed, wanted>>

(* tree_chop() of a truncation: btree_chop() from start to the end, merging *)
(* each leaf into the one before when that is possible.                     *)
Chop ==
    /\ req = NoReq
    /\ \E start \in Logical :
        LET first == Leaf(start)
            chop  == [i \in first .. Len(leaves) |->
                        dleaf2_chop(leaves[i].table, Max({start, leaves[i].key}))]
            Join(done, i) ==
                IF CanMerge(Last(done).table, chop[i].table)
                THEN [done EXCEPT ![Len(done)].table = dleaf2_merge(@, chop[i].table)]
                ELSE Append(done, [leaves[i] EXCEPT !.table = chop[i].table])
        IN  /\ leaves' = SubSeq(leaves, 1, first - 1) \o
                         FoldLeft(Join, <<[leaves[first] EXCEPT !.table = chop[first].table]>>,
                                  [i \in 1 .. Len(leaves) - first |-> first + i])
            /\ file' = [l \in Logical |-> IF l < start THEN file[l] ELSE HOLE]
            /\ wanted' = {file[l] : l \in start .. MaxBlock - 1} \ {HOLE}
            /\ freed' = UNION {chop[i].freed : i \in first .. Len(leaves)}
    /\ UNCHANGED req

(* try_leaf_merge() of two neighbours, as btree_chop() makes it for leaves  *)
(* it has chopped and tests/dleaf2.c for any.                               *)
Merge ==
    /\ req = NoReq
    /\ \E i \in 1 .. Len(leaves) - 1 :
        /\ CanMerge(leaves[i].table, leaves[i + 1].table)
        /\ leaves' = RemoveAt([leaves EXCEPT ![i].table = dleaf2_merge(@, leaves[i + 1].table)],
                              i + 1)
    /\ freed' = {} /\ wanted' = {}
    /\ UNCHANGED <<req, file>>

Next == Write \/ WriteLeaf \/ Chop \/ Merge

Spec == Init /\ [][Next]_vars

-----------------------------------------------------------------------------
(* Whatever was written over what before, a read from any block on returns  *)
(* the blocks the file has there, up to the end of the leaf and with any    *)
(* number of segments (dleaf2_read()).                                      *)
ReadExact ==
    req = NoReq => \A start \in Logical, max \in {1, MaxBlock} :
        LET i     == Leaf(start)
            segs  == dleaf2_read(leaves[i].table, NextKey(i), start, MaxBlock - start, max)
            At(k) == start + Count(SubSeq(segs, 1, k - 1))
        IN  /\ \A k \in DOMAIN segs : \A l \in At(k) .. At(k + 1) - 1 :
                  file[l] = Shift(Ex(At(k), segs[k].block), l - At(k))
            /\ max = MaxBlock => At(Len(segs) + 1) = NextKey(i)

(* btree_leaf_split(): "assert(cursor_this_key(cursor) < newkey)", and the  *)
(* assertions of the lookups: the first extent of a leaf that has one       *)
(* starts at its key, the last is a sentinel without a block.               *)
LeavesOrdered ==
    /\ \A i \in 1 .. Len(leaves) - 1 : leaves[i].key < leaves[i + 1].key
    /\ \A i \in DOMAIN leaves :
        LET table == leaves[i].table
        IN  table # <<>> =>
              /\ Head(table).logical = leaves[i].key
              /\ Last(table).physical = HOLE /\ Last(table).logical <= NextKey(i)
              /\ \A k \in 1 .. Len(table) - 1 : table[k].logical < table[k + 1].logical

(* A truncation frees the blocks of what it cuts off, all of them and no    *)
(* others, from every leaf (dleaf2_chop(), defer_bfree()).                  *)
ChopFreesExact == freed = wanted

=============================================================================
