------------------------------ MODULE Backend ------------------------------
(***************************************************************************)
(* What the backend does to its in-memory state while it commits a delta:  *)
(* block allocation (balloc.c), the log and the deferred-free stashes      *)
(* (log.c), redirect-on-write of btree blocks (btree.c), file data and     *)
(* inode attributes (filemap.c, inode.c) and the unify cycle (commit.c).   *)
(*                                                                         *)
(* The volume holds three btrees of one bnode and one leaf each: the inode *)
(* btree and the data btrees of the bitmap and of one regular file.        *)
(*                                                                         *)
(* The backend is one thread, so each operation is an operator from a      *)
(* memory m to the memory after it.  The fields of m:                      *)
(*   bitmap, freeblocks, nextblock  the allocator                          *)
(*   cache            volmap buffers: block -> [data, state]               *)
(*   defree, deunify  blocks to free after this commit / the next unify    *)
(*   log              records of this delta, not written yet               *)
(*   logchain, logcount                                                    *)
(*   root             root block of each btree, 0 if it has none           *)
(*   io               block -> data, writes submitted in this delta        *)
(*   file             the regular file as the frontend sees it             *)
(*   err              "ok" or the error or assertion that was met          *)
(***************************************************************************)
EXTENDS FreeRuns, Sequences, SequencesExt, TLC

CONSTANTS
    NBlocks,     \* volblocks, not 0
    LogSize,     \* log records that fit one log block, at least one
    Values       \* contents of the regular file

Blocks == 0 .. NBlocks - 1
Trees  == {"itree", "bitmap", "file"}
Inodes == {"bitmap", "file"}

(* The regular file: no inode, an inode without data, or its data. *)
Files == {"absent", "empty"} \union Values
NoInode == NBlocks          \* in the inode btree: there is no such inode

(* What a block can hold. *)
Bnode(child)     == [type |-> "bnode", child |-> child]
Ileaf(inode)     == [type |-> "ileaf", inode |-> inode]
Dleaf(block)     == [type |-> "dleaf", block |-> block]
Data(value)      == [type |-> "data", value |-> value]
Bits(set)        == [type |-> "bits", set |-> set]
LogBlock(prev, recs) == [type |-> "log", logchain |-> prev, recs |-> recs]
Junk             == [type |-> "junk"]

Log(m, rec) == [m EXCEPT !.log = Append(@, rec)]
Rec1(op, block)    == [op |-> op, block |-> block]
Rec2(op, old, new) == [op |-> op, old |-> old, new |-> new]

-----------------------------------------------------------------------------
(* balloc.c *)

(* The segment balloc_partial() finds for a request of n blocks, {} for     *)
(* ENOSPC.  With n = 1 this is what balloc() finds.                         *)
balloc_from_range(m, n) == Segment(m.bitmap, NBlocks, m.nextblock, n, TRUE)

(* Set the bits of seg and move nextblock behind it. *)
TakeSeg(m, seg) ==
    [m EXCEPT !.bitmap = @ \union seg, !.freeblocks = @ - Cardinality(seg),
              !.nextblock = IF Max(seg) + 1 = NBlocks THEN 0 ELSE Max(seg) + 1]

goal(m) == Min(balloc_from_range(m, 1))

(* bitmap_test_and_modify() of one block. *)
SetBit(m, b) ==
    IF b \in m.bitmap THEN [m EXCEPT !.err = "already allocated"]
    ELSE [m EXCEPT !.bitmap = @ \union {b}, !.freeblocks = @ - 1]

bfree(m, b) ==
    IF b \notin m.bitmap THEN [m EXCEPT !.err = "double free"]
    ELSE [m EXCEPT !.bitmap = @ \ {b}, !.freeblocks = @ + 1]

defer_bfree(m, b)  == [m EXCEPT !.defree = Append(@, b)]
defer_unify(m, b)  == [m EXCEPT !.deunify = Append(@, b)]

-----------------------------------------------------------------------------
(* Buffers of the volmap.  "delta": dirty leaf, written with this delta;    *)
(* "unify": dirty bnode of this unify cycle, on sb->unify_buffers; "flush": *)
(* dirty bnode of the cycle that has just ended, written with this delta.   *)

DirtyStates == {"delta", "unify", "flush"}

SetBuffer(m, b, data, state) ==
    [m EXCEPT !.cache = (b :> [data |-> data, state |-> state]) @@ @]

(* blockput_free(), blockput_free_unify(): the buffer becomes clean and     *)
(* stays in the cache.                                                      *)
blockput_free(m, b) == [m EXCEPT !.cache[b].state = "clean"]

Buffer(m, b)  == m.cache[b].data
LeafOf(m, t)  == Buffer(m, m.root[t]).child
Leaf(m, t)    == Buffer(m, LeafOf(m, t))

leaf_need_redirect(m, b)  == m.cache[b].state \notin DirtyStates

(* Mutant: a bnode of the cycle that has ended still counts as dirty. *)
bnode_need_redirect_Dirty(m, b) == m.cache[b].state \notin DirtyStates

bnode_need_redirect(m, b) == m.cache[b].state # "unify"

-----------------------------------------------------------------------------
(* btree.c *)

(* new_block(): a buffer for block b, which is allocated. *)
NewBuffer(m, b, data, state) == SetBuffer(TakeSeg(m, {b}), b, data, state)

(* cursor_redirect(), level 0: a bnode that is not dirty in this unify      *)
(* cycle is copied to a new block.  The log stands for the new bnode until  *)
(* the next unify, so the old block is kept till then.                      *)
CopyBnode(m, t, old, new) ==
    LET m1 == Log(NewBuffer(m, new, Buffer(m, old), "unify"), Rec2("bnode_redirect", old, new))
    IN  [defer_unify(m1, old) EXCEPT !.root[t] = new]

RedirectBnode(m, t) ==
    IF bnode_need_redirect(m, m.root[t]) THEN CopyBnode(m, t, m.root[t], goal(m)) ELSE m

(* Mutant: a clean leaf is changed in place. *)
RedirectLeaf_InPlace(m, t) == [m EXCEPT !.cache[LeafOf(m, t)].state = "delta"]

(* Level 1: a clean leaf is copied to a new block and the parent updated;   *)
(* the old block is freed after this commit.                                *)
CopyLeaf(m, parent, old, new) ==
    LET m1 == Log(NewBuffer(m, new, Buffer(m, old), "delta"), Rec2("leaf_redirect", old, new))
    IN  Log([defer_bfree(m1, old) EXCEPT !.cache[parent].data.child = new],
            Rec2("bnode_update", parent, new))

RedirectLeaf(m, t) ==
    IF leaf_need_redirect(m, LeafOf(m, t))
    THEN CopyLeaf(m, m.root[t], LeafOf(m, t), goal(m)) ELSE m

cursor_redirect(m, t) == RedirectLeaf(RedirectBnode(m, t), t)

(* alloc_empty_btree(): the root, then the leaf.  Every caller tests        *)
(* has_root() first.                                                       *)
LinkLeaf(m, t, root, leaf, leafdata) ==
    LET m1 == [NewBuffer(m, leaf, leafdata, "delta") EXCEPT
                 !.cache[root].data = Bnode(leaf), !.root[t] = root]
    IN  Log(Log(m1, Rec2("bnode_root", root, leaf)), Rec1("balloc", leaf))

AllocLeaf(m, t, root, leafdata) == LinkLeaf(m, t, root, goal(m), leafdata)

AllocRoot(m, t, root, leafdata) ==
    AllocLeaf(NewBuffer(m, root, Junk, "unify"), t, root, leafdata)

alloc_empty_btree(m, t, leafdata) ==
    IF m.root[t] = 0 THEN AllocRoot(m, t, goal(m), leafdata) ELSE m

(* free_empty_btree(): a block that was only redirected or created since    *)
(* the last commit (leaf) or the last unify (bnode) is free at once.        *)
FreeLeaf(m, b) ==
    IF leaf_need_redirect(m, b)
    THEN Log(defer_bfree(m, b), Rec1("bfree", b))
    ELSE blockput_free(Log(bfree(m, b), Rec1("leaf_free", b)), b)

FreeBnode(m, b) ==
    IF bnode_need_redirect(m, b)
    THEN Log(defer_unify(m, b), Rec1("bfree_on_unify", b))
    ELSE blockput_free(Log(bfree(m, b), Rec1("bnode_free", b)), b)

free_empty_btree(m, t) ==
    IF m.root[t] = 0 THEN m
    ELSE FreeBnode(FreeLeaf([m EXCEPT !.root[t] = 0], LeafOf(m, t)), m.root[t])

-----------------------------------------------------------------------------
(* filemap.c, inode.c *)

map_bfree(m, i, b) ==
    IF i = "bitmap" THEN defer_unify(Log(m, Rec1("bfree_on_unify", b)), b)
                    ELSE defer_bfree(Log(m, Rec1("bfree", b)), b)

(* Free the data block of inode i if it has one. *)
FreeData(m, i) == IF Leaf(m, i).block = 0 THEN m ELSE map_bfree(m, i, Leaf(m, i).block)

(* map_region2() in mode MAP_REDIRECT and the write of the data: the data   *)
(* goes to a new block, the old one is freed.                               *)
MapData(m, i, new, data) ==
    [Log(TakeSeg(m, {new}), Rec1("balloc", new)) EXCEPT
       !.cache[LeafOf(m, i)].data.block = new, !.io = (new :> data) @@ @]

AllocData(m, i, data) == MapData(m, i, goal(m), data)

map_region(m, i, data) ==
    AllocData(cursor_redirect(FreeData(alloc_empty_btree(m, i, Dleaf(0)), i), i), i, data)

(* tux3_truncate_blocks(inode, 0): btree_chop() of all extents. *)
ChopExtent(m, i) == [FreeData(m, i) EXCEPT !.cache[LeafOf(m, i)].data.block = 0]

truncate_blocks(m, i) ==
    IF m.root[i] = 0 THEN m ELSE ChopExtent(cursor_redirect(m, i), i)

(* Store or remove the inode in the inode btree. *)
SetInode(m, i, root) == [m EXCEPT !.cache[LeafOf(m, "itree")].data.inode[i] = root]

WriteItree(m, i, root) ==
    LET m1 == alloc_empty_btree(m, "itree", Ileaf([j \in Inodes |-> NoInode]))
    IN  SetInode(cursor_redirect(m1, "itree"), i, root)

save_inode(m, i) == WriteItree(m, i, m.root[i])

(* tux3_purge_inode(): the extents are chopped only if i_size is not 0. *)
purge_inode(m, i, size) ==
    LET m1 == IF size = 0 THEN m ELSE truncate_blocks(m, i)
    IN  WriteItree(free_empty_btree(m1, i), i, NoInode)

-----------------------------------------------------------------------------
(* commit.c *)

(* stage_delta(): the delta changed the file from m.file to new. *)
stage_delta(m, new) ==
    LET size == IF m.file \in Values THEN 1 ELSE 0
        m1 == CASE new = m.file   -> m
                [] new = "absent" -> purge_inode(m, "file", size)
                [] new = "empty"  -> save_inode(IF size = 0 THEN m
                                                ELSE truncate_blocks(m, "file"), "file")
                [] OTHER          -> save_inode(map_region(m, "file", Data(new)), "file")
    IN  [m1 EXCEPT !.file = new]

(* Mutant: the new log does not repeat the frees. *)
Relog_Nothing(stash) == <<>>

(* relog_frontend_defer_as_bfree(), relog_as_bfree() over a stash. *)
Relog(stash) == [k \in DOMAIN stash |-> Rec1("bfree_relog", stash[k])]

(* unify_log(): a new unify cycle.  All frees the old log stood for are     *)
(* logged again, bnodes of the old cycle join the write of this delta, and  *)
(* the bitmap as it is now is written; what writing it allocates belongs to *)
(* the new cycle.                                                           *)
unify_log(m) ==
    LET m1 == [m EXCEPT
                 !.logcount = 0,
                 !.log = @ \o <<[op |-> "unify"], [op |-> "freeblocks", count |-> m.freeblocks]>>
                           \o Relog(m.defree) \o Relog(m.deunify),
                 !.defree = m.defree \o m.deunify,
                 !.deunify = <<>>,
                 !.cache = [b \in DOMAIN @ |->
                              IF @[b].state = "unify" THEN [@[b] EXCEPT !.state = "flush"]
                                                      ELSE @[b]]]
    IN  save_inode(map_region(m1, "bitmap", Bits(m.bitmap)), "bitmap")

(* write_btree(): leaves, and the bnodes of an ended cycle. *)
write_btree(m) ==
    LET dirty == {b \in DOMAIN m.cache : m.cache[b].state \in {"delta", "flush"}}
    IN  [m EXCEPT !.io = [b \in dirty |-> Buffer(m, b)] @@ @,
                  !.cache = [b \in DOMAIN @ |->
                               IF b \in dirty THEN [@[b] EXCEPT !.state = "clean"] ELSE @[b]]]

(* Mutant: log blocks are not remembered to be freed. *)
WriteLogBlock_Leak(m, b, recs) ==
    [m EXCEPT !.io = (b :> LogBlock(m.logchain, recs)) @@ @, !.logchain = b,
              !.logcount = @ + 1]

(* tux3_logmap_io(): one log block is linked to the chain and written. *)
WriteLogBlock(m, b, recs) ==
    [m EXCEPT !.io = (b :> LogBlock(m.logchain, recs)) @@ @, !.logchain = b,
              !.logcount = @ + 1, !.deunify = Append(@, b)]

LogBlocks(m) == (Len(m.log) + LogSize - 1) \div LogSize

(* One segment of log blocks, with the records that are next.  When the     *)
(* volume is full the rest of the log is dropped.                           *)
WriteLogBlocks(m, seg) ==
    LET First(b) == (b - Min(seg)) * LogSize
        Write(mm, b) == WriteLogBlock(mm, b,
                          SubSeq(m.log, First(b) + 1, Min({First(b) + LogSize, Len(m.log)})))
        m1 == FoldLeft(Write, TakeSeg(m, seg), SetToSortSeq(seg, <))
    IN  IF seg = {} THEN [m EXCEPT !.log = <<>>, !.err = "ENOSPC"]
        ELSE [m1 EXCEPT !.log = SubSeq(m.log, Cardinality(seg) * LogSize + 1, Len(m.log))]

WriteLogSeg(m) == WriteLogBlocks(m, balloc_from_range(m, LogBlocks(m)))

(* write_log(): segments until every block is written; at most one per block. *)
write_log(m) ==
    FoldLeft(LAMBDA mm, k : IF mm.log = <<>> THEN mm ELSE WriteLogSeg(mm),
             m, [k \in 1 .. LogBlocks(m) |-> k])

(* commit_delta() once the superblock is written. *)
apply_defered_bfree(m) == [FoldLeft(bfree, m, m.defree) EXCEPT !.defree = <<>>]

(* What save_sb() writes. *)
Super(m) == [iroot |-> m.root["itree"], logchain |-> m.logchain, logcount |-> m.logcount,
             nextblock |-> m.nextblock]

(* setup_sb() from a superblock. *)
setup_sb(super) ==
    [bitmap |-> {}, freeblocks |-> NBlocks, nextblock |-> super.nextblock,
     cache |-> <<>>, defree |-> <<>>, deunify |-> <<>>, log |-> <<>>,
     logchain |-> super.logchain, logcount |-> super.logcount,
     root |-> [t \in Trees |-> IF t = "itree" THEN super.iroot ELSE 0],
     io |-> <<>>, file |-> "absent", err |-> "ok"]
=============================================================================
