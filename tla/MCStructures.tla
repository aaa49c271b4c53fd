---------------------------- MODULE MCStructures ----------------------------
(***************************************************************************)
(* What is on disk, each part on a small instance: the commit of deltas    *)
(* with the log, the allocator on the bitmap, the leaves of the inode      *)
(* table and of the data map, the btree, the blocks of a directory, the    *)
(* blocks of a file in the buffers of userspace, and the table of atoms    *)
(* under a purge.  They share no state in this run: a behaviour chooses    *)
(* one component and takes the steps of its module, and the variables of   *)
(* the others keep their initial values.                                   *)
(***************************************************************************)
EXTENDS Balloc, Sequences

VARIABLES
    component,                                     \* the component that takes steps
    ileaves, ireq, istored, ibroken,               \* Ileaf
    d2leaves, d2req, d2file, d2freed, d2wanted,    \* Dleaf2
    btree, bop, bbefore, bkeys,                    \* Btree
    dblocks, listing, dnames, stayed,              \* Dir
    mode, cache, bsize, hole, bdtree, call, bflush, bdelta, bits, snapped, ops, abort,
                                                   \* FileBlocks
    phase, mem, disk, super, remount, deltas, crashes, \* LogCommit
    atable, xcache, attrs, xfailed, purge, crossed     \* XattrPurge

lc == INSTANCE LogCommit WITH
        NBlocks <- 25, LogSize <- 8, Reserve <- 10, Values <- {"v1"},
        MaxDeltas <- 4, MaxCrashes <- 1

il == INSTANCE Ileaf WITH
        MaxInum <- 5, BlockSize <- 8, Header <- 1, Sizes <- {1, 2}, EntriesPerLeaf <- 4,
        leaves <- ileaves, req <- ireq, stored <- istored, broken <- ibroken

d2 == INSTANCE Dleaf2 WITH
        MaxBlock <- 5, EntriesPerLeaf <- 5, MaxSegs <- 2,
        leaves <- d2leaves, req <- d2req, file <- d2file, freed <- d2freed, wanted <- d2wanted

bt == INSTANCE Btree WITH
        MaxKey <- 4, EntriesPerNode <- 2, KeysPerLeaf <- 2, MaxBlocks <- 24,
        tree <- btree, op <- bop, before <- bbefore, keys <- bkeys

dr == INSTANCE Dir WITH
        Names <- {"a", "b", "c"}, RecLen <- [a |-> 2, b |-> 3, c |-> 2], HeadLen <- 1,
        BlockSize <- 5, MaxBlocks <- 2, blocks <- dblocks, names <- dnames

fb == INSTANCE FileBlocks WITH
        NBlocks <- 3, MaxBuffers <- 3, MaxEvict <- 1, MaxSegs <- 2, Starts <- {0, 3},
        Ends <- {3, 4, 6}, MaxOps <- 3,
        size <- bsize, dtree <- bdtree, flush <- bflush, delta <- bdelta

xp == INSTANCE XattrPurge WITH
        Inodes <- {1, 2}, Names <- {"a", "b"}, Lens <- {0}, Presents <- {}, MaxAtom <- 2,
        RefMod <- 2, MinAlloc <- 8, failed <- xfailed

logVars    == <<phase, mem, disk, super, remount, deltas, crashes>>
purgeVars  == <<atable, xcache, attrs, xfailed, purge, crossed>>
ileafVars  == <<ileaves, ireq, istored, ibroken>>
dleaf2Vars == <<d2leaves, d2req, d2file, d2freed, d2wanted>>
btreeVars  == <<btree, bop, bbefore, bkeys>>
dirVars    == <<dblocks, listing, dnames, stayed>>
blocksVars == <<mode, cache, bsize, hole, bdtree, call, bflush, bdelta, bits, snapped, ops, abort>>

StructInit ==
    /\ component \in {"log", "balloc", "ileaf", "dleaf2", "btree", "dir", "blocks", "atoms"}
    /\ lc!Init /\ Init /\ il!Init /\ d2!Init /\ bt!Init /\ dr!Init /\ fb!Init /\ xp!PurgeInit
    /\ component # "blocks" => mode = "bitmap"

StructNext ==
    \/ /\ component = "log" /\ lc!Next
       /\ UNCHANGED <<component, vars, ileafVars, dleaf2Vars, btreeVars, dirVars, blocksVars, purgeVars>>
    \/ /\ component = "balloc" /\ Next
       /\ UNCHANGED <<component, logVars, ileafVars, dleaf2Vars, btreeVars, dirVars, blocksVars, purgeVars>>
    \/ /\ component = "ileaf" /\ il!Next
       /\ UNCHANGED <<component, logVars, vars, dleaf2Vars, btreeVars, dirVars, blocksVars, purgeVars>>
    \/ /\ component = "dleaf2" /\ d2!Next
       /\ UNCHANGED <<component, logVars, vars, ileafVars, btreeVars, dirVars, blocksVars, purgeVars>>
    \/ /\ component = "btree" /\ bt!Next
       /\ UNCHANGED <<component, logVars, vars, ileafVars, dleaf2Vars, dirVars, blocksVars, purgeVars>>
    \/ /\ component = "dir" /\ dr!Next
       /\ UNCHANGED <<component, logVars, vars, ileafVars, dleaf2Vars, btreeVars, blocksVars, purgeVars>>
    \/ /\ component = "blocks" /\ fb!Next
       /\ UNCHANGED <<component, logVars, vars, ileafVars, dleaf2Vars, btreeVars, dirVars, purgeVars>>
    \/ /\ component = "atoms" /\ xp!PurgeNext
       /\ UNCHANGED <<component, logVars, vars, ileafVars, dleaf2Vars, btreeVars, dirVars, blocksVars>>

structVars == <<component, logVars, vars, ileafVars, dleaf2Vars, btreeVars, dirVars, blocksVars, purgeVars>>

StructSpec == StructInit /\ [][StructNext]_structVars

-----------------------------------------------------------------------------
(* The variables keep their types: nextblock is a block of the volume, no   *)
(* leaf is fuller than a block, no bnode than its entries.                  *)
StructTypeOK ==
    /\ component = "balloc" => TypeOK
    /\ component = "ileaf" => il!TypeOK
    /\ component = "dleaf2" => d2!TypeOK
    /\ component = "btree" => bt!TypeOK
    /\ component = "dir" => dr!TypeOK
    /\ component = "blocks" => fb!TypeOK
    /\ component = "log" => lc!TypeOK
    /\ component = "atoms" => xp!TypeOK

(* LogCommit!NoError: neither the running backend nor a mount meets an      *)
(* error: no unreadable metadata, no double free, no failed assertion.      *)
NoError == component = "log" => lc!NoError

(* LogCommit!NoOverwrite: redirect-on-write: no write of a delta in         *)
(* progress goes to a block of the committed state (kernel/btree.c:1499).   *)
NoOverwrite == component = "log" => lc!NoOverwrite

(* LogCommit!ReplayExact: between two commits a remount rebuilds what the   *)
(* backend has in memory (kernel/replay.c).                                 *)
ReplayExact == component = "log" => lc!ReplayExact

(* LogCommit!NoLeak: between two commits every used block is reachable, of  *)
(* the log, or waits for the next unify (kernel/commit.c:274).              *)
NoLeak == component = "log" => lc!NoLeak

(* LogCommit implements AtomicVolume: the file a mount would find changes   *)
(* only when save_sb() writes the superblock, and then to what the delta    *)
(* made of it, whatever a crash leaves undone (kernel/commit.c:521-531).    *)
AtomicCommit == lc!AtomicCommit

(* Ileaf!LookupExact: ileaf_lookup() finds the attributes stored last under *)
(* each inum and nothing of a purged one, however ileaf_resize() moved the  *)
(* attributes and offsets of the others (kernel/ileaf.c).                   *)
(* Ileaf!SearchExact: find_free_inum() gives the first free inum at or      *)
(* behind the goal, across the leaves and the gaps between them             *)
(* (kernel/inode.c, ileaf_find_free()).                                     *)
(* Ileaf!EnumerateExact: ileaf_enumerate() visits each inode once.          *)
(* Where a split hint is outside its leaf (kernel/ileaf.c:504) the program  *)
(* stops on an assertion (kernel/btree.c:1345): Ileaf!SplitInside is        *)
(* refuted here, and nothing is said of later steps.                        *)
IleafExact ==
    component = "ileaf" => il!LookupExact /\ il!SearchExact /\ il!EnumerateExact

(* Dleaf2!ReadExact: dleaf2_read() gives the blocks that the last writes    *)
(* mapped, through the cuts of a write in the middle of extents and splits. *)
(* Dleaf2!LeavesOrdered: the extents of a dleaf2 are in order and end with  *)
(* the sentinel that bounds the last one (kernel/dleaf2.c).                 *)
(* Dleaf2!ChopFreesExact: dleaf2_chop() frees the blocks behind the cut,    *)
(* each once, and no other.                                                 *)
Dleaf2Exact ==
    component = "dleaf2" => d2!ReadExact /\ d2!LeavesOrdered /\ d2!ChopFreesExact

(* Btree!ReplayExact: replaying the log records of a call on the bnodes as  *)
(* they were on disk gives the bnodes in the cache (kernel/log.c,           *)
(* kernel/replay.c), whatever splits, merges and removals it made.          *)
BtreeReplayExact == component = "btree" => bt!ReplayExact

(* Btree!ProbeExact: btree_probe() ends at the leaf whose range has the key.*)
(* Btree!CursorExact: the cursor a split or advance leaves behind stands    *)
(* where a new probe would (kernel/btree.c).                                *)
(* Btree!BlocksExact: each block of the tree is referenced once, and each   *)
(* block replaced or emptied was freed (or deferred) once.                  *)
BtreeSound == component = "btree" => bt!ProbeExact /\ bt!CursorExact /\ bt!BlocksExact

(* Dir!LookupExact: tux_find_entry() finds each name once and no other,     *)
(* and tux_dir_is_empty() is right, however records were split and merged.  *)
(* Dir!RecordsTile: the records of a block tile it, each has room for its   *)
(* name and free room is merged (tux_create_entry(), tux_delete_entry()).   *)
(* Dir!ListingExact: a tux_readdir() in pieces, between changes of the      *)
(* directory, gives each name that stayed exactly once, as long as its      *)
(* offset is that of an entry each time.  It need not be: where a merge has *)
(* put it inside a record the listing is "astray" and this promises nothing *)
(* (i_version never moves, and the search of kernel/dir.c:344 starts at the *)
(* old offset).                                                             *)
DirExact == component = "dir" => dr!LookupExact /\ dr!RecordsTile /\ dr!ListingExact

(* Dir!ReaddirSound: tux_readdir() reports no "zero length entry" for sound *)
(* records; refuted, so no run checks it.                                   *)
DirListingSound == component = "dir" => dr!ReaddirSound

(* FileBlocks!ReadExact: in userspace too, whatever buffer is evicted, read *)
(* ahead, forked, invalidated or in the middle of its flush                 *)
(* (buffer.c:608, filemap.c:152).                                           *)
BlocksReadExact == component = "blocks" => fb!ReadExact

(* FileBlocks!FlushExact: when the flush ends the dtree has the file as it  *)
(* was when the delta ended, also of the bitmap, which its own flush        *)
(* changes (buffer_fork.c:18, buffer_writeback.c:365).                      *)
BlocksFlushExact == component = "blocks" => fb!FlushExact

(* FileBlocks!PoolExact: each buffer has a reference for each holder and no *)
(* other, so the pool loses none and frees none early (buffer.c:314, 377).  *)
BlocksPoolExact == component = "blocks" => fb!PoolExact

(* XattrPurge!PurgeExact: with a flush thread, which purges without the     *)
(* mutex of atable, the counts of the atoms stay exact as long as no purge  *)
(* writes back a count that a call has changed (kernel/xattr.c:372, 759);   *)
(* without the exception, XattrPurge!PurgedRefcount, it is refuted here.    *)
PurgeExact == component = "atoms" => xp!PurgeExact
=============================================================================
