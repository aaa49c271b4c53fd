----------------------------- MODULE LogCommit -----------------------------
(***************************************************************************)
(* Atomic commit of deltas, crashes and remounts.                          *)
(*                                                                         *)
(* Each commit is the sequence of do_commit(): stage the changes of the    *)
(* delta, unify the log now and then, write btree blocks and the log, wait *)
(* for the I/O, write the superblock, free what the delta made unused.     *)
(* Until the wait, any of the submitted writes may or may not have reached *)
(* the disk; the machine may crash between any two steps.                  *)
(***************************************************************************)
EXTENDS Replay

CONSTANTS
    Reserve,      \* bound: no delta is staged or unified with fewer blocks free
    MaxDeltas,    \* bound: deltas committed
    MaxCrashes    \* bound: crashes

VARIABLES
    phase,    \* how far do_commit() has come
    mem,      \* memory of the backend
    disk,     \* what each block holds
    super,    \* the superblock on disk
    remount,  \* auxiliary: what mounting disk and super would rebuild
    deltas, crashes

vars == <<phase, mem, disk, super, remount, deltas, crashes>>

Phases == {"idle", "staged", "unified", "btree", "log", "saved", "down"}

(* The disk once all submitted writes are done. *)
Written(m, d) == m.io @@ d

-----------------------------------------------------------------------------
(* make_tux3(): block 0 is reserved for the superblock; the first commit,   *)
(* of an empty inode btree, unifies.                                        *)
MkfsSuper == [iroot |-> 0, logchain |-> 0, logcount |-> 0, nextblock |-> 0]
reserve_superblock(m) == Log(TakeSeg(m, {0}), Rec1("balloc", 0))
Mkfs == write_log(write_btree(unify_log(save_inode(
            reserve_superblock(setup_sb(MkfsSuper)), "bitmap"))))

Init ==
    /\ phase = "idle"
    /\ mem = [apply_defered_bfree(Mkfs) EXCEPT !.io = <<>>]
    /\ disk = Written(Mkfs, [b \in Blocks |-> Junk])
    /\ super = Super(Mkfs)
    /\ remount = mount(disk, super)
    /\ deltas = 0 /\ crashes = 0

(* The frontend's changes of one delta, then stage_delta(). *)
Stage(new) ==
    /\ phase = "idle" /\ phase' = "staged"
    /\ deltas < MaxDeltas /\ deltas' = deltas + 1
    /\ mem.freeblocks >= Reserve
    /\ mem' = stage_delta(mem, new)
    /\ UNCHANGED <<disk, super, remount, crashes>>

(* unify_log() if the delta asks for it or need_unify(). *)
Unify ==
    /\ phase = "staged" /\ phase' = "unified"
    /\ mem.freeblocks >= Reserve
    /\ mem' = unify_log(mem)
    /\ UNCHANGED <<disk, super, remount, deltas, crashes>>

WriteBtree ==
    /\ phase \in {"staged", "unified"} /\ phase' = "btree"
    /\ mem' = write_btree(mem)
    /\ UNCHANGED <<disk, super, remount, deltas, crashes>>

WriteLog ==
    /\ phase = "btree" /\ phase' = "log"
    /\ mem' = write_log(mem)
    /\ UNCHANGED <<disk, super, remount, deltas, crashes>>

(* Mutant: save_sb() without the wait. *)
SaveSuper_NoWait ==
    /\ phase = "log" /\ phase' = "saved"
    /\ super' = Super(mem)
    /\ remount' = mount(disk, super')
    /\ UNCHANGED <<mem, disk, deltas, crashes>>

(* tux3_iowait_wait(), then save_sb(). *)
SaveSuper ==
    /\ phase = "log" /\ phase' = "saved"
    /\ disk' = Written(mem, disk)
    /\ super' = Super(mem)
    /\ remount' = mount(disk', super')
    /\ mem' = [mem EXCEPT !.io = <<>>]
    /\ UNCHANGED <<deltas, crashes>>

(* commit_delta(): unstash(&sb->defree, apply_defered_bfree). *)
FreeDeferred ==
    /\ phase = "saved" /\ phase' = "idle"
    /\ mem' = apply_defered_bfree(mem)
    /\ UNCHANGED <<disk, super, remount, deltas, crashes>>

(* The writes a crash leaves done: none, all, one, or all but one.  Writes  *)
(* hit distinct blocks, so two of them never interact.                      *)
CrashImages(io) ==
    {w \in SUBSET DOMAIN io : Cardinality(w) \in {0, 1}}
    \union {DOMAIN io \ w : w \in {v \in SUBSET DOMAIN io : Cardinality(v) \in {0, 1}}}

Crash ==
    \E done \in CrashImages(mem.io) :
        /\ phase # "down" /\ phase' = "down"
        /\ crashes < MaxCrashes /\ crashes' = crashes + 1
        /\ disk' = [b \in done |-> mem.io[b]] @@ disk
        /\ remount' = mount(disk', super)
        /\ mem' = setup_sb(super)
        /\ UNCHANGED <<super, deltas>>

(* Mount again: load_sb(), replay. *)
Mount ==
    /\ phase = "down" /\ phase' = "idle"
    /\ mem' = mount(disk, super)
    /\ UNCHANGED <<disk, super, remount, deltas, crashes>>

Next == \/ \E new \in Files : Stage(new)
        \/ Unify \/ WriteBtree \/ WriteLog \/ SaveSuper \/ FreeDeferred \/ Crash \/ Mount

Spec == Init /\ [][Next]_vars

-----------------------------------------------------------------------------
UnifyBuffers(m) == {b \in DOMAIN m.cache : m.cache[b].state = "unify"}

(* Allocator, stashes and roots stay inside the volume: nextblock is a block *)
(* balloc() can start at, and no free is counted twice.                      *)
TypeOK ==
    /\ phase \in Phases
    /\ mem.bitmap \subseteq Blocks /\ mem.freeblocks \in 0 .. NBlocks
    /\ mem.nextblock \in Blocks
    /\ DOMAIN mem.cache \subseteq Blocks /\ DOMAIN mem.io \subseteq Blocks
    /\ mem.defree \in Seq(Blocks) /\ mem.deunify \in Seq(Blocks)
    /\ mem.root \in [Trees -> Blocks]
    /\ mem.file \in Files
    /\ DOMAIN disk = Blocks
    /\ deltas \in 0 .. MaxDeltas /\ crashes \in 0 .. MaxCrashes

(* The volume as it is on disk can be mounted: load_sb() and the replay     *)
(* stages meet no unreadable metadata, no double free and no failed assert. *)
Remountable == remount.err = "ok"

(* The running backend meets no such error either, in bfree(), write_log()  *)
(* or the replay it started from.                                           *)
NoError == mem.err = "ok" /\ Remountable

(* Redirect-on-write: no write of a delta in progress goes to a block that  *)
(* holds a part of the committed state.  The bnodes of its unify cycle are  *)
(* in its log, not in their blocks.                                         *)
NoOverwrite == DOMAIN mem.io \cap (remount.bitmap \ UnifyBuffers(remount)) = {}

(* Between two commits a remount rebuilds what the backend has in memory:   *)
(* allocator, frees pending for the next unify, dirty bnodes and file.      *)
ReplayExact ==
    phase = "idle" =>
        /\ remount.bitmap = mem.bitmap
        /\ remount.freeblocks = mem.freeblocks
        /\ SortSeq(remount.deunify, <) = SortSeq(mem.deunify, <)
        /\ remount.root = mem.root
        /\ UnifyBuffers(remount) = UnifyBuffers(mem)
        /\ \A b \in UnifyBuffers(mem) : Buffer(remount, b) = Buffer(mem, b)
        /\ remount.file = mem.file

(* The blocks the three btrees and their data occupy. *)
Referenced(m) ==
    UNION {{m.root[t], LeafOf(m, t)} : t \in {u \in Trees : m.root[u] # 0}}
    \union ({Leaf(m, i).block : i \in {j \in Inodes : m.root[j] # 0}} \ {0})

(* Between two commits, also after a replay, every block the bitmap counts  *)
(* as used is reachable, a log block or a block that waits for the next     *)
(* unify, and freeblocks counts the others.                                 *)
NoLeak ==
    phase = "idle" =>
        /\ mem.bitmap = {0} \union Referenced(mem) \union ToSet(mem.deunify)
        /\ mem.freeblocks = NBlocks - Cardinality(mem.bitmap)

(* do_commit() implements atomic commit: the file a mount would find        *)
(* changes only when save_sb() writes the superblock, and then to what the  *)
(* delta made of it.                                                        *)
Atomic == INSTANCE AtomicVolume
            WITH Initial <- "absent", Lost <- "lost", durable <- remount.file,
                 file <- IF phase = "down" THEN "lost" ELSE mem.file
AtomicCommit == Atomic!Spec
=============================================================================
