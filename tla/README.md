# tux3: models, checks and proofs

tux3 is a versioning-style filesystem; this repository builds it in userland
(a FUSE server and tools) from the kernel sources in `kernel/`. Paths below are
relative to the repository root. This directory holds TLA+ modules of its core, the TLC
configurations that check them and the TLAPS proofs.

## 1. Inventory

How the parts meet: a **front end** (fuse handlers, kernel VFS hooks, tools) brackets
each operation with `change_begin()`/`change_end()`, which attaches its changes to the
current **delta**. Now and then a *delta transition* closes the delta; the **backend**
(the flusher) then *stages* it (writes file data, updates leaves of the btrees), logs the
metadata it did not write, writes the **log** and, last, the superblock. Every so many
deltas it *unifies*: it writes the dirty btree nodes and the bitmap, and the old log becomes
obsolete. A mount **replays** the log. All allocation goes through the **block
allocator**, called by the backend only.

| component | state | operations | hard behaviour | what makes it correct |
|---|---|---|---|---|
| delta transition and flusher: `kernel/commit.c`, `kernel/commit_flusher.c` | two `delta_ref` slots, `current_delta`, RUNNING/PENDING bits, `marshal_delta`, `committed_delta`, `delta_lock`, wait queue, flush thread | `change_begin/end`, `change_begin/end_atomic`, `force_delta`, `force_unify`, `delta_transition`, `flush_delta`, flush thread loop | lock-free reference taking against a transition, wake-ups, slot reuse | an operation is in one delta; a delta is committed once, in order, when nobody uses it; a sync covers what preceded it and returns |
| commit, log, unify: `kernel/commit.c`, `kernel/log.c` | log records, `logchain`, `logcount`, `defree`, `deunify`, dirty lists | `do_commit` and what it calls | crash at any write, order of superblock and frees, ENOSPC | commit is atomic, committed blocks are not overwritten |
| replay and mount: `kernel/replay.c`, `kernel/super.c`, `super.c` | rebuilt memory | `replay_prepare`, stage 1, stage 2, `load_sb`, `make_tux3` | obsolete records, reused blocks | the memory before the crash is rebuilt, no block leaks |
| block allocator: `kernel/balloc.c` | bitmap file, `freeblocks`, `nextblock` | `balloc`, `balloc_partial`, `bfree`, `replay_update_bitmap` | cyclic search over bitmap blocks, partial segments | never gives out a used block, counts exactly, terminates |
| btree: `kernel/btree.c` | bnodes, cursors | probe, redirect, split, merge, chop, create, free, replay of bnode records | redirect-on-write by cycle, split across levels | it is a sorted map; a written node is never changed in place |
| leaf formats: `kernel/dleaf2.c`, `ileaf.c`, `iattr.c` (`dleaf.c` is not in use) | one block | read/write/chop/split/merge | boundaries, overlapping extents | equal to the map they encode |
| file data: `kernel/filemap.c`, `filemap_hole.c`, `filemap.c` | extents, hole list, `truncate` state | `map_region2`, hole punching, page cache callbacks | map in redirect mode, truncate against writeback | a read sees the last write; old extents freed once |
| inodes: `kernel/inode.c`, `writeback.c`, `writeback_inodedelete.c`, `writeback_iattrfork.c`, `inode.c` | per-delta dirty flags, attribute forks, deferred inums | `save_inode`, `purge_inode`, `mark_dirty`, flush | front end changes an inode while the backend writes it | the backend writes the delta's attributes; an inode is deleted once |
| orphans: `kernel/orphan.c` | orphan lists, orphan table, log records | add, del, load at mount | crash with an unlinked open file | each orphan is deleted exactly once after a remount |
| buffer cache: `buffer.c`, `kernel/buffer_fork.c`, `buffer_writeback.c` | hash, LRU, refcounts, per-delta states | `blockget`, `blockdirty`, fork, flush, eviction | fork while the backend writes | a write never reaches an older delta's copy |
| directories, names: `kernel/dir.c`, `kernel/namei.c`, `namei.c` | directory blocks | create, find, delete, rename | several blocks in one operation | no lost or duplicate entry |
| xattr: `kernel/xattr.c` | atom table, refcounts, reverse map, caches | set, get, remove, list, purge | refcount in two halves, atom reuse, a purge beside the calls | refcount is the number of users |
| fuse server: `tux3fuse.c` | `fuse` handlers | lookup, create, write, ... | error paths of the name operations | a call that fails changes no names |
| prototypes `devel/version.c`, `devel/shard.c` | version tree, hash shards | not linked into a target | version inheritance | |
| tools: `tux3.c`, `tux3_fsck.c`, `tux3graph.c`, `tux3_image.c`, `walk.c`, `options.c` | none of their own | read-only walks | none | |

Build facts the models rely on: the userland `Makefile` (lines 34, 36) selects
`TUX3_FLUSHER_SYNC` and `UNIFY_DEBUG`; the kernel one uses `TUX3_FLUSHER_ASYNC_HACK` and has
`TUX3_FLUSHER_ASYNC_OWN` as its commented-out alternative. `map_region2()` and `dleaf2.c` are
the data map of every inode: `map_region1()` is for `dtree1_ops`, which `dtree_ops()` never returns.
Only `tux3` and `tux3fuse` call `set_xattr()` and `del_xattr()`; the kernel's handlers are commented out.
`tux3_fs_error()` stops the program (`assert(0)`, `src/utility.c:88`; `BUG()` in the kernel), so a module
has nothing after it. A call that fails before it changes anything is no step of a model.

The list of hazards, each at its line with the properties that watch it, is
`hazards` in `PROJECT.json`.

## 2. Modules

| module | models |
|---|---|
| `Delta` | the delta protocol, both flushers; each atomic access is an action |
| `MCDelta` | symmetry set for TLC |
| `DeltaProofs` | proofs about `Delta`: references, slots, the exclusive backend, commits in sequence, atomic operations; what a sync makes durable, the order of durability, what `delta_lock` adds with the SYNC flusher |
| `FreeRuns` | what a search of the allocator promises |
| `Balloc` | the allocator's search, `bfree`, replay of bitmap changes, a loop turn at a time |
| `BallocProofs` | proofs about `Balloc` |
| `Backend` | operations of the backend as operators on its memory |
| `Replay` | mount and log replay as operators from disk to memory |
| `LogCommit` | commits, crashes and mounts: the state machine over `Backend` and `Replay` |
| `AtomicVolume` | abstract specification of atomic commit |
| `Inodes` | in-core inodes, attribute forks, the backend's flush of them, inum reuse, orphans and their replay |
| `InodesProofs` | proofs about `Inodes`: exact commits, orphans, counters |
| `Names` | the calls of `namei.c` and the fuse rename: names, link counts, open files, error paths |
| `NamesProofs` | proofs about `Names`: link counts, the tree, deletion, rename |
| `Dir` | the records in directory blocks: find, create, delete, empty, readdir in pieces |
| `Xattr` | atoms, their counts and free list, the xattr cache, encoding of attributes in an ileaf |
| `XattrProofs` | proofs about `Xattr`: counts, atoms, names, values, encoding |
| `XattrPurge` | `Xattr` with a flush thread that purges an inode while calls on others run |
| `Ileaf` | leaves of the inode table: lookup, resize, chop, split, merge, find free, enumerate |
| `Dleaf2` | leaves of the data map in use: read, write, chop, split, merge, under `map_region2()` |
| `Btree` | bnodes: probe, write with splits, chop with merges, redirect, the log records and their replay |
| `FilePages` | the page cache of a file in the kernel: write, truncate, fork, flush, bios, reclaim, fill |
| `FilePagesProofs` | proofs about `FilePages`: pages at the device stay, no assertion fires |
| `FilePagesCallProofs` | proofs about the data of `FilePages`: the invariant, writes and the first step of a truncation |
| `FilePagesDataProofs` | proofs about the data of `FilePages`: truncation, readers and the backend; reads and flushes are exact |
| `FileBlocks` | the buffer pool of a file in userspace: read, readahead, write, truncate, fork, flush, eviction |
| `MCStructures` | TLC instance of `LogCommit`, `Balloc`, `Ileaf`, `Dleaf2`, `Btree`, `Dir`, `FileBlocks`, `XattrPurge` |
| `MCFrontend` | TLC instance of `Inodes`, `Names`, `Xattr`, `FilePages` |

The two `MC` modules put components side by side that share no variable. `component` is chosen
in the initial state and only that component takes steps, so the run is the union of the state
spaces, not their product; a property of the run is the property of one module, guarded by
`component`. They are defined in their modules and named there. `MCFrontend` instantiates its
modules with constants of its own, which `frontend.cfg` gives small values and the proofs leave open;
what the proofs need of them is in `NamesAssumption`, `InodesAssumption`, `XattrAssumption` and `PagesAssumption`,
which TLC evaluates on the run.

### Delta

A task's program counter `pc[t]` names the next shared access. `Invoke` begins an
operation of one of four kinds: `change` (`change_begin/end`, under `delta_lock` with the SYNC
flusher), `change_atomic`, `force_delta` and `force_unify`. `delta_get()` is three steps
(`DeltaRead`, `DeltaInc`, `DeltaRetry`), so a transition can fall between reading
`current_delta` and incrementing its count. `delta_transition()` is `DtSet` (refcount of the
reused slot), `DtNum` (number, flag, publish), `DtMarshal`, `DtPut`, `DtPending`, `DtKick`,
`DtWake`, `DtWait`. `flush_delta()` is `FlushStart`, then `Commit`, `CommitError` (a stage fails) or
`SuperError` (only the write of the superblock fails, which `do_commit()` ignores), `PostCommit`,
`FlushDone`, `ClearRunning`, `FlushWake`. `Work*` are the steps of the flush thread, and its
sleep is modelled with the state it sets before it tests PENDING. `WaitEvent`/`Resume` are
the kernel's wait queue: a waiter registers, tests, sleeps until woken and tests
again. An operation is a name; `dirty` and `durable` are sets of names. `must`, `early` and
`failed` are history variables used in properties only.

### Backend, Replay, LogCommit

The volume holds the inode btree, the bitmap's data btree and one regular file's data btree,
each of one bnode and one leaf: enough for redirect-on-write with its two
cycles (leaves per delta, bnodes per unify), for creation and release of a btree, and for the
bitmap that describes its own blocks. The backend is one thread, so its functions are
operators from memory to memory with the code's names; `LogCommit` cuts `do_commit()` where
the outside can see a difference: `Stage`, `Unify`, `WriteBtree`, `WriteLog`, `SaveSuper`,
`FreeDeferred`. Submitted writes sit in `mem.io` until `SaveSuper`, which waits for them
first; `Crash` lets none, all, one, or all but one of them reach the disk (they go to distinct
blocks). The write of the superblock is atomic, as the code assumes of its one
sector. A file is absent, empty, or holds a value; `Stage(new)` takes it from any one to any
other.

`remount` is an auxiliary variable equal to `mount(disk, super)` in every state; it keeps TLC
from computing the same replay for each property.

### Balloc, FreeRuns

`Balloc` has one action per branch of the two nested loops of `balloc_from_range()`. Bit
offsets are kept as block numbers. `FreeRuns!Segment` is the declarative reference: the
first long enough run in search order or, if partial segments are allowed, the first of the
longest. One trait of the code is part of it: a shorter run counts only when a used block
or the end of the volume stops it; the run the search is in when the range is exhausted is
dropped, so `balloc_partial()` may return ENOSPC or a shorter segment although that run is free.
`Backend` allocates with this reference. A bitmap block that cannot be read or modified ends the call where it is
(`ReadError`, `TakeError`), and a bit that is not as `bfree()` expects stops the program (`ModifyError`).

### Inodes

An object of `Objs` is an in-core inode or free. Operations: `Create` (with
`find_free_inum()` over the inode table and the deferred inodes), `Open`, `Change` (setattr),
`DirtyOnly` (a write that dirties data only, or `set_xattr()`, on files and directories), `Link`, `Unlink`, `iput`.
`Transition` closes the
delta; the backend then flushes each dirty inode in three steps - `FlushRead` reads flags and
attributes (`tux3_state_read_and_clear()`, the stable copy made by `tux3_iattrdirty()` or the inode
itself), saves or purges, `ClearDirty` drops the reference - and the frontend acts between them.
`FlushFails` is the assertion of `tux3_iattr_read_and_clear()`, after which only a crash and a mount follow; `failed` names
the assertions that fired.
`UnifyOrphans` and `Commit` write the orphan records and tree; `CrashMount` rebuilds the inodes
from disk, log and orphan tree. `disk` is what is durable; `front` and `view` are history.
Deltas are numbered modulo `Period`, which an attribute's `val` records, so a saved attribute
tells which delta it is of.

### Names, Dir, Xattr

In `Names` a step is a whole call: with `i_mutex` of the directories held, two calls on one
directory do not interleave, and what they do to the disk is the other modules' part. Each
call has its error returns: no room for the entry, `nlink` at its limit, and a name that cannot be deleted. An unlink
or rmdir then changes nothing; a rename has added the new name already and meets `tux3_fs_error()`
(`tux3_rename_Fails`, `stopped`), so the increment of the link count behind it (`kernel/namei.c:389`) is never
reached. `surplus` has the directories in which a rename replaced a subdirectory: they keep a link too many. `Dir` has
the records of
a block as a function from offset to record; sizes are small numbers, name and hash are
one value. A listing is a sequence of `ReadDir`s between which entries are created and deleted;
`astray` says that it went on from an offset at which no record begins.
`Xattr` keeps counts of atoms in two halves modulo `RefMod`, so that carry and borrow happen with
counts of two; attributes have lengths, not bytes, and what is saved of an inode is the sequence of entries
that `encode_xattrs()` had room for. `Sums` has the offsets in a run of items, from which all sizes follow.

The purge of an inode (`RemoveAll`) is one step of `Xattr`: with the SYNC flusher the backend runs inside `delta_lock` of a
task, and no call is under way. `XattrPurge` is the other case, a purge by a flush thread: `atomref()` is cut in two there
(`AtomrefRead`, `AtomrefWrite`), and calls on other inodes come in between.

### Ileaf, Dleaf2, Btree

Each is the algorithm on a small block, run by any operations from empty and compared in
every state with the map it should be (`stored`, `file`, `mapped`, `keys`). The calling layer is part of each:
`btree_write()` with its retry after a split, `btree_chop()` with merges. `Btree` has a cursor path, a bnode
as a sequence of entries, leaves as sets of keys; `tree.log` is the sequence of records of the current call,
and `ReplayExact` replays them on `before`, the bnodes as they were. Its tree may be any depth; the run
reaches three levels of bnodes.

### FilePages, FileBlocks

In `FilePages` a page has two blocks of two units, each with the buffer's dirty delta,
uptodate, mapped and io flags. A write is two steps (prepare, copy) around which the backend, reclaim and a fill
of another page may act; a truncation is partial block, size, page cache, hole list, as in
`tux3_truncate()`. The flush of a delta collects its buffers, cancels those outside `i_size`, puts them
in bios that end in any order, then deletes holes from the dtree and writes extents. Nothing is left out of the
interleavings; the history variable `raced` records which of three happened that break the file (finding 7, R1, R2).
`PagesReadExact` and `PagesFlushExact` speak of behaviours up to the first of them.

`FileBlocks` has buffers with reference counts, hash, dirty delta and the forked mark, the
pool with its eviction, `filemap_extent_io()` with its guess of the readahead, `bufvec` with contiguous
runs, the two assertions that stop it (`FailedCheck`), the hole list, and the flush that for the bitmap dirties the
file it is flushing.

## 3. Runs

| run | result | what it shows |
|---|---|---|
| `delta_sync` | pass | SYNC flusher, two tasks, three operations of any kind: deltas are durable in order, a sync that returns made all before it durable, a forced unify happened, every sync returns |
| `delta_async` | pass | flush thread, a stage or the superblock write may fail: exact refcounts, free reused slot, exclusive backend, atomic operations, a sync covers what joined the current delta, commits in sequence |
| `delta_async_live` | pass | flush thread: a closed delta is committed |
| `structures` | pass | commit and log: four deltas, any unify pattern, one crash anywhere: refinement of `AtomicVolume`, no overwrite of committed blocks, exact replay, no leak, no error; allocator: result equals the reference, only free blocks taken, exact `freeblocks`, each step advances; leaves: equal to the map they encode, in order, blocks freed once; btree: probe, cursor, replay of records, no block lost; directories: lookup, tiling, listings that do not go astray; userspace blocks: exact reads, exact flush, exact references until an assertion stops the program; atoms: counts stay exact over a purge beside the calls unless it writes one back stale |
| `frontend` | pass | inodes: each commit has exactly its delta's attributes and orphans over crashes and inum reuse; only the assertion of R6 can fire; names: tree, link counts, deletion, rename, also when a name cannot be added or deleted; xattrs with the SYNC flusher: counts, atoms, values, encoded size; pages: stable at the device and the code's assertions always, exact reads and flushes until one of the races of finding 7, R1 and R2 |
| `delta_lost_wakeup` | violation | finding 1 |
| `delta_stale_get` | violation | finding 2 |
| `delta_error_durable` | violation | finding 3 |
| `log_bnode_reuse` | violation | finding 4 |
| `log_enospc` | violation | finding 5 |
| `blocks_readahead` | violation | finding 6 |
| `pages_races` | violation | finding 7 |

### Bounds

- `MaxOps` bounds the operations of all tasks. Three with two tasks are enough for both slots
  to be reused, for a transition between the two steps of `delta_get()`, and for two syncs that
  race; the stale reference of finding 2 needs four, which is why `delta_sync` (where
  `delta_lock` excludes it) is the run that checks `SyncDurable`.
- Commit and log (`structures`): 25 blocks make `nextblock` wrap and blocks freed
  in one cycle be reused in another. `Reserve` keeps the deltas above the number of blocks one
  commit can need, i.e. outside finding 5; four deltas stay below the shortest behaviour of
  finding 4. `LogSize` of 8 records makes a delta's log span two blocks.
- Balloc: seven blocks do not fill the last of the two-bit bitmap blocks, and requests of up
  to four blocks span three of them. `BallocProofs` removes the bounds.
- Leaves and btree: capacities are so small (two to five entries) that every leaf is split and
  merged with either neighbour within a few operations; keys are few, so every alignment of an operation
  with the entries happens. Ileaf has six inums and four entries for a leaf, so that leaves begin off a multiple of
  it and the split hint of R3 occurs; such a split stops the program, and `IleafExact` is about those that do not.
  Blocks in `Btree` are renumbered after each call: names of blocks mean nothing.
- Dir: three names of two record lengths (2, 3 and 2) in blocks of five; splitting a record, merging
  records, a second block and an offset inside a merged record all happen.
- Names: three inums, two names, calls from the kernel and from fuse, `TUX_LINK_MAX` 4; `NamesProofs` removes the bounds.
  A rename over a directory that has replaced a subdirectory needs four inums (R5).
- Xattr: two inodes, two names, empty and long values, three atoms; counts of two carry. `XattrProofs` removes the bounds.
  `XattrPurge`: two inodes and one attribute are enough for a call between the two halves;
  the run has two of each.
- Inodes: one inum with two objects, so that it is reused by another object while the
  old one's purge is still in flight; three commits per unify, so that orphan records are in the log of two deltas.
  `InodesProofs` removes the bounds.
- FilePages: one page of two blocks of two units, three `struct page` (in the radix tree and forked), three calls
  per behaviour, writes at the beginning, inside a block and over both blocks, three deltas; `FilePagesProofs` removes
  all of these bounds but the size of the page. FileBlocks: three blocks of two units, three buffers, at most one
  evicted at once, three calls that change the file, which reach both assertions of finding 6.
- Btree: leaves and bnodes of two or three entries, so the run has up to three levels of bnodes.
- Deadlock is not reported in the delta and log runs: they stop when the bound on
  operations or deltas is reached. In `structures` and `frontend` it is not either: calls on
  a file are bounded by `MaxOps`, the other components never stop.

### Fairness

A thread that can take a step of its own eventually takes it (weak fairness of each group of
steps): the scheduler runs it. `delta_lock` is an `rw_semaphore`, which is fair, so acquiring it
has strong fairness. Nothing makes a task start an operation, make a change in it or be killed.
The data modules have no liveness property: their calls are bounded loops, and what could
loop for ever, the allocator's search, is the action property `CallAdvances`.

### Findings

1. **Lost wake-up** (`kernel/commit_flusher.c:172`). With the flush thread,
   `try_delta_transition_until_delta()` takes RUNNING, finds its delta already marshalled,
   clears RUNNING and returns without waking the queue. A second sync that saw RUNNING set in
   between sleeps for good if nothing else happens.
2. **Reference on a delta that is not current yet** (`kernel/commit.c:592`). A task that reads
   `current_delta` and is delayed for two transitions finds the slot's refcount at 1 before the
   slot is published. A sync that starts after its change commits only the
   older delta.
3. **Failed commit reported as success** (`kernel/commit.c:563`). `flush_delta()` sets
   `committed_delta` whatever `do_commit()` returned.
4. **Freed bnode seen by replay** (`kernel/replay.c:452`). A bnode logged and freed
   in one unify cycle is rebuilt by stage 1 and dropped by stage 2; inodes are loaded in between,
   so a leaf in the reused block is read as the old bnode.
5. **Log cut short** (`kernel/commit.c:518`). `do_commit()` ignores an ENOSPC of
   `write_log()` and writes the superblock.
6. **Hole in the readahead** (`kernel/filemap_hole.c:312`). A file with blocks on disk is cut and
   extended again before the flush; reading a block makes `guess_readahead()` ask for a region that reaches into the
   hole. When the hole begins where an extent does, the extent's segment keeps the count 0, and `bufvec_io()` aborts
   (`buffer_writeback.c:170`); when it begins inside one, `tux3_map_hole()` gives the hole the count of the whole
   region (319), and
   `bufvec_complete_without_io()` aborts (192). After the abort the program is gone, so the other properties
   of `FileBlocks` speak of the states before it.
7. **Reclaim of a clean clone** (`kernel/filemap_blocklib.c:300`). A write forks the page that the delta in flight has
dirty, and then
   copies nothing: the clone stays clean, vmscan takes it, and until the delta is flushed a read fills the page from a
   dtree that
   lacks its data. The NOTE at 484 says why a truncation dirties such a page; one whose boundary block is in a hole
   and the last of its
   page (583) does not either.

What follows is refuted by the modules too, each with the definition named here as the invariant. No run is kept for
them: the
properties of the runs name the exception instead.

- R1. **Lookup before the hole is applied** (`kernel/filemap.c:654`). A fill reads the dtree; the backend cuts it and
  drops the
  hole extent; the fill then looks for holes, finds none, and reads blocks that were freed.
  `FilePages!LookupHarmless`, with the
  constants of `pages_races`.
- R2. **Fill inside a truncation** (`kernel/inode.c:730`). Between the partial block and the new size a page is filled
  with the data that is
  being cut off; it stays behind the end of the file. Blocks smaller than pages only. `FilePages!TruncateHarmless`,
  the same constants.
- R3. **Split key of an ileaf** (`kernel/ileaf.c:505`). The hint is a multiple of `entries_per_leaf` and a leaf's
  `ibase` need not be, so
  the hint can be below it; `btree_leaf_split()` asserts (`kernel/btree.c:1345`). A full leaf that begins off a
  multiple and attributes that fill it early are
  needed. `Ileaf!SplitInside`, with the constants that `MCStructures` gives `Ileaf`.
- R4. **Listing inside a record** (`kernel/dir.c:345`). The search for a record boundary starts at the offset itself,
  and `i_version` is never
  incremented; after records merged and a longer one was written over them, `tux_readdir()` reads in the middle of a
  name and reports a
  zero length entry. `DirListingSound` of `MCStructures`; `ListingExact` is about listings that do not go astray like this.
- R5. **Directory that stays** (`kernel/namei.c:391`). A rename of a directory over another one leaves the link of a
  `..` with the old parent. If
  that parent is later replaced by a rename itself, its count ends at 1 and its inode is never deleted. (`rmdir` sets
  the count to
  0.) `Names!UnnamedGoes`, with four inums and calls from the kernel.
- R6. **Directory without a stable copy** (`kernel/xattr.c:732`). `xcache_update()` dirties a directory without
  `tux3_iattrdirty()`; if the next
  delta changes it before the flush, the backend reads a stable copy that nobody made, and asserts
  (`kernel/writeback_iattrfork.c:151`). The programs that call `set_xattr()` have the SYNC flusher, which lets no change in
  between, so this waits for a build with xattrs and a flush thread. `Inodes!StableCopyValid`, with the constants of
  `frontend`.
- R7. **Purge beside the calls** (`kernel/xattr.c:372`). `xcache_remove_all()` does not take the `i_mutex` of the
  atable, and its `atomref()`
  overwrites a count that a call on another inode changed in between. Latent for the same reason.
  `XattrPurge!PurgedRefcount`, with the
  constants that `MCStructures` gives it.
- R8. **Unify flag replaced** (`kernel/commit_flusher.c:236`). Without `delta_lock` a `force_delta()` of the same
  delta undoes the flag of a
  `force_unify()`. The flag exists with `UNIFY_DEBUG` only, which is built with the SYNC flusher: latent too.
  `Delta!UnifyForced`
  with `FlusherSync = FALSE` and the kinds `force_delta` and `force_unify`.
- R9. `Names!FuseRenameMoves`: `tux3fuse_rename()` ignores `newparent` (`tux3fuse.c:567`).

Read only:

- Commit: `do_commit()`'s error return leaves `journal_info = sb`, on which the next
  `tux3_start_backend()` asserts; the loop at `commit.c:40` initialises
  `delta_refs[0]` each time; a fatal signal in a SYNC wait returns with `delta_lock` held.
- Inodes: without memory `add_defer_orphan_del()` (`kernel/orphan.c:259-266`) leaves the entry in the orphan
  tree; `alloc_inum()` loops when inums run out; `tux3_setattr()` can return without `change_end()`
  (`kernel/inode.c:1028-1031`); `iput()` inside `change_begin/end` (`kernel/namei.c:94`, 197);
  `ileaf_merge()` and an `ileaf_chop()` of more than one inum are wrong but nobody calls them so.
- Names: `tuxlink()` returns the error of a valid pointer and leaks (`namei.c:182`); `tux3fuse_link()` replies
  with the wrong sign (`tux3fuse.c:431-457`); `tuxrename()` does not test for moving a directory below itself; the FIXME of
  `kernel/namei.c:388`, a hard link to a directory, is not reached, as `tux3_fs_error()` before it does not return.
- Data map: `dleaf.c` is not in use (`dtree_ops()` gives `dtree2_ops`); an extent across a 2^24 boundary is not found in
  the next group; `map_region1()` may put the extent below in the wrong leaf when a leaf is exactly full
  (`kernel/filemap.c:294-318`);
  `guess_readahead()` leaks pinned buffers when mapping fails (`filemap.c:186-190`).
- Xattrs: `list_xattr()` returns with the atable's `i_mutex` held when there is no cache (`kernel/xattr.c:885`);
  a failed replace of a new name leaves an atom with count zero (`kernel/xattr.c:825`); when the larger cache cannot
  be allocated the old value is lost (`kernel/xattr.c:715`); attributes larger than an ileaf never fit;
  `writeback_xattrfork.c` is empty, so the cache is not forked.

## 4. Proofs

TLAPS proves the following for every value of the constants that meets the
assumptions of the modules.

`DeltaProofs` (any finite set of tasks, any number of operations, either flusher, failing
commits or not):

- `TypeCorrect`: no refcount drops below zero, every variable keeps its type.
- `RefcountCorrect`: a slot's refcount is the number of tasks in a change of it plus its
  initial reference.
- `NextSlotIsFree`: the assertion in `__delta_transition()` never fails.
- `BackendIsExclusive`: while a delta is committed no task can change it and nobody else commits.

The invariant proved inductive by `Invariance` adds to the first two: who has read which slot
(`RefsSet`), that the flush thread is idle with the SYNC flusher (`FlushTaskIdle`), that the right
to run a transition and then the commit has one owner from `test_and_set_bit(RUNNING)` to its
clearing (`OneOwner`), which slot is pending (`PendingSlot`), that a slot neither
current nor in transition nor being committed has refcount zero (`FreeSlot`, `PreviousSlot`), and
how slots are numbered (`Numbering`). The properties are not inductive alone: `NextSlotFree`
holds because the previous delta's commit finished before RUNNING could be taken again,
which is the content of `OneOwner` and `FreeSlot`.

From that invariant, for the same instances:

- `CommittedOneByOne`: `committed_delta` only moves on by one. Its invariant `Sequence` says that
  `marshal_delta` is the delta before the current one and the next to be committed from
  `DtMarshal` to `FlushDone`.
- `OperationsAtomic`: an operation's changes are all in one delta and not durable before it ends.
  `Whole` says that they are in the slot it holds; that slot is not the committed one
  (`ExclusiveBackend`), even for an operation that took its reference too early (`RefNumbered`).

About syncs, for the same instances:

- `SyncIsDurable`: when a sync returns, all that had been changed before it is durable, but for
  operations that joined a delta before it was current (finding 2) and failed commits (finding 3).
- `DurableOrder`: without I/O errors, operations become durable in the order they began, with the same
  exception for early ones.

Both rest on what is `Live`, i.e. in a slot and still to be written: it is in a slot whose number is
above `committed_delta` (`LiveUncommitted`, from `Drained`: the other slot holds nothing between a
commit and the next transition), and what an operation found when it began stays in slots whose
number is at most that of the slot it took itself (`MustBounded`, `OrderBounded`).

With the SYNC flusher and no failed commit:

- `SyncIsDurableLocked`: `SyncDurable`, without the exception of `SyncIsDurable`. With `delta_lock` a stale
  reference (finding 2) still happens, but only before a sync begins.
- `UnifyIsForced`: the flag that a `force_unify()` sets is there when the commit of its delta reads it.

`LInv` follows a sync through its phases: before its transition what it must make durable is in the current slot,
then in the slot before it, then written (`MustPhase`); its flag moves along (`FlagPhase`). What makes this inductive
is that whoever transits, commits or syncs has the lock (`Locked`), that a transition and its commit are
one task's, inside it (`OneRun`), and that nothing is left in the other slot between two of them (`BacklogDone`).

`BallocProofs` (any volume size, bitmap block size and request):

- `TakesOnlyFree`: the bits that `bitmap_modify()` sets untested are clear and in the volume.
- `FreeblocksCorrect`: `freeblocks` is the number of clear bits in every state.
- `TypeCorrect`: the search stays inside the volume.
- `CallsAdvance`: each step of a search moves on, so a search of any volume ends.
- `SearchesCorrectly`: the search takes exactly the segment that `FreeRuns` defines, and gives ENOSPC
  exactly when there is none.

The invariant says that the `blocks - need` blocks before the search position are free
(`Collected`), that the saved segment is (`Saved`), and that the bitmap block's part being
searched is non-empty and inside the range and the volume (`MapRange`). `MapBlock` is the
arithmetic of the cut last bitmap block, `CountBits` the counting of bits. `SearchInv` adds what a search
knows of the positions it has passed, counted from the goal around the volume: the run it gathers begins no
earlier than it thinks (`BeginsAt`), no run of the whole length begins before that (`NoneBefore`), and the saved
segment is the first of the longest runs that were stopped (`Longest`). Positions instead of block numbers
make the wrap at the end of the volume one case of `Stopped`.

`NamesProofs` (any sets of inums and names, any link limit of at least two; `NamesAssumption`):

- `NamesAreSound`: after any calls, successful or not, until a rename that cannot delete the old name stops the program: link
  counts match the names (a directory in `surplus` may count too many), the names make a tree, what
  has a name or an open file exists, and nothing else does but a directory of `surplus` (R5).
- `KernelRenameMoves`: a rename through the kernel puts the inode under its new name.

The invariant is about names and inodes as a call leaves them, before `Done()` deletes what has no link (`Sound`):
empty directories that lost their name (`EmptyOrNamed`), link counts against the sets of names (`Links`), and one name
for each
directory, reached from the root (`Tree`). Where names lead is
membership in every set of directories that is closed under names (`Reaches`), as in `Names!Below`: no path, so
no induction. A directory's link count is exact unless it is in `surplus`; `surplus` grows
in one action only, the rename of a directory over another one.

`InodesProofs` (any number of inums, objects, links, deltas and deltas per unify; `InodesAssumption`: the numbering of the
deltas has an even period):

- `CommitsAreExact`: `CommitExact`, what is durable after a commit and what a crash finds as orphans.
- `InodesAreConsistent`: `InodesConsistent`: of the assertions only that of R6 can fire, with `set_xattr()` on directories
  included; until then one object per inum and exact counters.

`InodesInv` says for an object which flags and references it can have (`Flags`, `Refs`), and for a hashed one what
the frontend, the delta in the backend and the inode table have of it (`Image`): before the backend reads it, the
stable copy if one was made, else the inode itself (`Awaited`); when it has read it, what it took (`Read`). An inode that
no object holds is as the table has it (`FrontAsleep`, `ViewAsleep`). `Orphans` says of memory and disk alike that
orphan tree and log records together are exactly the inodes with no links, each recorded once, and
`Counted` that `freeinodes` counts the deferred inodes.

`FilePagesProofs` (any number of pages, deltas and calls; `PagesAssumption`):

- `PagesAreStable`: the device never reads a block whose data a call changes.
- `PagesAssertions`: the types and the assertions of buffer fork and writeback.

A dirty buffer makes its page dirty, for one delta, and keeps it from the device (`PageOK`); at most the page in
the radix tree is dirty for the current delta and one page for the flushed one (`Deltas`); one page is at the device,
and the commit waits for it (`Device`); a write holds a page it may change (`Calls`). `Changes` is the lemma all
steps of the frontend share: each page stays, is filled, or is one that may be changed.

`FilePagesCallProofs` and `FilePagesDataProofs` (the same instances):

- `PagesReadExactly`: `PagesReadExact`, a read between calls gives the file as the calls left it, until one of the
  races of finding 7, R1 and R2.
- `PagesFlushExactly`: `PagesFlushExact`, a flushed delta leaves the file as it was at the end of that delta, with the
  same end.

A unit of data has up to five images: the file that the calls made (`file`, history), the page in the radix tree, an
older page that the backend still sends, the file at the end of the flushed delta (`snap`, history), and the dtree under two
hole lists. `DataInv` relates them. `Base` is what the flush under way will leave, seen through the holes of the current
delta, and `Target` what a read should give; they agree except where the page in the radix tree is dirty for the current
delta (`Below`). What the backend sends is `snap`, and what it does not send is in the dtree already (`Flushed`). The page in
the radix tree has the file wherever it has data, and a buffer without an address is zero (`LivePage`). Neither of these
suffices for a lookup, because the backend may not have written yet what is below: a block of that kind (`Risky`) has a page
in the radix tree that vmscan cannot take, being dirty or pinned by its clone (`NoStale`). `Filling` is about a reader
between its lookup and its read, `Writing` about a write between preparation and copy (what a short copy leaves of new
blocks is
zero), `Truncating` about the steps of a truncation between which `i_size`, page and hole list do not fit together. The
lemmas on `WithBuffers`, `clone_page`, `MarkDirty`, `ReadBlock`, `Prepared`, `Commit`, `Invalidate` and the others say
for each
what it does to a page; each action then has one lemma (`DataWriteEnd`, `DataTruncateSize`, `DataMap` ...), with a
step for each
part of `DataInv`. The specification has the races too; `DataInv` holds while `raced` is empty, and a race ends its
claim: `ReclaimHarmless`, `LookupHarmless` and `TruncateHarmless`, with one race each, are refuted.

`XattrProofs` (any inodes, names and value lengths, any number of atoms, half a count of any width of two or more;
`XattrAssumption`):

- `XattrIsExact`: with the SYNC flusher, `XattrExact`, which is `RefcountExact`, `AtomsExact`, `AttrsExact` and
  `AssertionsHold` of `Xattr`.

`XattrInv` says that the atom table is `Sound` for the inodes that use each atom, and of each inode that its cache has
an atom once, in the room allocated (`Fits`), with the attributes it should have by the names of the table (`Matches`).
`Sound` is that names and atoms point at each other (`Links`), that some list holds the atoms without a name, each once, from
`freeatom` to the end (`FreeOf`), and that the two halves of a count are the number of users, who have a name to refer to
(`Counts`). The list is why no induction along the chain of free atoms is needed: `get_freeatom()` takes the first element of
it, `Killed` puts one before it. `CountUp` and `CountDown` are the carry and the borrow, `GetFreeatom`, `Entered` and
`MakeAtom` the ways a name gets its atom, `Acquire` and `Release` a reference and its user together. A purge drops
the references one by one; `DroppedSound` has the users after each. The sizes are sums (`SumsIs`, `SumsGrow`,
`TotalOfOneMore`, `TotalOfOneLess`, by the least number at which they would differ), and `EncodedIs` that the items fill
the reserved size: each is at least six bytes, so the limit of four never stops one that fits.

Only model-checked:

- Liveness (`SyncCompletes`, `MarshalledCommitted`): fairness and ENABLED are outside the prover.
- `LogCommit` with `AtomicVolume`: `ReplayExact` compares memory with a mount, a fold over log records of any number, and
  what a commit allocates depends on `Reserve`, a bound that holds for the sizes of the run; both need induction over
  the log.
  Beyond those bounds the properties are not theorems at all: the runs `log_bnode_reuse` and `log_enospc` show a reused
  bnode with more deltas and a staging that runs out of blocks.
- The leaves, `Btree`, `Dir`: their operators fold over entries, records or levels of any number, which is induction over
  data. `PurgeExact` of `XattrPurge`. `FileBlocks` declares recursive operators.

## 5. Plan

Done: `Delta`, `Balloc`, `Names`, `Inodes`, `Xattr` and `FilePages` with proofs of all their safety properties;
`FreeRuns`, `Backend`,
`Replay`, `LogCommit` and `AtomicVolume` for one-leaf btrees; directories, xattrs, the leaf formats and the btree of any
depth; the userspace buffers.

What could follow, in this order:

1. `LogCommit` over the btrees of `Btree` and the orphan records of `Inodes`.
2. Lemmas about the folds of the leaves, to prove `Ileaf` and `Dleaf2` as `Xattr` is.
3. `devel/version.c` and `devel/shard.c`.

## 6. Not modelled, and why

- The old data map: `kernel/dleaf.c` and `map_region1()` are compiled, but `dtree_ops()` gives no inode `dtree1_ops`.
- I/O errors other than a failing stage or superblock write, bitmap blocks in `Balloc` and directory blocks in
  `Names`: the code's own comments leave their handling open.
- ENOSPC while a delta is staged: `Reserve` excludes it; the code has no reservation.
- In `LogCommit`: deleting and creating the same inode inside one delta, btrees of more than two levels or
  several leaves, orphan records. `Inodes` and `Btree` have them, without the block-level commit around them.
- Allocation failures in the middle of a btree or data map operation.
- `TUX3_FLUSHER_ASYNC_HACK` (`commit_flusher_hack.c`) and `mpage_modified.c`: they hook the delta code into one
  kernel version.
- `devel/`: prototypes that no target links.
- The counters' 32-bit wrap in `delta_after_eq()`: the runs stay far below 2^31 deltas.
- Tools, `libklib` (userland stand-ins for kernel functions), the vendored compressor.
