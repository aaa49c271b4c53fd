------------------------------ MODULE FilePages ------------------------------
(***************************************************************************)
(* The data of one inode in the kernel: a page of two blocks in the page   *)
(* cache, the buffer fork (kernel/buffer_fork.c), the hole extents         *)
(* (kernel/filemap_hole.c), the dtree and the flush of a delta             *)
(* (kernel/buffer_writeback.c).  A regular file is written by write(2) and *)
(* truncated, a directory is changed block by block through blockdirty().  *)
(* The holder of i_mutex, a reader that fills a page, vmscan and the       *)
(* backend interleave.                                                     *)
(*                                                                         *)
(* A block is two units of data.  The value of a unit is the delta that    *)
(* wrote it, 0 or Junk.  The dtree maps a block to what is at its address. *)
(***************************************************************************)
EXTENDS Integers, Sequences, FiniteSets, FiniteSetsExt

CONSTANTS
    Pages,    \* bound: struct page, those of the page cache and forked ones
    NoPage,   \* no page: NULL
    Values,   \* bound: the deltas
    Starts,   \* bound: where a write(2) begins
    Ends,     \* bound: where it ends
    MaxOps    \* bound: system calls that change the inode

Blocks == 0 .. 1
Units == 0 .. 3
Slots == {0, 1}
None == -1
Junk == -1
Hole == <<>>

(* The units of a block, the block of a unit *)
UnitsOf(b) == 2 * b .. 2 * b + 1
BlockOf(u) == u \div 2
BlocksIn(size) == (size + 1) \div 2

VARIABLES
    kind,     \* "file" or "dir"
    pages,    \* struct page with its buffers, of the pages in use
    live,     \* the page in the radix tree
    forked,   \* pages with PageForked, on sb->forked_buffers
    size,     \* inode->i_size
    holes,    \* dirty_holes: the first block of the hole of a delta, or 2
    dtree,    \* what is at the address of a block, or Hole
    op,       \* the system call of the holder of i_mutex
    fill,     \* mpage_readpage() after its lookup in the dtree
    flush,    \* the backend
    delta,    \* the current delta
    idata,    \* i_size of the delta that is flushed
    file,     \* history: the data of the file after the last system call
    snap,     \* history: the file at the end of the delta that is flushed
    unpinned, \* history: the clone of a page was left clean
    raced,    \* history: which of the races below happened
    broken    \* history: an assertion of the code failed

vars == <<kind, pages, live, forked, size, holes, dtree, op, fill, flush, delta, idata,
          file, snap, unpinned, raced, broken>>

slot == delta % 2
Idle == [pc |-> "idle", from |-> 0, to |-> 0]
NoFill == [on |-> FALSE, size |-> 0, found |-> <<Hole, Hole>>]

Buffer == [delta : {None} \union Slots, mapped : BOOLEAN, uptodate : BOOLEAN,
           new : BOOLEAN, io : BOOLEAN]
PageType == [dirty : BOOLEAN, writeback : BOOLEAN, uptodate : BOOLEAN, buffers : BOOLEAN,
             data : [Units -> {Junk, 0} \union Values], buf : [Blocks -> Buffer]]

TypeOK ==
    /\ DOMAIN pages = forked \union ({live} \ {NoPage})
    /\ \A p \in DOMAIN pages : pages[p] \in PageType
    /\ live \notin forked /\ forked \subseteq Pages
    /\ size \in 0 .. 4 /\ holes \in [Slots -> 0 .. 2]
    /\ op.pc \in {"idle", "write", "size", "hole"}
    /\ flush \in {"idle", "chop", "unhole", "map", "prepare", "io", "commit"}
    /\ raced \subseteq {"lookup", "truncate", "reclaim"}

-----------------------------------------------------------------------------
(* Buffers of a page *)

EmptyBuffer(uptodate) ==
    [delta |-> None, mapped |-> FALSE, uptodate |-> uptodate, new |-> FALSE, io |-> FALSE]

NewPage ==
    [dirty |-> FALSE, writeback |-> FALSE, uptodate |-> FALSE, buffers |-> FALSE,
     data |-> [u \in Units |-> Junk], buf |-> [b \in Blocks |-> EmptyBuffer(FALSE)]]

(* create_empty_buffers(), if the page has none *)
WithBuffers(pg) ==
    IF pg.buffers THEN pg
    ELSE [pg EXCEPT !.buffers = TRUE, !.buf = [b \in Blocks |-> EmptyBuffer(pg.uptodate)]]

(* The page in the radix tree: grab_cache_page() *)
Grabbed == IF live = NoPage THEN NewPage ELSE pages[live]

(* buffer_can_modify() *)
buffer_can_modify(buffer, s) == buffer.delta \in {None, s}

(* need_fork(): the page holds the data of an older delta                   *)
need_fork(pg, b, s) ==
    \/ pg.writeback
    \/ /\ pg.dirty
       /\ IF pg.buf[b].delta # None THEN pg.buf[b].delta # s
          ELSE \E other \in Blocks \ {b} : ~buffer_can_modify(pg.buf[other], s)

(* tux3_clear_buffer_dirty_for_io() *)
Cleared(buffer) == [buffer EXCEPT !.delta = None, !.mapped = TRUE]

(* clone_page(): the buffers as they are after the flush                    *)
clone_page(pg) ==
    [pg EXCEPT !.dirty = FALSE, !.writeback = FALSE,
               !.buf = [b \in Blocks |->
                   IF pg.buf[b].delta # None THEN Cleared(pg.buf[b])
                   ELSE [pg.buf[b] EXCEPT !.io = FALSE]]]

(* __tux3_mark_buffer_dirty() *)
MarkDirty(pg, b, s) ==
    IF pg.buf[b].delta # None THEN pg
    ELSE [pg EXCEPT !.dirty = TRUE, !.buf[b] = [@ EXCEPT !.delta = s, !.uptodate = TRUE]]

ZeroFill(pg, from, to) ==
    [pg EXCEPT !.data = [u \in Units |-> IF u \in from .. to - 1 THEN 0 ELSE pg.data[u]]]

(* tux3_invalidate_buffer() *)
Discarded(buffer) == [buffer EXCEPT !.delta = None, !.mapped = FALSE, !.new = FALSE]

(* What tux3_try_cancel_dirty_page() looks for                              *)
AnyDirty(bufs) == \E b \in Blocks : bufs[b].delta # None

(* tux3_invalidatepage(): all buffers from offset on                        *)
Invalidate(pg, offset) ==
    LET kept == [b \in Blocks |-> IF 2 * b >= offset THEN Discarded(pg.buf[b]) ELSE pg.buf[b]]
    IN  [pg EXCEPT !.buf = kept, !.dirty = @ /\ AnyDirty(kept)]

(* The assertion of tux3_clear_buffer_dirty()                               *)
CantInvalidate(pg, offset) ==
    \E b \in Blocks : 2 * b >= offset /\ ~buffer_can_modify(pg.buf[b], slot)

-----------------------------------------------------------------------------
(* What a block holds for who finds no page: map_region(MAP_READ)           *)

(* tux3_is_hole(), tux3_map_hole()                                          *)
IsHole(hs, b) == \E s \in Slots : hs[s] <= b

Lookup(b) == IF IsHole(holes, b) THEN Hole ELSE dtree[b]

(* tux3_da_get_block(): an uptodate buffer needs no address                 *)
tux3_da_get_block(uptodate, b) == IF uptodate THEN Hole ELSE Lookup(b)

DataOf(content, u) == IF content = Hole THEN 0 ELSE content[(u % 2) + 1]

(* The block is read from the disk, or zero if it is a hole.                *)
ReadBlock(pg, b, content) ==
    [pg EXCEPT !.buf[b] = [@ EXCEPT !.uptodate = TRUE, !.mapped = content # Hole],
               !.data = [u \in Units |-> IF BlockOf(u) = b THEN DataOf(content, u)
                                         ELSE pg.data[u]]]

-----------------------------------------------------------------------------
(* The page for a change: pg replaces it in the radix tree if it has to be  *)
(* forked, and oldpage stays for the backend: tux3_replace_page_cache()     *)

MustFork(b) == live # NoPage /\ need_fork(pages[live], b, slot)

Put(p, pg) == [q \in DOMAIN pages \union {p} |-> IF q = p THEN pg ELSE pages[q]]

(* forked_buffer_add(), or nothing if there is no fork                      *)
Replace(b, pg) ==
    IF MustFork(b)
    THEN \E p \in Pages \ DOMAIN pages :
            /\ live' = p /\ forked' = forked \union {live} /\ pages' = Put(p, pg)
    ELSE IF live # NoPage
    THEN pages' = Put(live, pg) /\ UNCHANGED <<live, forked>>
    ELSE \E p \in Pages \ DOMAIN pages :
            live' = p /\ pages' = Put(p, pg) /\ UNCHANGED forked

(* pagefork_for_blockdirty() *)
Forked(b) == IF MustFork(b) THEN clone_page(Grabbed) ELSE Grabbed

(* Nobody else holds i_mutex; change_begin()                                *)
CanCall == op = Idle /\ file.ops < MaxOps

PageLocked == op.pc = "write" \/ fill.on

-----------------------------------------------------------------------------
(* write(2): tux3_file_aio_write(), tux3_write_begin(), tux3_write_end()    *)

(* One buffer of __tux3_write_begin() for units from .. to - 1              *)
Prepared(pg, b, from, to) ==
    LET partial == from > 2 * b \/ to < 2 * b + 2
        uptodate == pg.buf[b].uptodate \/ pg.uptodate
        content == tux3_da_get_block(uptodate, b)
        zeroed == IF partial /\ ~pg.uptodate
                  THEN ZeroFill(ZeroFill(pg, to, 2 * b + 2), 2 * b, from) ELSE pg
    IN  IF UnitsOf(b) \cap (from .. to - 1) = {} THEN [pg EXCEPT !.buf[b].uptodate = uptodate]
        ELSE IF ~pg.buf[b].mapped /\ content = Hole
        THEN [zeroed EXCEPT !.buf[b] = [@ EXCEPT !.mapped = TRUE, !.new = TRUE,
                                                 !.uptodate = uptodate]]
        ELSE IF ~uptodate /\ partial THEN ReadBlock(pg, b, Lookup(b))
        ELSE [pg EXCEPT !.buf[b] = [@ EXCEPT !.mapped = TRUE, !.new = FALSE,
                                             !.uptodate = uptodate]]

(* The page is found or made, forked and locked, its buffers are mapped.    *)
WriteBegin(from, to) ==
    /\ CanCall /\ kind = "file" /\ ~PageLocked
    /\ LET pg == WithBuffers(Forked(0))
       IN  Replace(0, Prepared(Prepared(pg, 0, from, to), 1, from, to))
    /\ unpinned' = (unpinned \/ MustFork(0))
    /\ op' = [pc |-> "write", from |-> from, to |-> to]
    /\ UNCHANGED <<kind, size, holes, dtree, fill, flush, delta, idata, file, snap, broken, raced>>

(* tux3_page_zero_new_buffers(), for a short copy                           *)
ZeroNew(pg, b, from, to) ==
    IF ~(pg.buf[b].new /\ UnitsOf(b) \cap (from .. to - 1) # {}) THEN pg
    ELSE MarkDirty(IF pg.uptodate THEN pg
                   ELSE ZeroFill(pg, Max({from, 2 * b}), Min({to, 2 * b + 2})), b, slot)

(* __tux3_commit_write() *)
Commit(pg, from, to) ==
    LET in(b) == 2 * b + 2 > from /\ 2 * b < to
        one == IF in(0) THEN MarkDirty(pg, 0, slot) ELSE pg
        two == IF in(1) THEN MarkDirty(one, 1, slot) ELSE one
    IN  [two EXCEPT !.uptodate = @ \/ \A b \in Blocks : two.buf[b].uptodate,
                    !.buf = [b \in Blocks |-> [two.buf[b] EXCEPT !.new = FALSE]]]

(* __tux3_write_end() with copied units of the data                         *)
Written(pg, from, to, copied) ==
    LET data == [pg EXCEPT !.data = [u \in Units |->
                    IF u \in from .. from + copied - 1 THEN delta ELSE pg.data[u]]]
        zeroed == IF from + copied < to
                  THEN ZeroNew(ZeroNew(data, 0, from + copied, to), 1, from + copied, to)
                  ELSE data
    IN  Commit(zeroed, from, from + copied)

(* The file after its units from .. to - 1 are written                      *)
Overwritten(from, to) ==
    [file EXCEPT !.data = [u \in Units |-> IF u \in from .. to - 1 THEN delta ELSE @[u]]]

(* tux3_write_failed(): what is outside i_size is truncated                 *)
Failed(pg) == Invalidate(ZeroFill(pg, size, 4), size)

(* tux3_file_write_end(): all is copied, or nothing                         *)
WriteEnd(all) ==
    /\ op.pc = "write"
    /\ LET copied == IF all THEN op.to - op.from ELSE 0
           pg == Written(pages[live], op.from, op.to, copied)
           failed == ~all /\ op.to > size
       IN  /\ IF failed /\ size = 0
              THEN /\ pages' = [p \in forked |-> pages[p]] /\ live' = NoPage
                   /\ unpinned' = FALSE
              ELSE /\ pages' = [pages EXCEPT ![live] = IF failed THEN Failed(pg) ELSE pg]
                   /\ unpinned' = ((unpinned \/ failed) /\ ~pages'[live].dirty)
                   /\ live' = live
           /\ size' = IF all THEN Max({size, op.to}) ELSE size
           /\ file' = [IF all THEN Overwritten(op.from, op.to) ELSE file EXCEPT !.ops = @ + 1]
           /\ broken' = (broken \/ (failed /\ CantInvalidate(pg, size)))
    /\ op' = Idle
    /\ UNCHANGED <<kind, forked, holes, dtree, fill, flush, delta, idata, snap, raced>>

-----------------------------------------------------------------------------
(* A directory: blockread() or blockget(), then blockdirty()                *)

(* blockread(): the page is uptodate, or a reader has to fill it first      *)
blockread == live # NoPage /\ pages[live].uptodate

(* blockget() of the block behind the last one: __tux3_write_begin()        *)
blockget(pg, b) ==
    [WithBuffers(pg) EXCEPT !.buf[b] = [@ EXCEPT !.mapped = TRUE, !.uptodate = TRUE]]

(* The block is dirtied, forked before if it has to, and a unit changed     *)
BlockWrite(b) ==
    LET grow == 2 * b = size
        found == IF grow THEN blockget(Grabbed, b) ELSE WithBuffers(Grabbed)
        fork == need_fork(found, b, slot) /\ found.buf[b].delta # slot
        pg == MarkDirty(IF fork THEN clone_page(found) ELSE found, b, slot)
        changed == IF grow THEN 2 * b .. 2 * b + 1 ELSE {2 * b}
    IN  /\ CanCall /\ kind = "dir" /\ ~PageLocked
        /\ grow \/ (2 * b < size /\ blockread)
        /\ LET new == [pg EXCEPT !.data = [u \in Units |-> IF u \in changed THEN delta ELSE @[u]]]
           IN  IF live # NoPage /\ ~fork
               THEN pages' = Put(live, new) /\ UNCHANGED <<live, forked>>
               ELSE \E p \in Pages \ DOMAIN pages :
                       /\ live' = p /\ pages' = Put(p, new)
                       /\ forked' = forked \union ({live} \ {NoPage})
        /\ size' = IF grow THEN size + 2 ELSE size
        /\ file' = [file EXCEPT !.data = [u \in Units |-> IF u \in changed THEN delta ELSE @[u]],
                                !.ops = @ + 1]
        /\ broken' = (broken \/ (~fork /\ ~found.dirty /\ found.buf[b].delta # None))
        /\ UNCHANGED <<kind, holes, dtree, op, fill, flush, delta, idata, snap, unpinned, raced>>

-----------------------------------------------------------------------------
(* truncate(2): tux3_setattr(), tux3_truncate()                             *)

(* Mutant: the block outside i_size is not dirtied, so nothing pins the     *)
(* clone of the page.                                                       *)
BoundaryBlock_NoPin(pg, newsize) == ZeroFill(pg, newsize, 4)

(* __tux3_truncate_partial_block(), a block boundary: the block outside     *)
(* i_size is dirtied to pin the page                                        *)
BoundaryBlock(pg, newsize) ==
    ZeroFill(IF pg.buffers THEN MarkDirty(pg, 1, slot) ELSE pg, newsize, 4)

(* A block that has data: it is read, dirtied and zeroed from i_size on     *)
PartialBlock(pg, newsize, b) ==
    LET read == IF pg.buf[b].uptodate \/ pg.uptodate THEN [pg EXCEPT !.buf[b].uptodate = TRUE]
                ELSE ReadBlock(pg, b, Lookup(b))
    IN  Invalidate(ZeroFill(MarkDirty([read EXCEPT !.buf[b].mapped = TRUE], b, slot),
                            newsize, 4), newsize)

(* tux3_truncate_partial_block(): the last page, before i_size changes      *)
TruncatePartial(newsize) ==
    LET b == BlockOf(newsize)
        pg == WithBuffers(Forked(0))
        isHole == ~pg.buf[b].mapped /\ Lookup(b) = Hole
    IN  /\ CanCall /\ kind = "file" /\ newsize # size
        /\ IF newsize > size \/ newsize % 4 = 0 \/ (newsize % 2 = 0 /\ live = NoPage /\ ~fill.on)
           THEN UNCHANGED <<pages, live, forked, unpinned, broken>>
           ELSE /\ ~PageLocked
                /\ IF newsize % 2 = 0 THEN Replace(0, BoundaryBlock(Forked(0), newsize))
                   ELSE IF ~isHole THEN Replace(0, PartialBlock(pg, newsize, b))
                   ELSE IF b = 0 THEN Replace(0, BoundaryBlock(pg, newsize))
                   ELSE Replace(0, pg)
                /\ unpinned' = ((unpinned \/ (isHole /\ MustFork(0))) /\ ~pages'[live'].dirty)
                /\ broken' = (broken \/ (newsize % 2 = 1 /\ ~isHole
                                         /\ CantInvalidate(pg, newsize)))
        /\ op' = [pc |-> "size", from |-> size, to |-> newsize]
        /\ UNCHANGED <<kind, size, holes, dtree, fill, flush, delta, idata, file, snap, raced>>

(* Mutant: the page is dropped, never forked. *)
TruncateSize_NoFork ==
    /\ op.pc = "size"
    /\ size' = op.to
    /\ op.to = 0 => ~PageLocked
    /\ IF op.to = 0 /\ live # NoPage
       THEN pages' = [p \in forked |-> pages[p]] /\ live' = NoPage
       ELSE UNCHANGED <<pages, live>>
    /\ op' = [op EXCEPT !.pc = "hole"]
    /\ UNCHANGED <<kind, forked, holes, dtree, fill, flush, delta, idata, file, snap,
                   unpinned, broken, raced>>

(* bufferfork_to_invalidate(): a page of an older delta stays for the       *)
(* backend                                                                  *)
bufferfork_to_invalidate ==
    /\ need_fork(pages[live], 0, slot)
    /\ forked' = forked \union {live} /\ UNCHANGED <<pages, broken>>

(* truncate_pagecache() *)
DropPage ==
    /\ ~need_fork(pages[live], 0, slot)
    /\ pages' = [p \in forked |-> pages[p]] /\ UNCHANGED forked
    /\ broken' = (broken \/ CantInvalidate(pages[live], 0))

(* i_size changes, then the pages behind it leave the radix tree:           *)
(* tux3_truncate_inode_pages_range()                                        *)
TruncateSize ==
    /\ op.pc = "size"
    /\ size' = op.to
    /\ op.to = 0 => ~PageLocked
    /\ IF op.to = 0 /\ live # NoPage
       THEN /\ live' = NoPage /\ unpinned' = FALSE
            /\ bufferfork_to_invalidate \/ DropPage
       ELSE UNCHANGED <<pages, live, forked, unpinned, broken>>
    /\ op' = [op EXCEPT !.pc = "hole"]
    /\ UNCHANGED <<kind, holes, dtree, fill, flush, delta, idata, file, snap, raced>>

(* tux3_add_truncate_hole(), tux3_add_hole(): merged with the hole of the   *)
(* delta                                                                    *)
AddHole(hs, newsize) == [hs EXCEPT ![slot] = Min({@, BlocksIn(newsize)})]

(* The end of tux3_truncate() *)
TruncateHole ==
    /\ op.pc = "hole"
    /\ holes' = IF op.to < op.from THEN AddHole(holes, op.to) ELSE holes
    /\ file' = [file EXCEPT !.data = [u \in Units |-> IF u < op.to THEN @[u] ELSE 0],
                            !.ops = @ + 1]
    /\ op' = Idle
    /\ UNCHANGED <<kind, pages, live, forked, size, dtree, fill, flush, delta, idata, snap,
                   unpinned, broken, raced>>

-----------------------------------------------------------------------------
(* Readers and vmscan *)

(* Three interleavings that no lock excludes, after which a read may give   *)
(* other data.  "truncate": a page is filled between the partial block and  *)
(* the new i_size of a truncation (kernel/inode.c:717-724).  "lookup": the  *)
(* flush takes back the hole between the two lookups of a fill, in the      *)
(* dtree and in the hole list (kernel/filemap.c:645-652).  "reclaim":       *)
(* vmscan takes a clone that was left clean, while the backend still has    *)
(* the older page to write (kernel/filemap_blocklib.c:579-584).             *)
RaceIf(now, race) == raced' = IF now THEN raced \union {race} ELSE raced

(* tux3_readpage(), mpage_readpage(): one lookup for the blocks of the page *)
(* when they are one extent; the page is locked from here on                *)
FillLookup ==
    /\ live = NoPage /\ ~PageLocked /\ size > 2
    /\ ~IsHole(holes, 0) /\ Hole \notin {dtree[0], dtree[1]}
    /\ fill' = [on |-> TRUE, size |-> size, found |-> <<dtree[0], dtree[1]>>]
    /\ RaceIf(op.pc = "size", "truncate")
    /\ UNCHANGED <<kind, pages, live, forked, size, holes, dtree, op, flush, delta, idata,
                   file, snap, unpinned, broken>>

(* The page that a fill makes, with i_size and the blocks it found          *)
Filled(isize, c0, c1) ==
    [NewPage EXCEPT !.uptodate = TRUE,
        !.data = [u \in Units |-> IF BlockOf(u) >= BlocksIn(isize) THEN 0
                                  ELSE DataOf(IF BlockOf(u) = 0 THEN c0 ELSE c1, u)]]

(* tux3_map_hole() on what was found, and the blocks are read               *)
FillRead ==
    /\ fill.on
    /\ \E p \in Pages \ DOMAIN pages :
          /\ live' = p
          /\ pages' = Put(p, Filled(fill.size, fill.found[1],
                                    IF IsHole(holes, 1) THEN Hole ELSE fill.found[2]))
    /\ fill' = NoFill
    /\ UNCHANGED <<kind, forked, size, holes, dtree, op, flush, delta, idata, file, snap,
                   unpinned, broken, raced>>

(* block_read_full_page(): a lookup for each buffer that is not uptodate    *)
FillBlocks ==
    /\ ~PageLocked /\ size > 0
    /\ RaceIf(op.pc = "size", "truncate")
    /\ IF live = NoPage
       THEN /\ \E p \in Pages \ DOMAIN pages :
                  live' = p /\ pages' = Put(p, Filled(size, Lookup(0), Lookup(1)))
       ELSE LET pg == WithBuffers(pages[live])
                content(b) == IF b < BlocksIn(size) THEN Lookup(b) ELSE Hole
                one == IF pg.buf[0].uptodate THEN pg ELSE ReadBlock(pg, 0, content(0))
                two == IF one.buf[1].uptodate THEN one ELSE ReadBlock(one, 1, content(1))
            IN  /\ ~pg.uptodate /\ live' = live
                /\ pages' = Put(live, [two EXCEPT !.uptodate = TRUE])
    /\ UNCHANGED <<kind, forked, size, holes, dtree, op, fill, flush, delta, idata, file,
                   snap, unpinned, broken>>

(* vmscan takes a page that is neither dirty nor written back.              *)
Reclaim ==
    /\ live # NoPage /\ ~PageLocked
    /\ RaceIf(unpinned, "reclaim")
    /\ ~pages[live].dirty /\ ~pages[live].writeback
    /\ live' = NoPage /\ unpinned' = FALSE
    /\ pages' = [p \in forked |-> pages[p]]
    /\ UNCHANGED <<kind, forked, size, holes, dtree, op, fill, flush, delta, idata, file,
                   snap, broken>>

-----------------------------------------------------------------------------
(* The backend *)

old == 1 - slot

(* A delta ends when no system call is inside change_begin() .. _end().     *)
Transition ==
    /\ op = Idle /\ flush = "idle" /\ delta + 1 \in Values
    /\ delta' = delta + 1 /\ flush' = "chop"
    /\ idata' = size /\ snap' = file.data
    /\ UNCHANGED <<kind, pages, live, forked, size, holes, dtree, op, fill, file,
                   unpinned, broken, raced>>

(* tux3_flush_hole(): btree_chop()                                          *)
Chop ==
    /\ flush = "chop" /\ flush' = "unhole"
    /\ dtree' = [b \in Blocks |-> IF b >= holes[old] THEN Hole ELSE dtree[b]]
    /\ UNCHANGED <<kind, pages, live, forked, size, holes, op, fill, delta, idata, file,
                   snap, unpinned, broken, raced>>

(* tux3_flush_hole(): the hole was applied                                  *)
Unhole ==
    /\ flush = "unhole" /\ flush' = "map"
    /\ RaceIf(fill.on, "lookup")
    /\ holes' = [holes EXCEPT ![old] = 2]
    /\ UNCHANGED <<kind, pages, live, forked, size, dtree, op, fill, delta, idata, file,
                   snap, unpinned, broken>>

(* The pages with buffers of the delta, and those buffers: dirty_buffers    *)
DirtyIn(pg) == {b \in Blocks : pg.buf[b].delta = old}
Owners == {p \in DOMAIN pages : DirtyIn(pages[p]) # {}}

(* bufvec_cancel_dirty_outside() *)
Cancelled(pg, outside) ==
    LET buf == [b \in Blocks |->
                  IF pg.buf[b].delta = old /\ b >= outside
                  THEN Cleared(pg.buf[b]) ELSE pg.buf[b]]
    IN  [pg EXCEPT !.buf = buf, !.dirty = @ /\ outside > 0 /\ AnyDirty(buf)]

(* filemap_extent_io(): the dtree has new addresses for blocks              *)
Redirected(bs) == [b \in Blocks |-> IF b \in bs THEN <<Junk, Junk>> ELSE dtree[b]]

(* flush_list(): what is outside i_size is cancelled, the rest gets new     *)
(* blocks, map_region(MAP_REDIRECT)                                         *)
Map ==
    /\ flush = "map"
    /\ LET outside == BlocksIn(idata)
           written == (UNION {DirtyIn(pages[p]) : p \in Owners}) \cap (0 .. outside - 1)
       IN  /\ pages' = [p \in DOMAIN pages |->
                          IF p \in Owners THEN Cancelled(pages[p], outside) ELSE pages[p]]
           /\ dtree' = Redirected(written)
           /\ flush' = IF written = {} THEN "commit" ELSE "prepare"
    /\ broken' = (broken \/ Cardinality(Owners) > 1)
    /\ UNCHANGED <<kind, live, forked, size, holes, op, fill, delta, idata, file, snap,
                   unpinned, raced>>

(* The page and its buffers when they go to the device                      *)
InFlight(pg) ==
    [pg EXCEPT !.dirty = FALSE, !.writeback = TRUE,
               !.buf = [b \in Blocks |-> IF pg.buf[b].delta # old THEN pg.buf[b]
                          ELSE [Cleared(pg.buf[b]) EXCEPT !.io = TRUE]]]

(* bufvec_prepare_and_lock_page(), tux3_clear_buffer_dirty_for_io()         *)
Prepare(p) ==
    /\ flush = "prepare" /\ p \in Owners /\ ~(p = live /\ PageLocked)
    /\ LET pg == InFlight(pages[p])
       IN  pages' = [pages EXCEPT ![p] = IF idata % 4 = 0 THEN pg ELSE ZeroFill(pg, idata, 4)]
    /\ flush' = "io"
    /\ broken' = (broken \/ ~pages[p].dirty \/ pages[p].writeback
                  \/ \E b \in DirtyIn(pages[p]) : ~pages[p].buf[b].uptodate)
    /\ UNCHANGED <<kind, live, forked, size, holes, dtree, op, fill, delta, idata, file,
                   snap, unpinned, raced>>

(* bufvec_io(): one bio for the blocks of the page, or one for each         *)
Bios(pg) ==
    LET bufs == {b \in Blocks : pg.buf[b].io}
    IN  {{b} : b \in bufs} \union ({bufs} \ {{}})

(* Mutant: the first bio that ends ends the writeback of the page. *)
Ended_First(pg, bio) ==
    [pg EXCEPT !.buf = [b \in Blocks |-> [pg.buf[b] EXCEPT !.io = @ /\ b \notin bio]],
               !.writeback = FALSE]

(* bufvec_end_io_multiple(): the last bio ends the writeback                *)
Ended(pg, bio) ==
    [pg EXCEPT !.buf = [b \in Blocks |-> [pg.buf[b] EXCEPT !.io = @ /\ b \notin bio]],
               !.writeback = \E b \in Blocks \ bio : pg.buf[b].io]

(* bufvec_end_io(): the device has read the page                            *)
EndIO(p) ==
    /\ flush = "io" /\ p \in DOMAIN pages
    /\ \E bio \in Bios(pages[p]) :
          /\ dtree' = [b \in Blocks |->
                         IF b \in bio THEN <<pages[p].data[2 * b], pages[p].data[2 * b + 1]>>
                         ELSE dtree[b]]
          /\ pages' = [pages EXCEPT ![p] = Ended(@, bio)]
          /\ flush' = IF \E b \in Blocks \ bio : pages[p].buf[b].io THEN "io" ELSE "commit"
    /\ UNCHANGED <<kind, live, forked, size, holes, op, fill, delta, idata, file, snap,
                   unpinned, broken, raced>>

(* free_forked_buffers(): those a reader still holds stay                   *)
Freeable == {p \in forked : ~pages[p].dirty /\ ~pages[p].writeback}

(* free_forked_page() *)
Without(freed) == [p \in DOMAIN pages \ freed |-> pages[p]]

(* commit_delta(), post_commit() *)
CommitDelta ==
    /\ flush = "commit" /\ flush' = "idle"
    /\ \E freed \in SUBSET Freeable :
          /\ forked' = forked \ freed
          /\ pages' = Without(freed)
    /\ unpinned' = FALSE
    /\ UNCHANGED <<kind, live, size, holes, dtree, op, fill, delta, idata, file, snap, broken, raced>>

(* tux3_evict_inode(): the inode is clean and nobody uses it                *)
Evict ==
    /\ op = Idle /\ flush = "idle" /\ ~fill.on /\ holes[slot] = 2
    /\ \A p \in DOMAIN pages : ~pages[p].dirty
    /\ live # NoPage \/ forked # {}
    /\ live' = NoPage /\ forked' = {} /\ pages' = [p \in {} |-> NewPage]
    /\ broken' = (broken \/ \E p \in forked : pages[p].dirty \/ pages[p].writeback)
    /\ UNCHANGED <<kind, size, holes, dtree, op, fill, flush, delta, idata, file, snap, unpinned, raced>>

-----------------------------------------------------------------------------
Init ==
    /\ kind \in {"file", "dir"}
    /\ pages = [p \in {} |-> NewPage] /\ live = NoPage /\ forked = {}
    /\ size = 0 /\ holes = [s \in Slots |-> 2] /\ dtree = [b \in Blocks |-> Hole]
    /\ op = Idle /\ fill = NoFill /\ flush = "idle" /\ delta = Min(Values) /\ idata = 0
    /\ file = [data |-> [u \in Units |-> 0], ops |-> 0] /\ snap = [u \in Units |-> 0]
    /\ unpinned = FALSE /\ raced = {} /\ broken = FALSE

Next ==
    \/ \E from \in Starts, to \in Ends : from < to /\ WriteBegin(from, to)
    \/ \E all \in BOOLEAN : WriteEnd(all)
    \/ \E b \in Blocks : BlockWrite(b)
    \/ \E newsize \in 0 .. 4 : TruncatePartial(newsize)
    \/ TruncateSize \/ TruncateHole
    \/ FillLookup \/ FillRead \/ FillBlocks \/ Reclaim
    \/ Transition \/ Chop \/ Unhole \/ Map
    \/ \E p \in Pages : Prepare(p)
    \/ \E p \in Pages : EndIO(p)
    \/ CommitDelta \/ Evict

Spec == Init /\ [][Next]_vars

-----------------------------------------------------------------------------
(* What a read gets for a unit: the page cache first, then hole extents,    *)
(* then the dtree                                                           *)
View(u) ==
    LET b == BlockOf(u)
    IN  IF live # NoPage /\ (pages[live].uptodate \/ pages[live].buf[b].uptodate)
        THEN pages[live].data[u] ELSE DataOf(Lookup(b), u)

AsWritten == op = Idle /\ ~fill.on => \A u \in 0 .. size - 1 : View(u) = file.data[u]

(* Between system calls a read gives the file as they left it, whatever     *)
(* page was forked, flushed, reclaimed or filled again, and whatever hole   *)
(* is in between, as long as none of the three races above happened: "when  *)
(* read data, frontend checks page cache at first. Then, if there is no     *)
(* page cache, it lookups dtree" (kernel/filemap_hole.c:6-13).              *)
ReadExact == raced = {} => AsWritten

(* The same whatever else happened but for one race: that vmscan takes a    *)
(* page does not matter, as what it has is "available via dtree" or the     *)
(* page is pinned (kernel/filemap_blocklib.c:484-487).                      *)
ReclaimHarmless == raced \subseteq {"reclaim"} => AsWritten

(* "the frontend doesn't lookup dtree if there is the hole extents": also   *)
(* while the backend applies them (kernel/filemap_hole.c:9-16).             *)
LookupHarmless == raced \subseteq {"lookup"} => AsWritten

(* "Partial page is handled by tux3_truncate_partial_block()": nothing of   *)
(* what was cut off comes back (kernel/inode.c:725).                        *)
TruncateHarmless == raced \subseteq {"truncate"} => AsWritten

(* When the flush of a delta is done, the blocks of the inode are the file  *)
(* at the end of that delta, nothing of the next one, and zero behind the   *)
(* end of the file in the last block (kernel/buffer_fork.c:480,             *)
(* kernel/buffer_writeback.c:296), as long as none of the races happened: a *)
(* page that was filled with other data is written with it.                 *)
FlushExact ==
    raced = {} /\ flush = "commit" =>
        \A u \in Units :
            IF u < idata THEN DataOf(dtree[BlockOf(u)], u) = snap[u]
            ELSE BlockOf(u) < BlocksIn(idata) => DataOf(dtree[BlockOf(u)], u) = 0

(* The device never reads a block that a system call changes meanwhile: a   *)
(* page under writeback is forked before it is written                      *)
(* (kernel/buffer_fork.c:431).                                              *)
StablePages ==
    [][\A p \in DOMAIN pages \cap DOMAIN pages' : \A u \in Units :
          pages[p].buf[BlockOf(u)].io /\ pages'[p].buf[BlockOf(u)].io
              => pages'[p].data[u] = pages[p].data[u]]_vars

(* The assertions of kernel/buffer.c:163, kernel/buffer_fork.c:176, 440 and *)
(* 584, kernel/buffer_writeback.c:256, 257 and 268.                         *)
AssertionsHold == ~broken
=============================================================================
