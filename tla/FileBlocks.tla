----------------------------- MODULE FileBlocks -----------------------------
(***************************************************************************)
(* The data of one inode in userspace: the buffer cache with its pool, LRU *)
(* and reference counts (buffer.c), reads with readahead, writes and       *)
(* truncation block by block (filemap.c, inode.c, kernel/inode.c), the     *)
(* fork of a buffer (buffer_fork.c) and the flush (buffer_writeback.c).    *)
(*                                                                         *)
(* One thread runs it all, so a regular file does not change while it is   *)
(* flushed.  The bitmap does: its own flush allocates blocks, which sets   *)
(* bits.  The metadata that a lookup reads takes buffers of the same pool. *)
(*                                                                         *)
(* A block is two units of data.  The value of a unit is the number of the *)
(* call that wrote it, or 0.                                               *)
(***************************************************************************)
EXTENDS Integers, Sequences, SequencesExt, FiniteSetsExt

CONSTANTS
    NBlocks,    \* bound: blocks of the inode
    MaxBuffers, \* max_buffers
    MaxEvict,   \* max_evict
    MaxSegs,    \* bound: ARRAY_SIZE(seg) of filemap_extent_io(), 10 in the code
    Starts,     \* bound: where a write begins
    Ends,       \* bound: where it ends, and the sizes of a truncation
    MaxOps      \* bound: calls that change the inode

Blocks == 0 .. NBlocks - 1
Size == 2 * NBlocks
Ids == 1 .. MaxBuffers
NoBuf == 0
Zeros == <<0, 0>>
Hole == [data |-> Zeros, ext |-> -1]

BlocksIn(units) == (units + 1) \div 2

VARIABLES
    mode,    \* "file" or "bitmap"
    cache,   \* the buffers, and the LRU list: those with a hash link, oldest first
    size,    \* inode->i_size
    hole,    \* the first block of the hole extent, or NBlocks
    dtree,   \* the data of a block, and the extent it is in (-1: none), by
             \* its first block and the delta that wrote it
    call,    \* the call that runs
    flush,   \* flush_list(): the dirty buffers left, and the bufvec
    delta,   \* the delta, or for the bitmap sb->unify
    bits,    \* history: the data of the file
    snapped, \* history: the data of the file at the delta that is flushed
    ops,     \* history: how many calls changed the inode
    abort    \* the assertion that failed: the program has stopped

blockVars == <<mode, cache, size, hole, dtree, call, flush, delta, bits, snapped, ops, abort>>

slot == delta % 2
Idle == [pc |-> "idle", op |-> "none", pos |-> 0, to |-> 0, held |-> NoBuf, ahead |-> <<>>]
NoFlush == [on |-> FALSE, left |-> {}, contig |-> <<>>, size |-> 0]

Freed == [map |-> "none", index |-> 0, state |-> "freed", slot |-> 0, count |-> 0, data |-> Zeros]

(* init_buffers(): all buffers are free.  A file is empty, or on disk with  *)
(* all its blocks, in one extent or in an extent each; the bitmap has its   *)
(* size and no block yet.                                                   *)
InitFor(m) ==
    /\ mode = m
    /\ cache = [buf |-> [i \in Ids |-> Freed], lru |-> <<>>]
    /\ \E full \in {m = "bitmap", TRUE}, one \in BOOLEAN :
        /\ size = IF full THEN Size ELSE 0
        /\ dtree = [b \in Blocks |-> IF m = "file" /\ full
                                     THEN [data |-> <<1, 1>>, ext |-> IF one THEN 0 ELSE b]
                                     ELSE Hole]
        /\ bits = [u \in 0 .. Size - 1 |-> IF m = "file" /\ full THEN 1 ELSE 0]
    /\ hole = NBlocks /\ call = Idle /\ flush = NoFlush
    /\ delta = 0 /\ ops = 1 /\ snapped = <<>> /\ abort = "none"

Init == \E m \in {"file", "bitmap"} : InitFor(m)

-----------------------------------------------------------------------------
(* The pool: all operators take a cache c and give the cache after them     *)

Dirty(buffer) == buffer.state = "dirty"

(* buffer_already_dirty(), buffer_can_modify() *)
AlreadyDirty(buffer, s) == Dirty(buffer) /\ buffer.slot = s
buffer_can_modify(buffer, s) == Dirty(buffer) => buffer.slot = s

(* free_buffer() *)
free_buffer(c, i) == [c EXCEPT !.buf[i] = Freed]

(* get_bh() *)
get_bh(c, i) == [c EXCEPT !.buf[i].count = @ + 1]

(* blockput(): the last reference frees the buffer                          *)
blockput(c, i) == IF c.buf[i].count = 1 THEN free_buffer(c, i)
                  ELSE [c EXCEPT !.buf[i].count = @ - 1]

(* insert_buffer_hash(), remove_buffer_hash() *)
insert_buffer_hash(c, i) == [get_bh(c, i) EXCEPT !.lru = Append(@, i)]
remove_buffer_hash(c, i) == blockput([c EXCEPT !.lru = SelectSeq(@, LAMBDA j : j # i)], i)

Hashed(c) == {c.lru[k] : k \in DOMAIN c.lru}

(* What reclaim_buffer() can reclaim                                        *)
Reclaimable(c, i) == i \in Hashed(c) /\ c.buf[i].count = 1 /\ ~Dirty(c.buf[i])

reclaim_buffer(c, i) == IF Reclaimable(c, i) THEN remove_buffer_hash(c, i) ELSE c

(* The eviction of new_buffer(): the oldest buffers of the LRU list         *)
RECURSIVE Evict(_, _, _)
Evict(c, k, evicted) ==
    IF k > Len(c.lru) \/ evicted = MaxEvict THEN c
    ELSE IF Reclaimable(c, c.lru[k]) THEN Evict(reclaim_buffer(c, c.lru[k]), k, evicted + 1)
    ELSE Evict(c, k + 1, evicted)

Free(c) == {i \in Ids : c.buf[i].state = "freed"}

(* The buffer that new_buffer() finds, or NoBuf: -ENOMEM                    *)
NewId(c) == IF Free(c) = {} THEN NoBuf ELSE Min(Free(c))
Room(c) == IF Free(c) = {} THEN Evict(c, 1, 0) ELSE c

(* new_buffer() for block b of the map m, in a cache that has made room     *)
new_buffer(c, m, b, data) ==
    [c EXCEPT !.buf[NewId(c)] =
        [map |-> m, index |-> b, state |-> "empty", slot |-> 0, count |-> 1, data |-> data]]

(* The buffer of block b in the hash, or NoBuf                              *)
Find(c, b) ==
    LET found == {i \in Hashed(c) : c.buf[i].map = "this" /\ c.buf[i].index = b}
    IN  IF found = {} THEN NoBuf ELSE Min(found)

(* peekblk(): a reference if there is one                                   *)
peekblk(c, b) == IF Find(c, b) = NoBuf THEN c ELSE get_bh(c, Find(c, b))

(* blockget(): the buffer becomes the youngest, or a new one is made        *)
blockget(c, b) ==
    IF Find(c, b) # NoBuf
    THEN [get_bh(c, Find(c, b)) EXCEPT !.lru =
             Append(SelectSeq(@, LAMBDA j : j # Find(c, b)), Find(c, b))]
    ELSE IF NewId(Room(c)) = NoBuf THEN Room(c)
    ELSE insert_buffer_hash(new_buffer(Room(c), "this", b, Zeros), NewId(Room(c)))

(* __tux3_mark_buffer_dirty() *)
MarkDirty(c, i, s) == [c EXCEPT !.buf[i].state = "dirty", !.buf[i].slot = s]

(* Mutant: a buffer that is dirty for another delta is changed in place. *)
MustFork_Never(buffer, s) == FALSE

(* When blockdirty() forks                                                  *)
MustFork(buffer, s) == Dirty(buffer) /\ ~AlreadyDirty(buffer, s)

(* The fork of blockdirty(): the reference of the caller to the old buffer  *)
(* is left to the backend.                                                  *)
Forked(c, i) ==
    insert_buffer_hash(
        remove_buffer_hash(new_buffer(c, "this", c.buf[i].index, c.buf[i].data), i), NewId(c))

-----------------------------------------------------------------------------
(* Reads *)

(* map_region2(MAP_READ): the extents and holes of n blocks from b          *)
RECURSIVE Segs(_, _, _)
Segs(b, n, room) ==
    IF n = 0 \/ room = 0 THEN <<>>
    ELSE \* the blocks that go on in the extent, or hole, of b
         LET run == CHOOSE k \in 1 .. n :
                       /\ \A j \in 0 .. k - 1 : dtree[b + j].ext = dtree[b].ext
                       /\ k < n => dtree[b + k].ext # dtree[b].ext
         IN  <<[hole |-> dtree[b].ext = -1, count |-> run]>> \o Segs(b + run, n - run, room - 1)

(* Mutant: the holes that are not in the dtree yet are forgotten. *)
tux3_map_hole_Not(segs, b, n, room) == segs

(* tux3_map_hole(): the segment in which the hole begins is the last but    *)
(* one, and the count of the hole is not reduced by what comes before it in *)
(* this segment.                                                            *)
RECURSIVE tux3_map_hole(_, _, _, _)
tux3_map_hole(segs, b, n, room) ==
    IF segs = <<>> \/ b + n <= hole THEN segs
    ELSE IF hole < b + segs[1].count
    THEN IF segs[1].hole THEN <<[hole |-> TRUE, count |-> n]>>
         ELSE <<[hole |-> FALSE, count |-> hole - b]>> \o
              (IF room > 1 THEN <<[hole |-> TRUE, count |-> n]>> ELSE <<>>)
    ELSE <<segs[1]>> \o tux3_map_hole(Tail(segs), b + segs[1].count, n - segs[1].count, room - 1)

(* map_region(): tux3_is_hole() first                                       *)
map_region(b, n) ==
    IF hole <= b THEN <<[hole |-> TRUE, count |-> n]>>
    ELSE tux3_map_hole(Segs(b, n, MaxSegs), b, n, MaxSegs)

(* guess_readahead() from block b on: the cache, and the buffers that it    *)
(* holds.  It stops at the first buffer that is not empty.                  *)
RECURSIVE Ahead(_, _, _)
Ahead(c, b, held) ==
    IF b >= BlocksIn(size) THEN [c |-> c, held |-> held]
    ELSE IF Find(c, b) # NoBuf
    THEN IF c.buf[Find(c, b)].state # "empty" THEN [c |-> c, held |-> held]
         ELSE Ahead(peekblk(c, b), b + 1, Append(held, Find(c, b)))
    ELSE IF NewId(Room(c)) = NoBuf THEN [c |-> Room(c), held |-> held]
    ELSE Ahead(blockget(c, b), b + 1, Append(held, NewId(Room(c))))

guess_readahead(c, i) == Ahead(blockget(c, c.buf[i].index), c.buf[i].index + 1, <<i>>)

(* filemap_read_endio() and filemap_hole_endio() *)
Filled(c, i, data) == blockput([c EXCEPT !.buf[i].state = "clean", !.buf[i].data = data], i)

(* filemap_clean_endio() *)
Unread(c, i) == blockput([c EXCEPT !.buf[i].state = "empty"], i)

(* The loop of filemap_extent_io() over the segments, for the buffers held, *)
(* when no assertion stops it                                               *)
RECURSIVE Complete(_, _, _)
Complete(c, held, segs) ==
    IF held = <<>> THEN c
    ELSE IF segs = <<>> THEN Complete(Unread(c, held[1]), Tail(held), segs)
    ELSE Complete(Filled(c, held[1], IF segs[1].hole THEN Zeros
                                     ELSE dtree[c.buf[held[1]].index].data),
                  Tail(held),
                  IF segs[1].count = 1 THEN Tail(segs)
                  ELSE <<[segs[1] EXCEPT !.count = @ - 1]>> \o Tail(segs))

(* The blocks that the segments want completed                              *)
Wanted(segs) == FoldLeft(LAMBDA sum, s : sum + s.count, 0, segs)

(* The assertion that stops the loop of filemap_extent_io() for n buffers:  *)
(* bufvec_io() of a segment without blocks, which comes before the hole, or *)
(* bufvec_complete_without_io() of more than are left.                      *)
FailedCheck(segs, n) ==
    IF \E k \in DOMAIN segs : segs[k].count = 0 THEN "i > 0"
    ELSE IF Wanted(segs) > n THEN "count <= bufvec_contig_count(bufvec)" ELSE "none"

-----------------------------------------------------------------------------
(* Calls *)

Running == abort = "none"
CanCall == Running /\ call.pc = "idle" /\ ops < MaxOps

(* Where the program waits for a call: not in a flush, but for the bits     *)
(* that map_region() of the flush of the bitmap sets                        *)
Quiet == ~flush.on \/ (mode = "bitmap" /\ flush.contig # <<>>)

Start(op, from, to) == call' = [Idle EXCEPT !.pc = "get", !.op = op, !.pos = from, !.to = to]

(* tuxwrite(), and for the bitmap bitmap_modify() of one unit               *)
StartWrite(from, to) ==
    /\ CanCall /\ Quiet /\ from < to
    /\ mode = "bitmap" => to = from + 1
    /\ Start("write", from, to) /\ ops' = ops + 1
    /\ UNCHANGED <<mode, cache, size, hole, dtree, flush, delta, bits, snapped, abort>>

(* tuxread() of one block inside i_size                                     *)
StartRead(b) ==
    /\ Running /\ call.pc = "idle" /\ Quiet
    /\ b < BlocksIn(size) /\ Start("read", 2 * b, 2 * b + 1)
    /\ UNCHANGED <<mode, cache, size, hole, dtree, flush, delta, bits, snapped, ops, abort>>

(* tuxtruncate(): an expansion, or down to the end of a block or inside it  *)
StartTruncate(to) ==
    /\ CanCall /\ mode = "file" /\ ~flush.on /\ to # size
    /\ ops' = ops + 1
    /\ call' = [Idle EXCEPT !.op = "truncate", !.pos = to, !.to = to,
                            !.pc = IF to < size /\ to % 2 = 1 THEN "get" ELSE "cut"]
    /\ UNCHANGED <<mode, cache, size, hole, dtree, flush, delta, bits, snapped, abort>>

(* How many units of the block a write changes                              *)
Some == Min({call.to - call.pos, 2 - (call.pos % 2)})
Full == call.op = "write" /\ Some = 2

(* The end of tuxio(): what was written so far counts.  A truncation that   *)
(* fails leaves i_size.                                                     *)
Finish(pos) ==
    /\ call' = Idle
    /\ size' = IF call.op = "write" THEN Max({size, pos}) ELSE size

(* blockget() for a full block, or blockread(): a buffer that is empty is   *)
(* read, with those that follow it.  No buffer: -EIO.                       *)
GetBlock ==
    /\ Running /\ call.pc = "get"
    /\ \E c \in {blockget(cache, call.pos \div 2)} : \E i \in {Find(c, call.pos \div 2)} :
        IF i = NoBuf THEN Finish(call.pos) /\ cache' = c
        ELSE /\ size' = size
             /\ IF Full \/ c.buf[i].state # "empty"
                THEN cache' = c /\ call' = [call EXCEPT !.pc = "use", !.held = i]
                ELSE \E r \in {guess_readahead(c, i)} :
                        /\ cache' = r.c
                        /\ call' = [call EXCEPT !.pc = "fill", !.held = i, !.ahead = r.held]
    /\ UNCHANGED <<mode, hole, dtree, flush, delta, bits, snapped, ops, abort>>

(* filemap_extent_io(READ) after the buffers are held                       *)
FillBlocks ==
    /\ Running /\ call.pc = "fill"
    /\ \E segs \in {map_region(call.pos \div 2, Len(call.ahead))} :
        /\ abort' = FailedCheck(segs, Len(call.ahead))
        /\ IF abort' = "none"
           THEN /\ cache' = Complete(cache, call.ahead, segs)
                /\ call' = [call EXCEPT !.pc = "use", !.ahead = <<>>]
           ELSE UNCHANGED <<cache, call>>
    /\ UNCHANGED <<mode, size, hole, dtree, flush, delta, bits, snapped, ops>>

(* The data of a block after the call changed its units from .. to - 1      *)
Changed(data, from, to, v) ==
    [k \in 1 .. 2 |-> IF k - 1 >= from /\ k - 1 < to THEN v ELSE data[k]]

(* Data in the file                                                         *)
Update(from, to, v) == bits' = [u \in DOMAIN bits |-> IF u \in from .. to - 1 THEN v ELSE bits[u]]

(* tuxio() for a read: the data is copied out                               *)
UseRead ==
    /\ Running /\ call.pc = "use" /\ call.op = "read"
    /\ cache' = blockput(cache, call.held) /\ call' = Idle
    /\ UNCHANGED <<mode, size, hole, dtree, flush, delta, bits, snapped, ops, abort>>

(* The units of the held block that change: a write's, or all behind newsize *)
From == call.pos % 2
To == IF call.op = "write" THEN From + Some ELSE 2
Value == IF call.op = "write" THEN ops ELSE 0

(* The block after blockdirty() and the copy, and blockput()                *)
Store(c, i) ==
    blockput([MarkDirty(c, i, slot) EXCEPT !.buf[i].data = Changed(c.buf[i].data, From, To, Value)], i)

(* blockdirty() in tuxio() and tux3_truncate_partial_block(): the fork may  *)
(* find no buffer.                                                          *)
UseBlock ==
    /\ Running /\ call.pc = "use" /\ call.op # "read"
    /\ \E fork \in {MustFork(cache.buf[call.held], slot)} :
       \E room \in {IF fork THEN Room(cache) ELSE cache} :
        IF fork /\ NewId(room) = NoBuf
        THEN Finish(call.pos) /\ cache' = blockput(room, call.held) /\ UNCHANGED bits
        ELSE /\ cache' = IF fork THEN Store(Forked(room, call.held), NewId(room))
                         ELSE Store(room, call.held)
             /\ Update(call.pos, call.pos + (To - From), Value)
             /\ IF call.op = "truncate"
                THEN call' = [call EXCEPT !.pc = "cut", !.held = NoBuf] /\ size' = size
                ELSE IF call.pos + Some = call.to THEN Finish(call.to)
                ELSE /\ call' = [call EXCEPT !.pc = "get", !.pos = @ + Some, !.held = NoBuf]
                     /\ size' = size
    /\ UNCHANGED <<mode, hole, dtree, flush, delta, snapped, ops, abort>>

(* truncate_buffers_range(): the buffers of whole blocks behind the end are *)
(* invalidated, and those that nobody holds reclaimed.                      *)
truncate_buffers_range(c, outside) ==
    FoldSet(LAMBDA i, d : reclaim_buffer([d EXCEPT !.buf[i].state = "empty", !.buf[i].slot = 0], i),
            c, outside)

Outside(units) == {i \in Hashed(cache) : cache.buf[i].map = "this"
                                         /\ cache.buf[i].index >= BlocksIn(units)}

(* tux3_truncate() after the partial block: i_size, the buffers, the hole   *)
Truncate ==
    /\ Running /\ call.pc = "cut"
    /\ size' = call.to
    /\ IF \E i \in Outside(call.to) : ~buffer_can_modify(cache.buf[i], slot)
       THEN abort' = "buffer_can_modify(buffer, delta)" /\ UNCHANGED cache
       ELSE cache' = truncate_buffers_range(cache, Outside(call.to)) /\ abort' = abort
    /\ hole' = IF call.to < size THEN Min({hole, BlocksIn(call.to)}) ELSE hole
    /\ Update(call.to, Size, 0)
    /\ call' = Idle
    /\ UNCHANGED <<mode, dtree, flush, delta, snapped, ops>>

(* A block of another map is read: the metadata for a lookup in the dtree,  *)
(* or another file.  It stays in the pool.                                  *)
OtherBlock ==
    /\ Running /\ call.pc \in {"idle", "fill"}
    /\ \E c \in {Room(cache)} :
        /\ NewId(c) # NoBuf
        /\ cache' = blockput(insert_buffer_hash(
                        [new_buffer(c, "other", 0, Zeros) EXCEPT !.buf[NewId(c)].state = "clean"],
                        NewId(c)), NewId(c))
    /\ UNCHANGED <<mode, size, hole, dtree, call, flush, delta, bits, snapped, ops, abort>>

-----------------------------------------------------------------------------
(* The flush of a delta or, for the bitmap, of a unify cycle                *)

DirtyIn(s) == {i \in Ids : AlreadyDirty(cache.buf[i], s)}

(* The delta ends; tux3_flush_hole()                                        *)
FlushBegin ==
    /\ Running /\ call.pc = "idle" /\ ~flush.on
    /\ DirtyIn(slot) # {} \/ hole < NBlocks
    /\ flush' = [on |-> TRUE, left |-> DirtyIn(slot), contig |-> <<>>, size |-> size]
    /\ delta' = delta + 1
    /\ dtree' = [b \in Blocks |-> IF b >= hole THEN Hole ELSE dtree[b]]
    /\ hole' = NBlocks
    /\ snapped' = bits
    /\ UNCHANGED <<mode, cache, size, call, bits, ops, abort>>

Index(i) == cache.buf[i].index

(* The first buffers of the sorted list, as long as they are adjacent       *)
Contig(left) ==
    {i \in left : \A b \in Min({Index(j) : j \in left}) .. Index(i) :
                     \E j \in left : Index(j) = b}

(* cancel_buffer_dirty(), clear_buffer_dirty_for_endio(): the reference of  *)
(* a forked buffer is put.                                                  *)
clear_buffer_dirty_for_endio(c, i) ==
    IF i \in Hashed(c) THEN [c EXCEPT !.buf[i].state = "clean", !.buf[i].slot = 0]
    ELSE blockput([c EXCEPT !.buf[i].state = "clean", !.buf[i].slot = 0], i)

(* Mutant: the reference of a forked buffer is forgotten. *)
Cleared_NoPut(c, set) ==
    FoldSet(LAMBDA i, d : [d EXCEPT !.buf[i].state = "clean", !.buf[i].slot = 0], c, set)

Cleared(c, set) == FoldSet(LAMBDA i, d : clear_buffer_dirty_for_endio(d, i), c, set)

(* bufvec_contig_collect(): adjacent buffers in the order of their blocks,  *)
(* and the dirty bit of those outside i_size is cancelled.                  *)
Collect ==
    /\ Running /\ flush.on /\ call.pc = "idle"
    /\ flush.contig = <<>> /\ flush.left # {}
    /\ \E out \in {{i \in flush.left : Index(i) >= BlocksIn(flush.size)}} :
       \E run \in {IF flush.left = out THEN {} ELSE Contig(flush.left \ out)} :
        /\ cache' = Cleared(cache, out)
        /\ flush' = [flush EXCEPT !.left = @ \ (out \union run),
                                  !.contig = SetToSortSeq(run, LAMBDA i, j : Index(i) < Index(j))]
    /\ UNCHANGED <<mode, size, hole, dtree, call, delta, bits, snapped, ops, abort>>

(* filemap_extent_io(WRITE): the first n buffers get new blocks and are     *)
(* written, bufvec_io_done()                                                *)
WriteExtent(n) ==
    /\ Running /\ flush.on /\ call.pc = "idle" /\ n \in DOMAIN flush.contig
    /\ \E out \in {SubSeq(flush.contig, 1, n)} :
        /\ dtree' = [b \in Blocks |->
                       IF \E k \in 1 .. n : Index(out[k]) = b
                       THEN [data |-> cache.buf[CHOOSE i \in {out[k] : k \in 1 .. n} : Index(i) = b].data,
                             ext |-> Index(out[1]) + NBlocks * delta]
                       ELSE dtree[b]]
        /\ cache' = Cleared(cache, {out[k] : k \in 1 .. n})
    /\ flush' = [flush EXCEPT !.contig = SubSeq(@, n + 1, Len(@))]
    /\ UNCHANGED <<mode, size, hole, call, delta, bits, snapped, ops, abort>>

(* flush_list() returns: the commit of the delta                            *)
FlushEnd ==
    /\ Running /\ flush.on /\ call.pc = "idle"
    /\ flush.left = {} /\ flush.contig = <<>>
    /\ flush' = NoFlush /\ snapped' = <<>>
    /\ UNCHANGED <<mode, cache, size, hole, dtree, call, delta, bits, ops, abort>>

Next ==
    \/ \E from \in Starts, to \in Ends : StartWrite(from, to)
    \/ \E b \in Blocks : StartRead(b)
    \/ \E to \in Ends : StartTruncate(to)
    \/ GetBlock \/ FillBlocks \/ UseRead \/ UseBlock \/ Truncate \/ OtherBlock
    \/ FlushBegin \/ Collect \/ FlushEnd
    \/ \E n \in 1 .. NBlocks : WriteExtent(n)

Spec == Init /\ [][Next]_blockVars

-----------------------------------------------------------------------------

(* What a reader of unit u gets: the buffer, or what the map says           *)
View(u) ==
    LET i == Find(cache, u \div 2)
    IN  IF i # NoBuf /\ cache.buf[i].state # "empty" THEN cache.buf[i].data[(u % 2) + 1]
        ELSE IF hole <= u \div 2 THEN 0 ELSE dtree[u \div 2].data[(u % 2) + 1]

(* A reader gets what was written, whatever is evicted, read ahead, forked, *)
(* invalidated or in the middle of its flush: blockread() (buffer.c:608),   *)
(* filemap_extent_io() (filemap.c:152), tux3_map_hole().                    *)
ReadExact ==
    Running => \A u \in 0 .. size - 1 :
        (call.pc = "cut" /\ u >= call.to) \/ View(u) = bits[u]

(* When the flush ends the dtree has the file as it was when the delta      *)
(* ended, for the bitmap too, which its own flush changes                   *)
(* (buffer_fork.c:18, buffer_writeback.c:365).                              *)
FlushExact ==
    (Running /\ flush.on /\ flush.left = {} /\ flush.contig = <<>>) =>
        \A u \in 0 .. flush.size - 1 : dtree[u \div 2].data[(u % 2) + 1] = snapped[u]

(* Who holds buffer i: the hash, the call, the readahead, and the backend   *)
(* if it was forked                                                         *)
Holders(i) ==
    (IF i \in Hashed(cache) THEN 1 ELSE IF Dirty(cache.buf[i]) THEN 1 ELSE 0)
    + (IF call.held = i THEN 1 ELSE 0)
    + (IF \E k \in DOMAIN call.ahead : call.ahead[k] = i THEN 1 ELSE 0)

(* A buffer has a reference for each that holds it and no other, so that    *)
(* the pool loses none and frees none too early: blockput() (buffer.c:377), *)
(* clear_buffer_dirty_for_endio() (buffer.c:314), new_buffer().  A block    *)
(* has one buffer in the hash, and of a forked one the flush knows.         *)
PoolExact ==
    Running =>
        /\ \A i \in Ids : cache.buf[i].count = Holders(i)
        /\ \A i \in Ids : (cache.buf[i].state = "freed") = (Holders(i) = 0)
        /\ \A i, j \in Hashed(cache) :
              (i # j /\ cache.buf[i].map = "this" /\ cache.buf[j].map = "this")
                  => Index(i) # Index(j)
        /\ \A i \in Ids \ Hashed(cache) :
              Dirty(cache.buf[i]) => i \in flush.left \union Range(flush.contig)

(* The segments that map_region() gives for a read have blocks, and no more *)
(* than there are buffers: assert(i > 0) of bufvec_io() and assert(count <= *)
(* bufvec_contig_count(bufvec)) of bufvec_complete_without_io() hold        *)
(* (buffer_writeback.c:170, 192), where a hole extent begins inside an      *)
(* extent or at its first block too (kernel/filemap_hole.c:312, 319).       *)
SegmentsFit == abort \notin {"i > 0", "count <= bufvec_contig_count(bufvec)"}

TypeOK ==
    /\ size \in 0 .. Size /\ hole \in 0 .. NBlocks
    /\ \A i \in Ids : cache.buf[i].state \in {"freed", "empty", "clean", "dirty"}
=============================================================================
