--------------------------- MODULE FilePagesProofs ---------------------------
(* Proofs about FilePages, for any number of pages, deltas and calls: the   *)
(* device never reads a block that a call changes meanwhile, and no         *)
(* assertion of the buffer fork and of the writeback fires.                 *)
EXTENDS MCFrontend, FiniteSetTheorems, TLAPS

None == -1

(* What a unit of data and the address of a block hold.                     *)
Unit == {-1, 0} \union (1 .. MaxDelta)
Content == {<<>>} \union (Unit \X Unit)

(* A buffer of the page is dirty for the delta in the slot.                 *)
AnyDelta(pg, s) == \E b \in fp!Blocks : pg.buf[b].delta = s

(* A page between two steps.  A dirty buffer makes its page dirty and waits *)
(* for a page that is not at the device; a page is dirty for one delta.     *)
PageOK(pg) ==
    /\ pg \in fp!PageType
    /\ \A b \in fp!Blocks :
         /\ pg.buf[b].io => pg.writeback /\ pg.buf[b].uptodate /\ pg.buffers
         /\ pg.buf[b].delta # None =>
              pg.dirty /\ ~pg.writeback /\ pg.buf[b].uptodate /\ pg.buffers
    /\ ~(AnyDelta(pg, 0) /\ AnyDelta(pg, 1))
    /\ pg.writeback => pg.buffers
    /\ pg.uptodate /\ pg.buffers => \A b \in fp!Blocks : pg.buf[b].uptodate

(* A page that a call may change in the delta of the slot, and one with     *)
(* buffers: what pagefork_for_blockdirty() gives (kernel/buffer_fork.c:431).*)
Changeable(pg, s) == PageOK(pg) /\ ~pg.writeback /\ ~AnyDelta(pg, 1 - s)
Writable(pg, s) == Changeable(pg, s) /\ pg.buffers

(* A page that was filled: no buffer became dirty or clean, and what is at  *)
(* the device is as it was.                                                 *)
Like(new, was) ==
    /\ \A s \in fp!Slots : AnyDelta(new, s) <=> AnyDelta(was, s)
    /\ new.writeback <=> was.writeback
    /\ \A u \in fp!Units : was.buf[u \div 2].io => new.data[u] = was.data[u]

-----------------------------------------------------------------------------
(* What each operator of FilePages does to a page, one lemma for each.      *)

LEMMA PageFields ==
    ASSUME NEW pg \in fp!PageType
    PROVE  /\ pg.dirty \in BOOLEAN /\ pg.writeback \in BOOLEAN /\ pg.uptodate \in BOOLEAN
           /\ pg.buffers \in BOOLEAN /\ pg.data \in [fp!Units -> Unit]
           /\ pg.buf \in [fp!Blocks -> fp!Buffer]
BY DEF fp!PageType, Unit, fp!Junk

LEMMA NewPageOK ==
    ASSUME NEW s \in fp!Slots
    PROVE  Changeable(fp!NewPage, s)
BY DEF fp!NewPage, Changeable, PageOK, AnyDelta, fp!PageType, fp!EmptyBuffer, fp!Buffer,
       fp!Slots, fp!None, None, fp!Junk, fp!Blocks, fp!Units

LEMMA WithBuffersOK ==
    ASSUME NEW pg, PageOK(pg)
    PROVE  /\ PageOK(fp!WithBuffers(pg)) /\ fp!WithBuffers(pg).buffers
           /\ Like(fp!WithBuffers(pg), pg)
BY DEF fp!WithBuffers, PageOK, AnyDelta, fp!PageType, fp!EmptyBuffer, fp!Buffer, Like,
       fp!Slots, fp!None, None, fp!Junk, fp!Blocks, fp!Units

LEMMA BufferFields ==
    ASSUME NEW buffer \in fp!Buffer
    PROVE  /\ buffer.delta \in {None} \union fp!Slots /\ buffer.mapped \in BOOLEAN
           /\ buffer.uptodate \in BOOLEAN /\ buffer.new \in BOOLEAN /\ buffer.io \in BOOLEAN
BY DEF fp!Buffer, None, fp!None

LEMMA CloneOK ==
    ASSUME NEW pg, PageOK(pg), NEW s \in fp!Slots
    PROVE  Changeable(fp!clone_page(pg), s)
<1> DEFINE bufs == [b \in fp!Blocks |->
                       IF pg.buf[b].delta # fp!None THEN fp!Cleared(pg.buf[b])
                       ELSE [pg.buf[b] EXCEPT !.io = FALSE]]
           new == [pg EXCEPT !.dirty = FALSE, !.writeback = FALSE, !.buf = bufs]
<1>1. \A k \in fp!Blocks :
        /\ bufs[k] \in fp!Buffer /\ bufs[k].delta = None /\ ~bufs[k].io
        /\ bufs[k].uptodate = pg.buf[k].uptodate
    <2> SUFFICES ASSUME NEW k \in fp!Blocks
                 PROVE  /\ bufs[k] \in fp!Buffer /\ bufs[k].delta = None /\ ~bufs[k].io
                        /\ bufs[k].uptodate = pg.buf[k].uptodate
        OBVIOUS
    <2>1. /\ pg.buf[k] \in fp!Buffer
          /\ pg.buf[k].delta # None => ~pg.buf[k].io
        BY PageFields DEF PageOK
    <2>2. QED BY <2>1 DEF fp!Cleared, fp!Buffer, None, fp!None
<1>2. bufs \in [fp!Blocks -> fp!Buffer]
    BY <1>1
<1>3. fp!clone_page(pg) = new
    BY DEF fp!clone_page
<1> HIDE DEF bufs
<1>4. /\ new \in fp!PageType /\ new.buf = bufs /\ ~new.writeback
      /\ new.uptodate = pg.uptodate /\ new.buffers = pg.buffers
    BY <1>2 DEF PageOK, fp!PageType
<1> HIDE DEF new
<1>5. PageOK(new)
    BY <1>1, <1>4 DEF PageOK, AnyDelta
<1>6. ~AnyDelta(new, 1 - s)
    BY <1>1, <1>4 DEF AnyDelta, fp!Slots, None
<1>7. QED
    BY <1>3, <1>4, <1>5, <1>6 DEF Changeable

LEMMA MarkDirtyOK ==
    ASSUME NEW pg, NEW s \in fp!Slots, Writable(pg, s), NEW b \in fp!Blocks
    PROVE  Writable(fp!MarkDirty(pg, b, s), s)
<1> DEFINE new == fp!MarkDirty(pg, b, s)
<1>1. CASE pg.buf[b].delta # None
    BY <1>1 DEF fp!MarkDirty, None, fp!None
<1>2. CASE pg.buf[b].delta = None
    <2> DEFINE bufs == [pg.buf EXCEPT ![b] = [pg.buf[b] EXCEPT !.delta = s, !.uptodate = TRUE]]
    <2>1. /\ ~pg.writeback /\ pg.buffers /\ pg \in fp!PageType
          /\ \A k \in fp!Blocks :
                ~pg.buf[k].io /\ pg.buf[k].delta # 1 - s /\ pg.buf[k] \in fp!Buffer
          /\ \A k \in fp!Blocks : pg.buf[k].delta # None => pg.buf[k].uptodate
          /\ pg.uptodate => \A k \in fp!Blocks : pg.buf[k].uptodate
        BY PageFields DEF Writable, Changeable, PageOK, AnyDelta
    <2>2. \A k \in fp!Blocks :
            /\ bufs[k] \in fp!Buffer /\ ~bufs[k].io /\ bufs[k].delta # 1 - s
            /\ bufs[k].delta # None => bufs[k].uptodate
            /\ pg.buf[k].uptodate => bufs[k].uptodate
        <3>1. /\ bufs[b] = [pg.buf[b] EXCEPT !.delta = s, !.uptodate = TRUE]
              /\ \A k \in fp!Blocks \ {b} : bufs[k] = pg.buf[k]
            BY <2>1, PageFields
        <3> HIDE DEF bufs
        <3>2. pg.buf[b] \in fp!Buffer /\ ~pg.buf[b].io
            BY <2>1
        <3>3. /\ bufs[b] \in fp!Buffer /\ ~bufs[b].io /\ bufs[b].delta = s /\ bufs[b].uptodate
            BY ONLY <3>1, <3>2, s \in fp!Slots DEF fp!Buffer, fp!Slots
        <3>4. bufs[b].delta # 1 - s
            BY <3>3 DEF fp!Slots
        <3>5. \A k \in fp!Blocks \ {b} :
                /\ bufs[k] \in fp!Buffer /\ ~bufs[k].io /\ bufs[k].delta # 1 - s
                /\ bufs[k].delta # None => bufs[k].uptodate
                /\ pg.buf[k].uptodate => bufs[k].uptodate
            BY <2>1, <3>1
        <3>6. /\ bufs[b] \in fp!Buffer /\ ~bufs[b].io /\ bufs[b].delta # 1 - s
              /\ bufs[b].delta # None => bufs[b].uptodate
              /\ pg.buf[b].uptodate => bufs[b].uptodate
            BY <3>3, <3>4
        <3>7. QED BY <3>5, <3>6
    <2>3. bufs \in [fp!Blocks -> fp!Buffer]
        <3>1. pg.buf \in [fp!Blocks -> fp!Buffer]
            BY <2>1, PageFields
        <3>2. [pg.buf[b] EXCEPT !.delta = s, !.uptodate = TRUE] \in fp!Buffer
            BY <2>1 DEF fp!Buffer, fp!Slots
        <3>3. QED BY <3>1, <3>2
    <2>4. new = [pg EXCEPT !.dirty = TRUE, !.buf = bufs]
        BY <1>2, <2>1 DEF fp!MarkDirty, fp!PageType, None, fp!None
    <2> HIDE DEF bufs, new
    <2>5. /\ new \in fp!PageType /\ new.buf = bufs /\ ~new.writeback /\ new.buffers /\ new.dirty
          /\ new.uptodate = pg.uptodate
        BY <2>1, <2>3, <2>4 DEF fp!PageType
    <2>6. ~AnyDelta(new, 1 - s) /\ ~(AnyDelta(new, 0) /\ AnyDelta(new, 1))
        BY <2>2, <2>5 DEF AnyDelta, fp!Slots
    <2>7. \A k \in fp!Blocks :
            /\ ~new.buf[k].io
            /\ new.buf[k].delta # None =>
                 new.dirty /\ ~new.writeback /\ new.buf[k].uptodate /\ new.buffers
        BY <2>2, <2>5
    <2>10. new.uptodate => \A k \in fp!Blocks : new.buf[k].uptodate
        BY <2>1, <2>2, <2>5
    <2>8. Writable(new, s)
        BY <2>5, <2>6, <2>7, <2>10 DEF Writable, Changeable, PageOK
    <2>9. QED BY <2>8 DEF new
<1>3. QED BY <1>1, <1>2

LEMMA ZeroFillOK ==
    ASSUME NEW pg, PageOK(pg), NEW from, NEW to
    PROVE  /\ PageOK(fp!ZeroFill(pg, from, to))
           /\ fp!ZeroFill(pg, from, to).buf = pg.buf
           /\ fp!ZeroFill(pg, from, to).writeback = pg.writeback
           /\ fp!ZeroFill(pg, from, to).buffers = pg.buffers
BY DEF fp!ZeroFill, PageOK, AnyDelta, fp!PageType, fp!Buffer, 
       fp!Slots, fp!None, None, fp!Junk, fp!Blocks, fp!Units

LEMMA InvalidateOK ==
    ASSUME NEW pg, NEW s \in fp!Slots, Writable(pg, s), NEW offset
    PROVE  Writable(fp!Invalidate(pg, offset), s)
<1> DEFINE kept == [b \in fp!Blocks |-> IF 2 * b >= offset THEN fp!Discarded(pg.buf[b])
                                       ELSE pg.buf[b]]
           new == fp!Invalidate(pg, offset)
<1>1. /\ ~pg.writeback /\ pg.buffers /\ pg \in fp!PageType
      /\ \A k \in fp!Blocks :
            /\ pg.buf[k] \in fp!Buffer /\ ~pg.buf[k].io /\ pg.buf[k].delta # 1 - s
            /\ pg.buf[k].delta # None => pg.dirty /\ pg.buf[k].uptodate
            /\ pg.uptodate => pg.buf[k].uptodate
    BY PageFields DEF Writable, Changeable, PageOK, AnyDelta
<1>2. \A k \in fp!Blocks :
        /\ kept[k] \in fp!Buffer /\ ~kept[k].io /\ kept[k].delta # 1 - s
        /\ kept[k].delta # None => pg.dirty /\ kept[k].uptodate
        /\ pg.uptodate => kept[k].uptodate
    <2> SUFFICES ASSUME NEW k \in fp!Blocks
                 PROVE /\ kept[k] \in fp!Buffer /\ ~kept[k].io /\ kept[k].delta # 1 - s
                       /\ kept[k].delta # None => pg.dirty /\ kept[k].uptodate
                       /\ pg.uptodate => kept[k].uptodate
        OBVIOUS
    <2>1. fp!Discarded(pg.buf[k]) \in fp!Buffer /\ ~fp!Discarded(pg.buf[k]).io 
          /\ fp!Discarded(pg.buf[k]).delta = None
          /\ fp!Discarded(pg.buf[k]).uptodate = pg.buf[k].uptodate
        BY <1>1 DEF fp!Discarded, fp!Buffer, fp!None, None
    <2>2. QED BY <1>1, <2>1 DEF None, fp!Slots
<1>3. kept \in [fp!Blocks -> fp!Buffer]
    BY <1>2
<1>4. new = [pg EXCEPT !.buf = kept, !.dirty = pg.dirty /\ fp!AnyDirty(kept)]
    BY <1>1 DEF fp!Invalidate, fp!PageType
<1> HIDE DEF kept, new
<1>5. /\ new \in fp!PageType /\ new.buf = kept /\ ~new.writeback /\ new.buffers 
      /\ new.uptodate = pg.uptodate /\ (new.dirty <=> pg.dirty /\ fp!AnyDirty(kept))
    BY <1>1, <1>3, <1>4 DEF fp!PageType
<1>6. ~AnyDelta(new, 1 - s) /\ ~(AnyDelta(new, 0) /\ AnyDelta(new, 1))
    BY <1>2, <1>5 DEF AnyDelta, fp!Slots
<1>7. \A k \in fp!Blocks :
        /\ ~new.buf[k].io
        /\ new.buf[k].delta # None =>
             new.dirty /\ ~new.writeback /\ new.buf[k].uptodate /\ new.buffers
        /\ new.uptodate => new.buf[k].uptodate
    BY <1>2, <1>5 DEF fp!AnyDirty, None, fp!None
<1>8. Writable(new, s)
    BY <1>5, <1>6, <1>7 DEF Writable, Changeable, PageOK
<1>9. QED BY <1>8 DEF new

LEMMA SetBuffer ==
    ASSUME NEW pg, PageOK(pg), NEW b \in fp!Blocks, NEW buffer \in fp!Buffer,
           buffer.delta = pg.buf[b].delta, buffer.io = pg.buf[b].io,
           pg.buf[b].uptodate => buffer.uptodate
    PROVE  /\ PageOK([pg EXCEPT !.buf[b] = buffer]) /\ Like([pg EXCEPT !.buf[b] = buffer], pg)
           /\ [pg EXCEPT !.buf[b] = buffer].buffers = pg.buffers
<1> DEFINE bufs == [pg.buf EXCEPT ![b] = buffer]
           new == [pg EXCEPT !.buf[b] = buffer]
<1>1. bufs \in [fp!Blocks -> fp!Buffer]
    BY PageFields DEF PageOK
<1>2. \A k \in fp!Blocks :
        /\ bufs[k].delta = pg.buf[k].delta /\ bufs[k].io = pg.buf[k].io
        /\ pg.buf[k].uptodate => bufs[k].uptodate
    BY PageFields DEF PageOK
<1>3. new = [pg EXCEPT !.buf = bufs]
    BY DEF PageOK, fp!PageType
<1> HIDE DEF bufs, new
<1>4. /\ new \in fp!PageType /\ new.buf = bufs /\ new.data = pg.data
      /\ new.writeback <=> pg.writeback
      /\ new.dirty <=> pg.dirty
      /\ new.buffers = pg.buffers /\ new.uptodate = pg.uptodate
    BY <1>1, <1>3 DEF PageOK, fp!PageType
<1>5. \A k \in fp!Blocks : new.buf[k].delta = pg.buf[k].delta /\ new.buf[k].io = pg.buf[k].io
                            /\ (pg.buf[k].uptodate => new.buf[k].uptodate)
    BY <1>2, <1>4
<1>6. \A s \in fp!Slots : AnyDelta(new, s) <=> AnyDelta(pg, s)
    BY <1>5 DEF AnyDelta
<1>7. PageOK(new)
    BY <1>4, <1>5, <1>6 DEF PageOK, fp!Slots
<1>8. Like(new, pg)
    BY <1>4, <1>6 DEF Like
<1>9. QED BY <1>4, <1>7, <1>8 DEF new

LEMMA ReadBlockOK ==
    ASSUME NEW pg, PageOK(pg), NEW b \in fp!Blocks, NEW content \in Content, ~pg.buf[b].uptodate
    PROVE  /\ PageOK(fp!ReadBlock(pg, b, content)) /\ Like(fp!ReadBlock(pg, b, content), pg)
           /\ fp!ReadBlock(pg, b, content).buffers = pg.buffers
<1> DEFINE buffer == [pg.buf[b] EXCEPT !.uptodate = TRUE, !.mapped = content # fp!Hole]
           data == [u \in fp!Units |->
                       IF fp!BlockOf(u) = b THEN fp!DataOf(content, u) ELSE pg.data[u]]
           with == [pg EXCEPT !.buf[b] = buffer]
           new == fp!ReadBlock(pg, b, content)
<1>1. pg \in fp!PageType /\ pg.buf[b] \in fp!Buffer
    BY PageFields DEF PageOK
<1>2. /\ buffer \in fp!Buffer /\ buffer.delta = pg.buf[b].delta
      /\ buffer.io = pg.buf[b].io /\ buffer.uptodate
    BY <1>1 DEF fp!Buffer
<1>3. data \in [fp!Units -> Unit]
    BY <1>1, PageFields DEF fp!DataOf, fp!BlockOf, fp!Hole, Content, Unit, fp!Units
<1>4. \A u \in fp!Units : pg.buf[u \div 2].io => data[u] = pg.data[u]
    BY DEF PageOK, fp!BlockOf, fp!Units, fp!Blocks
<1>5. new = [with EXCEPT !.data = data]
    BY DEF fp!ReadBlock
<1> HIDE DEF buffer
<1>6. PageOK(with) /\ Like(with, pg) /\ with.buffers = pg.buffers
    BY <1>2, SetBuffer
<1> HIDE DEF data, with, new
<1>7. with \in fp!PageType
    BY <1>6 DEF PageOK
<1>8. /\ new \in fp!PageType /\ new.buf = with.buf /\ new.data = data
      /\ (new.writeback <=> with.writeback) /\ (new.dirty <=> with.dirty)
      /\ new.buffers = with.buffers /\ new.uptodate = with.uptodate
    BY <1>3, <1>5, <1>7 DEF fp!PageType, Unit, fp!Junk
<1>9. PageOK(new) 
    BY <1>6, <1>8 DEF PageOK, AnyDelta
<1>10. Like(new, pg)
    BY <1>4, <1>6, <1>8 DEF Like, AnyDelta
<1>11. QED BY <1>6, <1>8, <1>9, <1>10 DEF new

LEMMA LikeWritable ==
    ASSUME NEW s \in fp!Slots, NEW pg, NEW new, PageOK(new), Like(new, pg)
    PROVE  /\ Changeable(pg, s) => Changeable(new, s)
           /\ Writable(pg, s) /\ new.buffers = pg.buffers => Writable(new, s)
BY DEF Like, Changeable, Writable, fp!Slots

LEMMA ZeroFillWritable ==
    ASSUME NEW s \in fp!Slots, NEW pg, NEW from, NEW to
    PROVE  /\ Changeable(pg, s) => Changeable(fp!ZeroFill(pg, from, to), s)
           /\ Writable(pg, s) => Writable(fp!ZeroFill(pg, from, to), s)
BY ZeroFillOK DEF Changeable, Writable, AnyDelta

LEMMA NeedFork ==
    ASSUME NEW s \in fp!Slots, NEW pg, PageOK(pg), NEW b \in fp!Blocks
    PROVE  /\ ~fp!need_fork(pg, b, s) => Changeable(pg, s)
           /\ fp!need_fork(pg, b, s) => ~AnyDelta(pg, s)
<1>1. \A k \in fp!Blocks :
        /\ pg.buf[k] \in fp!Buffer
        /\ pg.buf[k].delta \in {None, s, 1 - s}
        /\ pg.buf[k].delta # None => pg.dirty /\ ~pg.writeback
    BY PageFields DEF PageOK, fp!Buffer, fp!Slots, None, fp!None
<1>2. ~(AnyDelta(pg, s) /\ AnyDelta(pg, 1 - s))
    BY DEF PageOK, fp!Slots
<1>3. QED
    BY <1>1, <1>2 DEF fp!need_fork, fp!buffer_can_modify, Changeable, AnyDelta, fp!Blocks,
                      fp!Slots, None, fp!None

LEMMA PreparedOK ==
    ASSUME NEW s \in fp!Slots, NEW pg, Writable(pg, s), NEW b \in fp!Blocks, NEW from, NEW to,
           fp!Lookup(b) \in Content
    PROVE  Writable(fp!Prepared(pg, b, from, to), s)
<1> DEFINE partial == from > 2 * b \/ to < 2 * b + 2
           uptodate == pg.buf[b].uptodate \/ pg.uptodate
           content == fp!tux3_da_get_block(uptodate, b)
           zeroed == IF partial /\ ~pg.uptodate
                     THEN fp!ZeroFill(fp!ZeroFill(pg, to, 2 * b + 2), 2 * b, from) ELSE pg
           mapped == [zeroed EXCEPT !.buf[b] = [@ EXCEPT !.mapped = TRUE, !.new = TRUE,
                                                         !.uptodate = uptodate]]
           same == [pg EXCEPT !.buf[b] = [@ EXCEPT !.mapped = TRUE, !.uptodate = uptodate,
                                                   !.new = FALSE]]
           alone == [pg EXCEPT !.buf[b] = [@ EXCEPT !.uptodate = uptodate]]
           read == fp!ReadBlock(pg, b, fp!Lookup(b))
<1>1. PageOK(pg) /\ pg \in fp!PageType /\ pg.buf[b] \in fp!Buffer
    BY PageFields DEF Writable, Changeable, PageOK
<1>2. Writable(zeroed, s) /\ zeroed.buf = pg.buf
    BY <1>1, ZeroFillWritable, ZeroFillOK
<1>3. PageOK(zeroed) /\ zeroed.buf[b] \in fp!Buffer
    BY <1>1, <1>2 DEF Writable, Changeable
<1>4. uptodate \in BOOLEAN /\ (pg.buf[b].uptodate => uptodate)
    BY <1>1, PageFields, BufferFields
<1> HIDE DEF zeroed, uptodate
<1>5. Writable(mapped, s)
    <2> DEFINE buffer == [zeroed.buf[b] EXCEPT !.mapped = TRUE, !.new = TRUE, !.uptodate = uptodate]
    <2>1. /\ buffer \in fp!Buffer /\ buffer.delta = zeroed.buf[b].delta
          /\ buffer.io = zeroed.buf[b].io /\ (zeroed.buf[b].uptodate => buffer.uptodate)
        BY <1>2, <1>3, <1>4 DEF fp!Buffer
    <2>2. mapped = [zeroed EXCEPT !.buf[b] = buffer]
        OBVIOUS
    <2> HIDE DEF buffer, mapped
    <2>3. PageOK(mapped) /\ Like(mapped, zeroed) /\ mapped.buffers = zeroed.buffers
        BY <1>3, <2>1, <2>2, SetBuffer
    <2>4. Writable(mapped, s)
        BY <1>2, <2>3, LikeWritable
    <2>5. QED BY <2>4 DEF mapped
<1>6. Writable(same, s)
    <2> DEFINE buffer == [pg.buf[b] EXCEPT !.mapped = TRUE, !.uptodate = uptodate, !.new = FALSE]
    <2>1. /\ buffer \in fp!Buffer /\ buffer.delta = pg.buf[b].delta
          /\ buffer.io = pg.buf[b].io /\ (pg.buf[b].uptodate => buffer.uptodate)
        BY <1>1, <1>4 DEF fp!Buffer
    <2>2. same = [pg EXCEPT !.buf[b] = buffer]
        OBVIOUS
    <2> HIDE DEF buffer, same
    <2>3. PageOK(same) /\ Like(same, pg) /\ same.buffers = pg.buffers
        BY <1>1, <2>1, <2>2, SetBuffer
    <2>4. Writable(same, s)
        BY <2>3, LikeWritable
    <2>5. QED BY <2>4 DEF same
<1>7. Writable(alone, s)
    <2> DEFINE buffer == [pg.buf[b] EXCEPT !.uptodate = uptodate]
    <2>1. /\ buffer \in fp!Buffer /\ buffer.delta = pg.buf[b].delta
          /\ buffer.io = pg.buf[b].io /\ (pg.buf[b].uptodate => buffer.uptodate)
        BY <1>1, <1>4 DEF fp!Buffer
    <2>2. alone = [pg EXCEPT !.buf[b] = buffer]
        OBVIOUS
    <2> HIDE DEF buffer, alone
    <2>3. PageOK(alone) /\ Like(alone, pg) /\ alone.buffers = pg.buffers
        BY <1>1, <2>1, <2>2, SetBuffer
    <2>4. Writable(alone, s)
        BY <2>3, LikeWritable
    <2>5. QED BY <2>4 DEF alone
<1>8. ~uptodate => Writable(read, s)
    BY <1>1, <1>4, ReadBlockOK, LikeWritable
<1>9. fp!Prepared(pg, b, from, to) \in {mapped, same, alone} 
      \/ (~uptodate /\ fp!Prepared(pg, b, from, to) = read)
    BY DEF fp!Prepared, uptodate, zeroed
<1>10. QED
    <2> HIDE DEF mapped, same, alone, read
    <2>1. QED BY <1>5, <1>6, <1>7, <1>8, <1>9
LEMMA ZeroNewOK ==
    ASSUME NEW pg, fp!slot \in fp!Slots, Writable(pg, fp!slot), NEW b \in fp!Blocks,
           NEW from, NEW to
    PROVE  Writable(fp!ZeroNew(pg, b, from, to), fp!slot)
BY MarkDirtyOK, ZeroFillWritable DEF fp!ZeroNew

LEMMA CommitOK ==
    ASSUME NEW pg, fp!slot \in fp!Slots, Writable(pg, fp!slot), NEW from, NEW to
    PROVE  Writable(fp!Commit(pg, from, to), fp!slot)
<1> DEFINE covers(b) == 2 * b + 2 > from /\ 2 * b < to
           one == IF covers(0) THEN fp!MarkDirty(pg, 0, fp!slot) ELSE pg
           two == IF covers(1) THEN fp!MarkDirty(one, 1, fp!slot) ELSE one
           uptodate == two.uptodate \/ \A b \in fp!Blocks : two.buf[b].uptodate
           bufs == [b \in fp!Blocks |-> [two.buf[b] EXCEPT !.new = FALSE]]
           new == [two EXCEPT !.uptodate = uptodate, !.buf = bufs]
<1>1. Writable(one, fp!slot)
    BY MarkDirtyOK DEF fp!Blocks
<1>2. Writable(two, fp!slot)
    BY <1>1, MarkDirtyOK DEF fp!Blocks
<1>3. fp!Commit(pg, from, to) = new
    BY DEF fp!Commit
<1> HIDE DEF two
<1>4. /\ two \in fp!PageType /\ PageOK(two)
      /\ \A k \in fp!Blocks : two.buf[k] \in fp!Buffer
    BY <1>2, PageFields DEF Writable, Changeable, PageOK
<1>5. \A k \in fp!Blocks :
        /\ bufs[k] \in fp!Buffer /\ bufs[k].delta = two.buf[k].delta
        /\ bufs[k].io = two.buf[k].io /\ bufs[k].uptodate = two.buf[k].uptodate
    BY <1>4 DEF fp!Buffer
<1>6. uptodate \in BOOLEAN /\ bufs \in [fp!Blocks -> fp!Buffer]
    BY <1>4, <1>5, PageFields
<1> HIDE DEF bufs, uptodate
<1>7. /\ new \in fp!PageType /\ new.buf = bufs
      /\ (new.writeback <=> two.writeback) /\ (new.dirty <=> two.dirty)
      /\ new.buffers = two.buffers /\ new.uptodate = uptodate
    BY <1>4, <1>6 DEF fp!PageType
<1> HIDE DEF new
<1>8. \A s \in fp!Slots : AnyDelta(new, s) <=> AnyDelta(two, s)
    BY <1>5, <1>7 DEF AnyDelta
<1>11. /\ new.writeback => new.buffers
       /\ new.uptodate /\ new.buffers => \A k \in fp!Blocks : new.buf[k].uptodate
    BY <1>4, <1>5, <1>7 DEF PageOK, uptodate
<1>9. PageOK(new)
    BY <1>4, <1>5, <1>7, <1>8, <1>11 DEF PageOK, fp!Slots
<1>10. QED
    BY <1>2, <1>3, <1>7, <1>8, <1>9 DEF Writable, Changeable, fp!Slots

LEMMA DataOK ==
    ASSUME NEW s \in fp!Slots, NEW pg, Writable(pg, s), NEW data \in [fp!Units -> Unit]
    PROVE  Writable([pg EXCEPT !.data = data], s)
<1> DEFINE new == [pg EXCEPT !.data = data]
<1>1. pg \in fp!PageType
    BY DEF Writable, Changeable, PageOK
<1>2. /\ new \in fp!PageType /\ new.buf = pg.buf
      /\ (new.writeback <=> pg.writeback) /\ (new.dirty <=> pg.dirty)
      /\ new.buffers = pg.buffers /\ new.uptodate = pg.uptodate
    BY <1>1 DEF fp!PageType, Unit, fp!Junk
<1> HIDE DEF new
<1>3. Writable(new, s)
    BY <1>2 DEF Writable, Changeable, PageOK, AnyDelta
<1>4. QED BY <1>3 DEF new

LEMMA WrittenOK ==
    ASSUME NEW pg, fp!slot \in fp!Slots, Writable(pg, fp!slot), pdelta \in Unit,
           NEW from, NEW to, NEW copied
    PROVE  Writable(fp!Written(pg, from, to, copied), fp!slot)
<1> DEFINE data == [u \in fp!Units |->
                       IF u \in from .. from + copied - 1 THEN pdelta ELSE pg.data[u]]
           new == [pg EXCEPT !.data = data]
           zeroed == IF from + copied < to
                     THEN fp!ZeroNew(fp!ZeroNew(new, 0, from + copied, to), 1, from + copied, to)
                     ELSE new
<1>1. data \in [fp!Units -> Unit]
    BY PageFields DEF Writable, Changeable, PageOK
<1> HIDE DEF data
<1>2. Writable(new, fp!slot)
    BY <1>1, DataOK
<1> HIDE DEF new
<1>3. Writable(zeroed, fp!slot)
    <2>1. Writable(fp!ZeroNew(new, 0, from + copied, to), fp!slot)
        BY <1>2, ZeroNewOK DEF fp!Blocks
    <2>2. Writable(fp!ZeroNew(fp!ZeroNew(new, 0, from + copied, to), 1, from + copied, to), fp!slot)
        BY <2>1, ZeroNewOK DEF fp!Blocks
    <2>3. QED BY <1>2, <2>2
<1>4. fp!Written(pg, from, to, copied) = fp!Commit(zeroed, from, from + copied)
    BY DEF fp!Written, zeroed, new, data
<1> HIDE DEF zeroed
<1>5. QED BY <1>3, <1>4, CommitOK

LEMMA FailedOK ==
    ASSUME NEW s \in fp!Slots, NEW pg, Writable(pg, s)
    PROVE  Writable(fp!Failed(pg), s)
BY ZeroFillWritable, InvalidateOK DEF fp!Failed

LEMMA BoundaryBlockOK ==
    ASSUME NEW pg, fp!slot \in fp!Slots, Changeable(pg, fp!slot), NEW newsize
    PROVE  Changeable(fp!BoundaryBlock(pg, newsize), fp!slot)
<1>1. CASE pg.buffers
    <2>1. Writable(fp!MarkDirty(pg, 1, fp!slot), fp!slot)
        BY <1>1, MarkDirtyOK DEF Writable, fp!Blocks
    <2>2. Changeable(fp!MarkDirty(pg, 1, fp!slot), fp!slot)
        BY <2>1 DEF Writable
    <2>3. QED BY <1>1, <2>2, ZeroFillWritable DEF fp!BoundaryBlock
<1>2. CASE ~pg.buffers
    BY <1>2, ZeroFillWritable DEF fp!BoundaryBlock
<1>3. QED BY <1>1, <1>2

LEMMA PartialBlockOK ==
    ASSUME NEW pg, fp!slot \in fp!Slots, Writable(pg, fp!slot), NEW newsize, NEW b \in fp!Blocks,
           fp!Lookup(b) \in Content
    PROVE  Writable(fp!PartialBlock(pg, newsize, b), fp!slot)
<1> DEFINE s == fp!slot
           update == [pg EXCEPT !.buf[b].uptodate = TRUE]
           read == IF pg.buf[b].uptodate \/ pg.uptodate THEN update
                   ELSE fp!ReadBlock(pg, b, fp!Lookup(b))
           mapped == [read EXCEPT !.buf[b].mapped = TRUE]
<1>1. PageOK(pg) /\ pg.buf[b] \in fp!Buffer
    BY PageFields DEF Writable, Changeable, PageOK
<1>2. Writable(update, s)
    <2> DEFINE buffer == [pg.buf[b] EXCEPT !.uptodate = TRUE]
    <2>1. /\ buffer \in fp!Buffer /\ buffer.delta = pg.buf[b].delta
          /\ buffer.io = pg.buf[b].io /\ buffer.uptodate
        BY <1>1 DEF fp!Buffer
    <2>2. update = [pg EXCEPT !.buf[b] = buffer]
        OBVIOUS
    <2> HIDE DEF buffer, update
    <2>3. PageOK(update) /\ Like(update, pg) /\ update.buffers = pg.buffers
        BY <1>1, <2>1, <2>2, SetBuffer
    <2>4. QED BY <2>3, LikeWritable
<1>3. Writable(read, s)
    <2> HIDE DEF update
    <2>1. ~(pg.buf[b].uptodate \/ pg.uptodate) => Writable(fp!ReadBlock(pg, b, fp!Lookup(b)), s)
        BY <1>1, ReadBlockOK, LikeWritable
    <2>2. QED BY <1>2, <2>1
<1> HIDE DEF read
<1>4. PageOK(read) /\ read.buf[b] \in fp!Buffer
    BY <1>3, PageFields DEF Writable, Changeable, PageOK
<1>5. Writable(mapped, s)
    <2> DEFINE buffer == [read.buf[b] EXCEPT !.mapped = TRUE]
    <2>1. /\ buffer \in fp!Buffer /\ buffer.delta = read.buf[b].delta
          /\ buffer.io = read.buf[b].io /\ (read.buf[b].uptodate => buffer.uptodate)
        BY <1>4 DEF fp!Buffer
    <2>2. mapped = [read EXCEPT !.buf[b] = buffer]
        OBVIOUS
    <2> HIDE DEF buffer, mapped
    <2>3. PageOK(mapped) /\ Like(mapped, read) /\ mapped.buffers = read.buffers
        BY <1>4, <2>1, <2>2, SetBuffer
    <2>4. QED BY <1>3, <2>3, LikeWritable
<1>6. fp!PartialBlock(pg, newsize, b)
        = fp!Invalidate(fp!ZeroFill(fp!MarkDirty(mapped, b, s), newsize, 4), newsize)
    BY DEF fp!PartialBlock, read
<1> HIDE DEF mapped
<1>7. Writable(fp!MarkDirty(mapped, b, s), s)
    BY <1>5, MarkDirtyOK
<1>8. Writable(fp!ZeroFill(fp!MarkDirty(mapped, b, s), newsize, 4), s)
    BY <1>7, ZeroFillWritable
<1>9. QED BY <1>6, <1>8, InvalidateOK

LEMMA blockgetOK ==
    ASSUME NEW pg, PageOK(pg), NEW b \in fp!Blocks
    PROVE  /\ PageOK(fp!blockget(pg, b)) /\ Like(fp!blockget(pg, b), pg)
           /\ fp!blockget(pg, b).buffers
<1> DEFINE found == fp!WithBuffers(pg)
           buffer == [found.buf[b] EXCEPT !.mapped = TRUE, !.uptodate = TRUE]
<1>1. PageOK(found) /\ found.buffers /\ Like(found, pg)
    BY WithBuffersOK
<1>2. fp!blockget(pg, b) = [found EXCEPT !.buf[b] = buffer]
    BY DEF fp!blockget
<1> HIDE DEF found
<1>3. found.buf[b] \in fp!Buffer
    BY <1>1, PageFields DEF PageOK
<1>4. /\ buffer \in fp!Buffer /\ buffer.delta = found.buf[b].delta
      /\ buffer.io = found.buf[b].io /\ buffer.uptodate
    BY <1>3 DEF fp!Buffer
<1> HIDE DEF buffer
<1>5. PageOK(fp!blockget(pg, b)) /\ Like(fp!blockget(pg, b), found)
      /\ fp!blockget(pg, b).buffers = found.buffers
    BY <1>1, <1>2, <1>4, SetBuffer
<1>6. \A u \in fp!Units : found.buf[u \div 2].io <=> pg.buf[u \div 2].io
    BY DEF found, fp!WithBuffers, PageOK, fp!EmptyBuffer, fp!Units, fp!Blocks
<1>7. QED BY <1>1, <1>5, <1>6 DEF Like

LEMMA FilledOK ==
    ASSUME NEW s \in fp!Slots, NEW isize, NEW c0 \in Content, NEW c1 \in Content
    PROVE  Changeable(fp!Filled(isize, c0, c1), s)
<1> DEFINE data == [u \in fp!Units |-> IF fp!BlockOf(u) >= fp!BlocksIn(isize) THEN 0
                        ELSE fp!DataOf(IF fp!BlockOf(u) = 0 THEN c0 ELSE c1, u)]
           new == [fp!NewPage EXCEPT !.uptodate = TRUE, !.data = data]
<1>1. data \in [fp!Units -> Unit]
    BY DEF fp!DataOf, fp!BlockOf, fp!Hole, Content, Unit, fp!Units
<1>2. fp!Filled(isize, c0, c1) = new
    BY DEF fp!Filled
<1> HIDE DEF data
<1>3. fp!NewPage \in fp!PageType /\ Changeable(fp!NewPage, s)
    BY NewPageOK DEF Changeable, PageOK
<1>4. /\ new \in fp!PageType /\ new.buf = fp!NewPage.buf
      /\ (new.writeback <=> fp!NewPage.writeback) /\ (new.dirty <=> fp!NewPage.dirty)
      /\ new.buffers = fp!NewPage.buffers
    BY <1>1, <1>3 DEF fp!PageType, Unit, fp!Junk
<1>7. ~fp!NewPage.buffers
    BY DEF fp!NewPage
<1> HIDE DEF new
<1>5. Changeable(new, s)
    BY <1>3, <1>4, <1>7 DEF Changeable, PageOK, AnyDelta
<1>6. QED BY <1>2, <1>5

LEMMA CancelledOK ==
    ASSUME NEW pg, PageOK(pg), fp!slot \in fp!Slots, AnyDelta(pg, fp!old), NEW outside \in Nat
    PROVE  /\ PageOK(fp!Cancelled(pg, outside))
           /\ ~AnyDelta(fp!Cancelled(pg, outside), fp!slot)
           /\ ~fp!Cancelled(pg, outside).writeback
           /\ fp!Cancelled(pg, outside).data = pg.data
           /\ \A b \in fp!Blocks : fp!Cancelled(pg, outside).buf[b].delta = fp!old
                                 <=> pg.buf[b].delta = fp!old /\ b < outside
<1> DEFINE bufs == [b \in fp!Blocks |->
                       IF pg.buf[b].delta = fp!old /\ b >= outside
                       THEN fp!Cleared(pg.buf[b]) ELSE pg.buf[b]]
           dirty == pg.dirty /\ outside > 0 /\ fp!AnyDirty(bufs)
           new == [pg EXCEPT !.buf = bufs, !.dirty = dirty]
<1>1. fp!old \in fp!Slots /\ fp!old # fp!slot /\ {fp!old, fp!slot} = {0, 1} /\ None \notin fp!Slots
    BY DEF fp!old, fp!Slots, None
<1>2. /\ pg \in fp!PageType /\ ~pg.writeback
      /\ \A k \in fp!Blocks :
            /\ pg.buf[k] \in fp!Buffer /\ ~pg.buf[k].io /\ pg.buf[k].delta \in {None, fp!old}
            /\ pg.buf[k].delta # None => pg.dirty /\ pg.buf[k].uptodate /\ pg.buffers
    <2>1. pg \in fp!PageType /\ ~pg.writeback /\ ~AnyDelta(pg, fp!slot)
        BY <1>1 DEF PageOK, AnyDelta
    <2>2. \A k \in fp!Blocks : pg.buf[k] \in fp!Buffer /\ pg.buf[k].delta \in {None} \union fp!Slots
        BY <2>1, PageFields, BufferFields
    <2>3. \A k \in fp!Blocks : pg.buf[k].delta \in {None, fp!old}
        BY <1>1, <2>1, <2>2 DEF AnyDelta, fp!Slots
    <2>4. QED BY <2>1, <2>2, <2>3 DEF PageOK
<1>3. \A k \in fp!Blocks :
        /\ bufs[k] \in fp!Buffer /\ ~bufs[k].io
        /\ bufs[k].delta # None => pg.dirty /\ bufs[k].uptodate /\ pg.buffers
        /\ bufs[k].delta = fp!old <=> pg.buf[k].delta = fp!old /\ k < outside
        /\ bufs[k].delta \in {None, fp!old} /\ bufs[k].uptodate = pg.buf[k].uptodate
    <2> SUFFICES ASSUME NEW k \in fp!Blocks
                 PROVE /\ bufs[k] \in fp!Buffer /\ ~bufs[k].io
                       /\ bufs[k].delta # None => pg.dirty /\ bufs[k].uptodate /\ pg.buffers
                       /\ bufs[k].delta = fp!old <=> pg.buf[k].delta = fp!old /\ k < outside
                       /\ bufs[k].delta \in {None, fp!old} /\ bufs[k].uptodate = pg.buf[k].uptodate
        OBVIOUS
    <2>1. /\ fp!Cleared(pg.buf[k]) \in fp!Buffer /\ ~fp!Cleared(pg.buf[k]).io 
          /\ fp!Cleared(pg.buf[k]).delta = None
          /\ fp!Cleared(pg.buf[k]).uptodate = pg.buf[k].uptodate
        BY <1>2 DEF fp!Cleared, fp!Buffer, fp!None, None
    <2>2. k \in Nat
        BY DEF fp!Blocks
    <2>3. CASE pg.buf[k].delta = fp!old /\ k >= outside
        <3>1. bufs[k] = fp!Cleared(pg.buf[k])
            BY <2>3
        <3> HIDE DEF bufs
        <3>2. ~(k < outside)
            BY <2>2, <2>3
        <3>3. QED BY <1>1, <2>1, <3>1, <3>2
    <2>4. CASE ~(pg.buf[k].delta = fp!old /\ k >= outside)
        <3>1. bufs[k] = pg.buf[k]
            BY <2>4
        <3> HIDE DEF bufs
        <3>2. pg.buf[k].delta = fp!old => k < outside
            BY <2>2, <2>4
        <3>3. QED BY <1>2, <3>1, <3>2
    <2>5. QED BY <2>3, <2>4
<1>4. bufs \in [fp!Blocks -> fp!Buffer] /\ dirty \in BOOLEAN
    BY <1>2, <1>3, PageFields
<1>5. \A k \in fp!Blocks : bufs[k].delta # None => dirty
    BY <1>3 DEF fp!AnyDirty, None, fp!None, fp!Blocks
<1>6. fp!Cancelled(pg, outside) = new
    BY DEF fp!Cancelled
<1> HIDE DEF bufs, dirty
<1>7. /\ new \in fp!PageType /\ new.buf = bufs /\ new.data = pg.data
      /\ (new.writeback <=> pg.writeback) /\ (new.dirty <=> dirty)
      /\ new.buffers = pg.buffers /\ new.uptodate = pg.uptodate
    BY <1>2, <1>4 DEF fp!PageType
<1> HIDE DEF new
<1>8. ~AnyDelta(new, fp!slot)
    BY <1>1, <1>3, <1>7 DEF AnyDelta
<1>9. ~(AnyDelta(new, 0) /\ AnyDelta(new, 1))
    BY <1>1, <1>8
<1>12. new.uptodate /\ new.buffers => \A k \in fp!Blocks : new.buf[k].uptodate
    BY <1>3, <1>7 DEF PageOK
<1>10. PageOK(new)
    BY <1>2, <1>3, <1>5, <1>7, <1>9, <1>12 DEF PageOK
<1>11. QED BY <1>2, <1>3, <1>6, <1>7, <1>8, <1>10

LEMMA InFlightOK ==
    ASSUME NEW pg, PageOK(pg), fp!slot \in fp!Slots, AnyDelta(pg, fp!old)
    PROVE  /\ PageOK(fp!InFlight(pg)) /\ fp!InFlight(pg).writeback
           /\ \A s \in fp!Slots : ~AnyDelta(fp!InFlight(pg), s)
<1> DEFINE bufs == [b \in fp!Blocks |-> IF pg.buf[b].delta # fp!old THEN pg.buf[b]
                                       ELSE [fp!Cleared(pg.buf[b]) EXCEPT !.io = TRUE]]
           new == [pg EXCEPT !.dirty = FALSE, !.writeback = TRUE, !.buf = bufs]
<1>1. fp!old \in fp!Slots /\ fp!old # fp!slot /\ {fp!old, fp!slot} = {0, 1} /\ None \notin fp!Slots
    BY DEF fp!old, fp!Slots, None
<1>2. /\ pg \in fp!PageType /\ pg.buffers
      /\ \A k \in fp!Blocks :
            /\ pg.buf[k] \in fp!Buffer /\ pg.buf[k].delta \in {None, fp!old}
            /\ pg.buf[k].delta # None => pg.buf[k].uptodate
            /\ pg.buf[k].io => pg.buf[k].uptodate
    <2>1. pg \in fp!PageType /\ pg.buffers /\ ~AnyDelta(pg, fp!slot)
        BY <1>1 DEF PageOK, AnyDelta
    <2>2. \A k \in fp!Blocks : pg.buf[k] \in fp!Buffer /\ pg.buf[k].delta \in {None} \union fp!Slots
        BY <2>1, PageFields, BufferFields
    <2>3. \A k \in fp!Blocks : pg.buf[k].delta \in {None, fp!old}
        BY <1>1, <2>1, <2>2 DEF AnyDelta, fp!Slots
    <2>4. QED BY <2>1, <2>2, <2>3 DEF PageOK
<1>3. \A k \in fp!Blocks :
        /\ bufs[k] \in fp!Buffer /\ bufs[k].delta = None /\ (bufs[k].io => bufs[k].uptodate)
        /\ bufs[k].uptodate = pg.buf[k].uptodate
    <2> SUFFICES ASSUME NEW k \in fp!Blocks
                 PROVE /\ bufs[k] \in fp!Buffer /\ bufs[k].delta = None
                       /\ bufs[k].io => bufs[k].uptodate
                       /\ bufs[k].uptodate = pg.buf[k].uptodate
        OBVIOUS
    <2>1. CASE pg.buf[k].delta # fp!old
        BY <1>2, <2>1
    <2>2. CASE pg.buf[k].delta = fp!old
        <3>1. pg.buf[k] \in fp!Buffer /\ pg.buf[k].uptodate
            BY <1>1, <1>2, <2>2
        <3>2. bufs[k] = [fp!Cleared(pg.buf[k]) EXCEPT !.io = TRUE]
            BY <2>2
        <3> HIDE DEF bufs
        <3>3. QED BY <3>1, <3>2 DEF fp!Cleared, fp!Buffer, None, fp!None
    <2>3. QED BY <2>1, <2>2
<1>4. bufs \in [fp!Blocks -> fp!Buffer]
    BY <1>3
<1>5. fp!InFlight(pg) = new
    BY DEF fp!InFlight
<1> HIDE DEF bufs
<1>6. /\ new \in fp!PageType /\ new.buf = bufs /\ new.writeback /\ new.buffers = pg.buffers
      /\ new.uptodate = pg.uptodate
    BY <1>2, <1>4 DEF fp!PageType
<1> HIDE DEF new
<1>7. \A s \in fp!Slots : ~AnyDelta(new, s)
    BY <1>1, <1>3, <1>6 DEF AnyDelta
<1>10. new.uptodate /\ new.buffers => \A k \in fp!Blocks : new.buf[k].uptodate
    BY <1>3, <1>6 DEF PageOK
<1>8. PageOK(new)
    BY <1>2, <1>3, <1>6, <1>7, <1>10 DEF PageOK, fp!Slots
<1>9. QED BY <1>5, <1>6, <1>7, <1>8

LEMMA EndedOK ==
    ASSUME NEW pg, PageOK(pg), pg.writeback, NEW bio
    PROVE  /\ PageOK(fp!Ended(pg, bio))
           /\ \A s \in fp!Slots : ~AnyDelta(fp!Ended(pg, bio), s)
           /\ fp!Ended(pg, bio).data = pg.data
           /\ fp!Ended(pg, bio).writeback <=> \E b \in fp!Blocks \ bio : pg.buf[b].io
<1> DEFINE bufs == [b \in fp!Blocks |-> [pg.buf[b] EXCEPT !.io = @ /\ b \notin bio]]
           writeback == \E b \in fp!Blocks \ bio : pg.buf[b].io
           new == [pg EXCEPT !.buf = bufs, !.writeback = writeback]
<1>1. /\ pg \in fp!PageType
      /\ \A k \in fp!Blocks :
            /\ pg.buf[k] \in fp!Buffer /\ pg.buf[k].delta = None
            /\ pg.buf[k].io => pg.buf[k].uptodate /\ pg.buffers
    BY PageFields DEF PageOK
<1>2. \A k \in fp!Blocks :
        /\ bufs[k] \in fp!Buffer /\ bufs[k].delta = None
        /\ bufs[k].io => bufs[k].uptodate /\ writeback /\ pg.buffers
        /\ bufs[k].uptodate = pg.buf[k].uptodate
    <2> SUFFICES ASSUME NEW k \in fp!Blocks
                 PROVE /\ bufs[k] \in fp!Buffer /\ bufs[k].delta = None
                       /\ bufs[k].io => bufs[k].uptodate /\ writeback /\ pg.buffers
                       /\ bufs[k].uptodate = pg.buf[k].uptodate
        OBVIOUS
    <2>1. bufs[k] = [pg.buf[k] EXCEPT !.io = pg.buf[k].io /\ k \notin bio]
        OBVIOUS
    <2>2. pg.buf[k].io /\ k \notin bio => writeback
        OBVIOUS
    <2> HIDE DEF bufs, writeback
    <2>3. /\ bufs[k] \in fp!Buffer /\ bufs[k].delta = pg.buf[k].delta 
          /\ bufs[k].io <=> (pg.buf[k].io /\ k \notin bio)
          /\ bufs[k].uptodate = pg.buf[k].uptodate
        <3>1. pg.buf[k] \in fp!Buffer
            BY <1>1
        <3> DEFINE io == pg.buf[k].io /\ k \notin bio
        <3>2. io \in BOOLEAN
            OBVIOUS
        <3>3. bufs[k] = [pg.buf[k] EXCEPT !.io = io]
            BY <2>1
        <3>4. io <=> (pg.buf[k].io /\ k \notin bio)
            OBVIOUS
        <3> HIDE DEF io
        <3>5. QED BY ONLY <3>1, <3>2, <3>3, <3>4 DEF fp!Buffer
    <2>4. QED BY <1>1, <2>2, <2>3
<1>3. bufs \in [fp!Blocks -> fp!Buffer] /\ writeback \in BOOLEAN
    BY <1>2
<1>4. fp!Ended(pg, bio) = new
    BY DEF fp!Ended
<1>5. writeback <=> \E b \in fp!Blocks \ bio : pg.buf[b].io
    OBVIOUS
<1> HIDE DEF bufs, writeback
<1>6. /\ new \in fp!PageType /\ new.buf = bufs /\ new.data = pg.data
      /\ (new.writeback <=> writeback) /\ new.buffers = pg.buffers
      /\ new.uptodate = pg.uptodate
    BY <1>1, <1>3 DEF fp!PageType
<1> HIDE DEF new
<1>7. \A s \in fp!Slots : ~AnyDelta(new, s)
    BY <1>2, <1>6 DEF AnyDelta, fp!Slots, None
<1>10. /\ new.writeback => new.buffers
       /\ new.uptodate /\ new.buffers => \A k \in fp!Blocks : new.buf[k].uptodate
    BY <1>2, <1>6 DEF PageOK
<1>8. PageOK(new)
    BY <1>2, <1>6, <1>7, <1>10 DEF PageOK, fp!Slots
<1>9. QED BY <1>4, <1>5, <1>6, <1>7, <1>8

-----------------------------------------------------------------------------
(* The inductive invariant. *)

OpType == [pc : {"idle", "write", "size", "hole"}, from : 0 .. 4, to : 0 .. 4]
FillType == [on : BOOLEAN, size : 0 .. 4, found : Content \X Content]

PTyped ==
    /\ kind \in {"file", "dir"} /\ psize \in 0 .. 4 /\ idata \in 0 .. 4
    /\ pdelta \in 1 .. MaxDelta /\ holes \in [fp!Slots -> 0 .. 2]
    /\ pdtree \in [fp!Blocks -> Content] /\ op \in OpType /\ fill \in FillType
    /\ pflush \in {"idle", "chop", "unhole", "map", "prepare", "io", "commit"}

(* The page cache: a forked page is no longer in the radix tree.            *)
Cache ==
    /\ live \in Pages \union {NoPage} /\ forked \subseteq Pages /\ live \notin forked
    /\ DOMAIN pages = forked \union ({live} \ {NoPage})
    /\ \A p \in DOMAIN pages : PageOK(pages[p])

(* A page is forked before it is dirtied in the next delta, so only the     *)
(* page in the radix tree is dirty for the current one, and one page is for *)
(* the one that is flushed: none is before a delta ends, nor is one left    *)
(* when its blocks are at the device.                                       *)
Deltas ==
    /\ \A p \in forked : ~AnyDelta(pages[p], fp!slot)
    /\ \A p, q \in DOMAIN pages : AnyDelta(pages[p], fp!old) /\ AnyDelta(pages[q], fp!old) => p = q
    /\ pflush \in {"idle", "io", "commit"} =>
         \A p \in DOMAIN pages : ~AnyDelta(pages[p], fp!old)

(* The backend writes one page, and the commit waits for it.                *)
Device ==
    /\ \A p \in DOMAIN pages : pages[p].writeback => pflush = "io"
    /\ \A p, q \in DOMAIN pages : pages[p].writeback /\ pages[q].writeback => p = q

(* A locked page stays, and a write holds one that it may change.           *)
Calls ==
    /\ fill.on => live = NoPage
    /\ op.pc = "write" => live # NoPage /\ Writable(pages[live], fp!slot)

PagesInv == PTyped /\ Cache /\ Deltas /\ Device /\ Calls /\ ~pbroken

(* PagesStable of a step. *)
Stable ==
    \A p \in DOMAIN pages \cap DOMAIN pages' : \A u \in 0 .. 3 :
        pages[p].buf[u \div 2].io /\ pages'[p].buf[u \div 2].io
            => pages'[p].data[u] = pages[p].data[u]

LEMMA SlotsTyped ==
    ASSUME PTyped
    PROVE  /\ fp!slot \in fp!Slots /\ fp!old \in fp!Slots /\ fp!old # fp!slot
           /\ fp!old = 1 - fp!slot /\ {fp!old, fp!slot} = fp!Slots
           /\ pdelta \in Unit
<1>1. pdelta \in Nat /\ pdelta \in Unit
    BY PagesAssumption DEF PTyped, Unit
<1>2. pdelta % 2 \in {0, 1}
    BY <1>1
<1>3. QED BY <1>1, <1>2 DEF fp!slot, fp!old, fp!Slots

LEMMA LookupTyped ==
    ASSUME PTyped, NEW b \in fp!Blocks
    PROVE  fp!Lookup(b) \in Content
BY DEF PTyped, fp!Lookup, Content, fp!Hole

LEMMA UnitIndex ==
    ASSUME NEW u \in 0 .. 3
    PROVE  u \div 2 \in fp!Blocks /\ u \in fp!Units
BY DEF fp!Blocks, fp!Units

(* A step of the frontend: a page stays, changes without data in flight, or *)
(* is one that may be changed in the current delta.                         *)
LEMMA Changes ==
    ASSUME PTyped, Cache, Deltas, Device, pdelta' = pdelta, pflush' = pflush,
           live' \in Pages \union {NoPage}, forked' \subseteq Pages, live' \notin forked',
           DOMAIN pages' = forked' \union ({live'} \ {NoPage}),
           \A p \in DOMAIN pages' :
               \/ p \in DOMAIN pages /\ pages'[p] = pages[p]
               \/ p = live' /\ Changeable(pages'[p], fp!slot)
               \/ p \in DOMAIN pages /\ PageOK(pages'[p]) /\ Like(pages'[p], pages[p]),
           \A p \in forked' : ~AnyDelta(pages'[p], fp!slot)
    PROVE  Cache' /\ Deltas' /\ Device' /\ Stable
<1>1. fp!slot' = fp!slot /\ fp!old' = fp!old /\ fp!old = 1 - fp!slot /\ fp!old \in fp!Slots
    BY SlotsTyped DEF fp!slot, fp!old
<1>2. \A p \in DOMAIN pages' : PageOK(pages'[p])
    BY DEF Cache, Changeable
<1>3. \A p \in DOMAIN pages' :
        \/ p \in DOMAIN pages /\ (AnyDelta(pages'[p], fp!old) => AnyDelta(pages[p], fp!old))
        \/ ~AnyDelta(pages'[p], fp!old)
    BY <1>1 DEF Changeable, Like
<1>4. \A p \in DOMAIN pages' :
        \/ p \in DOMAIN pages /\ (pages'[p].writeback => pages[p].writeback)
        \/ ~pages'[p].writeback
    BY DEF Changeable, Like
<1>5. Cache'
    BY <1>2 DEF Cache, PageOK, fp!PageType, AnyDelta, fp!Slots, fp!Blocks, fp!Units,
                fp!Buffer, None, fp!None, fp!Junk
<1>6. Deltas'
    <2>1. \A p \in forked' : ~AnyDelta(pages'[p], fp!slot')
        BY <1>1
    <2>2. \A p, q \in DOMAIN pages' :
             AnyDelta(pages'[p], fp!old') /\ AnyDelta(pages'[q], fp!old') => p = q
        BY <1>1, <1>3 DEF Deltas
    <2>3. pflush' \in {"idle", "io", "commit"} =>
             \A p \in DOMAIN pages' : ~AnyDelta(pages'[p], fp!old')
        BY <1>1, <1>3 DEF Deltas
    <2>4. QED BY <2>1, <2>2, <2>3 DEF Deltas, AnyDelta, fp!Blocks
<1>7. Device'
    <2>1. \A p \in DOMAIN pages' : pages'[p].writeback => pflush' = "io"
        BY <1>4 DEF Device
    <2>2. \A p, q \in DOMAIN pages' : pages'[p].writeback /\ pages'[q].writeback => p = q
        BY <1>4 DEF Device
    <2>3. QED BY <2>1, <2>2 DEF Device
<1>8. Stable
    <2> SUFFICES ASSUME NEW p \in DOMAIN pages \cap DOMAIN pages', NEW u \in 0 .. 3,
                        pages[p].buf[u \div 2].io, pages'[p].buf[u \div 2].io
                 PROVE  pages'[p].data[u] = pages[p].data[u]
        BY DEF Stable
    <2>1. pages'[p].writeback
        BY <1>2, UnitIndex DEF PageOK
    <2>2. ~Changeable(pages'[p], fp!slot)
        BY <2>1 DEF Changeable
    <2>3. CASE pages'[p] = pages[p]
        BY <2>3
    <2>4. CASE Like(pages'[p], pages[p])
        BY <2>4, UnitIndex DEF Like
    <2>5. QED BY <2>2, <2>3, <2>4
<1>9. QED BY <1>5, <1>6, <1>7, <1>8

LEMMA GrabbedOK ==
    ASSUME PTyped, Cache
    PROVE  /\ PageOK(fp!Grabbed)
           /\ live # NoPage => live \in DOMAIN pages /\ fp!Grabbed = pages[live]
           /\ live = NoPage => fp!Grabbed = fp!NewPage
BY NewPageOK, SlotsTyped DEF fp!Grabbed, Cache, Changeable

LEMMA ForkedOK ==
    ASSUME PTyped, Cache
    PROVE  Changeable(fp!Forked(0), fp!slot)
<1>1. PageOK(fp!Grabbed) /\ fp!slot \in fp!Slots /\ 0 \in fp!Blocks
    BY GrabbedOK, SlotsTyped DEF fp!Blocks
<1>2. CASE fp!MustFork(0)
    BY <1>1, <1>2, CloneOK DEF fp!Forked
<1>3. CASE ~fp!MustFork(0)
    <2>1. CASE live = NoPage
        BY <1>1, <1>3, <2>1, GrabbedOK, NewPageOK DEF fp!Forked
    <2>2. CASE live # NoPage
        <3>1. ~fp!need_fork(pages[live], 0, fp!slot) /\ fp!Grabbed = pages[live]
            BY <1>3, <2>2, GrabbedOK DEF fp!MustFork
        <3>2. QED BY <1>1, <1>3, <3>1, NeedFork DEF fp!Forked
    <2>3. QED BY <2>1, <2>2
<1>4. QED BY <1>2, <1>3

(* tux3_replace_page_cache() with a page that may be changed. *)
LEMMA Replaces ==
    ASSUME PTyped, Cache, Deltas, Device, pdelta' = pdelta, pflush' = pflush,
           NEW pg, Changeable(pg, fp!slot), fp!Replace(0, pg)
    PROVE  /\ Cache' /\ Deltas' /\ Device' /\ Stable
           /\ live' # NoPage /\ live' \in DOMAIN pages' /\ pages'[live'] = pg
<1>0. NoPage \notin Pages /\ 0 \in fp!Blocks /\ fp!slot \in fp!Slots
    BY PagesAssumption, SlotsTyped DEF fp!Blocks
<1>1. CASE fp!MustFork(0)
    <2>1. PICK p \in Pages \ DOMAIN pages :
            live' = p /\ forked' = forked \union {live} /\ pages' = fp!Put(p, pg)
        BY <1>1 DEF fp!Replace
    <2>2. live # NoPage /\ live \in DOMAIN pages /\ fp!need_fork(pages[live], 0, fp!slot)
        BY <1>1 DEF fp!MustFork, Cache
    <2>3. ~AnyDelta(pages[live], fp!slot)
        BY <1>0, <2>2, NeedFork DEF Cache
    <2>4. /\ DOMAIN pages' = DOMAIN pages \union {p} /\ pages'[p] = pg
          /\ \A q \in DOMAIN pages : pages'[q] = pages[q]
        BY <2>1 DEF fp!Put
    <2>5. /\ live' \in Pages \union {NoPage} /\ forked' \subseteq Pages /\ live' \notin forked'
          /\ DOMAIN pages' = forked' \union ({live'} \ {NoPage})
        BY <1>0, <2>1, <2>2, <2>4 DEF Cache
    <2>6. \A q \in DOMAIN pages' :
               \/ q \in DOMAIN pages /\ pages'[q] = pages[q]
               \/ q = live' /\ Changeable(pages'[q], fp!slot)
        BY <2>1, <2>4
    <2>7. \A q \in forked' : ~AnyDelta(pages'[q], fp!slot)
        BY <2>1, <2>2, <2>3, <2>4 DEF Cache, Deltas
    <2>8. Cache' /\ Deltas' /\ Device' /\ Stable
        BY <2>5, <2>6, <2>7, Changes
    <2>9. QED BY <1>0, <2>1, <2>4, <2>8
<1>2. CASE ~fp!MustFork(0) /\ live # NoPage
    <2>1. pages' = fp!Put(live, pg) /\ live' = live /\ forked' = forked
        BY <1>2 DEF fp!Replace
    <2>2. live \in DOMAIN pages
        BY <1>2 DEF Cache
    <2>3. /\ DOMAIN pages' = DOMAIN pages /\ pages'[live] = pg
          /\ \A q \in DOMAIN pages \ {live} : pages'[q] = pages[q]
        BY <2>1, <2>2 DEF fp!Put
    <2>4. /\ live' \in Pages \union {NoPage} /\ forked' \subseteq Pages /\ live' \notin forked'
          /\ DOMAIN pages' = forked' \union ({live'} \ {NoPage})
        BY <2>1, <2>3 DEF Cache
    <2>5. \A q \in DOMAIN pages' :
               \/ q \in DOMAIN pages /\ pages'[q] = pages[q]
               \/ q = live' /\ Changeable(pages'[q], fp!slot)
        BY <2>1, <2>3
    <2>6. \A q \in forked' : ~AnyDelta(pages'[q], fp!slot)
        BY <2>1, <2>3 DEF Cache, Deltas
    <2>7. Cache' /\ Deltas' /\ Device' /\ Stable
        BY <2>4, <2>5, <2>6, Changes
    <2>8. QED BY <1>2, <2>1, <2>2, <2>3, <2>7
<1>3. CASE ~fp!MustFork(0) /\ live = NoPage
    <2>1. PICK p \in Pages \ DOMAIN pages :
            live' = p /\ pages' = fp!Put(p, pg) /\ forked' = forked
        BY <1>3 DEF fp!Replace
    <2>2. /\ DOMAIN pages' = DOMAIN pages \union {p} /\ pages'[p] = pg
          /\ \A q \in DOMAIN pages : pages'[q] = pages[q]
        BY <2>1 DEF fp!Put
    <2>3. /\ live' \in Pages \union {NoPage} /\ forked' \subseteq Pages /\ live' \notin forked'
          /\ DOMAIN pages' = forked' \union ({live'} \ {NoPage})
        BY <1>0, <1>3, <2>1, <2>2 DEF Cache
    <2>4. \A q \in DOMAIN pages' :
               \/ q \in DOMAIN pages /\ pages'[q] = pages[q]
               \/ q = live' /\ Changeable(pages'[q], fp!slot)
        BY <2>1, <2>2
    <2>5. \A q \in forked' : ~AnyDelta(pages'[q], fp!slot)
        BY <2>1, <2>2 DEF Cache, Deltas
    <2>6. Cache' /\ Deltas' /\ Device' /\ Stable
        BY <2>3, <2>4, <2>5, Changes
    <2>7. QED BY <1>0, <2>1, <2>2, <2>6
<1>4. QED BY <1>1, <1>2, <1>3

(* The radix tree loses its page. *)
LEMMA Drops ==
    ASSUME PTyped, Cache, Deltas, Device, pdelta' = pdelta, pflush' = pflush,
           live' = NoPage, forked' = forked, pages' = [p \in forked |-> pages[p]]
    PROVE  Cache' /\ Deltas' /\ Device' /\ Stable
<1>1. /\ DOMAIN pages' = forked' \union ({live'} \ {NoPage})
      /\ \A p \in DOMAIN pages' : p \in DOMAIN pages /\ pages'[p] = pages[p]
      /\ NoPage \notin forked' /\ forked' \subseteq Pages
    BY PagesAssumption DEF Cache
<1>2. \A p \in forked' : ~AnyDelta(pages'[p], fp!slot)
    BY <1>1 DEF Deltas
<1>3. QED BY <1>1, <1>2, Changes

(* The page cache stays as it is. *)
LEMMA Stays ==
    ASSUME PTyped, Cache, Deltas, Device, pdelta' = pdelta, pflush' = pflush,
           UNCHANGED <<pages, live, forked>>
    PROVE  Cache' /\ Deltas' /\ Device' /\ Stable
<1>1. /\ live' \in Pages \union {NoPage} /\ forked' \subseteq Pages /\ live' \notin forked'
      /\ DOMAIN pages' = forked' \union ({live'} \ {NoPage})
      /\ \A p \in DOMAIN pages' : p \in DOMAIN pages /\ pages'[p] = pages[p]
      /\ \A p \in forked' : ~AnyDelta(pages'[p], fp!slot)
    BY DEF Cache, Deltas
<1>2. QED BY <1>1, Changes

LEMMA SlotKept ==
    ASSUME pdelta' = pdelta
    PROVE  fp!slot' = fp!slot
BY DEF fp!slot

LEMMA MinOfTwo ==
    ASSUME NEW a \in Int, NEW b \in Int
    PROVE  /\ fp!Min({a, b}) \in {a, b} /\ fp!Min({a, b}) <= a /\ fp!Min({a, b}) <= b
           /\ fp!Max({a, b}) \in {a, b} /\ fp!Max({a, b}) >= a /\ fp!Max({a, b}) >= b
<1>1. \E x \in {a, b} : \A y \in {a, b} : x <= y
    <2>1. CASE a <= b  BY <2>1
    <2>2. CASE b <= a  BY <2>2
    <2>3. QED BY <2>1, <2>2
<1>2. \E x \in {a, b} : \A y \in {a, b} : x >= y
    <2>1. CASE a <= b  BY <2>1
    <2>2. CASE b <= a  BY <2>2
    <2>3. QED BY <2>1, <2>2
<1>3. fp!Min({a, b}) \in {a, b} /\ \A y \in {a, b} : fp!Min({a, b}) <= y
    BY <1>1 DEF fp!Min
<1>4. fp!Max({a, b}) \in {a, b} /\ \A y \in {a, b} : fp!Max({a, b}) >= y
    BY <1>2 DEF fp!Max
<1>5. QED BY <1>3, <1>4

LEMMA StepWriteBegin ==
    ASSUME PagesInv, NEW from \in Starts, NEW to \in Ends, from < to, fp!WriteBegin(from, to)
    PROVE  PagesInv' /\ Stable
<1> DEFINE pg == fp!WithBuffers(fp!Forked(0))
           new == fp!Prepared(fp!Prepared(pg, 0, from, to), 1, from, to)
<1>0. /\ fp!slot \in fp!Slots /\ 0 \in fp!Blocks /\ 1 \in fp!Blocks
      /\ PTyped /\ Cache /\ Deltas /\ Device /\ Calls
    BY SlotsTyped DEF PagesInv, fp!Blocks
<1>1. Writable(pg, fp!slot)
    <2>1. Changeable(fp!Forked(0), fp!slot)
        BY <1>0, ForkedOK
    <2> HIDE DEF pg
    <2>2. PageOK(pg) /\ pg.buffers /\ Like(pg, fp!Forked(0))
        BY <2>1, WithBuffersOK DEF Changeable, pg
    <2>3. QED BY <1>0, <2>1, <2>2, LikeWritable DEF Writable
<1>2. Writable(new, fp!slot)
    <2> HIDE DEF pg
    <2>1. fp!Lookup(0) \in Content /\ fp!Lookup(1) \in Content
        BY <1>0, LookupTyped
    <2>2. Writable(fp!Prepared(pg, 0, from, to), fp!slot)
        BY <1>0, <1>1, <2>1, PreparedOK
    <2>3. QED BY <1>0, <2>1, <2>2, PreparedOK
<1>3. /\ fp!Replace(0, new) /\ op' = [pc |-> "write", from |-> from, to |-> to]
      /\ UNCHANGED <<kind, psize, holes, pdtree, fill, pflush, pdelta, idata, pbroken>>
      /\ ~fill.on
    BY DEF fp!WriteBegin, fp!PageLocked
<1> HIDE DEF new
<1>4. /\ Cache' /\ Deltas' /\ Device' /\ Stable
      /\ live' # NoPage /\ pages'[live'] = new
    BY <1>0, <1>2, <1>3, Replaces DEF Writable
<1>5. Calls'
    BY <1>2, <1>3, <1>4, SlotKept DEF Calls
<1>6. PTyped'
    <2>1. from \in 0 .. 4 /\ to \in 0 .. 4
        BY PagesAssumption DEF fp!Units
    <2>2. QED BY <1>0, <1>3, <2>1 DEF PTyped, OpType
<1>7. QED BY <1>3, <1>4, <1>5, <1>6 DEF PagesInv

LEMMA StepWriteEnd ==
    ASSUME PagesInv, NEW all \in BOOLEAN, fp!WriteEnd(all)
    PROVE  PagesInv' /\ Stable
<1> DEFINE copied == IF all THEN op.to - op.from ELSE 0
           pg == fp!Written(pages[live], op.from, op.to, copied)
           failed == ~all /\ op.to > psize
<1>0. /\ fp!slot \in fp!Slots /\ pdelta \in Unit
      /\ PTyped /\ Cache /\ Deltas /\ Device /\ Calls /\ ~pbroken
    BY SlotsTyped DEF PagesInv
<1>1. /\ op.pc = "write" /\ live # NoPage /\ Writable(pages[live], fp!slot)
      /\ live \in DOMAIN pages
    BY <1>0 DEF fp!WriteEnd, Calls, Cache
<1>2. Writable(pg, fp!slot)
    BY <1>0, <1>1, WrittenOK
<1>3. Writable(fp!Failed(pg), fp!slot)
    BY <1>0, <1>2, FailedOK
<1>4. /\ IF failed /\ psize = 0
         THEN pages' = [p \in forked |-> pages[p]] /\ live' = NoPage
         ELSE pages' = [pages EXCEPT ![live] = IF failed THEN fp!Failed(pg) ELSE pg] /\ live' = live
      /\ psize' = IF all THEN fp!Max({psize, op.to}) ELSE psize
      /\ pbroken' = (pbroken \/ (failed /\ fp!CantInvalidate(pg, psize)))
      /\ op' = fp!Idle
      /\ UNCHANGED <<kind, forked, holes, pdtree, fill, pflush, pdelta, idata>>
    BY DEF fp!WriteEnd
<1> HIDE DEF pg, copied, failed
<1>5. Cache' /\ Deltas' /\ Device' /\ Stable
    <2>1. CASE failed /\ psize = 0
        BY <1>0, <1>4, <2>1, Drops
    <2>2. CASE ~(failed /\ psize = 0)
        <3> DEFINE new == IF failed THEN fp!Failed(pg) ELSE pg
        <3>1. Changeable(new, fp!slot)
            BY <1>2, <1>3 DEF Writable
        <3>2. pages' = [pages EXCEPT ![live] = new] /\ live' = live /\ forked' = forked
            BY <1>4, <2>2
        <3> HIDE DEF new
        <3>3. /\ DOMAIN pages' = DOMAIN pages /\ pages'[live] = new
              /\ \A q \in DOMAIN pages \ {live} : pages'[q] = pages[q]
            BY <1>1, <3>2
        <3>4. /\ live' \in Pages \union {NoPage} /\ forked' \subseteq Pages /\ live' \notin forked'
              /\ DOMAIN pages' = forked' \union ({live'} \ {NoPage})
            BY <1>0, <3>2, <3>3 DEF Cache
        <3>5. \A q \in DOMAIN pages' :
                   \/ q \in DOMAIN pages /\ pages'[q] = pages[q]
                   \/ q = live' /\ Changeable(pages'[q], fp!slot)
            BY <3>1, <3>2, <3>3
        <3>6. \A q \in forked' : ~AnyDelta(pages'[q], fp!slot)
            BY <1>0, <3>2, <3>3 DEF Cache, Deltas
        <3>7. QED BY <1>0, <1>4, <3>4, <3>5, <3>6, Changes
    <2>3. QED BY <2>1, <2>2
<1>6. op' = [pc |-> "idle", from |-> 0, to |-> 0] /\ op'.pc = "idle"
    BY <1>4 DEF fp!Idle
<1>7. fill.on = FALSE \/ live' = NoPage
    BY <1>0, <1>1 DEF Calls, PTyped, FillType
<1>8. Calls'
    BY <1>4, <1>6, <1>7 DEF Calls
<1>9. ~pbroken'
    <2>1. ~fp!CantInvalidate(pg, psize)
        <3>1. \A b \in fp!Blocks : pg.buf[b].delta \in {None, fp!slot}
            <4>1. pg \in fp!PageType /\ ~AnyDelta(pg, 1 - fp!slot)
                BY <1>2 DEF Writable, Changeable, PageOK
            <4>2. \A b \in fp!Blocks : pg.buf[b].delta \in {None} \union fp!Slots
                BY <4>1, PageFields, BufferFields
            <4>3. QED BY <1>0, <4>1, <4>2 DEF AnyDelta, fp!Slots
        <3>2. QED BY <3>1 DEF fp!CantInvalidate, fp!buffer_can_modify, None, fp!None
    <2>2. QED BY <1>0, <1>4, <2>1
<1>10. PTyped'
    <2>1. psize \in 0 .. 4 /\ op.to \in 0 .. 4
        BY <1>0 DEF PTyped, OpType
    <2>4. psize \in Int /\ op.to \in Int
        BY <2>1
    <2>2. fp!Max({psize, op.to}) \in {psize, op.to}
        BY <2>4, MinOfTwo
    <2>3. psize' \in 0 .. 4
        BY <1>4, <2>1, <2>2
    <2>5. QED BY <1>0, <1>4, <1>6, <2>3 DEF PTyped, OpType
<1>11. QED BY <1>5, <1>8, <1>9, <1>10 DEF PagesInv

LEMMA CanInvalidate ==
    ASSUME PTyped, NEW pg, Changeable(pg, fp!slot), NEW offset
    PROVE  ~fp!CantInvalidate(pg, offset)
<1>1. pg \in fp!PageType /\ ~AnyDelta(pg, 1 - fp!slot) /\ fp!slot \in fp!Slots
    BY SlotsTyped DEF Changeable, PageOK
<1>2. \A b \in fp!Blocks : pg.buf[b].delta \in {None} \union fp!Slots
    BY <1>1, PageFields, BufferFields
<1>3. \A b \in fp!Blocks : pg.buf[b].delta \in {None, fp!slot}
    BY <1>1, <1>2 DEF AnyDelta, fp!Slots
<1>4. QED BY <1>3 DEF fp!CantInvalidate, fp!buffer_can_modify, None, fp!None

LEMMA StepBlockWrite ==
    ASSUME PagesInv, NEW b \in fp!Blocks, fp!BlockWrite(b)
    PROVE  PagesInv' /\ Stable
<1> DEFINE grow == 2 * b = psize
           found == IF grow THEN fp!blockget(fp!Grabbed, b) ELSE fp!WithBuffers(fp!Grabbed)
           fork == fp!need_fork(found, b, fp!slot) /\ found.buf[b].delta # fp!slot
           base == IF fork THEN fp!clone_page(found) ELSE found
           pg == fp!MarkDirty(base, b, fp!slot)
           changed == IF grow THEN 2 * b .. 2 * b + 1 ELSE {2 * b}
           data == [u \in fp!Units |-> IF u \in changed THEN pdelta ELSE pg.data[u]]
           new == [pg EXCEPT !.data = data]
<1>0. /\ fp!slot \in fp!Slots /\ pdelta \in Unit
      /\ PTyped /\ Cache /\ Deltas /\ Device /\ Calls /\ ~pbroken
    BY SlotsTyped DEF PagesInv
<1>1. /\ op = fp!Idle /\ ~fp!PageLocked
      /\ IF live # NoPage /\ ~fork
         THEN pages' = fp!Put(live, new) /\ UNCHANGED <<live, forked>>
         ELSE \E p \in Pages \ DOMAIN pages :
                 /\ live' = p /\ pages' = fp!Put(p, new)
                 /\ forked' = forked \union ({live} \ {NoPage})
      /\ psize' = IF grow THEN psize + 2 ELSE psize
      /\ pbroken' = (pbroken \/ (~fork /\ ~found.dirty /\ found.buf[b].delta # fp!None))
      /\ UNCHANGED <<kind, holes, pdtree, op, fill, pflush, pdelta, idata>>
    BY DEF fp!BlockWrite, fp!CanCall
<1>2. PageOK(found) /\ found.buffers /\ Like(found, fp!Grabbed)
    BY <1>0, GrabbedOK, blockgetOK, WithBuffersOK
<1>3. /\ ~fork => Writable(found, fp!slot)
      /\ fork => ~AnyDelta(found, fp!slot)
    <2> HIDE DEF found
    <2>1. found.buf[b].delta = fp!slot => Changeable(found, fp!slot)
        <3>1. found.buf[b].delta = fp!slot => AnyDelta(found, fp!slot) /\ ~found.writeback
            BY <1>0, <1>2 DEF PageOK, AnyDelta, fp!Slots, None
        <3>2. AnyDelta(found, fp!slot) => ~AnyDelta(found, 1 - fp!slot)
            BY <1>0, <1>2 DEF PageOK, fp!Slots
        <3>3. QED BY <1>2, <3>1, <3>2 DEF Changeable
    <2>2. ~fp!need_fork(found, b, fp!slot) => Changeable(found, fp!slot)
        BY <1>0, <1>2, NeedFork
    <2>3. fp!need_fork(found, b, fp!slot) => ~AnyDelta(found, fp!slot)
        BY <1>0, <1>2, NeedFork
    <2>4. QED BY <1>2, <2>1, <2>2, <2>3 DEF Writable
<1>4. Writable(base, fp!slot)
    <2> HIDE DEF found
    <2>1. CASE fork
        <3>1. Changeable(fp!clone_page(found), fp!slot)
            BY <1>0, <1>2, CloneOK
        <3>2. fp!clone_page(found).buffers
            BY <1>2 DEF fp!clone_page, PageOK, fp!PageType
        <3>3. QED BY <2>1, <3>1, <3>2 DEF Writable
    <2>2. CASE ~fork
        BY <1>3, <2>2
    <2>3. QED BY <2>1, <2>2
<1> HIDE DEF base
<1>5. Writable(pg, fp!slot)
    BY <1>0, <1>4, MarkDirtyOK
<1> HIDE DEF pg
<1>6. data \in [fp!Units -> Unit]
    BY <1>0, <1>5, PageFields DEF Writable, Changeable, PageOK
<1> HIDE DEF data
<1>7. Changeable(new, fp!slot)
    BY <1>0, <1>5, <1>6, DataOK DEF Writable
<1> HIDE DEF new
<1>8. /\ live # NoPage => live \in DOMAIN pages /\ Like(found, pages[live])
      /\ live = NoPage \/ live \in Pages
    BY <1>0, <1>2, GrabbedOK DEF Cache
<1>9. Cache' /\ Deltas' /\ Device' /\ Stable
    <2>1. CASE live # NoPage /\ ~fork
        <3> HIDE DEF fork
        <3>1. pages' = fp!Put(live, new) /\ live' = live /\ forked' = forked
            BY <1>1, <2>1
        <3>2. /\ DOMAIN pages' = DOMAIN pages /\ pages'[live] = new
              /\ \A q \in DOMAIN pages \ {live} : pages'[q] = pages[q]
            BY <1>8, <2>1, <3>1 DEF fp!Put
        <3>3. /\ live' \in Pages \union {NoPage} /\ forked' \subseteq Pages /\ live' \notin forked'
              /\ DOMAIN pages' = forked' \union ({live'} \ {NoPage})
            BY <1>0, <3>1, <3>2 DEF Cache
        <3>4. \A q \in DOMAIN pages' :
                   \/ q \in DOMAIN pages /\ pages'[q] = pages[q]
                   \/ q = live' /\ Changeable(pages'[q], fp!slot)
            BY <1>7, <3>1, <3>2
        <3>5. \A q \in forked' : ~AnyDelta(pages'[q], fp!slot)
            BY <1>0, <3>1, <3>2 DEF Cache, Deltas
        <3>6. QED BY <1>0, <1>1, <3>3, <3>4, <3>5, Changes
    <2>2. CASE ~(live # NoPage /\ ~fork)
        <3>1. PICK p \in Pages \ DOMAIN pages :
                /\ live' = p /\ pages' = fp!Put(p, new)
                /\ forked' = forked \union ({live} \ {NoPage})
            BY <1>1, <2>2
        <3>2. /\ DOMAIN pages' = DOMAIN pages \union {p} /\ pages'[p] = new
              /\ \A q \in DOMAIN pages : pages'[q] = pages[q]
            BY <3>1 DEF fp!Put
        <3>3. /\ live' \in Pages \union {NoPage} /\ forked' \subseteq Pages /\ live' \notin forked'
              /\ DOMAIN pages' = forked' \union ({live'} \ {NoPage})
            <4>1. DOMAIN pages = forked' /\ p # NoPage
                BY <1>0, <3>1, PagesAssumption DEF Cache
            <4>2. QED BY <1>0, <1>8, <3>1, <3>2, <4>1 DEF Cache
        <3>4. \A q \in DOMAIN pages' :
                   \/ q \in DOMAIN pages /\ pages'[q] = pages[q]
                   \/ q = live' /\ Changeable(pages'[q], fp!slot)
            BY <1>7, <3>1, <3>2
        <3>5. live # NoPage => ~AnyDelta(pages[live], fp!slot)
            <4>1. live # NoPage => ~AnyDelta(found, fp!slot)
                BY <1>3, <2>2
            <4>2. QED BY <1>0, <1>8, <4>1 DEF Like
        <3>6. \A q \in forked' : ~AnyDelta(pages'[q], fp!slot)
            BY <1>0, <1>8, <3>1, <3>2, <3>5 DEF Cache, Deltas
        <3>7. QED BY <1>0, <1>1, <3>3, <3>4, <3>6, Changes
    <2>3. QED BY <2>1, <2>2
<1>10. Calls'
    BY <1>1 DEF Calls, fp!Idle, fp!PageLocked
<1>11. ~pbroken'
    <2>1. found.buf[b].delta # fp!None => found.dirty
        BY <1>2 DEF PageOK, None, fp!None
    <2>2. QED BY <1>0, <1>1, <2>1
<1>12. psize' \in 0 .. 4
    <2>1. psize \in 0 .. 4
        BY <1>0 DEF PTyped
    <2>2. CASE grow
        <3>1. psize' = 2 * b + 2
            BY <1>1, <2>2
        <3>2. b \in {0, 1}
            BY DEF fp!Blocks
        <3>3. QED BY <3>1, <3>2
    <2>3. CASE ~grow
        BY <1>1, <2>1, <2>3
    <2>4. QED BY <2>2, <2>3
<1>13. PTyped'
    BY <1>0, <1>1, <1>12 DEF PTyped
<1>14. QED BY <1>9, <1>10, <1>11, <1>13 DEF PagesInv

LEMMA StepTruncatePartial ==
    ASSUME PagesInv, NEW newsize \in 0 .. 4, fp!TruncatePartial(newsize)
    PROVE  PagesInv' /\ Stable
<1> DEFINE b == fp!BlockOf(newsize)
           pg == fp!WithBuffers(fp!Forked(0))
           isHole == ~pg.buf[b].mapped /\ fp!Lookup(b) = fp!Hole
           skip == \/ newsize > psize \/ newsize % 4 = 0
                   \/ (newsize % 2 = 0 /\ live = NoPage /\ ~fill.on)
<1>0. /\ fp!slot \in fp!Slots
      /\ PTyped /\ Cache /\ Deltas /\ Device /\ Calls /\ ~pbroken
    BY SlotsTyped DEF PagesInv
<1>1. /\ op' = [pc |-> "size", from |-> psize, to |-> newsize]
      /\ UNCHANGED <<kind, psize, holes, pdtree, fill, pflush, pdelta, idata>>
    BY DEF fp!TruncatePartial
<1>2. /\ skip => UNCHANGED <<pages, live, forked, pbroken>>
      /\ ~skip =>
          /\ ~fp!PageLocked
          /\ IF newsize % 2 = 0 THEN fp!Replace(0, fp!BoundaryBlock(fp!Forked(0), newsize))
             ELSE IF ~isHole THEN fp!Replace(0, fp!PartialBlock(pg, newsize, b))
             ELSE IF b = 0 THEN fp!Replace(0, fp!BoundaryBlock(pg, newsize))
             ELSE fp!Replace(0, pg)
          /\ pbroken' = (pbroken \/ (newsize % 2 = 1 /\ ~isHole /\ fp!CantInvalidate(pg, newsize)))
    BY DEF fp!TruncatePartial
<1>3. Changeable(fp!Forked(0), fp!slot)
    BY <1>0, ForkedOK
<1>4. Writable(pg, fp!slot)
    <2> HIDE DEF pg
    <2>1. PageOK(pg) /\ pg.buffers /\ Like(pg, fp!Forked(0))
        BY <1>3, WithBuffersOK DEF Changeable, pg
    <2>2. QED BY <1>0, <1>3, <2>1, LikeWritable DEF Writable
<1>5. Changeable(pg, fp!slot)
    BY <1>4 DEF Writable
<1> HIDE DEF pg, isHole
<1>6. ~skip => Cache' /\ Deltas' /\ Device' /\ Stable /\ ~fill.on
    <2> SUFFICES ASSUME ~skip PROVE Cache' /\ Deltas' /\ Device' /\ Stable /\ ~fill.on
        OBVIOUS
    <2>1. ~fill.on
        BY <1>2 DEF fp!PageLocked
    <2>2. CASE newsize % 2 = 0
        BY <1>0, <1>1, <1>2, <1>3, <2>1, <2>2, BoundaryBlockOK, Replaces
    <2>3. CASE newsize % 2 # 0 /\ ~isHole
        <3>1. b \in fp!Blocks
            <4>1. newsize \in {1, 3}
                BY <2>3
            <4>2. QED BY <4>1 DEF fp!BlockOf, fp!Blocks
        <3>2. Changeable(fp!PartialBlock(pg, newsize, b), fp!slot)
            BY <1>0, <1>4, <3>1, LookupTyped, PartialBlockOK DEF Writable
        <3>3. QED BY <1>0, <1>1, <1>2, <2>1, <2>3, <3>2, Replaces
    <2>4. CASE newsize % 2 # 0 /\ isHole /\ b = 0
        BY <1>0, <1>1, <1>2, <1>5, <2>1, <2>4, BoundaryBlockOK, Replaces
    <2>5. CASE newsize % 2 # 0 /\ isHole /\ b # 0
        BY <1>0, <1>1, <1>2, <1>5, <2>1, <2>5, Replaces
    <2>6. QED BY <2>2, <2>3, <2>4, <2>5
<1>7. skip => Cache' /\ Deltas' /\ Device' /\ Stable /\ live' = live
    BY <1>0, <1>1, <1>2, Stays
<1>8. Calls'
    <2>1. op'.pc = "size"
        BY <1>1
    <2>2. fill'.on => live' = NoPage
        BY <1>0, <1>1, <1>6, <1>7 DEF Calls
    <2>3. QED BY <2>1, <2>2 DEF Calls
<1>9. ~pbroken'
    BY <1>0, <1>2, <1>5, CanInvalidate
<1>10. PTyped'
    BY <1>0, <1>1 DEF PTyped, OpType
<1>11. QED BY <1>6, <1>7, <1>8, <1>9, <1>10 DEF PagesInv

LEMMA StepTruncateSize ==
    ASSUME PagesInv, fp!TruncateSize
    PROVE  PagesInv' /\ Stable
<1>0. /\ fp!slot \in fp!Slots /\ 0 \in fp!Blocks
      /\ PTyped /\ Cache /\ Deltas /\ Device /\ Calls /\ ~pbroken
    BY SlotsTyped DEF PagesInv, fp!Blocks
<1>1. /\ op.pc = "size" /\ psize' = op.to /\ op' = [op EXCEPT !.pc = "hole"]
      /\ UNCHANGED <<kind, holes, pdtree, fill, pflush, pdelta, idata>>
      /\ IF op.to = 0 /\ live # NoPage
         THEN live' = NoPage /\ (fp!bufferfork_to_invalidate \/ fp!DropPage)
         ELSE UNCHANGED <<pages, live, forked, pbroken>>
    BY DEF fp!TruncateSize
<1>2. Cache' /\ Deltas' /\ Device' /\ Stable /\ ~pbroken'
    <2>1. CASE ~(op.to = 0 /\ live # NoPage)
        BY <1>0, <1>1, <2>1, Stays
    <2>2. CASE op.to = 0 /\ live # NoPage /\ fp!bufferfork_to_invalidate
        <3>1. /\ fp!need_fork(pages[live], 0, fp!slot) /\ live \in DOMAIN pages
              /\ forked' = forked \union {live} /\ pages' = pages /\ pbroken' = pbroken
              /\ live' = NoPage
            BY <1>0, <1>1, <2>2 DEF fp!bufferfork_to_invalidate, Cache
        <3>2. ~AnyDelta(pages[live], fp!slot)
            BY <1>0, <3>1, NeedFork DEF Cache
        <3>3. /\ live' \in Pages \union {NoPage} /\ forked' \subseteq Pages /\ live' \notin forked'
              /\ DOMAIN pages' = forked' \union ({live'} \ {NoPage})
            BY <1>0, <2>2, <3>1, PagesAssumption DEF Cache
        <3>4. \A p \in forked' : ~AnyDelta(pages'[p], fp!slot)
            BY <1>0, <3>1, <3>2 DEF Deltas
        <3>5. QED BY <1>0, <1>1, <3>1, <3>3, <3>4, Changes
    <2>3. CASE op.to = 0 /\ live # NoPage /\ fp!DropPage
        <3>1. /\ ~fp!need_fork(pages[live], 0, fp!slot) /\ live \in DOMAIN pages
              /\ pages' = [p \in forked |-> pages[p]] /\ forked' = forked /\ live' = NoPage
              /\ pbroken' = (pbroken \/ fp!CantInvalidate(pages[live], 0))
            BY <1>0, <1>1, <2>3 DEF fp!DropPage, Cache
        <3>2. Changeable(pages[live], fp!slot)
            BY <1>0, <3>1, NeedFork DEF Cache
        <3>3. ~pbroken'
            BY <1>0, <3>1, <3>2, CanInvalidate
        <3>4. QED BY <1>0, <1>1, <3>1, <3>3, Drops
    <2>4. QED BY <1>1, <2>1, <2>2, <2>3
<1>3. op'.pc = "hole" /\ op' \in OpType /\ op.to \in 0 .. 4
    BY <1>0, <1>1 DEF PTyped, OpType
<1>4. Calls'
    BY <1>0, <1>1, <1>3 DEF Calls
<1>5. PTyped'
    BY <1>0, <1>1, <1>3 DEF PTyped
<1>6. QED BY <1>2, <1>4, <1>5 DEF PagesInv

LEMMA StepTruncateHole ==
    ASSUME PagesInv, fp!TruncateHole
    PROVE  PagesInv' /\ Stable
<1>0. /\ fp!slot \in fp!Slots
      /\ PTyped /\ Cache /\ Deltas /\ Device /\ Calls /\ ~pbroken
    BY SlotsTyped DEF PagesInv
<1>1. /\ holes' = (IF op.to < op.from THEN fp!AddHole(holes, op.to) ELSE holes) /\ op' = fp!Idle
      /\ UNCHANGED <<kind, pages, live, forked, psize, pdtree, fill, pflush, pdelta, idata,
                     pbroken>>
    BY DEF fp!TruncateHole
<1>2. Cache' /\ Deltas' /\ Device' /\ Stable
    BY <1>0, <1>1, Stays
<1>3. fp!AddHole(holes, op.to) \in [fp!Slots -> 0 .. 2]
    <2>1. op.to \in 0 .. 4 /\ holes[fp!slot] \in 0 .. 2 /\ holes \in [fp!Slots -> 0 .. 2]
        BY <1>0 DEF PTyped, OpType
    <2>2. fp!BlocksIn(op.to) \in 0 .. 2
        BY <2>1 DEF fp!BlocksIn
    <2>i. holes[fp!slot] \in Int /\ fp!BlocksIn(op.to) \in Int
        BY <2>1, <2>2
    <2>3. fp!Min({holes[fp!slot], fp!BlocksIn(op.to)}) \in {holes[fp!slot], fp!BlocksIn(op.to)}
        BY <2>i, MinOfTwo
    <2> DEFINE m == fp!Min({holes[fp!slot], fp!BlocksIn(op.to)})
    <2>4. m \in 0 .. 2
        BY <2>1, <2>2, <2>3
    <2> HIDE DEF m
    <2>5. fp!AddHole(holes, op.to) = [holes EXCEPT ![fp!slot] = m]
        BY DEF fp!AddHole, m
    <2>6. QED BY <1>0, <2>1, <2>4, <2>5
<1>4. Calls'
    BY <1>0, <1>1 DEF Calls, fp!Idle
<1>5. PTyped'
    BY <1>0, <1>1, <1>3 DEF PTyped, OpType, fp!Idle
<1>6. QED BY <1>0, <1>1, <1>2, <1>4, <1>5 DEF PagesInv

LEMMA StepFillLookup ==
    ASSUME PagesInv, fp!FillLookup
    PROVE  PagesInv' /\ Stable
<1>0. PTyped /\ Cache /\ Deltas /\ Device /\ Calls /\ ~pbroken
    BY DEF PagesInv
<1>1. /\ live = NoPage /\ ~fp!PageLocked
      /\ fill' = [on |-> TRUE, size |-> psize, found |-> <<pdtree[0], pdtree[1]>>]
      /\ UNCHANGED <<kind, pages, live, forked, psize, holes, pdtree, op, pflush, pdelta, idata,
                     pbroken>>
    BY DEF fp!FillLookup
<1>2. Cache' /\ Deltas' /\ Device' /\ Stable
    BY <1>0, <1>1, Stays
<1>3. Calls'
    BY <1>1 DEF Calls, fp!PageLocked
<1>4. PTyped'
    BY <1>0, <1>1 DEF PTyped, FillType, fp!Blocks
<1>5. QED BY <1>0, <1>1, <1>2, <1>3, <1>4 DEF PagesInv

LEMMA StepFillRead ==
    ASSUME PagesInv, fp!FillRead
    PROVE  PagesInv' /\ Stable
<1> DEFINE new == fp!Filled(fill.size, fill.found[1],
                            IF fp!IsHole(holes, 1) THEN fp!Hole ELSE fill.found[2])
<1>0. /\ fp!slot \in fp!Slots
      /\ PTyped /\ Cache /\ Deltas /\ Device /\ Calls /\ ~pbroken
    BY SlotsTyped DEF PagesInv
<1>1. /\ fill.on
      /\ \E p \in Pages \ DOMAIN pages : live' = p /\ pages' = fp!Put(p, new)
      /\ fill' = fp!NoFill
      /\ UNCHANGED <<kind, forked, psize, holes, pdtree, op, pflush, pdelta, idata, pbroken>>
    BY DEF fp!FillRead
<1>2. Changeable(new, fp!slot)
    <2>1. fill.found[1] \in Content /\ fill.found[2] \in Content /\ fp!Hole \in Content
        BY <1>0 DEF PTyped, FillType, fp!Hole, Content
    <2>2. QED BY <1>0, <2>1, FilledOK
<1> HIDE DEF new
<1>3. live = NoPage /\ op.pc # "write"
    BY <1>0, <1>1 DEF Calls
<1>4. PICK p \in Pages \ DOMAIN pages : live' = p /\ pages' = fp!Put(p, new)
    BY <1>1
<1>5. /\ DOMAIN pages' = DOMAIN pages \union {p} /\ pages'[p] = new
      /\ \A q \in DOMAIN pages : pages'[q] = pages[q]
    BY <1>4 DEF fp!Put
<1>6. /\ live' \in Pages \union {NoPage} /\ forked' \subseteq Pages /\ live' \notin forked'
      /\ DOMAIN pages' = forked' \union ({live'} \ {NoPage})
    BY <1>0, <1>1, <1>3, <1>4, <1>5, PagesAssumption DEF Cache
<1>7. \A q \in DOMAIN pages' :
           \/ q \in DOMAIN pages /\ pages'[q] = pages[q]
           \/ q = live' /\ Changeable(pages'[q], fp!slot)
    BY <1>2, <1>4, <1>5
<1>8. \A q \in forked' : ~AnyDelta(pages'[q], fp!slot)
    BY <1>0, <1>1, <1>5 DEF Cache, Deltas
<1>9. Cache' /\ Deltas' /\ Device' /\ Stable
    BY <1>0, <1>1, <1>6, <1>7, <1>8, Changes
<1>10. fill' \in FillType /\ ~fill'.on
    BY <1>1 DEF FillType, fp!NoFill, fp!Hole, Content
<1>11. Calls'
    BY <1>1, <1>3, <1>10 DEF Calls
<1>12. PTyped'
    BY <1>0, <1>1, <1>10 DEF PTyped
<1>13. QED BY <1>0, <1>1, <1>9, <1>11, <1>12 DEF PagesInv

LEMMA LikeTrans ==
    ASSUME NEW new, NEW mid, NEW was, Like(new, mid), Like(mid, was),
           \A b \in fp!Blocks : was.buf[b].io => mid.buf[b].io
    PROVE  Like(new, was)
BY DEF Like, fp!Units, fp!Blocks

LEMMA ReadBlockEffect ==
    ASSUME NEW pg, PageOK(pg), NEW b \in fp!Blocks, NEW content
    PROVE  /\ fp!ReadBlock(pg, b, content).buf[b].uptodate
           /\ \A k \in fp!Blocks \ {b} : fp!ReadBlock(pg, b, content).buf[k] = pg.buf[k]
BY DEF fp!ReadBlock, PageOK, fp!PageType, fp!Buffer

LEMMA FilledBuffers ==
    ASSUME NEW pg, PageOK(pg), NEW c0 \in Content, NEW c1 \in Content
    PROVE  LET with == fp!WithBuffers(pg)
               one == IF with.buf[0].uptodate THEN with ELSE fp!ReadBlock(with, 0, c0)
               two == IF one.buf[1].uptodate THEN one ELSE fp!ReadBlock(one, 1, c1)
               new == [two EXCEPT !.uptodate = TRUE]
           IN  PageOK(new) /\ Like(new, pg)
<1> DEFINE with == fp!WithBuffers(pg)
           one == IF with.buf[0].uptodate THEN with ELSE fp!ReadBlock(with, 0, c0)
           two == IF one.buf[1].uptodate THEN one ELSE fp!ReadBlock(one, 1, c1)
           new == [two EXCEPT !.uptodate = TRUE]
<1>0. 0 \in fp!Blocks /\ 1 \in fp!Blocks
    BY DEF fp!Blocks
<1>1. PageOK(with) /\ Like(with, pg) /\ \A b \in fp!Blocks : pg.buf[b].io => with.buf[b].io
    <2>1. \A b \in fp!Blocks : pg.buf[b].io => with.buf[b].io
        BY DEF fp!WithBuffers, PageOK
    <2>2. QED BY <2>1, WithBuffersOK
<1> HIDE DEF with
<1>2. PageOK(one) /\ Like(one, with) /\ \A b \in fp!Blocks : with.buf[b].io => one.buf[b].io
    <2>1. CASE with.buf[0].uptodate
        BY <1>1, <2>1 DEF Like
    <2>2. CASE ~with.buf[0].uptodate
        <3>1. PageOK(fp!ReadBlock(with, 0, c0)) /\ Like(fp!ReadBlock(with, 0, c0), with)
            BY <1>0, <1>1, <2>2, ReadBlockOK
        <3>2. \A b \in fp!Blocks : with.buf[b].io => fp!ReadBlock(with, 0, c0).buf[b].io
            BY <1>1 DEF fp!ReadBlock, PageOK, fp!PageType, fp!Buffer
        <3>3. QED BY <2>2, <3>1, <3>2
    <2>3. QED BY <2>1, <2>2
<1> HIDE DEF one
<1>8. one.buf[0].uptodate
    BY <1>0, <1>1, ReadBlockEffect DEF one
<1>3. PageOK(two) /\ Like(two, one) /\ two.buf[0].uptodate /\ two.buf[1].uptodate
    <2>1. CASE one.buf[1].uptodate
        BY <1>2, <1>8, <2>1 DEF Like
    <2>2. CASE ~one.buf[1].uptodate
        <3>1. PageOK(fp!ReadBlock(one, 1, c1)) /\ Like(fp!ReadBlock(one, 1, c1), one)
            BY <1>0, <1>2, <2>2, ReadBlockOK
        <3>2. /\ fp!ReadBlock(one, 1, c1).buf[1].uptodate
              /\ fp!ReadBlock(one, 1, c1).buf[0] = one.buf[0]
            BY <1>0, <1>2, ReadBlockEffect
        <3>3. QED BY <1>8, <2>2, <3>1, <3>2
    <2>3. QED BY <2>1, <2>2
<1> HIDE DEF two
<1>4. /\ new \in fp!PageType /\ new.buf = two.buf /\ new.data = two.data
      /\ (new.writeback <=> two.writeback) /\ (new.dirty <=> two.dirty)
      /\ new.buffers = two.buffers
    BY <1>3 DEF PageOK, fp!PageType
<1>5. Like(two, pg)
    <2>1. Like(one, pg)
        BY <1>1, <1>2, LikeTrans
    <2>2. QED BY <1>1, <1>2, <1>3, <2>1, LikeTrans
<1> HIDE DEF new
<1>9. \A b \in fp!Blocks : new.buf[b].uptodate
    BY <1>3, <1>4 DEF fp!Blocks
<1>6. PageOK(new) /\ Like(new, pg)
    BY <1>3, <1>4, <1>5, <1>9 DEF PageOK, AnyDelta, Like
<1>7. QED BY <1>6 DEF new, two, one, with

LEMMA StepFillBlocks ==
    ASSUME PagesInv, fp!FillBlocks
    PROVE  PagesInv' /\ Stable
<1>0. /\ fp!slot \in fp!Slots /\ 0 \in fp!Blocks /\ 1 \in fp!Blocks
      /\ PTyped /\ Cache /\ Deltas /\ Device /\ Calls /\ ~pbroken
    BY SlotsTyped DEF PagesInv, fp!Blocks
<1>1. /\ ~fp!PageLocked
      /\ UNCHANGED <<kind, forked, psize, holes, pdtree, op, fill, pflush, pdelta, idata, pbroken>>
    BY DEF fp!FillBlocks
<1>2. fp!Lookup(0) \in Content /\ fp!Lookup(1) \in Content /\ fp!Hole \in Content
    BY <1>0, LookupTyped DEF Content, fp!Hole
<1>3. live = NoPage => Cache' /\ Deltas' /\ Device' /\ Stable
    <2> HAVE live = NoPage
    <2> DEFINE new == fp!Filled(psize, fp!Lookup(0), fp!Lookup(1))
    <2>1. PICK p \in Pages \ DOMAIN pages : live' = p /\ pages' = fp!Put(p, new)
        BY DEF fp!FillBlocks
    <2>2. Changeable(new, fp!slot)
        BY <1>0, <1>2, FilledOK
    <2> HIDE DEF new
    <2>3. /\ DOMAIN pages' = DOMAIN pages \union {p} /\ pages'[p] = new
          /\ \A q \in DOMAIN pages : pages'[q] = pages[q]
        BY <2>1 DEF fp!Put
    <2>4. /\ live' \in Pages \union {NoPage} /\ forked' \subseteq Pages /\ live' \notin forked'
          /\ DOMAIN pages' = forked' \union ({live'} \ {NoPage})
        BY <1>0, <1>1, <2>1, <2>3, PagesAssumption DEF Cache
    <2>5. \A q \in DOMAIN pages' :
               \/ q \in DOMAIN pages /\ pages'[q] = pages[q]
               \/ q = live' /\ Changeable(pages'[q], fp!slot)
        BY <2>1, <2>2, <2>3
    <2>6. \A q \in forked' : ~AnyDelta(pages'[q], fp!slot)
        BY <1>0, <1>1, <2>3 DEF Cache, Deltas
    <2>7. QED BY <1>0, <1>1, <2>4, <2>5, <2>6, Changes
<1>4. live # NoPage => Cache' /\ Deltas' /\ Device' /\ Stable
    <2> HAVE live # NoPage
    <2> DEFINE content(b) == IF b < fp!BlocksIn(psize) THEN fp!Lookup(b) ELSE fp!Hole
               pg == fp!WithBuffers(pages[live])
               one == IF pg.buf[0].uptodate THEN pg ELSE fp!ReadBlock(pg, 0, content(0))
               two == IF one.buf[1].uptodate THEN one ELSE fp!ReadBlock(one, 1, content(1))
               new == [two EXCEPT !.uptodate = TRUE]
    <2>1. live' = live /\ pages' = fp!Put(live, new)
        BY DEF fp!FillBlocks
    <2>2. content(0) \in Content /\ content(1) \in Content /\ live \in DOMAIN pages
        BY <1>0, <1>2 DEF Cache
    <2>3. PageOK(pages[live])
        BY <1>0, <2>2 DEF Cache
    <2> HIDE DEF content
    <2>4. PageOK(new) /\ Like(new, pages[live])
        BY <2>2, <2>3, FilledBuffers
    <2> HIDE DEF new
    <2>5. /\ DOMAIN pages' = DOMAIN pages /\ pages'[live] = new
          /\ \A q \in DOMAIN pages \ {live} : pages'[q] = pages[q]
        BY <2>1, <2>2 DEF fp!Put
    <2>6. /\ live' \in Pages \union {NoPage} /\ forked' \subseteq Pages /\ live' \notin forked'
          /\ DOMAIN pages' = forked' \union ({live'} \ {NoPage})
        BY <1>0, <1>1, <2>1, <2>5 DEF Cache
    <2>7. \A q \in DOMAIN pages' :
               \/ q \in DOMAIN pages /\ pages'[q] = pages[q]
               \/ q \in DOMAIN pages /\ PageOK(pages'[q]) /\ Like(pages'[q], pages[q])
        BY <2>2, <2>4, <2>5
    <2>8. \A q \in forked' : ~AnyDelta(pages'[q], fp!slot)
        BY <1>0, <1>1, <2>5 DEF Cache, Deltas
    <2>9. QED BY <1>0, <1>1, <2>6, <2>7, <2>8, Changes
<1>5. Calls'
    BY <1>1 DEF Calls, fp!PageLocked
<1>6. PTyped'
    BY <1>0, <1>1 DEF PTyped
<1>7. QED BY <1>0, <1>1, <1>3, <1>4, <1>5, <1>6 DEF PagesInv

LEMMA StepReclaim ==
    ASSUME PagesInv, fp!Reclaim
    PROVE  PagesInv' /\ Stable
<1>0. PTyped /\ Cache /\ Deltas /\ Device /\ Calls /\ ~pbroken
    BY DEF PagesInv
<1>1. /\ ~fp!PageLocked /\ live' = NoPage /\ pages' = [p \in forked |-> pages[p]]
      /\ UNCHANGED <<kind, forked, psize, holes, pdtree, op, fill, pflush, pdelta, idata, pbroken>>
    BY DEF fp!Reclaim
<1>2. Cache' /\ Deltas' /\ Device' /\ Stable
    BY <1>0, <1>1, Drops
<1>3. Calls'
    BY <1>1 DEF Calls, fp!PageLocked
<1>4. PTyped'
    BY <1>0, <1>1 DEF PTyped
<1>5. QED BY <1>0, <1>1, <1>2, <1>3, <1>4 DEF PagesInv

-----------------------------------------------------------------------------
(* The backend *)

LEMMA StepTransition ==
    ASSUME PagesInv, fp!Transition
    PROVE  PagesInv' /\ Stable
<1>0. /\ fp!slot \in fp!Slots /\ fp!old \in fp!Slots /\ fp!old # fp!slot
      /\ PTyped /\ Cache /\ Deltas /\ Device /\ Calls /\ ~pbroken
    BY SlotsTyped DEF PagesInv
<1>1. /\ op = fp!Idle /\ pflush = "idle" /\ pdelta' = pdelta + 1 /\ pdelta + 1 \in 1 .. MaxDelta
      /\ pflush' = "chop" /\ idata' = psize
      /\ UNCHANGED <<kind, pages, live, forked, psize, holes, pdtree, op, fill, pbroken>>
    BY DEF fp!Transition
<1>2. fp!slot' = fp!old /\ fp!old' = fp!slot
    <2>1. pdelta \in Nat
        BY <1>0, PagesAssumption DEF PTyped
    <2>2. (pdelta + 1) % 2 = 1 - (pdelta % 2)
        BY <2>1
    <2>3. 1 - (1 - (pdelta % 2)) = pdelta % 2
        BY <2>1
    <2>4. QED BY <1>1, <2>2, <2>3 DEF fp!slot, fp!old
<1>3. \A p \in DOMAIN pages : AnyDelta(pages[p], fp!slot) => p = live
    BY <1>0 DEF Cache, Deltas
<1>4. Cache'
    BY <1>0, <1>1 DEF Cache
<1>5. Deltas'
    <2>1. \A p \in forked' : ~AnyDelta(pages'[p], fp!slot')
        BY <1>0, <1>1, <1>2 DEF Cache, Deltas
    <2>2. \A p, q \in DOMAIN pages' :
             AnyDelta(pages'[p], fp!old') /\ AnyDelta(pages'[q], fp!old') => p = q
        BY <1>1, <1>2, <1>3
    <2>3. QED BY <1>1, <2>1, <2>2 DEF Deltas
<1>6. Device'
    BY <1>0, <1>1 DEF Device
<1>7. Stable
    BY <1>1 DEF Stable
<1>8. Calls'
    BY <1>0, <1>1 DEF Calls, fp!Idle
<1>9. PTyped'
    BY <1>0, <1>1 DEF PTyped
<1>10. QED BY <1>0, <1>1, <1>4, <1>5, <1>6, <1>7, <1>8, <1>9 DEF PagesInv

(* The backend goes on, the page cache stays. *)
LEMMA GoesOn ==
    ASSUME Cache, Deltas, Device, Calls, pdelta' = pdelta,
           UNCHANGED <<pages, live, forked, op, fill>>,
           pflush \in {"chop", "unhole"}, pflush' \in {"unhole", "map"}
    PROVE  Cache' /\ Deltas' /\ Device' /\ Calls' /\ Stable
<1>1. fp!slot' = fp!slot /\ fp!old' = fp!old
    BY DEF fp!slot, fp!old
<1>2. Cache'
    BY DEF Cache
<1>3. Deltas'
    BY <1>1 DEF Deltas
<1>4. Device'
    BY DEF Device
<1>5. Calls'
    BY <1>1 DEF Calls
<1>6. Stable
    BY DEF Stable
<1>7. QED BY <1>2, <1>3, <1>4, <1>5, <1>6

LEMMA StepChop ==
    ASSUME PagesInv, fp!Chop
    PROVE  PagesInv' /\ Stable
<1>1. /\ pflush = "chop" /\ pflush' = "unhole"
      /\ pdtree' = [b \in fp!Blocks |-> IF b >= holes[fp!old] THEN fp!Hole ELSE pdtree[b]]
      /\ UNCHANGED <<kind, pages, live, forked, psize, holes, op, fill, pdelta, idata, pbroken>>
    BY DEF fp!Chop
<1>2. Cache' /\ Deltas' /\ Device' /\ Calls' /\ Stable
    BY <1>1, GoesOn DEF PagesInv
<1>3. PTyped'
    BY <1>1 DEF PagesInv, PTyped, fp!Hole, Content
<1>4. QED BY <1>1, <1>2, <1>3 DEF PagesInv

LEMMA StepUnhole ==
    ASSUME PagesInv, fp!Unhole
    PROVE  PagesInv' /\ Stable
<1>1. /\ pflush = "unhole" /\ pflush' = "map"
      /\ holes' = [holes EXCEPT ![fp!old] = 2]
      /\ UNCHANGED <<kind, pages, live, forked, psize, pdtree, op, fill, pdelta, idata, pbroken>>
    BY DEF fp!Unhole
<1>2. Cache' /\ Deltas' /\ Device' /\ Calls' /\ Stable
    BY <1>1, GoesOn DEF PagesInv
<1>3. holes' \in [fp!Slots -> 0 .. 2]
    <2>1. holes \in [fp!Slots -> 0 .. 2] /\ 2 \in 0 .. 2
        BY DEF PagesInv, PTyped
    <2>2. QED BY <1>1, <2>1
<1>4. PTyped'
    BY <1>1, <1>3 DEF PagesInv, PTyped
<1>5. QED BY <1>1, <1>2, <1>4 DEF PagesInv

LEMMA OwnersAre ==
    /\ \A p : p \in fp!Owners <=> p \in DOMAIN pages /\ AnyDelta(pages[p], fp!old)
    /\ \A pg : \A b : b \in fp!DirtyIn(pg) <=> b \in fp!Blocks /\ pg.buf[b].delta = fp!old
BY DEF fp!Owners, fp!DirtyIn, AnyDelta

LEMMA AtMostOne ==
    ASSUME NEW s, \A x, y \in s : x = y
    PROVE  IsFiniteSet(s) /\ Cardinality(s) <= 1
<1>1. CASE s = {}
    BY <1>1, FS_EmptySet
<1>2. CASE s # {}
    <2>1. PICK x \in s : TRUE
        BY <1>2
    <2>2. s = {x}
        BY <2>1
    <2>3. IsFiniteSet({x}) /\ Cardinality({x}) = 1
        BY FS_Singleton
    <2>4. QED BY <2>2, <2>3
<1>3. QED BY <1>1, <1>2

LEMMA StepMap ==
    ASSUME PagesInv, fp!Map
    PROVE  PagesInv' /\ Stable
<1> DEFINE outside == fp!BlocksIn(idata)
           written == (UNION {fp!DirtyIn(pages[p]) : p \in fp!Owners}) \cap (0 .. outside - 1)
<1>0. /\ fp!slot \in fp!Slots /\ fp!old \in fp!Slots /\ fp!old # fp!slot
      /\ PTyped /\ Cache /\ Deltas /\ Device /\ Calls /\ ~pbroken
    BY SlotsTyped DEF PagesInv
<1>1. /\ pflush = "map"
      /\ pages' = [p \in DOMAIN pages |->
                      IF p \in fp!Owners THEN fp!Cancelled(pages[p], outside) ELSE pages[p]]
      /\ pdtree' = fp!Redirected(written)
      /\ pflush' = IF written = {} THEN "commit" ELSE "prepare"
      /\ pbroken' = (pbroken \/ Cardinality(fp!Owners) > 1)
      /\ UNCHANGED <<kind, live, forked, psize, holes, op, fill, pdelta, idata>>
    <2>c. fp!Cardinality(fp!Owners) = Cardinality(fp!Owners)
        BY DEF fp!Cardinality, Cardinality, fp!IsFiniteSet, IsFiniteSet
    <2>1. pflush = "map" /\ pbroken' = (pbroken \/ Cardinality(fp!Owners) > 1)
        BY <2>c DEF fp!Map
    <2>2. pages' = [p \in DOMAIN pages |->
                      IF p \in fp!Owners THEN fp!Cancelled(pages[p], outside) ELSE pages[p]]
        BY Zenon DEF fp!Map
    <2>3. pdtree' = fp!Redirected(written)
        BY Zenon DEF fp!Map
    <2>4. pflush' = IF written = {} THEN "commit" ELSE "prepare"
        BY Zenon DEF fp!Map
    <2>5. UNCHANGED <<kind, live, forked, psize, holes, op, fill, pdelta, idata>>
        BY Zenon DEF fp!Map
    <2>6. QED BY <2>1, <2>2, <2>3, <2>4, <2>5
<1>2. outside \in Nat /\ outside \in 0 .. 2
    <2>1. idata \in 0 .. 4
        BY <1>0 DEF PTyped
    <2>2. QED BY <2>1 DEF fp!BlocksIn
<1> HIDE DEF outside
<1>3. \A p \in fp!Owners :
        /\ p \in DOMAIN pages /\ AnyDelta(pages[p], fp!old) /\ PageOK(pages[p])
        /\ PageOK(pages'[p]) /\ ~AnyDelta(pages'[p], fp!slot) /\ ~pages'[p].writeback
        /\ pages'[p].data = pages[p].data
        /\ \A b \in fp!Blocks : pages'[p].buf[b].delta = fp!old
                                 <=> pages[p].buf[b].delta = fp!old /\ b < outside
    <2> SUFFICES ASSUME NEW p \in fp!Owners
                 PROVE  /\ p \in DOMAIN pages /\ AnyDelta(pages[p], fp!old) /\ PageOK(pages[p])
                        /\ PageOK(pages'[p]) /\ ~AnyDelta(pages'[p], fp!slot)
                        /\ ~pages'[p].writeback
                        /\ pages'[p].data = pages[p].data
                        /\ \A b \in fp!Blocks : pages'[p].buf[b].delta = fp!old
                                 <=> pages[p].buf[b].delta = fp!old /\ b < outside
        OBVIOUS
    <2>1. p \in DOMAIN pages /\ AnyDelta(pages[p], fp!old) /\ PageOK(pages[p])
        BY <1>0, OwnersAre DEF Cache
    <2>2. pages'[p] = fp!Cancelled(pages[p], outside)
        BY <1>1, <2>1
    <2>3. QED BY <1>0, <1>2, <2>1, <2>2, CancelledOK
<1>4. /\ DOMAIN pages' = DOMAIN pages
      /\ \A p \in DOMAIN pages \ fp!Owners : pages'[p] = pages[p] /\ ~AnyDelta(pages[p], fp!old)
    BY <1>1, OwnersAre
<1>5. fp!slot' = fp!slot /\ fp!old' = fp!old
    BY <1>1 DEF fp!slot, fp!old
<1>6. Cache'
    <2>1. \A p \in DOMAIN pages' : PageOK(pages'[p])
        BY <1>0, <1>3, <1>4 DEF Cache
    <2>2. /\ live' \in Pages \union {NoPage} /\ forked' \subseteq Pages /\ live' \notin forked'
          /\ DOMAIN pages' = forked' \union ({live'} \ {NoPage})
        BY <1>0, <1>1, <1>4 DEF Cache
    <2>3. QED BY <2>1, <2>2 DEF Cache, PageOK, fp!PageType, AnyDelta, fp!Slots, fp!Blocks,
                    fp!Units, fp!Buffer, None, fp!None, fp!Junk
<1>7. Deltas'
    <2>1. \A p \in forked' : ~AnyDelta(pages'[p], fp!slot)
        BY <1>0, <1>1, <1>3, <1>4 DEF Cache, Deltas
    <2>2. \A p \in DOMAIN pages' : AnyDelta(pages'[p], fp!old) => p \in fp!Owners
        BY <1>3, <1>4
    <2>3. \A p, q \in fp!Owners : p = q
        BY <1>0, OwnersAre DEF Deltas
    <2>4. pflush' \in {"idle", "io", "commit"} =>
              \A p \in DOMAIN pages' : ~AnyDelta(pages'[p], fp!old)
        <3> SUFFICES ASSUME written = {}, NEW p \in DOMAIN pages', AnyDelta(pages'[p], fp!old)
                     PROVE  FALSE
            BY <1>1
        <3>1. p \in fp!Owners
            BY <2>2
        <3>2. PICK b \in fp!Blocks : pages'[p].buf[b].delta = fp!old
            BY DEF AnyDelta
        <3>3. b \in fp!DirtyIn(pages[p]) /\ b < outside
            BY <1>3, <3>1, <3>2, OwnersAre
        <3>4. b \in 0 .. outside - 1
            BY <1>2, <3>3 DEF fp!Blocks
        <3>5. b \in written
            <4>1. fp!DirtyIn(pages[p]) \in {fp!DirtyIn(pages[q]) : q \in fp!Owners}
                BY <3>1
            <4>2. b \in UNION {fp!DirtyIn(pages[q]) : q \in fp!Owners}
                BY <3>3, <4>1
            <4>3. QED BY <3>4, <4>2, Zenon
        <3>6. QED BY <3>5
    <2>5. \A p, q \in DOMAIN pages' :
             AnyDelta(pages'[p], fp!old) /\ AnyDelta(pages'[q], fp!old) => p = q
        BY <2>2, <2>3
    <2> HIDE DEF written
    <2>6. QED BY <1>5, <2>1, <2>4, <2>5 DEF Deltas, AnyDelta, fp!Blocks
<1>8. Device'
    <2>1. \A p \in DOMAIN pages' : ~pages'[p].writeback
        BY <1>0, <1>1, <1>3, <1>4 DEF Device
    <2>2. QED BY <2>1 DEF Device
<1>9. Stable
    <2>1. \A p \in DOMAIN pages : pages'[p].data = pages[p].data
        BY <1>3, <1>4
    <2>2. QED BY <2>1 DEF Stable
<1>10. Calls'
    <2>1. fill'.on => live' = NoPage
        BY <1>0, <1>1 DEF Calls
    <2>2. op.pc = "write" => live # NoPage /\ Writable(pages'[live], fp!slot)
        <3> SUFFICES ASSUME op.pc = "write" PROVE live # NoPage /\ Writable(pages'[live], fp!slot)
            OBVIOUS
        <3>1. live # NoPage /\ Writable(pages[live], fp!slot) /\ live \in DOMAIN pages
            BY <1>0 DEF Calls, Cache
        <3>2. ~AnyDelta(pages[live], fp!old)
            BY <3>1 DEF Writable, Changeable, fp!old
        <3>3. live \notin fp!Owners
            BY <3>2, OwnersAre
        <3>4. QED BY <1>4, <3>1, <3>3
    <2>3. QED BY <1>1, <1>5, <2>1, <2>2 DEF Calls
<1>11. ~pbroken'
    <2>1. \A p, q \in fp!Owners : p = q
        BY <1>0, OwnersAre DEF Deltas
    <2>2. Cardinality(fp!Owners) <= 1 /\ Cardinality(fp!Owners) \in Nat
        BY <2>1, AtMostOne, FS_CardinalityType
    <2>3. ~(Cardinality(fp!Owners) > 1)
        BY <2>2
    <2>4. QED BY <1>0, <1>1, <2>3
<1>12. PTyped'
    <2>1. pdtree' \in [fp!Blocks -> Content]
        <3> HIDE DEF written
        <3>1. <<fp!Junk, fp!Junk>> \in Content
            BY DEF Content, Unit, fp!Junk
        <3>2. pdtree \in [fp!Blocks -> Content]
            BY <1>0 DEF PTyped
        <3>3. pdtree' = [b \in fp!Blocks |->
                           IF b \in written THEN <<fp!Junk, fp!Junk>> ELSE pdtree[b]]
            BY <1>1 DEF fp!Redirected
        <3>4. QED BY <3>1, <3>2, <3>3
    <2> HIDE DEF written
    <2>2. pflush' \in {"commit", "prepare"}
        BY <1>1
    <2>3. QED BY <1>0, <1>1, <2>1, <2>2 DEF PTyped
<1>13. QED BY <1>6, <1>7, <1>8, <1>9, <1>10, <1>11, <1>12 DEF PagesInv

LEMMA StepPrepare ==
    ASSUME PagesInv, NEW p \in Pages, fp!Prepare(p)
    PROVE  PagesInv' /\ Stable
<1> DEFINE pg == fp!InFlight(pages[p])
           new == IF idata % 4 = 0 THEN pg ELSE fp!ZeroFill(pg, idata, 4)
<1>0. /\ fp!slot \in fp!Slots /\ fp!old \in fp!Slots /\ fp!old # fp!slot
      /\ fp!Slots = {fp!slot, fp!old}
      /\ PTyped /\ Cache /\ Deltas /\ Device /\ Calls /\ ~pbroken
    BY SlotsTyped DEF PagesInv
<1>1. /\ pflush = "prepare" /\ p \in fp!Owners /\ ~(p = live /\ fp!PageLocked)
      /\ pages' = [pages EXCEPT ![p] = new] /\ pflush' = "io"
      /\ pbroken' = (pbroken \/ ~pages[p].dirty \/ pages[p].writeback
                      \/ \E b \in fp!DirtyIn(pages[p]) : ~pages[p].buf[b].uptodate)
      /\ UNCHANGED <<kind, live, forked, psize, holes, pdtree, op, fill, pdelta, idata>>
    BY DEF fp!Prepare
<1>2. p \in DOMAIN pages /\ AnyDelta(pages[p], fp!old) /\ PageOK(pages[p])
    BY <1>0, <1>1, OwnersAre DEF Cache
<1>3. PageOK(pg) /\ pg.writeback /\ \A s \in fp!Slots : ~AnyDelta(pg, s)
    BY <1>0, <1>2, InFlightOK
<1> HIDE DEF pg
<1>4. PageOK(new) /\ new.writeback /\ \A s \in fp!Slots : ~AnyDelta(new, s)
    BY <1>3, ZeroFillOK DEF AnyDelta
<1> HIDE DEF new
<1>5. /\ DOMAIN pages' = DOMAIN pages /\ pages'[p] = new
      /\ \A q \in DOMAIN pages \ {p} : pages'[q] = pages[q]
    BY <1>1, <1>2
<1>6. fp!slot' = fp!slot /\ fp!old' = fp!old
    BY <1>1 DEF fp!slot, fp!old
<1>7. Cache'
    <2>1. \A q \in DOMAIN pages' : PageOK(pages'[q])
        BY <1>0, <1>4, <1>5 DEF Cache
    <2>2. /\ live' \in Pages \union {NoPage} /\ forked' \subseteq Pages /\ live' \notin forked'
          /\ DOMAIN pages' = forked' \union ({live'} \ {NoPage})
        BY <1>0, <1>1, <1>5 DEF Cache
    <2>3. QED BY <2>1, <2>2 DEF Cache, PageOK, fp!PageType, AnyDelta, fp!Slots, fp!Blocks,
                    fp!Units, fp!Buffer, None, fp!None, fp!Junk
<1>8. Deltas'
    <2>1. \A q \in forked' : ~AnyDelta(pages'[q], fp!slot)
        BY <1>0, <1>1, <1>4, <1>5 DEF Cache, Deltas
    <2>2. \A q \in DOMAIN pages' : ~AnyDelta(pages'[q], fp!old)
        <3> SUFFICES ASSUME NEW q \in DOMAIN pages' PROVE ~AnyDelta(pages'[q], fp!old)
            OBVIOUS
        <3>1. CASE q = p
            BY <1>0, <1>4, <1>5, <3>1
        <3>2. CASE q # p
            BY <1>0, <1>2, <1>5, <3>2 DEF Deltas
        <3>3. QED BY <3>1, <3>2
    <2>3. QED BY <1>6, <2>1, <2>2 DEF Deltas, AnyDelta, fp!Blocks
<1>9. Device'
    <2>1. \A q \in DOMAIN pages' : pages'[q].writeback => q = p
        BY <1>0, <1>1, <1>5 DEF Device
    <2>2. QED BY <1>1, <2>1 DEF Device
<1>10. Stable
    <2> SUFFICES ASSUME NEW q \in DOMAIN pages \cap DOMAIN pages', NEW u \in 0 .. 3,
                        pages[q].buf[u \div 2].io
                 PROVE  pages'[q].data[u] = pages[q].data[u]
        BY DEF Stable
    <2>1. pages[q].writeback
        BY <1>0, UnitIndex DEF Cache, PageOK
    <2>2. pflush = "io"
        BY <1>0, <2>1 DEF Device
    <2>3. QED BY <1>1, <2>2
<1>11. Calls'
    <2>1. fill'.on => live' = NoPage
        BY <1>0, <1>1 DEF Calls
    <2>2. op.pc = "write" => live # NoPage /\ Writable(pages'[live], fp!slot)
        <3> SUFFICES ASSUME op.pc = "write" PROVE live # NoPage /\ Writable(pages'[live], fp!slot)
            OBVIOUS
        <3>1. live # NoPage /\ Writable(pages[live], fp!slot) /\ live \in DOMAIN pages
            BY <1>0 DEF Calls, Cache
        <3>2. live # p
            BY <1>1 DEF fp!PageLocked
        <3>3. QED BY <1>5, <3>1, <3>2
    <2>3. QED BY <1>1, <1>6, <2>1, <2>2 DEF Calls
<1>12. ~pbroken'
    <2>1. /\ pages[p].dirty /\ ~pages[p].writeback
          /\ \A b \in fp!DirtyIn(pages[p]) : pages[p].buf[b].uptodate
        <3>1. fp!old # None
            BY <1>0 DEF fp!Slots, None
        <3>2. QED BY <1>2, <3>1, OwnersAre DEF PageOK, AnyDelta
    <2>2. QED BY <1>0, <1>1, <2>1
<1>13. PTyped'
    BY <1>0, <1>1 DEF PTyped
<1>14. QED BY <1>7, <1>8, <1>9, <1>10, <1>11, <1>12, <1>13 DEF PagesInv

LEMMA StepEndIO ==
    ASSUME PagesInv, NEW p \in Pages, fp!EndIO(p)
    PROVE  PagesInv' /\ Stable
<1>0. /\ fp!slot \in fp!Slots /\ fp!old \in fp!Slots /\ fp!old # fp!slot
      /\ PTyped /\ Cache /\ Deltas /\ Device /\ Calls /\ ~pbroken
    BY SlotsTyped DEF PagesInv
<1>1. PICK bio \in fp!Bios(pages[p]) :
      /\ pdtree' = [b \in fp!Blocks |->
                      IF b \in bio THEN <<pages[p].data[2 * b], pages[p].data[2 * b + 1]>>
                      ELSE pdtree[b]]
      /\ pages' = [pages EXCEPT ![p] = fp!Ended(pages[p], bio)]
      /\ pflush' = IF \E b \in fp!Blocks \ bio : pages[p].buf[b].io THEN "io" ELSE "commit"
    BY DEF fp!EndIO
<1>2. /\ pflush = "io" /\ p \in DOMAIN pages
      /\ UNCHANGED <<kind, live, forked, psize, holes, op, fill, pdelta, idata, pbroken>>
    BY DEF fp!EndIO
<1>3. PageOK(pages[p]) /\ pages[p].writeback
    <2>1. PageOK(pages[p])
        BY <1>0, <1>2 DEF Cache
    <2>2. \E b \in fp!Blocks : pages[p].buf[b].io
        BY <1>1 DEF fp!Bios
    <2>3. QED BY <2>1, <2>2 DEF PageOK
<1> DEFINE new == fp!Ended(pages[p], bio)
<1>4. /\ PageOK(new) /\ \A s \in fp!Slots : ~AnyDelta(new, s)
      /\ new.data = pages[p].data
      /\ new.writeback <=> \E b \in fp!Blocks \ bio : pages[p].buf[b].io
    BY <1>3, EndedOK
<1> HIDE DEF new
<1>5. /\ DOMAIN pages' = DOMAIN pages /\ pages'[p] = new
      /\ \A q \in DOMAIN pages \ {p} : pages'[q] = pages[q]
    BY <1>1, <1>2 DEF new
<1>6. fp!slot' = fp!slot /\ fp!old' = fp!old
    BY <1>2 DEF fp!slot, fp!old
<1>7. Cache'
    <2>1. \A q \in DOMAIN pages' : PageOK(pages'[q])
        BY <1>0, <1>4, <1>5 DEF Cache
    <2>2. /\ live' \in Pages \union {NoPage} /\ forked' \subseteq Pages /\ live' \notin forked'
          /\ DOMAIN pages' = forked' \union ({live'} \ {NoPage})
        BY <1>0, <1>2, <1>5 DEF Cache
    <2>3. QED BY <2>1, <2>2 DEF Cache, PageOK, fp!PageType, AnyDelta, fp!Slots, fp!Blocks,
                    fp!Units, fp!Buffer, None, fp!None, fp!Junk
<1>8. Deltas'
    <2>1. \A q \in forked' : ~AnyDelta(pages'[q], fp!slot)
        BY <1>0, <1>2, <1>4, <1>5 DEF Cache, Deltas
    <2>2. \A q \in DOMAIN pages' : ~AnyDelta(pages'[q], fp!old)
        BY <1>0, <1>2, <1>4, <1>5 DEF Deltas
    <2>3. QED BY <1>6, <2>1, <2>2 DEF Deltas, AnyDelta, fp!Blocks
<1>9. Device'
    <2>1. \A q \in DOMAIN pages : pages[q].writeback => q = p
        BY <1>0, <1>2, <1>3 DEF Device
    <2>a. \A q \in DOMAIN pages' : pages'[q].writeback => q = p
        BY <1>5, <2>1
    <2>2. pages'[p].writeback => pflush' = "io"
        BY <1>1, <1>4, <1>5
    <2>3. QED BY <2>a, <2>2 DEF Device
<1>10. Stable
    <2>1. \A q \in DOMAIN pages : pages'[q].data = pages[q].data
        BY <1>4, <1>5
    <2>2. QED BY <2>1 DEF Stable
<1>11. Calls'
    <2>1. fill'.on => live' = NoPage
        BY <1>0, <1>2 DEF Calls
    <2>2. op.pc = "write" => live # NoPage /\ Writable(pages'[live], fp!slot)
        <3> SUFFICES ASSUME op.pc = "write" PROVE live # NoPage /\ Writable(pages'[live], fp!slot)
            OBVIOUS
        <3>1. live # NoPage /\ Writable(pages[live], fp!slot) /\ live \in DOMAIN pages
            BY <1>0 DEF Calls, Cache
        <3>2. live # p
            BY <1>3, <3>1 DEF Writable, Changeable
        <3>3. QED BY <1>5, <3>1, <3>2
    <2>3. QED BY <1>2, <1>6, <2>1, <2>2 DEF Calls
<1>12. PTyped'
    <2>1. \A b \in fp!Blocks : <<pages[p].data[2 * b], pages[p].data[2 * b + 1]>> \in Content
        <3>1. pages[p].data \in [fp!Units -> Unit]
            BY <1>3, PageFields DEF PageOK
        <3>2. \A b \in fp!Blocks : 2 * b \in fp!Units /\ 2 * b + 1 \in fp!Units
            BY DEF fp!Blocks, fp!Units
        <3>3. QED BY <3>1, <3>2 DEF Content
    <2>2. pdtree' \in [fp!Blocks -> Content]
        BY <1>0, <1>1, <2>1 DEF PTyped
    <2>3. pflush' \in {"io", "commit"}
        BY <1>1
    <2>4. QED BY <1>0, <1>2, <2>2, <2>3 DEF PTyped
<1>13. QED BY <1>0, <1>2, <1>7, <1>8, <1>9, <1>10, <1>11, <1>12 DEF PagesInv

LEMMA StepCommitDelta ==
    ASSUME PagesInv, fp!CommitDelta
    PROVE  PagesInv' /\ Stable
<1>0. PTyped /\ Cache /\ Deltas /\ Device /\ Calls /\ ~pbroken
    BY DEF PagesInv
<1>1. PICK freed \in SUBSET fp!Freeable :
        /\ forked' = forked \ freed
        /\ pages' = fp!Without(freed)
    BY DEF fp!CommitDelta
<1>2. /\ pflush = "commit" /\ pflush' = "idle"
      /\ UNCHANGED <<kind, live, psize, holes, pdtree, op, fill, pdelta, idata, pbroken>>
    BY DEF fp!CommitDelta
<1>3. freed \subseteq forked
    BY DEF fp!Freeable
<1>4. /\ DOMAIN pages' = DOMAIN pages \ freed
      /\ \A q \in DOMAIN pages' : pages'[q] = pages[q]
    BY <1>1 DEF fp!Without
<1>5. fp!slot' = fp!slot /\ fp!old' = fp!old
    BY <1>2 DEF fp!slot, fp!old
<1>6. Cache'
    <2>1. \A q \in DOMAIN pages' : PageOK(pages'[q])
        BY <1>0, <1>4 DEF Cache
    <2>2. /\ live' \in Pages \union {NoPage} /\ forked' \subseteq Pages /\ live' \notin forked'
          /\ DOMAIN pages' = forked' \union ({live'} \ {NoPage})
        BY <1>0, <1>1, <1>2, <1>3, <1>4 DEF Cache
    <2>3. QED BY <2>1, <2>2 DEF Cache, PageOK, fp!PageType, AnyDelta, fp!Slots, fp!Blocks,
                    fp!Units, fp!Buffer, None, fp!None, fp!Junk
<1>7. Deltas'
    <2>1. \A q \in forked' : ~AnyDelta(pages'[q], fp!slot)
        BY <1>0, <1>1, <1>4 DEF Cache, Deltas
    <2>2. \A q \in DOMAIN pages' : ~AnyDelta(pages'[q], fp!old)
        BY <1>0, <1>2, <1>4 DEF Deltas
    <2>3. QED BY <1>5, <2>1, <2>2 DEF Deltas, AnyDelta, fp!Blocks
<1>8. Device'
    <2>1. \A q \in DOMAIN pages' : ~pages'[q].writeback
        BY <1>0, <1>2, <1>4 DEF Device
    <2>2. QED BY <2>1 DEF Device
<1>9. Stable
    BY <1>4 DEF Stable
<1>10. Calls'
    <2>1. fill'.on => live' = NoPage
        BY <1>0, <1>2 DEF Calls
    <2>2. op.pc = "write" => live # NoPage /\ Writable(pages'[live], fp!slot)
        <3> SUFFICES ASSUME op.pc = "write" PROVE live # NoPage /\ Writable(pages'[live], fp!slot)
            OBVIOUS
        <3>1. live # NoPage /\ Writable(pages[live], fp!slot) /\ live \in DOMAIN pages
            BY <1>0 DEF Calls, Cache
        <3>2. live \notin freed
            BY <1>0, <1>3 DEF Cache
        <3>3. QED BY <1>4, <3>1, <3>2
    <2>3. QED BY <1>2, <1>5, <2>1, <2>2 DEF Calls
<1>11. PTyped'
    BY <1>0, <1>2 DEF PTyped
<1>12. QED BY <1>0, <1>2, <1>6, <1>7, <1>8, <1>9, <1>10, <1>11 DEF PagesInv

LEMMA StepEvict ==
    ASSUME PagesInv, fp!Evict
    PROVE  PagesInv' /\ Stable
<1>0. PTyped /\ Cache /\ Deltas /\ Device /\ Calls /\ ~pbroken
    BY DEF PagesInv
<1>1. /\ op = fp!Idle /\ pflush = "idle" /\ ~fill.on /\ \A p \in DOMAIN pages : ~pages[p].dirty
      /\ live' = NoPage /\ forked' = {} /\ pages' = [p \in {} |-> fp!NewPage]
      /\ pbroken' = (pbroken \/ \E p \in forked : pages[p].dirty \/ pages[p].writeback)
      /\ UNCHANGED <<kind, psize, holes, pdtree, op, fill, pflush, pdelta, idata>>
    BY DEF fp!Evict
<1>2. DOMAIN pages' = {}
    BY <1>1
<1>3. Cache'
    BY <1>1, <1>2 DEF Cache
<1>4. Deltas' /\ Device' /\ Stable
    BY <1>1, <1>2 DEF Deltas, Device, Stable
<1>5. Calls'
    BY <1>1 DEF Calls, fp!Idle
<1>6. ~pbroken'
    <2>1. \A p \in forked : ~pages[p].dirty /\ ~pages[p].writeback
        BY <1>0, <1>1 DEF Cache, Device
    <2>2. QED BY <1>0, <1>1, <2>1
<1>7. PTyped'
    BY <1>0, <1>1 DEF PTyped
<1>8. QED BY <1>3, <1>4, <1>5, <1>6, <1>7 DEF PagesInv

-----------------------------------------------------------------------------
LEMMA PagesInit ==
    ASSUME FrontInit
    PROVE  PagesInv
<1>1. /\ kind \in {"file", "dir"}
      /\ pages = [p \in {} |-> fp!NewPage] /\ live = NoPage /\ forked = {}
      /\ psize = 0 /\ holes = [s \in fp!Slots |-> 2] /\ pdtree = [b \in fp!Blocks |-> fp!Hole]
      /\ op = fp!Idle /\ fill = fp!NoFill /\ pflush = "idle" /\ pdelta = fp!Min(1 .. MaxDelta)
      /\ idata = 0 /\ pbroken = FALSE
    BY DEF FrontInit, fp!Init
<1>2. pdelta \in 1 .. MaxDelta
    <2>1. 1 \in 1 .. MaxDelta /\ \A x \in 1 .. MaxDelta : 1 <= x
        BY PagesAssumption
    <2>2. QED BY <1>1, <2>1 DEF fp!Min
<1>3. PTyped
    <2>1. op \in OpType
        BY <1>1 DEF OpType, fp!Idle
    <2>2. fill \in FillType
        BY <1>1 DEF FillType, fp!NoFill, fp!Hole, Content
    <2>3. pdtree \in [fp!Blocks -> Content] /\ holes \in [fp!Slots -> 0 .. 2]
        BY <1>1 DEF fp!Hole, Content
    <2>4. QED BY <1>1, <1>2, <2>1, <2>2, <2>3 DEF PTyped
<1>4. DOMAIN pages = {}
    BY <1>1
<1>5. Cache /\ Deltas /\ Device
    BY <1>1, <1>4 DEF Cache, Deltas, Device
<1>6. Calls
    BY <1>1 DEF Calls, fp!Idle, fp!NoFill
<1>7. QED BY <1>1, <1>3, <1>5, <1>6 DEF PagesInv

LEMMA PagesStep ==
    ASSUME PagesInv, [FrontNext]_frontVars
    PROVE  PagesInv' /\ Stable
<1>1. CASE UNCHANGED pagesVars
    <2>1. PTyped /\ Cache /\ Deltas /\ Device /\ Calls /\ ~pbroken
        BY DEF PagesInv
    <2>2. Cache' /\ Deltas' /\ Device' /\ Stable
        BY <1>1, <2>1, Stays DEF pagesVars
    <2>3. Calls'
        BY <1>1, <2>1, SlotKept DEF pagesVars, Calls
    <2>4. PTyped' /\ ~pbroken'
        BY <1>1, <2>1 DEF pagesVars, PTyped
    <2>5. QED BY <2>2, <2>3, <2>4 DEF PagesInv
<1>2. CASE fp!Next
    <2>1. CASE \E from \in Starts, to \in Ends : from < to /\ fp!WriteBegin(from, to)
        BY <2>1, StepWriteBegin
    <2>2. CASE \E all \in BOOLEAN : fp!WriteEnd(all)
        BY <2>2, StepWriteEnd
    <2>3. CASE \E b \in fp!Blocks : fp!BlockWrite(b)
        BY <2>3, StepBlockWrite
    <2>4. CASE \E newsize \in 0 .. 4 : fp!TruncatePartial(newsize)
        BY <2>4, StepTruncatePartial
    <2>5. CASE fp!TruncateSize  BY <2>5, StepTruncateSize
    <2>6. CASE fp!TruncateHole  BY <2>6, StepTruncateHole
    <2>7. CASE fp!FillLookup    BY <2>7, StepFillLookup
    <2>8. CASE fp!FillRead      BY <2>8, StepFillRead
    <2>9. CASE fp!FillBlocks    BY <2>9, StepFillBlocks
    <2>10. CASE fp!Reclaim      BY <2>10, StepReclaim
    <2>11. CASE fp!Transition   BY <2>11, StepTransition
    <2>12. CASE fp!Chop         BY <2>12, StepChop
    <2>13. CASE fp!Unhole       BY <2>13, StepUnhole
    <2>14. CASE fp!Map          BY <2>14, StepMap
    <2>15. CASE \E p \in Pages : fp!Prepare(p)
        BY <2>15, StepPrepare
    <2>16. CASE \E p \in Pages : fp!EndIO(p)
        BY <2>16, StepEndIO
    <2>17. CASE fp!CommitDelta  BY <2>17, StepCommitDelta
    <2>18. CASE fp!Evict        BY <2>18, StepEvict
    <2>19. QED
        BY <1>2, <2>1, <2>2, <2>3, <2>4, <2>5, <2>6, <2>7, <2>8, <2>9, <2>10, <2>11, <2>12,
           <2>13, <2>14, <2>15, <2>16, <2>17, <2>18 DEF fp!Next
<1>3. QED
    BY <1>1, <1>2 DEF FrontNext, frontVars

(* A race that happened is not forgotten: only readers, vmscan and the end  *)
(* of a hole extent take part in one.                                       *)
Races == {"lookup", "truncate", "reclaim"}

LEMMA RacedGrows ==
    ASSUME [FrontNext]_frontVars
    PROVE  raced \subseteq raced' /\ (raced \subseteq Races => raced' \subseteq Races)
<1>1. CASE UNCHANGED pagesVars
    BY <1>1 DEF pagesVars
<1>2. CASE fp!Next
    <2>1. CASE \E from \in Starts, to \in Ends : from < to /\ fp!WriteBegin(from, to)
        BY <2>1 DEF fp!WriteBegin
    <2>2. CASE \E all \in BOOLEAN : fp!WriteEnd(all)
        BY <2>2 DEF fp!WriteEnd
    <2>3. CASE \E b \in fp!Blocks : fp!BlockWrite(b)
        BY <2>3 DEF fp!BlockWrite
    <2>4. CASE \E newsize \in 0 .. 4 : fp!TruncatePartial(newsize)
        BY <2>4 DEF fp!TruncatePartial
    <2>5. CASE fp!TruncateSize
        BY <2>5 DEF fp!TruncateSize
    <2>6. CASE fp!TruncateHole
        BY <2>6 DEF fp!TruncateHole
    <2>7. CASE fp!FillLookup
        BY <2>7 DEF fp!FillLookup, fp!RaceIf, Races
    <2>8. CASE fp!FillRead
        BY <2>8 DEF fp!FillRead
    <2>9. CASE fp!FillBlocks
        BY <2>9 DEF fp!FillBlocks, fp!RaceIf, Races
    <2>10. CASE fp!Reclaim
        BY <2>10 DEF fp!Reclaim, fp!RaceIf, Races
    <2>11. CASE fp!Transition
        BY <2>11 DEF fp!Transition
    <2>12. CASE fp!Chop
        BY <2>12 DEF fp!Chop
    <2>13. CASE fp!Unhole
        BY <2>13 DEF fp!Unhole, fp!RaceIf, Races
    <2>14. CASE fp!Map
        BY <2>14 DEF fp!Map
    <2>15. CASE \E p \in Pages : fp!Prepare(p)
        BY <2>15 DEF fp!Prepare
    <2>16. CASE \E p \in Pages : fp!EndIO(p)
        BY <2>16 DEF fp!EndIO
    <2>17. CASE fp!CommitDelta
        BY <2>17 DEF fp!CommitDelta
    <2>18. CASE fp!Evict
        BY <2>18 DEF fp!Evict
    <2>19. QED
        BY <1>2, <2>1, <2>2, <2>3, <2>4, <2>5, <2>6, <2>7, <2>8, <2>9, <2>10, <2>11, <2>12,
           <2>13, <2>14, <2>15, <2>16, <2>17, <2>18 DEF fp!Next
<1>3. QED
    BY <1>1, <1>2 DEF FrontNext, frontVars

(* The device never reads a block that a call changes meanwhile: a page     *)
(* under writeback is forked before it is written, truncated or dirtied as  *)
(* a directory block (kernel/buffer_fork.c:431).                            *)
THEOREM PagesAreStable == FrontSpec => PagesStable
<1>1. FrontInit => PagesInv
    BY PagesInit
<1>2. PagesInv /\ [FrontNext]_frontVars => PagesInv'
    BY PagesStep
<1>3. PagesInv /\ [FrontNext]_frontVars =>
        [component = "pages" =>
          \A p \in DOMAIN pages \cap DOMAIN pages' : \A u \in 0 .. 3 :
            pages[p].buf[u \div 2].io /\ pages'[p].buf[u \div 2].io
                => pages'[p].data[u] = pages[p].data[u]]_frontVars
    BY PagesStep DEF Stable
<1>4. QED
    BY <1>1, <1>2, <1>3, PTL DEF FrontSpec, PagesStable

(* The state has its type and no assertion fires: a buffer is dirtied in    *)
(* its own delta only (kernel/buffer.c:163), a page to be invalidated is of *)
(* the current delta (kernel/buffer_fork.c:176), what is flushed is dirty,  *)
(* uptodate and not at the device (kernel/buffer_writeback.c:256-268).      *)
THEOREM PagesAssertions == FrontSpec => [](fp!TypeOK /\ fp!AssertionsHold)
<1> DEFINE Inv == PagesInv /\ raced \subseteq Races
<1>1. FrontInit => Inv
    BY PagesInit DEF FrontInit, fp!Init
<1>2. Inv /\ [FrontNext]_frontVars => Inv'
    BY PagesStep, RacedGrows DEF Races
<1>3. Inv => fp!TypeOK /\ fp!AssertionsHold
    <2> SUFFICES ASSUME Inv PROVE fp!TypeOK /\ fp!AssertionsHold
        OBVIOUS
    <2>1. PTyped /\ Cache /\ ~pbroken
        BY DEF PagesInv
    <2>2. op.pc \in {"idle", "write", "size", "hole"}
        BY <2>1 DEF PTyped, OpType
    <2>3. \A p \in DOMAIN pages : pages[p] \in fp!PageType
        BY <2>1 DEF Cache, PageOK
    <2>4. QED BY <2>1, <2>2, <2>3 DEF fp!TypeOK, fp!AssertionsHold, PTyped, Cache, Races
<1>4. QED
    BY <1>1, <1>2, <1>3, PTL DEF FrontSpec
==============================================================================
