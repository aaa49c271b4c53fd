------------------------- MODULE FilePagesCallProofs -------------------------
(* Proofs about the data of FilePages, first part: the invariant of the     *)
(* data, what the operators of the buffer fork and of the write path do to  *)
(* a page, and that the system calls keep the invariant, for any number of  *)
(* pages, deltas and calls.                                                 *)
EXTENDS FilePagesProofs

-----------------------------------------------------------------------------
(* The data.  What a read of a page, of the hole extents and of the dtree   *)
(* gives, and what the device and the flush leave in the dtree.             *)

(* The page has the data of the block; its block is zero; no buffer is new. *)
Valid(pg, b) == pg.uptodate \/ pg.buf[b].uptodate
Blank(pg, b) == \A u \in fp!Units : u \div 2 = b => pg.data[u] = 0
Fresh(pg) == \A b \in fp!Blocks : ~pg.buf[b].new

(* What the page has of the file is as in data.                             *)
Holds(pg, data) == \A u \in fp!Units : Valid(pg, u \div 2) => pg.data[u] = data[u]

(* A buffer without an address is zero: tux3_da_get_block() found no block. *)
Unmapped(pg, risky) ==
    \A b \in fp!Blocks :
        pg.buf[b].uptodate /\ ~pg.buf[b].mapped
            /\ (~pg.uptodate \/ pg.buf[b].delta # None \/ b \in risky) => Blank(pg, b)

(* A buffer that has an address but no data will be read from there.        *)
Addressed(pg, found) ==
    \A b \in fp!Blocks :
        pg.buf[b].mapped /\ ~Valid(pg, b) /\ ~pg.buf[b].new => found[b] # fp!Hole /\ pg.buffers

(* The block of the page goes to the device in the flush of a delta with    *)
(* the slot and i_size of the delta.                                        *)
Sends(pg, b, flush, slot, end) ==
    \/ pg.buf[b].io
    \/ flush # "idle" /\ pg.buf[b].delta = slot /\ b < fp!BlocksIn(end)

(* The blocks that any page sends, those of other pages than the one in the *)
(* radix tree, and those that the one in the radix tree has changed.        *)
SentBlocks ==
    {b \in fp!Blocks : \E p \in DOMAIN pages : Sends(pages[p], b, pflush, fp!old, idata)}
OthersSend ==
    {b \in fp!Blocks : \E p \in DOMAIN pages \ {live} :
                            Sends(pages[p], b, pflush, fp!old, idata)}
DirtyNow == {b \in fp!Blocks : live # NoPage /\ pages[live].buf[b].delta = fp!slot}

(* A truncation: the file has its new length from here on, while what the   *)
(* call found is still dirty or in the dtree.                               *)
Cutting == op.pc \in {"size", "hole"}
Lim == IF Cutting THEN op.to ELSE 4
Sz == IF op.pc = "hole" THEN fp!Max({op.from, psize}) ELSE psize

(* What the dtree has after the flush, what is below the page cache, and    *)
(* what a read should give.                                                 *)
Durable == [u \in fp!Units |-> IF pflush = "idle" THEN fp!DataOf(pdtree[u \div 2], u)
                               ELSE snap[u]]
Base == [u \in fp!Units |-> IF u \div 2 >= holes[fp!slot] THEN 0 ELSE Durable[u]]
Target == [u \in fp!Units |-> IF u < Lim THEN file.data[u] ELSE 0]

(* Blocks that the hole extents of the current delta and the truncation     *)
(* leave, what a lookup finds, and blocks where it finds too old data.      *)
Shown == {b \in fp!Blocks : b < holes[fp!slot] /\ b < fp!BlocksIn(Lim)}
Found == [b \in fp!Blocks |-> fp!Lookup(b)]
Risky == SentBlocks \cap Shown

(* What the backend writes is the file at the end of the delta, and what it *)
(* does not write is there already: chopped, or of an earlier delta.        *)
Carried(pg) ==
    \A u \in fp!Units : Sends(pg, u \div 2, pflush, fp!old, idata) =>
        /\ u \div 2 < fp!BlocksIn(idata)
        /\ u < idata => pg.data[u] = snap[u]
        /\ u >= idata /\ pg.buf[u \div 2].io => pg.data[u] = 0

Flushed ==
    /\ file \in [data : [fp!Units -> Unit], ops : Nat] /\ snap \in [fp!Units -> Unit]
    /\ pflush # "idle" => \A u \in fp!Units : u >= idata => snap[u] = 0
    /\ \A p \in DOMAIN pages : Carried(pages[p])
    /\ pflush # "idle" => \A u \in fp!Units : u \div 2 \notin SentBlocks =>
         (IF pflush = "chop" /\ u \div 2 >= holes[fp!old] THEN 0
          ELSE fp!DataOf(pdtree[u \div 2], u)) = snap[u]
    /\ pflush = "unhole" => \A b \in fp!Blocks : b >= holes[fp!old] => pdtree[b] = fp!Hole
    /\ pflush \notin {"chop", "unhole"} => holes[fp!old] = 2
    /\ pflush = "prepare" => \A p \in DOMAIN pages : \A b \in fp!Blocks :
         pages[p].buf[b].delta = fp!old => b < fp!BlocksIn(idata)

(* What is below the page cache is the file, except where the page is dirty *)
(* and behind the end of the file; nothing the backend writes shows there.  *)
Below ==
    /\ \A u \in fp!Units :
         /\ u \div 2 \notin DirtyNow /\ u \div 2 < fp!BlocksIn(Lim) => Base[u] = Target[u]
         /\ u \div 2 >= fp!BlocksIn(Sz) => Base[u] = 0
         /\ u >= Sz => file.data[u] = 0
    /\ pflush # "idle" => \/ fp!BlocksIn(idata) <= fp!BlocksIn(Sz)
                          \/ holes[fp!slot] <= fp!BlocksIn(Sz)

(* The page in the radix tree.  It stays while a lookup would find data     *)
(* that is too old: dirty, or pinned by a clone that is.                    *)
LivePage ==
    live # NoPage =>
        /\ ~(op.pc = "size" /\ op.to = 0) => Holds(pages[live], Target)
        /\ kind = "file" => Unmapped(pages[live], Risky) /\ Addressed(pages[live], Found)
        /\ op.pc # "write" => Fresh(pages[live])
        /\ pflush # "idle" /\ AnyDelta(pages[live], fp!old) =>
             \A u \in fp!Units : u >= idata => file.data[u] = 0

NoStale ==
    \A b \in Risky :
        /\ live # NoPage /\ Valid(pages[live], b) /\ pages[live].buffers
        /\ b \in OthersSend => pages[live].dirty \/ unpinned

(* What a reader found is the file, whatever happens until the page is in   *)
(* the radix tree.                                                          *)
FillData == fp!Filled(fill.size, fill.found[1],
                      IF fp!IsHole(holes, 1) THEN fp!Hole ELSE fill.found[2]).data
Filling ==
    fill.on => /\ psize > 0
               /\ ~(op.pc = "size" /\ op.to = 0) => \A u \in fp!Units : FillData[u] = Target[u]

(* A write of the units from .. to - 1: its buffers have an address, those  *)
(* that are new are zero where the write leaves them, and those without     *)
(* data are written completely.                                             *)
Covered(u, from, to) == from <= u /\ u < to
Covers(b, from, to) == from < 2 * b + 2 /\ to > 2 * b
Ready(pg, b, from, to, data) ==
    /\ ~Covers(b, from, to) => ~pg.buf[b].new
    /\ Covers(b, from, to) =>
         /\ pg.buf[b].mapped
         /\ pg.buf[b].new /\ ~pg.uptodate =>
              \A u \in fp!Units : u \div 2 = b =>
                 /\ data[u] = 0
                 /\ Valid(pg, b) \/ ~Covered(u, from, to) => pg.data[u] = 0
         /\ ~Valid(pg, b) /\ ~pg.buf[b].new =>
              \A u \in fp!Units : u \div 2 = b => Covered(u, from, to)
Writing ==
    op.pc = "write" =>
        /\ kind = "file" /\ op.from < op.to
        /\ \A b \in fp!Blocks : Ready(pages[live], b, op.from, op.to, file.data)

(* A truncation, and what it leaves in the page behind the new end.         *)
Truncating ==
    /\ Cutting => kind = "file" /\ op.from # op.to
    /\ op.pc = "size" => op.from = psize
    /\ op.pc = "hole" => op.to = psize /\ (op.to = 0 => live = NoPage)
    /\ op.pc = "idle" => op = fp!Idle
    /\ Cutting /\ 0 < op.to /\ op.to < op.from /\ live # NoPage =>
         \A b \in fp!Blocks : b >= fp!BlocksIn(op.to) =>
             ~pages[live].buf[b].mapped \/ Valid(pages[live], b)
    /\ kind = "dir" => op = fp!Idle /\ holes = [s \in fp!Slots |-> 2] /\ psize % 2 = 0

DataInv ==
    Flushed /\ Below /\ LivePage /\ NoStale /\ Filling /\ Writing /\ Truncating

(* The four units of a page's two blocks, and the blocks of a file of each  *)
(* size.                                                                    *)
LEMMA BlocksAndUnits ==
    /\ fp!Blocks = {0, 1} /\ fp!Units = {0, 1, 2, 3} /\ fp!Slots = {0, 1}
    /\ \A u \in fp!Units : u \div 2 \in fp!Blocks /\ u \in Nat /\ u <= 3
    /\ 0 \div 2 = 0 /\ 1 \div 2 = 0 /\ 2 \div 2 = 1 /\ 3 \div 2 = 1
    /\ fp!BlocksIn(0) = 0 /\ fp!BlocksIn(1) = 1 /\ fp!BlocksIn(2) = 1 /\ fp!BlocksIn(3) = 2
    /\ fp!BlocksIn(4) = 2
BY DEF fp!Blocks, fp!Units, fp!Slots, fp!BlocksIn

(* Facts of the typing that the lemmas use. *)
LEMMA Types ==
    ASSUME PTyped
    PROVE  /\ kind \in {"file", "dir"} /\ psize \in 0 .. 4 /\ idata \in 0 .. 4
           /\ op.pc \in {"idle", "write", "size", "hole"} /\ op.from \in 0 .. 4 /\ op.to \in 0 .. 4
           /\ holes[fp!slot] \in 0 .. 2 /\ holes[fp!old] \in 0 .. 2
           /\ fp!slot \in fp!Slots /\ fp!old \in fp!Slots /\ fp!slot # fp!old
           /\ fp!Slots = {fp!slot, fp!old} /\ {0, 1} = {fp!slot, fp!old}
           /\ pflush \in {"idle", "chop", "unhole", "map", "prepare", "io", "commit"}
           /\ fill.on \in BOOLEAN /\ fill.size \in 0 .. 4
           /\ Lim \in 0 .. 4
<1>1. /\ fp!slot \in fp!Slots /\ fp!old \in fp!Slots /\ fp!slot # fp!old
      /\ {fp!slot, fp!old} = fp!Slots /\ fp!Slots = {0, 1}
    BY SlotsTyped DEF fp!Slots
<1>2. op.pc \in {"idle", "write", "size", "hole"} /\ op.from \in 0 .. 4 /\ op.to \in 0 .. 4
    BY DEF PTyped, OpType
<1>3. fill.on \in BOOLEAN /\ fill.size \in 0 .. 4
    BY DEF PTyped, FillType
<1>4. holes[fp!slot] \in 0 .. 2 /\ holes[fp!old] \in 0 .. 2
    BY <1>1 DEF PTyped
<1>5. Lim \in 0 .. 4
    BY <1>2 DEF Lim
<1>6. QED BY <1>1, <1>2, <1>3, <1>4, <1>5 DEF PTyped

(* A dirty block of the page in the radix tree is valid there.              *)
LEMMA DirtyIsValid ==
    ASSUME Cache, PTyped, NEW b \in DirtyNow
    PROVE  live # NoPage /\ b \in fp!Blocks /\ Valid(pages[live], b) /\ pages[live].buffers
<1>1. /\ live # NoPage /\ b \in fp!Blocks /\ pages[live].buf[b].delta = fp!slot
      /\ fp!slot # None
    BY SlotsTyped DEF DirtyNow, fp!Slots, None
<1>2. PageOK(pages[live])
    BY <1>1 DEF Cache
<1>3. QED BY <1>1, <1>2 DEF PageOK, Valid

(* Who finds no data in the page cache finds the file: nothing the backend  *)
(* still has to write is hidden there.                                      *)
LEMMA LookupIsTarget ==
    ASSUME PagesInv, DataInv, NEW u \in fp!Units, u \div 2 < fp!BlocksIn(Lim),
           u \div 2 \notin DirtyNow, u \div 2 \notin Risky
    PROVE  fp!DataOf(fp!Lookup(u \div 2), u) = Target[u]
<1> DEFINE b == u \div 2
<1>1. PTyped /\ Flushed /\ Below
    BY DEF PagesInv, DataInv
<1>2. b \in fp!Blocks /\ b \in {0, 1}
    BY BlocksAndUnits
<1>3. Base[u] = Target[u]
    BY <1>1 DEF Below
<1>4. Base[u] = IF b >= holes[fp!slot] THEN 0
                ELSE IF pflush = "idle" THEN fp!DataOf(pdtree[b], u) ELSE snap[u]
    BY DEF Base, Durable
<1>5. /\ fp!slot \in fp!Slots /\ fp!old \in fp!Slots /\ fp!Slots = {fp!slot, fp!old}
      /\ holes[fp!slot] \in 0 .. 2 /\ holes[fp!old] \in 0 .. 2
    BY <1>1, Types
<1>6. fp!IsHole(holes, b) <=> holes[fp!slot] <= b \/ holes[fp!old] <= b
    BY <1>5 DEF fp!IsHole
<1>7. fp!DataOf(fp!Hole, u) = 0
    BY DEF fp!DataOf
<1> HIDE DEF b
<1>8. CASE b >= holes[fp!slot]
    <2>1. fp!Lookup(b) = fp!Hole /\ Base[u] = 0
        BY <1>2, <1>4, <1>5, <1>6, <1>8 DEF fp!Lookup
    <2>2. QED BY <1>3, <1>7, <2>1 DEF b
<1>9. CASE ~(b >= holes[fp!slot])
    <2>1. b < holes[fp!slot]
        BY <1>2, <1>5, <1>9
    <2>2. b \notin SentBlocks
        BY <1>2, <2>1 DEF Risky, Shown, b
    <2>3. CASE holes[fp!old] <= b
        <3>1. pflush \in {"chop", "unhole"}
            BY <1>1, <1>2, <2>3 DEF Flushed
        <3>2. fp!Lookup(b) = fp!Hole
            BY <1>6, <2>3 DEF fp!Lookup
        <3>3. (IF pflush = "chop" /\ b >= holes[fp!old] THEN 0 
              ELSE fp!DataOf(pdtree[b], u)) = snap[u]
            BY <1>1, <2>2, <3>1 DEF Flushed, b
        <3>4. pflush = "unhole" => pdtree[b] = fp!Hole
            BY <1>1, <1>2, <1>5, <2>3 DEF Flushed
        <3>5. snap[u] = 0
            BY <1>2, <1>5, <1>7, <2>3, <3>1, <3>3, <3>4
        <3>6. Base[u] = 0
            BY <1>4, <1>9, <3>1, <3>5
        <3>7. QED BY <1>3, <1>7, <3>2, <3>6 DEF b
    <2>4. CASE ~(holes[fp!old] <= b)
        <3>1. fp!Lookup(b) = pdtree[b]
            BY <1>2, <1>5, <1>6, <2>1, <2>4 DEF fp!Lookup
        <3>2. pflush # "idle" => fp!DataOf(pdtree[b], u) = snap[u]
            <4> HAVE pflush # "idle"
            <4>1. (IF pflush = "chop" /\ b >= holes[fp!old] THEN 0
                    ELSE fp!DataOf(pdtree[b], u)) = snap[u]
                BY <1>1, <2>2 DEF Flushed, b
            <4>2. QED BY <1>2, <1>5, <2>4, <4>1
        <3>3. Base[u] = fp!DataOf(pdtree[b], u)
            BY <1>4, <1>9, <3>2
        <3>4. QED BY <1>3, <3>1, <3>3 DEF b
    <2>5. QED BY <2>3, <2>4
<1>10. QED BY <1>8, <1>9

(* What the hole extents and the dtree give for a block is the file where   *)
(* the page has no data of it: what a reader that misses the page cache     *)
(* gets (kernel/filemap.c:613).                                             *)
LEMMA LookupIs ==
    ASSUME PagesInv, DataInv, NEW u \in fp!Units, u \div 2 < fp!BlocksIn(Lim),
           live = NoPage \/ ~Valid(pages[live], u \div 2)
    PROVE  fp!DataOf(fp!Lookup(u \div 2), u) = Target[u]
<1>1. u \div 2 \notin DirtyNow
    BY DirtyIsValid DEF PagesInv
<1>2. u \div 2 \notin Risky
    BY DEF DataInv, NoStale
<1>3. QED BY <1>1, <1>2, LookupIsTarget

(* The data invariant gives that a read is exact: a page that has the data, *)
(* or the address that tux3_da_get_block() finds.                           *)
LEMMA ReadsExactly ==
    ASSUME PagesInv, DataInv
    PROVE  fp!AsWritten
<1> SUFFICES ASSUME op = fp!Idle, ~fill.on, NEW u \in 0 .. psize - 1
             PROVE  fp!View(u) = file.data[u]
    BY DEF fp!AsWritten
<1>1. op.pc = "idle" /\ Lim = 4
    BY DEF fp!Idle, Lim, Cutting
<1>2. u \in fp!Units /\ psize \in 0 .. 4
    BY Types, BlocksAndUnits DEF PagesInv
<1>3. u \div 2 < fp!BlocksIn(Lim) /\ u \div 2 \in fp!Blocks
    BY <1>1, <1>2, BlocksAndUnits
<1>4. Target[u] = file.data[u]
    BY <1>1, <1>2, BlocksAndUnits DEF Target
<1>5. CASE live # NoPage /\ Valid(pages[live], u \div 2)
    <2>1. Holds(pages[live], Target)
        BY <1>1, <1>5 DEF DataInv, LivePage
    <2>2. fp!View(u) = pages[live].data[u]
        BY <1>5 DEF fp!View, fp!BlockOf, Valid
    <2>3. QED BY <1>2, <1>4, <1>5, <2>1, <2>2 DEF Holds
<1>6. CASE ~(live # NoPage /\ Valid(pages[live], u \div 2))
    <2>1. fp!DataOf(fp!Lookup(u \div 2), u) = Target[u]
        BY <1>2, <1>3, <1>6, LookupIs
    <2>2. fp!View(u) = fp!DataOf(fp!Lookup(u \div 2), u)
        BY <1>6 DEF fp!View, fp!BlockOf, Valid
    <2>3. QED BY <1>4, <2>1, <2>2
<1>7. QED BY <1>5, <1>6

(* Nothing is sent between two flushes, nor when one is done.               *)
LEMMA NothingSent ==
    ASSUME PagesInv, pflush \in {"idle", "commit"}
    PROVE  /\ SentBlocks = {} /\ Risky = {}
           /\ \A p \in DOMAIN pages : \A b \in fp!Blocks :
                ~Sends(pages[p], b, pflush, fp!old, idata)
<1>1. \A p \in DOMAIN pages : ~AnyDelta(pages[p], fp!old) /\ ~pages[p].writeback
    BY DEF PagesInv, Deltas, Device
<1>2. \A p \in DOMAIN pages : \A b \in fp!Blocks : ~Sends(pages[p], b, pflush, fp!old, idata)
    BY <1>1 DEF PagesInv, Cache, PageOK, Sends, AnyDelta
<1>3. QED BY <1>2 DEF SentBlocks, Risky

(* The data invariant gives that the flush is exact: once nothing is sent   *)
(* any more, Base, which is what the flush leaves, is the dtree.            *)
LEMMA FlushesExactly ==
    ASSUME PagesInv, DataInv
    PROVE  fp!FlushExact
<1> SUFFICES ASSUME pflush = "commit", NEW u \in fp!Units
             PROVE  /\ u < idata => fp!DataOf(pdtree[u \div 2], u) = snap[u]
                    /\ ~(u < idata) => fp!DataOf(pdtree[u \div 2], u) = 0
    BY DEF fp!FlushExact, fp!BlockOf
<1>1. u \div 2 \notin SentBlocks /\ idata \in 0 .. 4
    BY NothingSent, Types DEF PagesInv
<1>2. fp!DataOf(pdtree[u \div 2], u) = snap[u]
    BY <1>1 DEF DataInv, Flushed
<1>3. ~(u < idata) => snap[u] = 0
    BY <1>1, BlocksAndUnits DEF DataInv, Flushed
<1>4. QED BY <1>2, <1>3

-----------------------------------------------------------------------------
(* Steps of the frontend and what the backend sends. *)

(* The page sends the same blocks with the same data.                       *)
SameSends(new, was) ==
    \A b \in fp!Blocks :
        /\ new.buf[b].delta = was.buf[b].delta /\ (new.buf[b].io <=> was.buf[b].io)
        /\ was.buf[b].uptodate => \A u \in fp!Units : u \div 2 = b => new.data[u] = was.data[u]

(* A page that the frontend may change sends nothing in the flush under     *)
(* way: pagefork_for_blockdirty() forks the one that does.                  *)
LEMMA ChangeableSends ==
    ASSUME NEW pg, NEW s \in fp!Slots, Changeable(pg, s), NEW b \in fp!Blocks, NEW flush, NEW end
    PROVE  ~Sends(pg, b, flush, 1 - s, end)
BY DEF Changeable, PageOK, AnyDelta, Sends

(* The slot that is flushed is not the one that calls change.               *)
LEMMA OldSlot ==
    fp!old = 1 - fp!slot /\ (pdelta' = pdelta => fp!slot' = fp!slot /\ fp!old' = fp!old)
BY DEF fp!old, fp!slot

(* A step of the frontend that leaves alone what the pages send, or         *)
(* replaces pages that send nothing, keeps what the flush still writes.     *)
LEMMA SendsKept ==
    ASSUME PagesInv, PagesInv', Flushed,
           UNCHANGED <<pdtree, pflush, pdelta, idata, snap>>, holes'[fp!old] = holes[fp!old],
           file' \in [data : [fp!Units -> Unit], ops : Nat],
           \A p \in DOMAIN pages \ DOMAIN pages' : Changeable(pages[p], fp!slot),
           \A p \in DOMAIN pages' :
              \/ p \in DOMAIN pages /\ SameSends(pages'[p], pages[p])
              \/ /\ p \in DOMAIN pages => Changeable(pages[p], fp!slot)
                 /\ Changeable(pages'[p], fp!slot)
    PROVE  /\ Flushed' /\ SentBlocks' = SentBlocks
           /\ \A p \in DOMAIN pages' : \A b \in fp!Blocks :
                Sends(pages'[p], b, pflush, fp!old, idata) =>
                    p \in DOMAIN pages /\ Sends(pages[p], b, pflush, fp!old, idata)
<1>1. /\ fp!slot \in fp!Slots /\ fp!old = 1 - fp!slot /\ fp!slot' = fp!slot /\ fp!old' = fp!old
    BY OldSlot, Types DEF PagesInv
<1>2. \A p \in DOMAIN pages' : \A b \in fp!Blocks :
        Sends(pages'[p], b, pflush, fp!old, idata) =>
            /\ p \in DOMAIN pages /\ Sends(pages[p], b, pflush, fp!old, idata)
            /\ pages'[p].buf[b].io <=> pages[p].buf[b].io
            /\ \A u \in fp!Units : u \div 2 = b => pages'[p].data[u] = pages[p].data[u]
    <2> SUFFICES ASSUME NEW p \in DOMAIN pages', NEW b \in fp!Blocks,
                        Sends(pages'[p], b, pflush, fp!old, idata)
                 PROVE  /\ p \in DOMAIN pages /\ Sends(pages[p], b, pflush, fp!old, idata)
                        /\ pages'[p].buf[b].io <=> pages[p].buf[b].io
                        /\ \A u \in fp!Units : u \div 2 = b => pages'[p].data[u] = pages[p].data[u]
        OBVIOUS
    <2>1. ~Changeable(pages'[p], fp!slot)
        BY <1>1, ChangeableSends
    <2>2. p \in DOMAIN pages /\ SameSends(pages'[p], pages[p])
        BY <2>1
    <2>3. Sends(pages[p], b, pflush, fp!old, idata)
        BY <2>2 DEF SameSends, Sends
    <2>4. pages[p].buf[b].uptodate
        <3>1. PageOK(pages[p]) /\ fp!old # None
            BY <1>1, <2>2 DEF PagesInv, Cache, fp!Slots, None
        <3>2. QED BY <2>3, <3>1 DEF Sends, PageOK
    <2>5. QED BY <2>2, <2>3, <2>4 DEF SameSends
<1>3. \A p \in DOMAIN pages : \A b \in fp!Blocks :
        Sends(pages[p], b, pflush, fp!old, idata) =>
            p \in DOMAIN pages' /\ Sends(pages'[p], b, pflush, fp!old, idata)
    <2> SUFFICES ASSUME NEW p \in DOMAIN pages, NEW b \in fp!Blocks,
                        Sends(pages[p], b, pflush, fp!old, idata)
                 PROVE  p \in DOMAIN pages' /\ Sends(pages'[p], b, pflush, fp!old, idata)
        OBVIOUS
    <2>1. ~Changeable(pages[p], fp!slot)
        BY <1>1, ChangeableSends
    <2>2. p \in DOMAIN pages' /\ SameSends(pages'[p], pages[p])
        BY <2>1
    <2>3. QED BY <2>2 DEF SameSends, Sends
<1>4. SentBlocks' = SentBlocks
    <2>1. SentBlocks' = {b \in fp!Blocks : \E p \in DOMAIN pages' :
                            Sends(pages'[p], b, pflush, fp!old, idata)}
        BY <1>1 DEF SentBlocks, Sends, fp!Blocks, fp!BlocksIn
    <2>2. QED BY <1>2, <1>3, <2>1 DEF SentBlocks
<1>5. \A p \in DOMAIN pages' : \A u \in fp!Units :
        Sends(pages'[p], u \div 2, pflush, fp!old, idata) =>
            /\ u \div 2 < fp!BlocksIn(idata)
            /\ u < idata => pages'[p].data[u] = snap[u]
            /\ u >= idata /\ pages'[p].buf[u \div 2].io => pages'[p].data[u] = 0
    <2> SUFFICES ASSUME NEW p \in DOMAIN pages', NEW u \in fp!Units,
                        Sends(pages'[p], u \div 2, pflush, fp!old, idata)
                 PROVE  /\ u \div 2 < fp!BlocksIn(idata)
                        /\ u < idata => pages'[p].data[u] = snap[u]
                        /\ u >= idata /\ pages'[p].buf[u \div 2].io => pages'[p].data[u] = 0
        OBVIOUS
    <2>1. u \div 2 \in fp!Blocks
        BY BlocksAndUnits
    <2>2. /\ p \in DOMAIN pages /\ Sends(pages[p], u \div 2, pflush, fp!old, idata)
          /\ pages'[p].buf[u \div 2].io <=> pages[p].buf[u \div 2].io
          /\ pages'[p].data[u] = pages[p].data[u]
        BY <1>2, <2>1
    <2>3. QED BY <2>2 DEF Flushed, Carried
<1>6. pflush = "prepare" => \A p \in DOMAIN pages' : \A b \in fp!Blocks :
         pages'[p].buf[b].delta = fp!old => b < fp!BlocksIn(idata)
    BY <1>1 DEF Flushed, Changeable, AnyDelta, SameSends
<1>7. \A p \in DOMAIN pages' : Carried(pages[p])'
    BY <1>1, <1>5 DEF Carried, Sends, fp!BlocksIn, fp!Units
<1>8. Flushed'
    BY <1>1, <1>4, <1>6, <1>7 DEF Flushed, fp!DataOf, fp!BlocksIn, fp!Hole, fp!Units, fp!Blocks
<1>9. QED BY <1>2, <1>4, <1>8

-----------------------------------------------------------------------------
(* The effect of the operators of FilePages on the fields of a page.        *)

(* create_empty_buffers(): a page without buffers gets empty ones that are  *)
(* as uptodate as the page, one with buffers is left alone.                 *)
LEMMA WithBuffersEffect ==
    ASSUME NEW pg, PageOK(pg)
    PROVE  LET new == fp!WithBuffers(pg)
           IN  /\ new.data = pg.data /\ (new.uptodate <=> pg.uptodate) /\ (new.dirty <=> pg.dirty)
               /\ new.buffers /\ (pg.buffers => new = pg)
               /\ ~pg.buffers => \A b \in fp!Blocks : new.buf[b] = fp!EmptyBuffer(pg.uptodate)
BY DEF fp!WithBuffers, PageOK, fp!PageType

(* clone_page() of the buffer fork: the copy has the data and the state of  *)
(* the page, no buffer of it is dirty, and one that was dirty has an        *)
(* address to come.                                                         *)
LEMMA CloneEffect ==
    ASSUME NEW pg, PageOK(pg)
    PROVE  LET new == fp!clone_page(pg)
           IN  /\ new.data = pg.data /\ (new.uptodate <=> pg.uptodate)
               /\ (new.buffers <=> pg.buffers)
               /\ \A b \in fp!Blocks :
                    /\ new.buf[b].delta = None
                    /\ new.buf[b].mapped <=> pg.buf[b].mapped \/ pg.buf[b].delta # None
                    /\ new.buf[b].uptodate <=> pg.buf[b].uptodate
                    /\ new.buf[b].new <=> pg.buf[b].new
<1> DEFINE bufs == [b \in fp!Blocks |->
                       IF pg.buf[b].delta # fp!None THEN fp!Cleared(pg.buf[b])
                       ELSE [pg.buf[b] EXCEPT !.io = FALSE]]
           new == [pg EXCEPT !.dirty = FALSE, !.writeback = FALSE, !.buf = bufs]
<1>1. \A b \in fp!Blocks :
        /\ bufs[b].delta = None
        /\ bufs[b].mapped <=> pg.buf[b].mapped \/ pg.buf[b].delta # None
        /\ bufs[b].uptodate <=> pg.buf[b].uptodate
        /\ bufs[b].new <=> pg.buf[b].new
    <2> SUFFICES ASSUME NEW b \in fp!Blocks
                 PROVE  /\ bufs[b].delta = None
                        /\ bufs[b].mapped <=> pg.buf[b].mapped \/ pg.buf[b].delta # None
                        /\ bufs[b].uptodate <=> pg.buf[b].uptodate
                        /\ bufs[b].new <=> pg.buf[b].new
        OBVIOUS
    <2>1. pg.buf[b] \in fp!Buffer
        BY PageFields DEF PageOK
    <2>2. bufs[b] = IF pg.buf[b].delta # fp!None THEN fp!Cleared(pg.buf[b])
                    ELSE [pg.buf[b] EXCEPT !.io = FALSE]
        OBVIOUS
    <2> HIDE DEF bufs
    <2>3. QED BY <2>1, <2>2 DEF fp!Cleared, fp!Buffer, None, fp!None
<1>2. fp!clone_page(pg) = new
    BY DEF fp!clone_page
<1> HIDE DEF bufs
<1>3. /\ new.data = pg.data /\ (new.uptodate <=> pg.uptodate) /\ (new.buffers <=> pg.buffers)
      /\ new.buf = bufs
    BY DEF PageOK, fp!PageType
<1> HIDE DEF new
<1>4. QED BY <1>1, <1>2, <1>3

(* tux3_set_buffer_dirty_list() changes one buffer only, which is then      *)
(* dirty for the delta, and its page.                                       *)
LEMMA MarkDirtyEffect ==
    ASSUME NEW pg, NEW s \in fp!Slots, Writable(pg, s), NEW b \in fp!Blocks
    PROVE  LET new == fp!MarkDirty(pg, b, s)
           IN  /\ new.data = pg.data /\ (new.uptodate <=> pg.uptodate) /\ new.dirty /\ new.buffers
               /\ new.buf[b].delta = s /\ new.buf[b].uptodate
               /\ new.buf[b].mapped <=> pg.buf[b].mapped
               /\ new.buf[b].new <=> pg.buf[b].new
               /\ \A k \in fp!Blocks \ {b} : new.buf[k] = pg.buf[k]
<1> DEFINE new == fp!MarkDirty(pg, b, s)
<1>1. /\ pg.buf[b].delta # 1 - s /\ pg \in fp!PageType /\ pg.buf[b] \in fp!Buffer
      /\ pg.buffers
      /\ pg.buf[b].delta # None => pg.dirty /\ pg.buf[b].uptodate
    BY PageFields DEF Writable, Changeable, PageOK, AnyDelta
<1>2. pg.buf[b].delta \in {None, s}
    BY <1>1, BufferFields DEF fp!Slots
<1>3. CASE pg.buf[b].delta # None
    <2>1. new = pg /\ pg.buf[b].delta = s
        BY <1>2, <1>3 DEF fp!MarkDirty, None, fp!None
    <2>2. QED BY <1>1, <1>3, <2>1
<1>4. CASE pg.buf[b].delta = None
    <2> DEFINE buffer == [pg.buf[b] EXCEPT !.delta = s, !.uptodate = TRUE]
               bufs == [pg.buf EXCEPT ![b] = buffer]
    <2>1. new = [pg EXCEPT !.dirty = TRUE, !.buf = bufs]
        BY <1>1, <1>4 DEF fp!MarkDirty, fp!PageType, None, fp!None
    <2>2. /\ buffer.delta = s /\ buffer.uptodate
          /\ buffer.mapped = pg.buf[b].mapped /\ buffer.new = pg.buf[b].new
        BY <1>1 DEF fp!Buffer
    <2> HIDE DEF buffer
    <2>3. bufs[b] = buffer /\ \A k \in fp!Blocks \ {b} : bufs[k] = pg.buf[k]
        BY <1>1, PageFields
    <2> HIDE DEF bufs, new
    <2>4. /\ new.data = pg.data /\ (new.uptodate <=> pg.uptodate) /\ new.dirty
          /\ (new.buffers <=> pg.buffers) /\ new.buf = bufs
        BY <1>1, <2>1 DEF fp!PageType
    <2>5. QED BY <1>1, <2>2, <2>3, <2>4 DEF new
<1>5. QED BY <1>3, <1>4

(* The zeroing of a part of the page changes the data of that part only.    *)
LEMMA ZeroFillEffect ==
    ASSUME NEW pg, PageOK(pg), NEW from, NEW to
    PROVE  LET new == fp!ZeroFill(pg, from, to)
           IN  /\ (new.uptodate <=> pg.uptodate) /\ (new.dirty <=> pg.dirty)
               /\ (new.buffers <=> pg.buffers) /\ new.buf = pg.buf
               /\ \A u \in fp!Units : new.data[u] = IF u \in from .. to - 1 THEN 0 ELSE pg.data[u]
BY DEF fp!ZeroFill, PageOK, fp!PageType

(* tux3_invalidatepage() takes the buffers from the offset on out of their  *)
(* delta and forgets their addresses; the page is dirty as long as another  *)
(* buffer of it is.                                                         *)
LEMMA InvalidateEffect ==
    ASSUME NEW pg, PageOK(pg), NEW offset
    PROVE  LET new == fp!Invalidate(pg, offset)
           IN  /\ new.data = pg.data /\ (new.uptodate <=> pg.uptodate)
               /\ (new.buffers <=> pg.buffers)
               /\ \A b \in fp!Blocks : ~(2 * b >= offset) => new.buf[b] = pg.buf[b]
               /\ \A b \in fp!Blocks : 2 * b >= offset =>
                    /\ new.buf[b].delta = None /\ ~new.buf[b].mapped /\ ~new.buf[b].new
                    /\ new.buf[b].uptodate <=> pg.buf[b].uptodate
               /\ new.dirty <=> pg.dirty /\ \E b \in fp!Blocks : new.buf[b].delta # None
<1> DEFINE kept == [b \in fp!Blocks |-> IF 2 * b >= offset THEN fp!Discarded(pg.buf[b])
                                       ELSE pg.buf[b]]
           new == fp!Invalidate(pg, offset)
<1>1. /\ pg \in fp!PageType
      /\ \A b \in fp!Blocks : pg.buf[b] \in fp!Buffer
    BY PageFields DEF PageOK
<1>2. new = [pg EXCEPT !.buf = kept, !.dirty = pg.dirty /\ fp!AnyDirty(kept)]
    BY <1>1 DEF fp!Invalidate, fp!PageType
<1>3. \A b \in fp!Blocks :
        /\ ~(2 * b >= offset) => kept[b] = pg.buf[b]
        /\ 2 * b >= offset => kept[b] = fp!Discarded(pg.buf[b])
    OBVIOUS
<1> HIDE DEF kept, new
<1>4. \A b \in fp!Blocks : 2 * b >= offset =>
        /\ kept[b].delta = None /\ ~kept[b].mapped /\ ~kept[b].new
        /\ kept[b].uptodate = pg.buf[b].uptodate
    BY <1>1, <1>3 DEF fp!Discarded, fp!Buffer, None, fp!None
<1>5. /\ new.data = pg.data /\ (new.uptodate <=> pg.uptodate) /\ (new.buffers <=> pg.buffers)
      /\ new.buf = kept /\ (new.dirty <=> pg.dirty /\ fp!AnyDirty(kept))
    BY <1>1, <1>2 DEF fp!PageType
<1>6. fp!AnyDirty(kept) <=> \E b \in fp!Blocks : kept[b].delta # None
    BY DEF fp!AnyDirty, None, fp!None
<1>7. QED BY <1>3, <1>4, <1>5, <1>6 DEF new

(* A read of one block by seg_to_buffer(): it has the data of the content   *)
(* found, and an address unless there was a hole.                           *)
LEMMA ReadBlockFields ==
    ASSUME NEW pg, PageOK(pg), NEW b \in fp!Blocks, NEW content
    PROVE  LET new == fp!ReadBlock(pg, b, content)
           IN  /\ (new.uptodate <=> pg.uptodate) /\ (new.dirty <=> pg.dirty)
               /\ (new.buffers <=> pg.buffers)
               /\ new.buf[b].uptodate /\ (new.buf[b].mapped <=> content # fp!Hole)
               /\ new.buf[b].delta = pg.buf[b].delta /\ (new.buf[b].io <=> pg.buf[b].io)
               /\ new.buf[b].new <=> pg.buf[b].new
               /\ \A k \in fp!Blocks \ {b} : new.buf[k] = pg.buf[k]
               /\ \A u \in fp!Units : new.data[u] = IF u \div 2 = b THEN fp!DataOf(content, u)
                                                    ELSE pg.data[u]
<1> DEFINE buffer == [pg.buf[b] EXCEPT !.uptodate = TRUE, !.mapped = content # fp!Hole]
           bufs == [pg.buf EXCEPT ![b] = buffer]
           data == [u \in fp!Units |->
                       IF fp!BlockOf(u) = b THEN fp!DataOf(content, u) ELSE pg.data[u]]
           new == fp!ReadBlock(pg, b, content)
<1>1. pg \in fp!PageType /\ pg.buf[b] \in fp!Buffer
    BY PageFields DEF PageOK
<1>2. new = [pg EXCEPT !.buf = bufs, !.data = data]
    BY <1>1 DEF fp!ReadBlock, fp!PageType
<1>3. /\ buffer.uptodate /\ (buffer.mapped <=> content # fp!Hole)
      /\ buffer.delta = pg.buf[b].delta /\ (buffer.io <=> pg.buf[b].io)
      /\ (buffer.new <=> pg.buf[b].new)
    BY <1>1 DEF fp!Buffer
<1>4. \A u \in fp!Units : data[u] = IF u \div 2 = b THEN fp!DataOf(content, u) ELSE pg.data[u]
    BY DEF fp!BlockOf
<1> HIDE DEF buffer, data
<1>5. bufs[b] = buffer /\ \A k \in fp!Blocks \ {b} : bufs[k] = pg.buf[k]
    BY <1>1, PageFields
<1> HIDE DEF bufs, new
<1>6. /\ (new.uptodate <=> pg.uptodate) /\ (new.dirty <=> pg.dirty)
      /\ (new.buffers <=> pg.buffers) /\ new.buf = bufs /\ new.data = data
    BY <1>1, <1>2 DEF fp!PageType
<1>7. QED BY <1>3, <1>4, <1>5, <1>6 DEF new

(* A page that a reader filled has what it found for the blocks below the   *)
(* end of the file, and zero behind it.                                     *)
LEMMA FilledEffect ==
    ASSUME NEW isize, NEW c0, NEW c1
    PROVE  LET new == fp!Filled(isize, c0, c1)
           IN  /\ new.uptodate /\ ~new.buffers /\ ~new.dirty
               /\ \A b \in fp!Blocks : new.buf[b] = fp!EmptyBuffer(FALSE)
               /\ \A u \in fp!Units :
                    new.data[u] = IF u \div 2 >= fp!BlocksIn(isize) THEN 0
                                  ELSE fp!DataOf(IF u \div 2 = 0 THEN c0 ELSE c1, u)
BY DEF fp!Filled, fp!NewPage, fp!BlockOf

(* The change of one buffer. *)
LEMMA SetBufferEffect ==
    ASSUME NEW pg, PageOK(pg), NEW b \in fp!Blocks, NEW buffer
    PROVE  LET new == [pg EXCEPT !.buf[b] = buffer]
           IN  /\ new.data = pg.data /\ (new.uptodate <=> pg.uptodate) /\ (new.dirty <=> pg.dirty)
               /\ (new.buffers <=> pg.buffers) /\ new.buf[b] = buffer
               /\ \A k \in fp!Blocks \ {b} : new.buf[k] = pg.buf[k]
<1>1. pg \in fp!PageType /\ pg.buf \in [fp!Blocks -> fp!Buffer]
    BY PageFields DEF PageOK
<1>2. QED BY <1>1 DEF fp!PageType

-----------------------------------------------------------------------------
(* The page for a change has the data of the page it replaces. *)

(* What is known of the data of a page that a call changes.                 *)
Sound(pg, data, risky, found) ==
    Holds(pg, data) /\ Unmapped(pg, risky) /\ Addressed(pg, found)

(* The copy that a buffer fork puts in the radix tree is as sound as the    *)
(* page that it replaces.                                                   *)
LEMMA CloneSound ==
    ASSUME NEW pg, PageOK(pg), NEW data, NEW risky, NEW found
    PROVE  LET new == fp!clone_page(pg)
           IN  /\ Holds(pg, data) => Holds(new, data)
               /\ Unmapped(pg, risky) => Unmapped(new, risky)
               /\ Addressed(pg, found) => Addressed(new, found)
               /\ Fresh(pg) => Fresh(new)
               /\ \A b \in fp!Blocks : Valid(new, b) <=> Valid(pg, b)
<1> DEFINE new == fp!clone_page(pg)
<1>1. /\ new.data = pg.data /\ (new.uptodate <=> pg.uptodate)
      /\ (new.buffers <=> pg.buffers)
      /\ \A b \in fp!Blocks :
           /\ new.buf[b].delta = None
           /\ new.buf[b].mapped <=> pg.buf[b].mapped \/ pg.buf[b].delta # None
           /\ new.buf[b].uptodate <=> pg.buf[b].uptodate
           /\ new.buf[b].new <=> pg.buf[b].new
    BY CloneEffect
<1>2. \A b \in fp!Blocks : pg.buf[b].delta # None => pg.buf[b].uptodate
    BY DEF PageOK
<1> HIDE DEF new
<1>3. \A b \in fp!Blocks : Valid(new, b) <=> Valid(pg, b)
    BY <1>1 DEF Valid
<1>4. Holds(pg, data) => Holds(new, data)
    BY <1>1, <1>3, BlocksAndUnits DEF Holds
<1>5. Unmapped(pg, risky) => Unmapped(new, risky)
    BY <1>1 DEF Unmapped, Blank
<1>6. Addressed(pg, found) => Addressed(new, found)
    BY <1>1, <1>2, <1>3 DEF Addressed, Valid
<1>7. QED BY <1>1, <1>3, <1>4, <1>5, <1>6 DEF Fresh, new

(* A page that gets its buffers is as sound as before.                      *)
LEMMA BuffersSound ==
    ASSUME NEW pg, PageOK(pg), NEW data, NEW risky, NEW found, \A b \in risky : pg.buffers
    PROVE  LET new == fp!WithBuffers(pg)
           IN  /\ Holds(pg, data) => Holds(new, data)
               /\ Unmapped(pg, risky) => Unmapped(new, risky)
               /\ Addressed(pg, found) => Addressed(new, found)
               /\ Fresh(pg) => Fresh(new)
               /\ \A b \in fp!Blocks : new.buf[b].delta = pg.buf[b].delta
<1>1. CASE pg.buffers
    <2>1. fp!WithBuffers(pg) = pg
        BY <1>1 DEF fp!WithBuffers
    <2>2. QED BY <2>1
<1>2. CASE ~pg.buffers
    <2> DEFINE new == fp!WithBuffers(pg)
    <2>1. /\ new.data = pg.data /\ (new.uptodate <=> pg.uptodate) /\ new.buffers
          /\ \A b \in fp!Blocks : new.buf[b] = fp!EmptyBuffer(pg.uptodate)
        BY <1>2, WithBuffersEffect
    <2> HIDE DEF new
    <2>2. \A b \in fp!Blocks :
            /\ new.buf[b].delta = None /\ ~new.buf[b].mapped /\ ~new.buf[b].new
            /\ (new.buf[b].uptodate <=> pg.uptodate) /\ pg.buf[b].delta = None
            /\ b \notin risky
        BY <1>2, <2>1 DEF fp!EmptyBuffer, PageOK, None, fp!None
    <2>3. Holds(pg, data) => Holds(new, data)
        BY <2>1, <2>2, BlocksAndUnits DEF Holds, Valid
    <2>4. Unmapped(new, risky)
        BY <2>1, <2>2 DEF Unmapped
    <2>5. Addressed(new, found) /\ Fresh(new)
        BY <2>2 DEF Addressed, Fresh
    <2>6. QED BY <2>2, <2>3, <2>4, <2>5 DEF new
<1>3. QED BY <1>1, <1>2

(* pagefork_for_blockdirty() between two calls. *)
LEMMA ForkedSound ==
    ASSUME PagesInv, DataInv, op = fp!Idle, kind = "file"
    PROVE  LET pg == fp!Forked(0)
           IN  /\ Sound(pg, Target, Risky, Found) /\ Fresh(pg)
               /\ \A b \in fp!Blocks : b \in DirtyNow <=> pg.buf[b].delta = fp!slot
               /\ \A b \in DirtyNow \union Risky : live # NoPage /\ Valid(pg, b) /\ pg.buffers
               /\ live # NoPage /\ ~fp!MustFork(0) => pg = pages[live]
<1> DEFINE pg == fp!Forked(0)
<1>1. PTyped /\ Cache /\ op.pc = "idle" /\ fp!slot \in fp!Slots /\ fp!slot # None /\ 0 \in fp!Blocks
    BY SlotsTyped DEF PagesInv, fp!Idle, fp!Slots, None, fp!Blocks
<1>2. CASE live = NoPage
    <2>1. pg = fp!NewPage
        BY <1>2 DEF fp!Forked, fp!MustFork, fp!Grabbed
    <2> HIDE DEF pg
    <2>2. ~pg.uptodate /\ \A b \in fp!Blocks : pg.buf[b] = fp!EmptyBuffer(FALSE)
        BY <2>1 DEF fp!NewPage
    <2>3. \A b \in fp!Blocks :
            /\ ~pg.buf[b].uptodate /\ ~pg.buf[b].mapped /\ ~pg.buf[b].new
            /\ pg.buf[b].delta # fp!slot
        BY <1>1, <2>2 DEF fp!EmptyBuffer, None, fp!None
    <2>4. DirtyNow = {} /\ Risky = {}
        BY <1>2 DEF DirtyNow, DataInv, NoStale
    <2>5. Sound(pg, Target, Risky, Found) /\ Fresh(pg)
        BY <2>2, <2>3, BlocksAndUnits
        DEF Sound, Holds, Unmapped, Addressed, Fresh, Valid
    <2>6. /\ \A b \in fp!Blocks : b \in DirtyNow <=> pg.buf[b].delta = fp!slot
          /\ DirtyNow \union Risky = {}
        BY <2>3, <2>4
    <2>7. QED BY <1>2, <2>5, <2>6 DEF pg
<1>3. CASE live # NoPage
    <2>1. PageOK(pages[live]) /\ fp!Grabbed = pages[live]
        BY <1>1, <1>3, GrabbedOK
    <2>2. Sound(pages[live], Target, Risky, Found) /\ Fresh(pages[live])
        BY <1>1, <1>3 DEF DataInv, LivePage, Sound
    <2>3. \A b \in DirtyNow \union Risky :
            b \in fp!Blocks /\ Valid(pages[live], b) /\ pages[live].buffers
        BY <1>1, DirtyIsValid DEF DataInv, NoStale, Risky, Shown
    <2>4. CASE ~fp!MustFork(0)
        <3>1. pg = pages[live]
            BY <2>1, <2>4 DEF fp!Forked
        <3> HIDE DEF pg
        <3>2. \A b \in fp!Blocks : b \in DirtyNow <=> pg.buf[b].delta = fp!slot
            BY <1>3, <3>1 DEF DirtyNow
        <3>3. QED BY <1>3, <2>2, <2>3, <2>4, <3>1, <3>2 DEF pg
    <2>5. CASE fp!MustFork(0)
        <3>1. pg = fp!clone_page(pages[live])
            BY <2>1, <2>5 DEF fp!Forked
        <3>2. DirtyNow = {}
            <4>1. ~AnyDelta(pages[live], fp!slot)
                BY <1>1, <2>1, <2>5, NeedFork DEF fp!MustFork
            <4>2. QED BY <4>1 DEF DirtyNow, AnyDelta
        <3>3. /\ Sound(pg, Target, Risky, Found) /\ Fresh(pg)
              /\ \A b \in fp!Blocks : Valid(pg, b) <=> Valid(pages[live], b)
            BY <2>1, <2>2, <3>1, CloneSound DEF Sound
        <3>4. /\ pg.buffers <=> pages[live].buffers
              /\ \A b \in fp!Blocks : pg.buf[b].delta # fp!slot
            BY <1>1, <2>1, <3>1, CloneEffect
        <3> HIDE DEF pg
        <3>5. QED BY <1>3, <2>3, <2>5, <3>2, <3>3, <3>4 DEF pg
    <2>6. QED BY <2>4, <2>5
<1>4. QED BY <1>2, <1>3

(* The same with buffers: tux3_write_begin(), tux3_truncate_partial_block(). *)
LEMMA BufferedSound ==
    ASSUME PagesInv, DataInv, op = fp!Idle, kind = "file"
    PROVE  LET pg == fp!WithBuffers(fp!Forked(0))
           IN  /\ Writable(pg, fp!slot) /\ Sound(pg, Target, Risky, Found) /\ Fresh(pg)
               /\ \A b \in fp!Blocks : b \in DirtyNow <=> pg.buf[b].delta = fp!slot
               /\ \A b \in DirtyNow \union Risky : live # NoPage /\ Valid(pg, b)
               /\ live # NoPage /\ ~fp!MustFork(0) => (pg.dirty <=> pages[live].dirty)
               /\ \A u \in fp!Units : ~Valid(pg, u \div 2) =>
                    fp!DataOf(fp!Lookup(u \div 2), u) = Target[u]
<1> DEFINE was == fp!Forked(0)
           pg == fp!WithBuffers(was)
<1>1. Changeable(was, fp!slot) /\ PageOK(was) /\ fp!slot \in fp!Slots
    BY ForkedOK, SlotsTyped DEF PagesInv, Changeable
<1>2. /\ Sound(was, Target, Risky, Found) /\ Fresh(was)
      /\ \A b \in fp!Blocks : b \in DirtyNow <=> was.buf[b].delta = fp!slot
      /\ \A b \in DirtyNow \union Risky : live # NoPage /\ Valid(was, b) /\ was.buffers
      /\ live # NoPage /\ ~fp!MustFork(0) => was = pages[live]
    BY ForkedSound
<1> HIDE DEF was
<1>3. /\ PageOK(pg) /\ pg.buffers /\ Like(pg, was)
    BY <1>1, WithBuffersOK
<1>4. Writable(pg, fp!slot)
    BY <1>1, <1>3, LikeWritable DEF Writable
<1>5. /\ Sound(pg, Target, Risky, Found) /\ Fresh(pg)
      /\ \A b \in fp!Blocks : pg.buf[b].delta = was.buf[b].delta
    BY <1>1, <1>2, BuffersSound DEF Sound
<1>6. /\ was.buffers => pg = was
      /\ pg.dirty <=> was.dirty
    BY <1>1, WithBuffersEffect
<1> HIDE DEF pg
<1>7. \A b \in DirtyNow \union Risky : live # NoPage /\ Valid(pg, b)
    BY <1>2, <1>6
<1>8. \A u \in fp!Units : ~Valid(pg, u \div 2) => fp!DataOf(fp!Lookup(u \div 2), u) = Target[u]
    <2> SUFFICES ASSUME NEW u \in fp!Units, ~Valid(pg, u \div 2)
                 PROVE  fp!DataOf(fp!Lookup(u \div 2), u) = Target[u]
        OBVIOUS
    <2>1. u \div 2 \notin DirtyNow /\ u \div 2 \notin Risky
        BY <1>7
    <2>2. u \div 2 < fp!BlocksIn(Lim)
        <3>1. Lim = 4
            BY DEF fp!Idle, Lim, Cutting
        <3>2. QED BY <3>1, BlocksAndUnits
    <2>3. QED BY <2>1, <2>2, LookupIsTarget
<1>9. QED BY <1>2, <1>4, <1>5, <1>6, <1>7, <1>8 DEF pg, was

-----------------------------------------------------------------------------
(* One block of a page changes. *)

(* The page is as it was but for one block.                                 *)
Beside(new, pg, b) ==
    /\ (new.uptodate <=> pg.uptodate) /\ (new.buffers <=> pg.buffers)
    /\ \A k \in fp!Blocks \ {b} :
         /\ new.buf[k] = pg.buf[k]
         /\ \A u \in fp!Units : u \div 2 = k => new.data[u] = pg.data[u]

(* What Sound() says of one block.                                          *)
SoundBlock(pg, b, data, risky, found) ==
    /\ Valid(pg, b) => \A u \in fp!Units : u \div 2 = b => pg.data[u] = data[u]
    /\ pg.buf[b].uptodate /\ ~pg.buf[b].mapped
         /\ (~pg.uptodate \/ pg.buf[b].delta # None \/ b \in risky) => Blank(pg, b)
    /\ pg.buf[b].mapped /\ ~Valid(pg, b) /\ ~pg.buf[b].new => found[b] # fp!Hole /\ pg.buffers

(* A page is sound if each block of it is: the effects of the calls are one *)
(* block at a time.                                                         *)
LEMMA SoundBlocks ==
    ASSUME NEW pg, NEW data, NEW risky, NEW found
    PROVE  Sound(pg, data, risky, found)
             <=> \A b \in fp!Blocks : SoundBlock(pg, b, data, risky, found)
BY BlocksAndUnits DEF Sound, SoundBlock, Holds, Unmapped, Addressed

(* A change of one block leaves the page sound if that block is.            *)
LEMMA BesideSound ==
    ASSUME NEW pg, NEW new, NEW b \in fp!Blocks, NEW data, NEW risky, NEW found,
           Beside(new, pg, b), Sound(pg, data, risky, found),
           SoundBlock(new, b, data, risky, found)
    PROVE  Sound(new, data, risky, found)
<1> SUFFICES ASSUME NEW k \in fp!Blocks, k # b
             PROVE  SoundBlock(new, k, data, risky, found)
    BY SoundBlocks
<1>1. SoundBlock(pg, k, data, risky, found)
    BY SoundBlocks
<1>2. /\ (new.uptodate <=> pg.uptodate) /\ (new.buffers <=> pg.buffers)
      /\ new.buf[k] = pg.buf[k]
      /\ \A u \in fp!Units : u \div 2 = k => new.data[u] = pg.data[u]
    BY DEF Beside
<1>3. QED BY <1>1, <1>2 DEF SoundBlock, Valid, Blank

(* The arithmetic of the range of a call and of the units of a block.       *)
LEMMA CoversIs ==
    ASSUME NEW b \in fp!Blocks, NEW from \in 0 .. 4, NEW to \in 0 .. 4, from < to
    PROVE  /\ fp!UnitsOf(b) \cap (from .. to - 1) = {} <=> ~Covers(b, from, to)
           /\ (from > 2 * b \/ to < 2 * b + 2) <=>
                ~(\A u \in fp!Units : u \div 2 = b => Covered(u, from, to))
           /\ \A u \in fp!Units : u \in from .. to - 1 <=> Covered(u, from, to)
           /\ \A u \in fp!Units : (u \div 2 = b) <=> (2 * b <= u /\ u < 2 * b + 2)
           /\ 2 * b \in fp!Units /\ 2 * b + 1 \in fp!Units
           /\ (2 * b) \div 2 = b /\ (2 * b + 1) \div 2 = b
<1>1. b \in {0, 1} /\ from \in Int /\ to \in Int
    BY BlocksAndUnits
<1>2. \A u \in fp!Units : (u \div 2 = b) <=> (2 * b <= u /\ u < 2 * b + 2)
    BY <1>1, BlocksAndUnits
<1>3. /\ 2 * b \in fp!Units /\ 2 * b + 1 \in fp!Units
      /\ (2 * b) \div 2 = b /\ (2 * b + 1) \div 2 = b
    BY <1>1, BlocksAndUnits
<1>4. \A u \in fp!Units : u \in from .. to - 1 <=> Covered(u, from, to)
    BY <1>1 DEF Covered, fp!Units
<1>5. fp!UnitsOf(b) \cap (from .. to - 1) = {} <=> ~Covers(b, from, to)
    <2>1. \A x : x \in fp!UnitsOf(b) <=> x \in {2 * b, 2 * b + 1}
        BY <1>1 DEF fp!UnitsOf
    <2>2. fp!UnitsOf(b) \cap (from .. to - 1) = {}
            <=> 2 * b \notin from .. to - 1 /\ 2 * b + 1 \notin from .. to - 1
        BY <2>1
    <2>3. QED BY <1>1, <2>2 DEF Covers
<1>6. (from > 2 * b \/ to < 2 * b + 2) <=>
        ~(\A u \in fp!Units : u \div 2 = b => Covered(u, from, to))
    <2>1. (from > 2 * b \/ to < 2 * b + 2)
            <=> ~Covered(2 * b, from, to) \/ ~Covered(2 * b + 1, from, to)
        BY <1>1 DEF Covered
    <2>2. \A u \in fp!Units : u \div 2 = b => u \in {2 * b, 2 * b + 1}
        BY <1>1, BlocksAndUnits
    <2>3. QED BY <1>3, <2>1, <2>2
<1>7. QED BY <1>2, <1>3, <1>4, <1>5, <1>6

(* The facts of one block that Prepared() keeps for the other one.          *)
Kept(new, pg) ==
    /\ new.dirty <=> pg.dirty
    /\ \A k \in fp!Blocks : new.buf[k].delta = pg.buf[k].delta /\ (Valid(pg, k) => Valid(new, k))

(* __tux3_write_begin() of one block leaves the page sound and the block    *)
(* ready for the copy of what the call writes: its other data were read, or *)
(* are zero.                                                                *)
LEMMA PreparedSound ==
    ASSUME NEW s \in fp!Slots, NEW pg, Writable(pg, s), NEW b \in fp!Blocks,
           NEW from \in 0 .. 4, NEW to \in 0 .. 4, from < to, NEW data, NEW risky,
           Sound(pg, data, risky, Found), ~pg.buf[b].new, fp!Lookup(b) \in Content,
           \A u \in fp!Units : u \div 2 = b /\ ~Valid(pg, b) =>
                fp!DataOf(fp!Lookup(b), u) = data[u],
           \A k \in risky : Valid(pg, k)
    PROVE  LET new == fp!Prepared(pg, b, from, to)
           IN  /\ Sound(new, data, risky, Found) /\ Ready(new, b, from, to, data)
               /\ Beside(new, pg, b) /\ Kept(new, pg) /\ Writable(new, s)
<1> DEFINE partial == from > 2 * b \/ to < 2 * b + 2
           uptodate == pg.buf[b].uptodate \/ pg.uptodate
           content == fp!tux3_da_get_block(uptodate, b)
           zeroed == IF partial /\ ~pg.uptodate
                     THEN fp!ZeroFill(fp!ZeroFill(pg, to, 2 * b + 2), 2 * b, from) ELSE pg
           new == fp!Prepared(pg, b, from, to)
<1>1. PageOK(pg) /\ pg \in fp!PageType /\ pg.buf[b] \in fp!Buffer /\ pg.buffers
    BY PageFields DEF Writable, Changeable, PageOK
<1>2. /\ uptodate <=> Valid(pg, b)
      /\ uptodate <=> pg.buf[b].uptodate
      /\ uptodate \in BOOLEAN
    BY <1>1, PageFields, BufferFields DEF Valid, PageOK
<1>3. /\ fp!UnitsOf(b) \cap (from .. to - 1) = {} <=> ~Covers(b, from, to)
      /\ partial <=> ~(\A u \in fp!Units : u \div 2 = b => Covered(u, from, to))
      /\ \A u \in fp!Units : (u \div 2 = b) <=> (2 * b <= u /\ u < 2 * b + 2)
    BY CoversIs
<1>4. Found[b] = fp!Lookup(b) /\ SoundBlock(pg, b, data, risky, Found)
    BY SoundBlocks DEF Found
<1>5. Writable(new, s)
    BY <1>1, PreparedOK
<1>6. CASE ~Covers(b, from, to)
    <2>1. new = [pg EXCEPT !.buf[b].uptodate = uptodate]
        BY <1>3, <1>6 DEF fp!Prepared
    <2> DEFINE buffer == [pg.buf[b] EXCEPT !.uptodate = uptodate]
    <2>2. new = [pg EXCEPT !.buf[b] = buffer]
        BY <2>1
    <2>3. buffer = pg.buf[b]
        BY <1>1, <1>2 DEF fp!Buffer
    <2> HIDE DEF buffer, new
    <2>4. /\ new.data = pg.data /\ (new.uptodate <=> pg.uptodate) /\ (new.dirty <=> pg.dirty)
          /\ (new.buffers <=> pg.buffers) /\ new.buf[b] = pg.buf[b]
          /\ \A k \in fp!Blocks \ {b} : new.buf[k] = pg.buf[k]
        BY <1>1, <2>2, <2>3, SetBufferEffect
    <2>5. SoundBlock(new, b, data, risky, Found)
        BY <1>4, <2>4 DEF SoundBlock, Valid, Blank
    <2>6. Beside(new, pg, b)
        BY <2>4 DEF Beside
    <2>7. Ready(new, b, from, to, data)
        BY <1>6, <2>4 DEF Ready
    <2>8. Kept(new, pg)
        BY <2>4 DEF Kept, Valid
    <2>9. Sound(new, data, risky, Found)
        BY <2>5, <2>6, BesideSound
    <2>10. QED BY <1>5, <2>6, <2>7, <2>8, <2>9 DEF new
<1>7. CASE Covers(b, from, to) /\ ~pg.buf[b].mapped /\ content = fp!Hole
    <2> DEFINE buffer == [zeroed.buf[b] EXCEPT !.mapped = TRUE, !.new = TRUE,
                                              !.uptodate = uptodate]
    <2>1. new = [zeroed EXCEPT !.buf[b] = buffer]
        BY <1>3, <1>7 DEF fp!Prepared
    <2>2. /\ PageOK(zeroed)
          /\ (zeroed.uptodate <=> pg.uptodate) /\ (zeroed.dirty <=> pg.dirty)
          /\ (zeroed.buffers <=> pg.buffers) /\ zeroed.buf = pg.buf
          /\ \A u \in fp!Units :
               zeroed.data[u] = IF /\ partial /\ ~pg.uptodate
                                   /\ u \in 2 * b .. from - 1 \/ u \in to .. 2 * b + 2 - 1
                                THEN 0 ELSE pg.data[u]
        <3>0. PICK end \in Int : end = 2 * b + 2
            BY BlocksAndUnits
        <3> DEFINE one == fp!ZeroFill(pg, to, end)
        <3>1. PageOK(one)
            BY <1>1, ZeroFillOK
        <3>2. /\ (one.uptodate <=> pg.uptodate) /\ (one.dirty <=> pg.dirty)
              /\ (one.buffers <=> pg.buffers) /\ one.buf = pg.buf
              /\ \A u \in fp!Units : 
                   one.data[u] = IF u \in to .. end - 1 THEN 0 ELSE pg.data[u]
            BY <1>1, ZeroFillEffect
        <3> HIDE DEF one
        <3> DEFINE two == fp!ZeroFill(one, 2 * b, from)
        <3>3. PageOK(two)
            BY <3>1, ZeroFillOK
        <3>4. /\ (two.uptodate <=> one.uptodate) /\ (two.dirty <=> one.dirty)
              /\ (two.buffers <=> one.buffers) /\ two.buf = one.buf
              /\ \A u \in fp!Units : two.data[u] = IF u \in 2 * b .. from - 1 THEN 0 ELSE one.data[u]
            BY <3>1, ZeroFillEffect
        <3>5. CASE partial /\ ~pg.uptodate
            <4>1. zeroed = two
                BY <3>0, <3>5 DEF one
            <4> HIDE DEF zeroed, partial, two
            <4>2. \A u \in fp!Units :
                    zeroed.data[u] = IF u \in 2 * b .. from - 1 \/ u \in to .. end - 1
                                     THEN 0 ELSE pg.data[u]
                <5> DEFINE head == 2 * b .. from - 1
                           tail == to .. end - 1
                <5>1. \A u \in fp!Units : one.data[u] = IF u \in tail THEN 0 ELSE pg.data[u]
                    BY <3>2
                <5>2. \A u \in fp!Units : zeroed.data[u] = IF u \in head THEN 0 ELSE one.data[u]
                    BY <3>4, <4>1
                <5> HIDE DEF head, tail
                <5>3. \A u \in fp!Units :
                        zeroed.data[u] = IF u \in head \/ u \in tail THEN 0 ELSE pg.data[u]
                    BY <5>1, <5>2
                <5>4. QED BY <5>3 DEF head, tail
            <4>3. to .. end - 1 = to .. 2 * b + 2 - 1
                BY <3>0, BlocksAndUnits
            <4>4. /\ PageOK(zeroed)
                  /\ (zeroed.uptodate <=> pg.uptodate) /\ (zeroed.dirty <=> pg.dirty)
                  /\ (zeroed.buffers <=> pg.buffers) /\ zeroed.buf = pg.buf
                BY <3>2, <3>3, <3>4, <4>1
            <4>5. QED BY <3>5, <4>2, <4>3, <4>4
        <3>6. CASE ~(partial /\ ~pg.uptodate)
            <4>1. zeroed = pg
                BY <3>6
            <4> HIDE DEF zeroed, partial
            <4>2. QED BY <1>1, <3>6, <4>1
        <3>7. QED BY <3>5, <3>6
    <2>16. PageOK(zeroed)
        BY <2>2
    <2> HIDE DEF zeroed
    <2>3. /\ buffer.mapped /\ buffer.new /\ (buffer.uptodate <=> uptodate)
          /\ buffer.delta = pg.buf[b].delta
        BY <1>1, <1>2, <2>2 DEF fp!Buffer
    <2> HIDE DEF buffer, new
    <2>4. /\ new.data = zeroed.data /\ (new.uptodate <=> zeroed.uptodate)
          /\ (new.dirty <=> zeroed.dirty) /\ (new.buffers <=> zeroed.buffers)
          /\ new.buf[b] = buffer
          /\ \A k \in fp!Blocks \ {b} : new.buf[k] = zeroed.buf[k]
        BY ONLY <2>1, <2>16, b \in fp!Blocks, SetBufferEffect
    <2>5. Valid(new, b) <=> Valid(pg, b)
        BY <1>2, <2>2, <2>3, <2>4 DEF Valid
    <2>6. \A u \in fp!Units : u \div 2 # b => new.data[u] = pg.data[u]
        <3> SUFFICES ASSUME NEW u \in fp!Units, u \div 2 # b
                     PROVE  ~(u \in 2 * b .. from - 1 \/ u \in to .. 2 * b + 2 - 1)
            BY <2>2, <2>4
        <3>1. ~(2 * b <= u /\ u < 2 * b + 2) /\ b \in Int /\ u \in Int
            BY <1>3, BlocksAndUnits
        <3>2. from < 2 * b + 2 /\ to > 2 * b
            BY <1>7 DEF Covers
        <3>3. QED BY <3>1, <3>2
    <2>7. Beside(new, pg, b)
        BY <2>2, <2>4, <2>6 DEF Beside
    <2>8. ~pg.uptodate => \A u \in fp!Units : u \div 2 = b =>
            /\ data[u] = 0
            /\ Valid(pg, b) => pg.data[u] = 0
        <3> SUFFICES ASSUME ~pg.uptodate, NEW u \in fp!Units, u \div 2 = b
                     PROVE  data[u] = 0 /\ (Valid(pg, b) => pg.data[u] = 0)
            OBVIOUS
        <3>1. CASE Valid(pg, b)
            <4>1. Blank(pg, b)
                BY <1>2, <1>4, <1>7, <3>1 DEF SoundBlock
            <4>2. pg.data[u] = 0 /\ pg.data[u] = data[u]
                BY <1>4, <3>1, <4>1 DEF SoundBlock, Blank
            <4>3. QED BY <4>2
        <3>2. CASE ~Valid(pg, b)
            <4>1. fp!Lookup(b) = fp!Hole
                BY <1>2, <1>7, <3>2 DEF fp!tux3_da_get_block
            <4>2. fp!DataOf(fp!Hole, u) = 0
                BY DEF fp!DataOf
            <4>3. QED BY <3>2, <4>1, <4>2
        <3>3. QED BY <3>1, <3>2
    <2>9. ~pg.uptodate => \A u \in fp!Units : u \div 2 = b =>
              (Valid(pg, b) \/ ~Covered(u, from, to) => new.data[u] = 0)
        <3> SUFFICES ASSUME ~pg.uptodate, NEW u \in fp!Units, u \div 2 = b,
                            Valid(pg, b) \/ ~Covered(u, from, to)
                     PROVE  new.data[u] = 0
            OBVIOUS
        <3>1. CASE Valid(pg, b)
            BY <2>2, <2>4, <2>8, <3>1
        <3>2. CASE ~Covered(u, from, to)
            <4>1. 2 * b <= u /\ u < 2 * b + 2 /\ b \in Int /\ u \in Int
                BY <1>3, BlocksAndUnits
            <4>2. u \in 2 * b .. from - 1 \/ u \in to .. 2 * b + 2 - 1
                BY <3>2, <4>1 DEF Covered
            <4>3. partial
                BY <1>3, <3>2
            <4> HIDE DEF partial
            <4>4. QED BY <2>2, <2>4, <4>2, <4>3
        <3>3. QED BY <3>1, <3>2
    <2>10. Valid(pg, b) => \A u \in fp!Units : u \div 2 = b => new.data[u] = data[u]
        <3> SUFFICES ASSUME Valid(pg, b), NEW u \in fp!Units, u \div 2 = b
                     PROVE  new.data[u] = data[u]
            OBVIOUS
        <3>1. pg.uptodate => new.data[u] = pg.data[u]
            BY <2>2, <2>4
        <3>2. pg.data[u] = data[u]
            BY <1>4 DEF SoundBlock
        <3>3. ~pg.uptodate => new.data[u] = 0 /\ data[u] = 0
            BY <2>8, <2>9
        <3>4. QED BY <3>1, <3>2, <3>3
    <2>11. SoundBlock(new, b, data, risky, Found)
        BY <2>3, <2>4, <2>5, <2>10 DEF SoundBlock
    <2>12. Ready(new, b, from, to, data)
        BY <1>7, <2>2, <2>3, <2>4, <2>5, <2>8, <2>9 DEF Ready
    <2>13. Kept(new, pg)
        BY <2>2, <2>3, <2>4, <2>5 DEF Kept, Valid
    <2>14. Sound(new, data, risky, Found)
        BY <2>7, <2>11, BesideSound
    <2>15. QED BY <1>5, <2>7, <2>12, <2>13, <2>14 DEF new
<1>8. CASE /\ Covers(b, from, to) /\ ~(~pg.buf[b].mapped /\ content = fp!Hole)
           /\ ~uptodate /\ partial
    <2>1. new = fp!ReadBlock(pg, b, fp!Lookup(b))
        BY <1>3, <1>8 DEF fp!Prepared
    <2> HIDE DEF new
    <2>2. /\ (new.uptodate <=> pg.uptodate) /\ (new.dirty <=> pg.dirty)
          /\ (new.buffers <=> pg.buffers)
          /\ new.buf[b].uptodate /\ (new.buf[b].mapped <=> fp!Lookup(b) # fp!Hole)
          /\ new.buf[b].delta = pg.buf[b].delta
          /\ new.buf[b].new <=> pg.buf[b].new
          /\ \A k \in fp!Blocks \ {b} : new.buf[k] = pg.buf[k]
          /\ \A u \in fp!Units : new.data[u] = IF u \div 2 = b THEN fp!DataOf(fp!Lookup(b), u)
                                               ELSE pg.data[u]
        BY <1>1, <2>1, ReadBlockFields
    <2>3. new.buf[b].mapped
        <3>1. pg.buf[b].mapped => Found[b] # fp!Hole
            BY <1>2, <1>4, <1>8 DEF SoundBlock
        <3>2. ~pg.buf[b].mapped => fp!Lookup(b) # fp!Hole
            BY <1>8 DEF fp!tux3_da_get_block
        <3>3. QED BY <1>4, <2>2, <3>1, <3>2
    <2>4. \A u \in fp!Units : u \div 2 = b => new.data[u] = data[u]
        BY <1>2, <1>8, <2>2
    <2>5. Beside(new, pg, b)
        BY <2>2 DEF Beside
    <2>6. SoundBlock(new, b, data, risky, Found)
        BY <2>2, <2>3, <2>4 DEF SoundBlock, Valid
    <2>7. Ready(new, b, from, to, data)
        BY <1>8, <2>2, <2>3 DEF Ready, Valid
    <2>8. Kept(new, pg)
        BY <2>2 DEF Kept, Valid
    <2>9. Sound(new, data, risky, Found)
        BY <2>5, <2>6, BesideSound
    <2>10. QED BY <1>5, <2>5, <2>7, <2>8, <2>9 DEF new
<1>9. CASE /\ Covers(b, from, to) /\ ~(~pg.buf[b].mapped /\ content = fp!Hole)
           /\ ~(~uptodate /\ partial)
    <2> DEFINE buffer == [pg.buf[b] EXCEPT !.mapped = TRUE, !.new = FALSE, !.uptodate = uptodate]
    <2>1. new = [pg EXCEPT !.buf[b] = buffer]
        BY <1>3, <1>9 DEF fp!Prepared
    <2>2. /\ buffer.mapped /\ ~buffer.new /\ (buffer.uptodate <=> uptodate)
          /\ buffer.delta = pg.buf[b].delta
        BY <1>1, <1>2 DEF fp!Buffer
    <2> HIDE DEF buffer, new
    <2>3. /\ new.data = pg.data /\ (new.uptodate <=> pg.uptodate) /\ (new.dirty <=> pg.dirty)
          /\ (new.buffers <=> pg.buffers) /\ new.buf[b] = buffer
          /\ \A k \in fp!Blocks \ {b} : new.buf[k] = pg.buf[k]
        BY <1>1, <2>1, SetBufferEffect
    <2>4. Valid(new, b) <=> Valid(pg, b)
        BY <1>2, <2>2, <2>3 DEF Valid
    <2>5. ~Valid(pg, b) => Found[b] # fp!Hole
        <3> HAVE ~Valid(pg, b)
        <3>1. pg.buf[b].mapped => Found[b] # fp!Hole
            BY <1>4 DEF SoundBlock
        <3>2. ~pg.buf[b].mapped => fp!Lookup(b) # fp!Hole
            BY <1>2, <1>9 DEF fp!tux3_da_get_block
        <3>3. QED BY <1>4, <3>1, <3>2
    <2>6. Beside(new, pg, b)
        BY <2>3 DEF Beside
    <2>7. SoundBlock(new, b, data, risky, Found)
        BY <1>1, <1>4, <2>2, <2>3, <2>4, <2>5 DEF SoundBlock
    <2>8. Ready(new, b, from, to, data)
        BY <1>2, <1>3, <1>9, <2>2, <2>3, <2>4 DEF Ready
    <2>9. Kept(new, pg)
        BY <2>2, <2>3, <2>4 DEF Kept, Valid
    <2>10. Sound(new, data, risky, Found)
        BY <2>6, <2>7, BesideSound
    <2>11. QED BY <1>5, <2>6, <2>8, <2>9, <2>10 DEF new
<1>10. QED BY <1>6, <1>7, <1>8, <1>9

-----------------------------------------------------------------------------
(* What the steps have in common. *)

(* What is below the page cache depends on the hole extents, the dtree and  *)
(* the flush only.                                                          *)
LEMMA SameBelow ==
    ASSUME UNCHANGED <<holes, pdtree, pflush, pdelta, idata, snap>>
    PROVE  /\ Base' = Base /\ Found' = Found
           /\ Lim' = Lim => Shown' = Shown
           /\ Lim' = Lim /\ file' = file => Target' = Target
<1>1. fp!slot' = fp!slot
    BY SlotKept
<1>2. Durable' = Durable
    BY DEF Durable, fp!DataOf, fp!Hole, fp!Units
<1>3. Base' = Base
    BY <1>1, <1>2 DEF Base, fp!Units
<1>4. Found' = Found
    BY DEF Found, fp!Lookup, fp!IsHole, fp!Hole, fp!Slots, fp!Blocks
<1>5. Lim' = Lim => Shown' = Shown
    BY <1>1 DEF Shown, fp!BlocksIn, fp!Blocks
<1>6. Lim' = Lim /\ file' = file => Target' = Target
    BY DEF Target, fp!Units
<1>7. QED BY <1>3, <1>4, <1>5, <1>6

(* A page takes the place of the one in the radix tree. *)
LEMMA ReplaceSends ==
    ASSUME PagesInv, PagesInv', DataInv, NEW pg, Changeable(pg, fp!slot), fp!Replace(0, pg),
           UNCHANGED <<holes, pdtree, pflush, pdelta, idata, snap, file>>
    PROVE  /\ Flushed' /\ SentBlocks' = SentBlocks
           /\ live' # NoPage /\ pages'[live'] = pg
           /\ DirtyNow' = {b \in fp!Blocks : pg.buf[b].delta = fp!slot}
           /\ \A b \in OthersSend' : fp!MustFork(0) \/ b \in OthersSend
           /\ ~AnyDelta(pg, fp!old)
<1>1. /\ PTyped /\ Cache /\ Deltas /\ Device /\ Flushed
      /\ fp!slot \in fp!Slots /\ fp!old = 1 - fp!slot /\ 0 \in fp!Blocks
      /\ fp!slot' = fp!slot /\ fp!old' = fp!old
      /\ NoPage \notin Pages
    BY SlotsTyped, OldSlot, PagesAssumption, BlocksAndUnits DEF PagesInv, DataInv
<1>2. live' # NoPage /\ live' \in DOMAIN pages' /\ pages'[live'] = pg
    BY <1>1, Replaces
<1>3. DirtyNow' = {b \in fp!Blocks : pg.buf[b].delta = fp!slot}
    BY <1>1, <1>2 DEF DirtyNow, fp!Blocks
<1>4. ~AnyDelta(pg, fp!old)
    BY <1>1 DEF Changeable
<1>5. file' \in [data : [fp!Units -> Unit], ops : Nat] /\ holes'[fp!old] = holes[fp!old]
    BY <1>1 DEF Flushed
<1>6. ASSUME NEW p \in Pages \ DOMAIN pages, live' = p, pages' = fp!Put(p, pg),
             live = NoPage \/ fp!MustFork(0)
      PROVE  /\ Flushed' /\ SentBlocks' = SentBlocks
             /\ \A b \in OthersSend' : fp!MustFork(0) \/ b \in OthersSend
    <2>1. /\ DOMAIN pages' = DOMAIN pages \union {p} /\ pages'[p] = pg
          /\ \A q \in DOMAIN pages : pages'[q] = pages[q]
        BY <1>6 DEF fp!Put
    <2>2. \A q \in DOMAIN pages : SameSends(pages'[q], pages[q])
        BY <2>1 DEF SameSends
    <2>3. \A q \in DOMAIN pages' :
              \/ q \in DOMAIN pages /\ SameSends(pages'[q], pages[q])
              \/ (q \in DOMAIN pages => Changeable(pages[q], fp!slot))
                 /\ Changeable(pages'[q], fp!slot)
        BY <2>1, <2>2
    <2>4. /\ Flushed' /\ SentBlocks' = SentBlocks
          /\ \A q \in DOMAIN pages' : \A b \in fp!Blocks :
                Sends(pages'[q], b, pflush, fp!old, idata) =>
                    q \in DOMAIN pages /\ Sends(pages[q], b, pflush, fp!old, idata)
        BY <1>1, <1>5, <2>1, <2>3, SendsKept
    <2>5. ASSUME NEW b \in OthersSend', ~fp!MustFork(0)
          PROVE  b \in OthersSend
        <3>1. live = NoPage
            BY <1>6, <2>5
        <3>2. PICK q \in DOMAIN pages' : Sends(pages'[q], b, pflush, fp!old, idata)
            BY <1>1, <2>5 DEF OthersSend, Sends, fp!BlocksIn
        <3>3. b \in fp!Blocks
            BY <2>5 DEF OthersSend, fp!Blocks
        <3>4. q \in DOMAIN pages /\ Sends(pages[q], b, pflush, fp!old, idata) /\ q # live
            BY <1>1, <2>4, <3>1, <3>2, <3>3 DEF Cache
        <3>5. QED BY <3>3, <3>4 DEF OthersSend
    <2>6. QED BY <2>4, <2>5
<1>7. ASSUME live # NoPage, ~fp!MustFork(0), live' = live, pages' = fp!Put(live, pg)
      PROVE  /\ Flushed' /\ SentBlocks' = SentBlocks
             /\ \A b \in OthersSend' : b \in OthersSend
    <2>1. live \in DOMAIN pages /\ PageOK(pages[live])
        BY <1>1, <1>7 DEF Cache
    <2>2. Changeable(pages[live], fp!slot)
        BY <1>1, <1>7, <2>1, NeedFork DEF fp!MustFork
    <2>3. /\ DOMAIN pages' = DOMAIN pages /\ pages'[live] = pg
          /\ \A q \in DOMAIN pages \ {live} : pages'[q] = pages[q]
        BY <1>7, <2>1 DEF fp!Put
    <2>4. \A q \in DOMAIN pages \ {live} : SameSends(pages'[q], pages[q])
        BY <2>3 DEF SameSends
    <2>5. \A q \in DOMAIN pages' :
              \/ q \in DOMAIN pages /\ SameSends(pages'[q], pages[q])
              \/ (q \in DOMAIN pages => Changeable(pages[q], fp!slot))
                 /\ Changeable(pages'[q], fp!slot)
        BY <2>2, <2>3, <2>4
    <2>6. /\ Flushed' /\ SentBlocks' = SentBlocks
          /\ \A q \in DOMAIN pages' : \A b \in fp!Blocks :
                Sends(pages'[q], b, pflush, fp!old, idata) =>
                    q \in DOMAIN pages /\ Sends(pages[q], b, pflush, fp!old, idata)
        BY <1>1, <1>5, <2>3, <2>5, SendsKept
    <2>7. ASSUME NEW b \in OthersSend'
          PROVE  b \in OthersSend
        <3>1. b \in fp!Blocks
            BY <2>7 DEF OthersSend, fp!Blocks
        <3>2. PICK q \in DOMAIN pages' \ {live} : Sends(pages'[q], b, pflush, fp!old, idata)
            BY <1>1, <1>7, <2>7 DEF OthersSend, Sends, fp!BlocksIn
        <3>3. q \in DOMAIN pages /\ Sends(pages[q], b, pflush, fp!old, idata)
            BY <2>6, <3>1, <3>2
        <3>4. QED BY <3>1, <3>2, <3>3 DEF OthersSend
    <2>8. QED BY <2>6, <2>7
<1>8. \/ \E p \in Pages \ DOMAIN pages :
            live' = p /\ pages' = fp!Put(p, pg) /\ (live = NoPage \/ fp!MustFork(0))
      \/ live # NoPage /\ ~fp!MustFork(0) /\ live' = live /\ pages' = fp!Put(live, pg)
    BY DEF fp!Replace
<1>9. QED BY <1>2, <1>3, <1>4, <1>6, <1>7, <1>8

-----------------------------------------------------------------------------
(* Each step keeps the data invariant. *)

(* tux3_write_begin() keeps the data invariant                              *)
(* (kernel/filemap_blocklib.c:164).                                         *)
LEMMA DataWriteBegin ==
    ASSUME PagesInv, PagesInv', DataInv, NEW from \in Starts, NEW to \in Ends, from < to,
           fp!WriteBegin(from, to)
    PROVE  DataInv'
<1> DEFINE pg == fp!WithBuffers(fp!Forked(0))
           one == fp!Prepared(pg, 0, from, to)
           two == fp!Prepared(one, 1, from, to)
<1>0. /\ fp!slot \in fp!Slots /\ 0 \in fp!Blocks /\ 1 \in fp!Blocks /\ fp!Blocks = {0, 1}
      /\ PTyped /\ Cache /\ Flushed /\ Below /\ NoStale /\ Truncating
      /\ from \in 0 .. 4 /\ to \in 0 .. 4
      /\ fp!Lookup(0) \in Content /\ fp!Lookup(1) \in Content
    BY SlotsTyped, LookupTyped, BlocksAndUnits, PagesAssumption DEF PagesInv, DataInv
<1>1. /\ op = fp!Idle /\ kind = "file" /\ ~fp!PageLocked
      /\ fp!Replace(0, two) /\ unpinned' = (unpinned \/ fp!MustFork(0))
      /\ op' = [pc |-> "write", from |-> from, to |-> to]
      /\ UNCHANGED <<kind, psize, holes, pdtree, fill, pflush, pdelta, idata, file, snap>>
    BY DEF fp!WriteBegin, fp!CanCall
<1>2. /\ Writable(pg, fp!slot) /\ Sound(pg, Target, Risky, Found) /\ Fresh(pg)
      /\ \A b \in fp!Blocks : b \in DirtyNow <=> pg.buf[b].delta = fp!slot
      /\ \A b \in DirtyNow \union Risky : live # NoPage /\ Valid(pg, b)
      /\ live # NoPage /\ ~fp!MustFork(0) => (pg.dirty <=> pages[live].dirty)
      /\ \A u \in fp!Units : ~Valid(pg, u \div 2) =>
            fp!DataOf(fp!Lookup(u \div 2), u) = Target[u]
    BY <1>1, BufferedSound
<1> HIDE DEF pg
<1>3. /\ Sound(one, Target, Risky, Found) /\ Ready(one, 0, from, to, Target)
      /\ Beside(one, pg, 0) /\ Kept(one, pg) /\ Writable(one, fp!slot)
    <2>1. ~pg.buf[0].new
        BY <1>0, <1>2 DEF Fresh
    <2>2. \A k \in Risky : Valid(pg, k)
        BY <1>2
    <2>3. \A u \in fp!Units : u \div 2 = 0 /\ ~Valid(pg, 0) =>
              fp!DataOf(fp!Lookup(0), u) = Target[u]
        BY <1>2
    <2>4. QED BY <1>0, <1>2, <2>1, <2>2, <2>3, PreparedSound
<1> HIDE DEF one
<1>4. /\ one.buf[1] = pg.buf[1] /\ (Valid(one, 1) <=> Valid(pg, 1)) /\ ~one.buf[1].new
    BY <1>0, <1>2, <1>3 DEF Beside, Valid, Fresh
<1>5. /\ Sound(two, Target, Risky, Found) /\ Ready(two, 1, from, to, Target)
      /\ Beside(two, one, 1) /\ Kept(two, one) /\ Writable(two, fp!slot)
    <2>1. \A k \in Risky : Valid(one, k)
        BY <1>2, <1>3 DEF Kept, Risky, Shown
    <2>2. \A u \in fp!Units : u \div 2 = 1 /\ ~Valid(one, 1) =>
              fp!DataOf(fp!Lookup(1), u) = Target[u]
        BY <1>2, <1>4
    <2>3. QED BY <1>0, <1>3, <1>4, <2>1, <2>2, PreparedSound
<1> HIDE DEF two
<1>6. Ready(two, 0, from, to, Target)
    <2>1. /\ (two.uptodate <=> one.uptodate) /\ two.buf[0] = one.buf[0]
          /\ \A u \in fp!Units : u \div 2 = 0 => two.data[u] = one.data[u]
        BY <1>0, <1>5 DEF Beside
    <2>2. QED BY <1>3, <2>1 DEF Ready, Valid
<1>7. /\ Flushed' /\ SentBlocks' = SentBlocks
      /\ live' # NoPage /\ pages'[live'] = two
      /\ DirtyNow' = {b \in fp!Blocks : two.buf[b].delta = fp!slot}
      /\ \A b \in OthersSend' : fp!MustFork(0) \/ b \in OthersSend
      /\ ~AnyDelta(two, fp!old)
    BY <1>1, <1>5, ReplaceSends DEF Writable
<1>8. /\ Lim = 4 /\ Lim' = 4 /\ Sz' = Sz /\ op'.pc = "write" /\ op'.from = from /\ op'.to = to
      /\ op.pc = "idle"
    BY <1>1 DEF Lim, Sz, Cutting, fp!Idle
<1>9. Base' = Base /\ Found' = Found /\ Shown' = Shown /\ Target' = Target /\ Risky' = Risky
    BY <1>1, <1>7, <1>8, SameBelow DEF Risky
<1>10. DirtyNow' = DirtyNow
    <2>1. \A b \in fp!Blocks : b \in DirtyNow <=> two.buf[b].delta = fp!slot
        BY <1>2, <1>3, <1>5 DEF Kept
    <2>2. QED BY <1>7, <2>1 DEF DirtyNow
<1>11. Below'
    <2>1. fp!slot' = fp!slot
        BY <1>1, SlotKept
    <2>2. QED BY <1>0, <1>1, <1>8, <1>9, <1>10, <2>1 DEF Below, fp!BlocksIn, fp!Units
<1>12. LivePage'
    <2>1. Holds(two, Target) /\ Unmapped(two, Risky) /\ Addressed(two, Found)
        BY <1>5 DEF Sound
    <2>2. ~AnyDelta(two, fp!old')
        BY <1>1, <1>7, OldSlot
    <2>3. QED BY <1>7, <1>8, <1>9, <2>1, <2>2 DEF LivePage
<1>13. NoStale'
    <2> SUFFICES ASSUME NEW b \in Risky
                 PROVE  /\ Valid(two, b) /\ two.buffers
                        /\ b \in OthersSend' => two.dirty \/ unpinned'
        BY <1>7, <1>9 DEF NoStale
    <2>1. b \in fp!Blocks /\ Valid(pg, b) /\ live # NoPage
        BY <1>2 DEF Risky, Shown
    <2>2. Valid(two, b) /\ two.buffers /\ (two.dirty <=> pg.dirty)
        BY <1>3, <1>5, <2>1 DEF Kept, Writable
    <2>3. ASSUME b \in OthersSend' PROVE two.dirty \/ unpinned'
        <3>1. CASE fp!MustFork(0)
            BY <1>1, <3>1
        <3>2. CASE ~fp!MustFork(0)
            <4>1. pages[live].dirty \/ unpinned
                BY <1>0, <1>7, <2>3, <3>2 DEF NoStale
            <4>2. QED BY <1>1, <1>2, <2>1, <2>2, <3>2, <4>1
        <3>3. QED BY <3>1, <3>2
    <2>4. QED BY <2>2, <2>3
<1>14. Filling'
    BY <1>1 DEF Filling, fp!PageLocked
<1>15. Writing'
    <2>1. \A b \in fp!Blocks : Ready(two, b, from, to, Target)
        BY <1>0, <1>5, <1>6
    <2>2. \A u \in fp!Units : Target[u] = file.data[u]
        BY <1>8, BlocksAndUnits DEF Target
    <2>3. \A b \in fp!Blocks : Ready(two, b, from, to, file.data)
        BY <2>1, <2>2 DEF Ready
    <2>4. QED BY <1>1, <1>7, <1>8, <2>3 DEF Writing
<1>16. Truncating'
    BY <1>1, <1>8 DEF Truncating, Cutting
<1>17. QED BY <1>7, <1>11, <1>12, <1>13, <1>14, <1>15, <1>16 DEF DataInv

(* __tux3_commit_write() makes the buffers of the range dirty for the delta *)
(* and uptodate, and leaves the others alone.                               *)
LEMMA CommitEffect ==
    ASSUME NEW pg, fp!slot \in fp!Slots, Writable(pg, fp!slot), NEW from \in 0 .. 4, NEW to \in 0 .. 4
    PROVE  LET new == fp!Commit(pg, from, to)
               inside(b) == 2 * b + 2 > from /\ 2 * b < to
           IN  /\ new.data = pg.data /\ new.buffers /\ Fresh(new)
               /\ \A b \in fp!Blocks : (new.buf[b].mapped <=> pg.buf[b].mapped)
               /\ \A b \in fp!Blocks : inside(b) =>
                    new.buf[b].delta = fp!slot /\ new.buf[b].uptodate /\ new.dirty
               /\ \A b \in fp!Blocks : ~inside(b) =>
                    /\ new.buf[b].delta = pg.buf[b].delta
                    /\ new.buf[b].uptodate <=> pg.buf[b].uptodate
               /\ pg.dirty => new.dirty
               /\ new.uptodate <=> pg.uptodate \/ \A b \in fp!Blocks : new.buf[b].uptodate
<1> DEFINE inside(b) == 2 * b + 2 > from /\ 2 * b < to
           one == IF inside(0) THEN fp!MarkDirty(pg, 0, fp!slot) ELSE pg
           two == IF inside(1) THEN fp!MarkDirty(one, 1, fp!slot) ELSE one
           uptodate == two.uptodate \/ \A b \in fp!Blocks : two.buf[b].uptodate
           bufs == [b \in fp!Blocks |-> [two.buf[b] EXCEPT !.new = FALSE]]
           new == [two EXCEPT !.uptodate = uptodate, !.buf = bufs]
<1>1. /\ Writable(one, fp!slot)
      /\ one.data = pg.data /\ (one.uptodate <=> pg.uptodate) /\ one.buffers
      /\ pg.dirty => one.dirty
      /\ one.buf[1] = pg.buf[1]
      /\ one.buf[0].mapped <=> pg.buf[0].mapped
      /\ inside(0) => one.buf[0].delta = fp!slot /\ one.buf[0].uptodate /\ one.dirty
      /\ ~inside(0) => one.buf[0] = pg.buf[0]
    <2>1. CASE inside(0)
        <3>1. one = fp!MarkDirty(pg, 0, fp!slot)
            BY <2>1
        <3> HIDE DEF one, inside
        <3>2. 0 \in fp!Blocks /\ 1 \in fp!Blocks \ {0}
            BY BlocksAndUnits
        <3>3. Writable(one, fp!slot)
            BY <3>1, <3>2, MarkDirtyOK
        <3>4. QED BY <2>1, <3>1, <3>2, <3>3, MarkDirtyEffect
    <2>2. CASE ~inside(0)
        <3>1. one = pg
            BY <2>2
        <3> HIDE DEF one, inside
        <3>2. QED BY <2>2, <3>1 DEF Writable
    <2>3. QED BY <2>1, <2>2
<1> HIDE DEF one
<1>2. /\ Writable(two, fp!slot)
      /\ two.data = one.data /\ (two.uptodate <=> one.uptodate) /\ two.buffers
      /\ one.dirty => two.dirty
      /\ two.buf[0] = one.buf[0]
      /\ two.buf[1].mapped <=> one.buf[1].mapped
      /\ inside(1) => two.buf[1].delta = fp!slot /\ two.buf[1].uptodate /\ two.dirty
      /\ ~inside(1) => two.buf[1] = one.buf[1]
    <2>1. CASE inside(1)
        <3>1. two = fp!MarkDirty(one, 1, fp!slot)
            BY <2>1
        <3> HIDE DEF two, inside
        <3>2. 1 \in fp!Blocks /\ 0 \in fp!Blocks \ {1}
            BY BlocksAndUnits
        <3>3. Writable(two, fp!slot)
            BY <1>1, <3>1, <3>2, MarkDirtyOK
        <3>4. QED BY <1>1, <2>1, <3>1, <3>2, <3>3, MarkDirtyEffect
    <2>2. CASE ~inside(1)
        <3>1. two = one
            BY <2>2
        <3> HIDE DEF two, inside
        <3>2. QED BY <1>1, <2>2, <3>1 DEF Writable
    <2>3. QED BY <2>1, <2>2
<1>3. fp!Commit(pg, from, to) = new
    BY DEF fp!Commit, one
<1> HIDE DEF two
<1>4. /\ two \in fp!PageType
      /\ \A b \in fp!Blocks : two.buf[b] \in fp!Buffer
    BY <1>2, PageFields DEF Writable, Changeable, PageOK
<1>5. \A b \in fp!Blocks :
        /\ bufs[b].delta = two.buf[b].delta /\ bufs[b].uptodate = two.buf[b].uptodate
        /\ bufs[b].mapped = two.buf[b].mapped /\ ~bufs[b].new
    BY <1>4 DEF fp!Buffer
<1>6. uptodate <=> two.uptodate \/ \A b \in fp!Blocks : two.buf[b].uptodate
    OBVIOUS
<1> HIDE DEF bufs, uptodate
<1>7. /\ new.buf = bufs /\ new.data = two.data /\ (new.dirty <=> two.dirty)
      /\ (new.buffers <=> two.buffers) /\ (new.uptodate <=> uptodate)
    BY <1>4 DEF fp!PageType
<1> HIDE DEF new
<1>8. \A b \in fp!Blocks :
        /\ new.buf[b].mapped <=> pg.buf[b].mapped
        /\ inside(b) => new.buf[b].delta = fp!slot /\ new.buf[b].uptodate /\ new.dirty
        /\ ~inside(b) => /\ new.buf[b].delta = pg.buf[b].delta
                         /\ new.buf[b].uptodate <=> pg.buf[b].uptodate
    <2> SUFFICES ASSUME NEW b \in fp!Blocks
                 PROVE  /\ new.buf[b].mapped <=> pg.buf[b].mapped
                        /\ inside(b) => new.buf[b].delta = fp!slot /\ new.buf[b].uptodate /\ new.dirty
                        /\ ~inside(b) => /\ new.buf[b].delta = pg.buf[b].delta
                                         /\ new.buf[b].uptodate <=> pg.buf[b].uptodate
        OBVIOUS
    <2>1. /\ new.buf[b].delta = two.buf[b].delta /\ (new.buf[b].uptodate <=> two.buf[b].uptodate)
          /\ new.buf[b].mapped <=> two.buf[b].mapped
          /\ new.dirty <=> two.dirty
        BY <1>5, <1>7
    <2> HIDE DEF inside
    <2>2. CASE b = 0
        BY <1>1, <1>2, <2>1, <2>2
    <2>3. CASE b = 1
        BY <1>1, <1>2, <2>1, <2>3
    <2>4. QED BY <2>2, <2>3, BlocksAndUnits
<1>9. /\ new.data = pg.data /\ new.buffers /\ Fresh(new) /\ (pg.dirty => new.dirty)
      /\ new.uptodate <=> pg.uptodate \/ \A b \in fp!Blocks : new.buf[b].uptodate
    BY <1>1, <1>2, <1>5, <1>6, <1>7 DEF Fresh
<1> HIDE DEF inside, new, two, one, uptodate, bufs
<1>10. QED BY <1>3, <1>8, <1>9 DEF inside

(* tux3_page_zero_new_buffers(): what a short copy did not write of a new   *)
(* block is zeroed, and its buffer is dirty; other blocks stay.             *)
LEMMA ZeroNewEffect ==
    ASSUME NEW pg, fp!slot \in fp!Slots, Writable(pg, fp!slot), NEW b \in fp!Blocks,
           NEW from \in 0 .. 4, NEW to \in 0 .. 4, from < to
    PROVE  LET new == fp!ZeroNew(pg, b, from, to)
           IN  /\ Beside(new, pg, b) /\ (pg.dirty => new.dirty)
               /\ pg.buf[b].new /\ Covers(b, from, to) =>
                    /\ new.buf[b].delta = fp!slot /\ new.buf[b].uptodate
                    /\ new.buf[b].mapped <=> pg.buf[b].mapped
                    /\ new.buf[b].new
                    /\ \A u \in fp!Units : u \div 2 = b =>
                         new.data[u] = IF ~pg.uptodate /\ Covered(u, from, to) THEN 0 ELSE pg.data[u]
               /\ ~(pg.buf[b].new /\ Covers(b, from, to)) => new = pg
<1>1. /\ fp!UnitsOf(b) \cap (from .. to - 1) = {} <=> ~Covers(b, from, to)
      /\ \A u \in fp!Units : u \in from .. to - 1 <=> Covered(u, from, to)
      /\ \A u \in fp!Units : (u \div 2 = b) <=> (2 * b <= u /\ u < 2 * b + 2)
    BY CoversIs
<1>2. CASE ~(pg.buf[b].new /\ Covers(b, from, to))
    <2>1. fp!ZeroNew(pg, b, from, to) = pg
        BY <1>1, <1>2 DEF fp!ZeroNew
    <2>2. QED BY <1>2, <2>1 DEF Beside
<1>3. CASE pg.buf[b].new /\ Covers(b, from, to)
    <2> DEFINE low == fp!Max({from, 2 * b})
               high == fp!Min({to, 2 * b + 2})
               mid == IF pg.uptodate THEN pg ELSE fp!ZeroFill(pg, low, high)
               new == fp!ZeroNew(pg, b, from, to)
    <2>1. new = fp!MarkDirty(mid, b, fp!slot)
        BY <1>1, <1>3 DEF fp!ZeroNew
    <2>2. \A u \in fp!Units : u \in low .. high - 1 <=> u \div 2 = b /\ Covered(u, from, to)
        <3>1. b \in Int /\ 2 * b \in Int /\ 2 * b + 2 \in Int /\ from \in Int /\ to \in Int
            BY BlocksAndUnits
        <3>2. /\ low \in {from, 2 * b} /\ low >= from /\ low >= 2 * b
              /\ high \in {to, 2 * b + 2} /\ high <= to /\ high <= 2 * b + 2
            BY <3>1, MinOfTwo
        <3> HIDE DEF low, high
        <3>3. QED BY <1>1, <3>1, <3>2, BlocksAndUnits DEF Covered
    <2> HIDE DEF low, high
    <2>3. PageOK(pg) /\ pg.buffers
        BY DEF Writable, Changeable
    <2>4. /\ Writable(mid, fp!slot)
          /\ (mid.uptodate <=> pg.uptodate) /\ (mid.dirty <=> pg.dirty)
          /\ (mid.buffers <=> pg.buffers) /\ mid.buf = pg.buf
          /\ \A u \in fp!Units : mid.data[u] = IF ~pg.uptodate /\ u \in low .. high - 1 THEN 0
                                               ELSE pg.data[u]
        <3>1. CASE pg.uptodate
            <4>1. mid = pg
                BY <3>1
            <4> HIDE DEF mid
            <4>2. QED BY <3>1, <4>1
        <3>2. CASE ~pg.uptodate
            <4>1. mid = fp!ZeroFill(pg, low, high)
                BY <3>2
            <4> HIDE DEF mid
            <4>2. QED BY <2>3, <3>2, <4>1, ZeroFillEffect, ZeroFillWritable
        <3>3. QED BY <3>1, <3>2
    <2> HIDE DEF mid, new
    <2>5. /\ new.data = mid.data /\ (new.uptodate <=> mid.uptodate) /\ new.dirty /\ new.buffers
          /\ new.buf[b].delta = fp!slot /\ new.buf[b].uptodate
          /\ new.buf[b].mapped <=> mid.buf[b].mapped
          /\ new.buf[b].new <=> mid.buf[b].new
          /\ \A k \in fp!Blocks \ {b} : new.buf[k] = mid.buf[k]
        BY <2>1, <2>4, MarkDirtyEffect
    <2>6. \A u \in fp!Units :
            new.data[u] = IF ~pg.uptodate /\ u \div 2 = b /\ Covered(u, from, to) THEN 0
                          ELSE pg.data[u]
        BY <2>2, <2>4, <2>5
    <2>7. Beside(new, pg, b)
        BY <2>3, <2>4, <2>5, <2>6 DEF Beside
    <2>8. QED BY <1>3, <2>3, <2>4, <2>5, <2>6, <2>7 DEF new
<1>4. QED BY <1>2, <1>3

(* What __tux3_commit_write() makes valid has the data.                     *)
LEMMA CommitSound ==
    ASSUME NEW pg, fp!slot \in fp!Slots, Writable(pg, fp!slot), NEW from \in 0 .. 4, NEW to \in 0 .. 4,
           NEW data, NEW risky, NEW found, Unmapped(pg, risky), Addressed(pg, found),
           \A b \in fp!Blocks :
             LET inside == 2 * b + 2 > from /\ 2 * b < to
             IN  /\ Valid(pg, b) \/ inside => \A u \in fp!Units : u \div 2 = b => pg.data[u] = data[u]
                 /\ inside => pg.buf[b].mapped
                 /\ ~Valid(pg, b) /\ ~inside => ~pg.buf[b].new
    PROVE  LET new == fp!Commit(pg, from, to)
           IN  /\ Sound(new, data, risky, found) /\ Fresh(new)
               /\ Writable(new, fp!slot) /\ (pg.dirty => new.dirty)
               /\ \A b \in fp!Blocks :
                    /\ Valid(pg, b) => Valid(new, b)
                    /\ pg.buf[b].delta = fp!slot => new.buf[b].delta = fp!slot
                    /\ 2 * b + 2 > from /\ 2 * b < to => new.buf[b].delta = fp!slot /\ new.dirty
<1> DEFINE new == fp!Commit(pg, from, to)
           inside(b) == 2 * b + 2 > from /\ 2 * b < to
<1>1. /\ new.data = pg.data /\ new.buffers /\ Fresh(new)
      /\ \A b \in fp!Blocks : (new.buf[b].mapped <=> pg.buf[b].mapped)
      /\ \A b \in fp!Blocks : inside(b) =>
           new.buf[b].delta = fp!slot /\ new.buf[b].uptodate /\ new.dirty
      /\ \A b \in fp!Blocks : ~inside(b) =>
           /\ new.buf[b].delta = pg.buf[b].delta
           /\ new.buf[b].uptodate <=> pg.buf[b].uptodate
      /\ pg.dirty => new.dirty
      /\ new.uptodate <=> pg.uptodate \/ \A b \in fp!Blocks : new.buf[b].uptodate
    BY CommitEffect
<1>2. \A b \in fp!Blocks :
         /\ Valid(pg, b) \/ inside(b) => \A u \in fp!Units : u \div 2 = b => pg.data[u] = data[u]
         /\ inside(b) => pg.buf[b].mapped
         /\ ~Valid(pg, b) /\ ~inside(b) => ~pg.buf[b].new
    OBVIOUS
<1>3. Writable(new, fp!slot)
    BY CommitOK
<1> HIDE DEF new
<1>4. /\ pg.buffers
      /\ \A b \in fp!Blocks : Valid(new, b) <=> Valid(pg, b) \/ inside(b)
    <2>1. pg.buffers
        BY DEF Writable
    <2> HIDE DEF inside
    <2>2. QED BY <1>1, <2>1 DEF Valid
<1>5. Holds(new, data)
    <2> HIDE DEF inside
    <2>1. QED BY <1>1, <1>2, <1>4, BlocksAndUnits DEF Holds
<1>6. Unmapped(new, risky)
    <2> HIDE DEF inside
    <2>1. QED BY <1>1, <1>2 DEF Unmapped, Blank
<1>7. Addressed(new, found)
    <2> HIDE DEF inside
    <2>1. QED BY <1>1, <1>2, <1>4 DEF Addressed
<1>8. \A b \in fp!Blocks :
        /\ Valid(pg, b) => Valid(new, b)
        /\ pg.buf[b].delta = fp!slot => new.buf[b].delta = fp!slot
        /\ inside(b) => new.buf[b].delta = fp!slot /\ new.dirty
    <2> HIDE DEF inside
    <2>1. QED BY <1>1, <1>4
<1>9. QED BY <1>1, <1>3, <1>5, <1>6, <1>7, <1>8 DEF new, Sound

(* What hides from a lookup is inside the file. *)
LEMMA SentBelow ==
    ASSUME PagesInv, DataInv, NEW b \in SentBlocks, b < holes[fp!slot]
    PROVE  b \in fp!Blocks /\ b < fp!BlocksIn(Sz) /\ pflush # "idle"
<1>1. /\ b \in fp!Blocks /\ b < holes[fp!slot] /\ b \in SentBlocks
      /\ PTyped /\ Cache /\ Flushed /\ Below /\ Device
    BY DEF SentBlocks, PagesInv, DataInv
<1>2. PICK p \in DOMAIN pages : Sends(pages[p], b, pflush, fp!old, idata)
    BY <1>1 DEF SentBlocks
<1>3. PICK u \in fp!Units : u \div 2 = b
    BY <1>1, BlocksAndUnits
<1>4. b < fp!BlocksIn(idata)
    BY <1>1, <1>2, <1>3 DEF Flushed, Carried
<1>5. pflush # "idle"
    BY <1>1, <1>2 DEF Sends, Cache, PageOK, Device
<1>6. fp!BlocksIn(idata) <= fp!BlocksIn(Sz) \/ holes[fp!slot] <= fp!BlocksIn(Sz)
    BY <1>1, <1>5 DEF Below
<1>7. /\ b \in Int /\ idata \in 0 .. 4 /\ holes[fp!slot] \in Int /\ Sz \in 0 .. 4
      /\ fp!BlocksIn(idata) \in Int /\ fp!BlocksIn(Sz) \in Int
    <2>1. op.from \in Int /\ psize \in 0 .. 4 /\ psize \in Int /\ op.from \in 0 .. 4 /\ idata \in 0 .. 4
          /\ holes[fp!slot] \in Int
        BY <1>1, Types
    <2>2. Sz \in 0 .. 4
        BY <2>1, MinOfTwo DEF Sz
    <2>3. fp!BlocksIn(idata) \in Int /\ fp!BlocksIn(Sz) \in Int
        BY <2>1, <2>2 DEF fp!BlocksIn
    <2>4. QED BY <1>1, <2>1, <2>2, <2>3, BlocksAndUnits
<1>8. QED BY <1>1, <1>4, <1>5, <1>6, <1>7

(* A block whose data only the flush of the previous delta still writes is  *)
(* below the end of the file.                                               *)
LEMMA RiskyBelow ==
    ASSUME PagesInv, DataInv, NEW b \in Risky
    PROVE  b \in fp!Blocks /\ b < fp!BlocksIn(Sz) /\ b < fp!BlocksIn(Lim) /\ pflush # "idle"
BY SentBelow DEF Risky, Shown

(* The page in the radix tree changes where it is. *)
LEMMA InPlaceSends ==
    ASSUME PagesInv, PagesInv', DataInv, live # NoPage, live' = live,
           NEW pg, DOMAIN pages' = DOMAIN pages, pages'[live] = pg,
           \A q \in DOMAIN pages \ {live} : pages'[q] = pages[q],
           \/ Changeable(pages[live], fp!slot) /\ Changeable(pg, fp!slot)
           \/ SameSends(pg, pages[live]),
           UNCHANGED <<pdtree, pflush, pdelta, idata, snap>>, holes'[fp!old] = holes[fp!old],
           file' \in [data : [fp!Units -> Unit], ops : Nat]
    PROVE  /\ Flushed' /\ SentBlocks' = SentBlocks /\ OthersSend' = OthersSend
           /\ DirtyNow' = {b \in fp!Blocks : pg.buf[b].delta = fp!slot}
<1>1. /\ PTyped /\ Cache /\ Flushed /\ live \in DOMAIN pages
      /\ fp!slot' = fp!slot /\ fp!old' = fp!old
    BY OldSlot DEF PagesInv, DataInv, Cache
<1>2. \A q \in DOMAIN pages \ {live} : SameSends(pages'[q], pages[q])
    BY DEF SameSends
<1>3. \A q \in DOMAIN pages' :
          \/ q \in DOMAIN pages /\ SameSends(pages'[q], pages[q])
          \/ (q \in DOMAIN pages => Changeable(pages[q], fp!slot))
             /\ Changeable(pages'[q], fp!slot)
    BY <1>2
<1>4. /\ Flushed' /\ SentBlocks' = SentBlocks
    BY <1>1, <1>3, SendsKept
<1>5. DirtyNow' = {b \in fp!Blocks : pg.buf[b].delta = fp!slot}
    BY <1>1 DEF DirtyNow, fp!Blocks
<1>6. OthersSend' = OthersSend
    BY <1>1 DEF OthersSend, Sends, fp!BlocksIn, fp!Blocks
<1>7. QED BY <1>4, <1>5, <1>6

(* The radix tree loses its page, which the backend does not need. *)
LEMMA DropSends ==
    ASSUME PagesInv, PagesInv', DataInv, live # NoPage, live' = NoPage,
           pages' = [p \in forked |-> pages[p]], Changeable(pages[live], fp!slot),
           UNCHANGED <<pdtree, pflush, pdelta, idata, snap>>, holes'[fp!old] = holes[fp!old],
           file' \in [data : [fp!Units -> Unit], ops : Nat]
    PROVE  Flushed' /\ SentBlocks' = SentBlocks /\ DirtyNow' = {}
<1>1. PTyped /\ Cache /\ Flushed
    BY DEF PagesInv, DataInv
<1>2. \A p \in DOMAIN pages \ DOMAIN pages' : Changeable(pages[p], fp!slot)
    BY <1>1 DEF Cache
<1>3. \A p \in DOMAIN pages' : p \in DOMAIN pages /\ SameSends(pages'[p], pages[p])
    BY <1>1 DEF Cache, SameSends
<1>4. Flushed' /\ SentBlocks' = SentBlocks
    BY <1>1, <1>2, <1>3, SendsKept
<1>5. DirtyNow' = {}
    BY DEF DirtyNow
<1>6. QED BY <1>4, <1>5

(* __tux3_write_end(): all the data is copied, or none. *)
LEMMA WrittenSound ==
    ASSUME NEW pg, fp!slot \in fp!Slots, Writable(pg, fp!slot), pdelta \in Unit,
           NEW from \in 0 .. 4, NEW to \in 0 .. 4, from < to,
           NEW copied \in {0, to - from}, NEW data, NEW risky, NEW found,
           Sound(pg, data, risky, found),
           \A b \in fp!Blocks : Ready(pg, b, from, to, data),
           NEW written,
           \A u \in fp!Units : written[u] = IF Covered(u, from, from + copied) THEN pdelta
                                            ELSE data[u]
    PROVE  LET new == fp!Written(pg, from, to, copied)
           IN  /\ Sound(new, written, risky, found) /\ Fresh(new)
               /\ Writable(new, fp!slot) /\ (pg.dirty => new.dirty)
               /\ \A b \in fp!Blocks :
                    /\ Valid(pg, b) => Valid(new, b)
                    /\ pg.buf[b].delta = fp!slot => new.buf[b].delta = fp!slot
                    /\ copied # 0 /\ Covers(b, from, to) => new.buf[b].delta = fp!slot
<1> DEFINE end == from + copied
           filled == [u \in fp!Units |->
                        IF u \in from .. end - 1 THEN pdelta ELSE pg.data[u]]
           copy == [pg EXCEPT !.data = filled]
           zeroed == IF end < to
                     THEN fp!ZeroNew(fp!ZeroNew(copy, 0, end, to), 1, end, to)
                     ELSE copy
<1>0. /\ fp!Blocks = {0, 1} /\ 0 \in fp!Blocks /\ 1 \in fp!Blocks
      /\ from \in Int /\ to \in Int /\ end \in 0 .. 4 /\ end \in Int
      /\ end = IF copied = 0 THEN from ELSE to
    BY BlocksAndUnits
<1>1. fp!Written(pg, from, to, copied) = fp!Commit(zeroed, from, end)
    BY DEF fp!Written, zeroed, copy, filled
<1> HIDE DEF end
<1>2. PageOK(pg) /\ pg \in fp!PageType /\ pg.buffers
    BY DEF Writable, Changeable, PageOK
<1>3. filled \in [fp!Units -> Unit]
    BY <1>2, PageFields
<1>4. \A u \in fp!Units : filled[u] = IF Covered(u, from, end) THEN pdelta ELSE pg.data[u]
    BY <1>0, BlocksAndUnits DEF Covered
<1> HIDE DEF filled
<1>5. /\ Writable(copy, fp!slot) /\ copy.data = filled /\ copy.buf = pg.buf
      /\ (copy.uptodate <=> pg.uptodate) /\ (copy.dirty <=> pg.dirty)
      /\ (copy.buffers <=> pg.buffers)
    BY <1>2, <1>3, DataOK DEF fp!PageType
<1> HIDE DEF copy
<1>6. \A b \in fp!Blocks :
        /\ Ready(pg, b, from, to, data) /\ SoundBlock(pg, b, data, risky, found)
        /\ Valid(copy, b) <=> Valid(pg, b)
    BY <1>5, SoundBlocks DEF Valid
<1>7. \A u \in fp!Units : u \div 2 \in fp!Blocks /\ u \in Int
    BY BlocksAndUnits
<1>8. \A b \in fp!Blocks :
        /\ (2 * b + 2 > from /\ 2 * b < to) <=> Covers(b, from, to)
        /\ b \in Int /\ 2 * b \in fp!Units /\ (2 * b) \div 2 = b
        /\ \A u \in fp!Units : u \div 2 = b /\ Covered(u, from, to) => Covers(b, from, to)
    BY <1>0, BlocksAndUnits DEF Covers, Covered
<1>9. ASSUME copied # 0
      PROVE  /\ Sound(fp!Commit(zeroed, from, end), written, risky, found)
             /\ Fresh(fp!Commit(zeroed, from, end))
             /\ Writable(fp!Commit(zeroed, from, end), fp!slot)
             /\ pg.dirty => fp!Commit(zeroed, from, end).dirty
             /\ \A b \in fp!Blocks :
                  /\ Valid(pg, b) => Valid(fp!Commit(zeroed, from, end), b)
                  /\ pg.buf[b].delta = fp!slot =>
                        fp!Commit(zeroed, from, end).buf[b].delta = fp!slot
                  /\ Covers(b, from, to) => fp!Commit(zeroed, from, end).buf[b].delta = fp!slot
    <2>1. end = to /\ zeroed = copy
        BY <1>0, <1>9
    <2> HIDE DEF zeroed
    <2>2. Unmapped(copy, risky)
        <3> SUFFICES ASSUME NEW b \in fp!Blocks, copy.buf[b].uptodate, ~copy.buf[b].mapped,
                            ~copy.uptodate \/ copy.buf[b].delta # None \/ b \in risky
                     PROVE  Blank(copy, b)
            BY DEF Unmapped
        <3>1. Blank(pg, b) /\ ~Covers(b, from, to)
            BY <1>5, <1>6 DEF SoundBlock, Ready
        <3>2. QED BY <1>4, <1>5, <1>8, <2>1, <3>1 DEF Blank
    <2>3. Addressed(copy, found)
        BY <1>5, <1>6 DEF Addressed, SoundBlock
    <2>4. ASSUME NEW b \in fp!Blocks
          PROVE  /\ Valid(copy, b) \/ Covers(b, from, to) =>
                      \A u \in fp!Units : u \div 2 = b => copy.data[u] = written[u]
                 /\ Covers(b, from, to) => copy.buf[b].mapped
                 /\ ~Valid(copy, b) /\ ~Covers(b, from, to) => ~copy.buf[b].new
        <3>1. ASSUME Valid(copy, b) \/ Covers(b, from, to), NEW u \in fp!Units, u \div 2 = b
              PROVE  copy.data[u] = written[u]
            <4>1. CASE Covered(u, from, to)
                BY <1>4, <1>5, <2>1, <4>1 DEF end
            <4>2. CASE ~Covered(u, from, to)
                <5>1. copy.data[u] = pg.data[u] /\ written[u] = data[u]
                    BY <1>4, <1>5, <2>1, <4>2 DEF end
                <5>2. CASE Valid(pg, b)
                    BY <1>6, <2>4, <3>1, <5>1, <5>2 DEF SoundBlock
                <5>3. CASE ~Valid(pg, b)
                    <6>1. Covers(b, from, to) /\ ~pg.uptodate
                        BY <1>6, <2>4, <3>1, <5>3 DEF Valid
                    <6>2. pg.buf[b].new
                        BY <1>6, <2>4, <3>1, <4>2, <5>3, <6>1 DEF Ready
                    <6>3. data[u] = 0 /\ pg.data[u] = 0
                        BY <1>6, <2>4, <3>1, <4>2, <6>1, <6>2 DEF Ready
                    <6>4. QED BY <5>1, <6>3
                <5>4. QED BY <5>2, <5>3
            <4>3. QED BY <4>1, <4>2
        <3>2. QED BY <1>5, <1>6, <2>4, <3>1 DEF Ready
    <2>5. \A b \in fp!Blocks :
             LET inside == 2 * b + 2 > from /\ 2 * b < to
             IN  /\ Valid(copy, b) \/ inside =>
                      \A u \in fp!Units : u \div 2 = b => copy.data[u] = written[u]
                 /\ inside => copy.buf[b].mapped
                 /\ ~Valid(copy, b) /\ ~inside => ~copy.buf[b].new
        BY <1>8, <2>4
    <2> DEFINE new == fp!Commit(copy, from, to)
    <2>6. /\ Sound(new, written, risky, found) /\ Fresh(new)
          /\ Writable(new, fp!slot) /\ (copy.dirty => new.dirty)
          /\ \A b \in fp!Blocks :
               /\ Valid(copy, b) => Valid(new, b)
               /\ copy.buf[b].delta = fp!slot => new.buf[b].delta = fp!slot
               /\ 2 * b + 2 > from /\ 2 * b < to => new.buf[b].delta = fp!slot /\ new.dirty
        BY <1>5, <2>2, <2>3, <2>5, CommitSound
    <2>7. fp!Commit(zeroed, from, end) = new
        BY <2>1
    <2> HIDE DEF new
    <2>8. QED BY <1>5, <1>6, <1>8, <2>6, <2>7
<1>10. ASSUME copied = 0
       PROVE  /\ Sound(fp!Commit(zeroed, from, end), written, risky, found)
              /\ Fresh(fp!Commit(zeroed, from, end))
              /\ Writable(fp!Commit(zeroed, from, end), fp!slot)
              /\ pg.dirty => fp!Commit(zeroed, from, end).dirty
              /\ \A b \in fp!Blocks :
                   /\ Valid(pg, b) => Valid(fp!Commit(zeroed, from, end), b)
                   /\ pg.buf[b].delta = fp!slot =>
                         fp!Commit(zeroed, from, end).buf[b].delta = fp!slot
    <2> DEFINE one == fp!ZeroNew(copy, 0, from, to)
               two == fp!ZeroNew(one, 1, from, to)
    <2>1. end = from /\ zeroed = two
        BY <1>0, <1>10
    <2> HIDE DEF zeroed
    <2>2. \A u \in fp!Units : copy.data[u] = pg.data[u] /\ written[u] = data[u]
        BY <1>4, <1>5, <1>7, <1>0, <2>1 DEF Covered, end
    <2>3. /\ Beside(one, copy, 0) /\ (copy.dirty => one.dirty) /\ Writable(one, fp!slot)
          /\ copy.buf[0].new /\ Covers(0, from, to) =>
                    /\ one.buf[0].delta = fp!slot /\ one.buf[0].uptodate
                    /\ one.buf[0].mapped <=> copy.buf[0].mapped
                    /\ one.buf[0].new
                    /\ \A u \in fp!Units : u \div 2 = 0 =>
                         one.data[u] = IF ~copy.uptodate /\ Covered(u, from, to) THEN 0 ELSE copy.data[u]
          /\ ~(copy.buf[0].new /\ Covers(0, from, to)) => one = copy
        <3>1. Writable(one, fp!slot)
            BY <1>0, <1>5, ZeroNewOK
        <3>2. QED BY <1>0, <1>5, <3>1, ZeroNewEffect
    <2> HIDE DEF one
    <2>4. /\ Beside(two, one, 1) /\ (one.dirty => two.dirty) /\ Writable(two, fp!slot)
          /\ one.buf[1].new /\ Covers(1, from, to) =>
                    /\ two.buf[1].delta = fp!slot /\ two.buf[1].uptodate
                    /\ two.buf[1].mapped <=> one.buf[1].mapped
                    /\ two.buf[1].new
                    /\ \A u \in fp!Units : u \div 2 = 1 =>
                         two.data[u] = IF ~one.uptodate /\ Covered(u, from, to) THEN 0 ELSE one.data[u]
          /\ ~(one.buf[1].new /\ Covers(1, from, to)) => two = one
        <3>1. Writable(two, fp!slot)
            BY <1>0, <2>3, ZeroNewOK
        <3>2. QED BY <1>0, <2>3, <3>1, ZeroNewEffect
    <2> HIDE DEF two
    <2>5. (two.uptodate <=> pg.uptodate) /\ (pg.dirty => two.dirty) /\ two.buffers /\ pg.buffers
        BY <1>2, <1>5, <2>3, <2>4 DEF Beside, Writable
    <2>6. ASSUME NEW b \in fp!Blocks
          PROVE  /\ pg.buf[b].new /\ Covers(b, from, to) =>
                      /\ two.buf[b].delta = fp!slot /\ two.buf[b].uptodate
                      /\ two.buf[b].mapped <=> pg.buf[b].mapped
                      /\ \A u \in fp!Units : u \div 2 = b =>
                           two.data[u] = IF ~pg.uptodate /\ Covered(u, from, to) THEN 0
                                         ELSE pg.data[u]
                 /\ ~(pg.buf[b].new /\ Covers(b, from, to)) =>
                      /\ two.buf[b] = pg.buf[b]
                      /\ \A u \in fp!Units : u \div 2 = b => two.data[u] = pg.data[u]
        <3>1. CASE b = 0
            <4>1. /\ two.buf[0] = one.buf[0]
                  /\ \A u \in fp!Units : u \div 2 = 0 => two.data[u] = one.data[u]
                BY <1>0, <2>4 DEF Beside
            <4>2. QED BY <1>5, <2>2, <2>3, <3>1, <4>1
        <3>2. CASE b = 1
            <4>1. /\ one.buf[1] = copy.buf[1]
                  /\ \A u \in fp!Units : u \div 2 = 1 => one.data[u] = copy.data[u]
                BY <1>0, <2>3 DEF Beside
            <4>2. one.uptodate <=> pg.uptodate
                BY <1>5, <2>3 DEF Beside
            <4>3. QED BY <1>5, <2>2, <2>4, <3>2, <4>1, <4>2
        <3>3. QED BY <1>0, <3>1, <3>2
    <2>7. Unmapped(two, risky)
        <3> SUFFICES ASSUME NEW b \in fp!Blocks, two.buf[b].uptodate, ~two.buf[b].mapped,
                            ~two.uptodate \/ two.buf[b].delta # None \/ b \in risky
                     PROVE  Blank(two, b)
            BY DEF Unmapped
        <3>1. ~Covers(b, from, to)
            BY <1>6, <2>6 DEF Ready
        <3>2. Blank(pg, b)
            BY <1>6, <2>5, <2>6, <3>1 DEF SoundBlock
        <3>3. QED BY <2>6, <3>1, <3>2 DEF Blank
    <2>8. Addressed(two, found)
        <3> SUFFICES ASSUME NEW b \in fp!Blocks, two.buf[b].mapped, ~Valid(two, b), ~two.buf[b].new
                     PROVE  found[b] # fp!Hole /\ two.buffers
            BY DEF Addressed
        <3>1. ~(pg.buf[b].new /\ Covers(b, from, to))
            BY <2>6 DEF Valid
        <3>2. QED BY <1>6, <2>5, <2>6, <3>1 DEF SoundBlock, Valid
    <2>9. ASSUME NEW b \in fp!Blocks
          PROVE  LET inside == 2 * b + 2 > from /\ 2 * b < from
                 IN  /\ Valid(two, b) \/ inside =>
                          \A u \in fp!Units : u \div 2 = b => two.data[u] = written[u]
                     /\ inside => two.buf[b].mapped
                     /\ ~Valid(two, b) /\ ~inside => ~two.buf[b].new
        <3>1. ASSUME Valid(two, b), NEW u \in fp!Units, u \div 2 = b
              PROVE  two.data[u] = written[u]
            <4>1. CASE pg.buf[b].new /\ Covers(b, from, to) /\ ~pg.uptodate
                BY <1>6, <2>2, <2>6, <2>9, <3>1, <4>1 DEF Ready
            <4>2. CASE pg.buf[b].new /\ Covers(b, from, to) /\ pg.uptodate
                BY <1>6, <2>2, <2>6, <2>9, <3>1, <4>2 DEF SoundBlock, Valid
            <4>3. CASE ~(pg.buf[b].new /\ Covers(b, from, to))
                BY <1>6, <2>2, <2>5, <2>6, <2>9, <3>1, <4>3 DEF SoundBlock, Valid
            <4>4. QED BY <4>1, <4>2, <4>3
        <3>2. ASSUME 2 * b + 2 > from, 2 * b < from
              PROVE  Covers(b, from, to) /\ Valid(two, b)
            <4>1. Covers(b, from, to) /\ ~Covered(2 * b, from, to)
                BY <1>0, <1>8, <2>9, <3>2 DEF Covers, Covered
            <4>2. CASE pg.buf[b].new
                BY <2>6, <2>9, <4>1, <4>2 DEF Valid
            <4>3. CASE ~pg.buf[b].new
                <5>1. Valid(pg, b)
                    BY <1>6, <1>8, <2>9, <4>1, <4>3 DEF Ready
                <5>2. QED BY <2>5, <2>6, <2>9, <4>1, <4>3, <5>1 DEF Valid
            <4>4. QED BY <4>2, <4>3
        <3>3. 2 * b + 2 > from /\ 2 * b < from => two.buf[b].mapped
            BY <1>6, <2>6, <2>9, <3>2 DEF Ready
        <3>4. ~Valid(two, b) => ~two.buf[b].new
            <4> SUFFICES ASSUME ~Valid(two, b), two.buf[b].new PROVE FALSE
                OBVIOUS
            <4>1. ~(pg.buf[b].new /\ Covers(b, from, to))
                BY <2>6, <2>9 DEF Valid
            <4>2. pg.buf[b].new
                BY <2>6, <2>9, <4>1
            <4>3. QED BY <1>6, <2>9, <4>1, <4>2 DEF Ready
        <3>5. QED BY <3>1, <3>2, <3>3, <3>4
    <2> DEFINE new == fp!Commit(two, from, from)
    <2>10. /\ Sound(new, written, risky, found) /\ Fresh(new)
           /\ Writable(new, fp!slot) /\ (two.dirty => new.dirty)
           /\ \A b \in fp!Blocks :
                /\ Valid(two, b) => Valid(new, b)
                /\ two.buf[b].delta = fp!slot => new.buf[b].delta = fp!slot
        BY <2>4, <2>7, <2>8, <2>9, CommitSound
    <2>11. fp!Commit(zeroed, from, end) = new
        BY <2>1
    <2> HIDE DEF new
    <2>12. \A b \in fp!Blocks :
             /\ Valid(pg, b) => Valid(two, b)
             /\ pg.buf[b].delta = fp!slot => two.buf[b].delta = fp!slot
        BY <2>5, <2>6 DEF Valid
    <2>13. QED BY <2>5, <2>10, <2>11, <2>12
<1> HIDE DEF zeroed
<1>11. QED BY <1>1, <1>9, <1>10

(* tux3_write_failed() *)
LEMMA FailedSound ==
    ASSUME NEW pg, fp!slot \in fp!Slots, Writable(pg, fp!slot), psize \in 0 .. 4,
           NEW data, NEW risky, NEW found, Sound(pg, data, risky, found), Fresh(pg),
           \A u \in fp!Units : u >= psize => data[u] = 0
    PROVE  LET new == fp!Failed(pg)
           IN  /\ Sound(new, data, risky, found) /\ Fresh(new) /\ Writable(new, fp!slot)
               /\ \A b \in fp!Blocks :
                    /\ Valid(new, b) <=> Valid(pg, b)
                    /\ b < fp!BlocksIn(psize) => new.buf[b].delta = pg.buf[b].delta
<1> DEFINE zeroed == fp!ZeroFill(pg, psize, 4)
           new == fp!Invalidate(zeroed, psize)
<1>0. psize \in Int /\ PageOK(pg) /\ pg.buffers
    BY DEF Writable, Changeable
<1>1. Writable(zeroed, fp!slot) /\ Writable(new, fp!slot) /\ fp!Failed(pg) = new
    BY ZeroFillWritable, FailedOK DEF fp!Failed
<1>2. /\ (zeroed.uptodate <=> pg.uptodate) /\ (zeroed.buffers <=> pg.buffers)
      /\ zeroed.buf = pg.buf
      /\ \A u \in fp!Units : zeroed.data[u] = IF u \in psize .. 4 - 1 THEN 0 ELSE pg.data[u]
    BY <1>0, ZeroFillEffect
<1> HIDE DEF zeroed
<1>3. /\ new.data = zeroed.data /\ (new.uptodate <=> zeroed.uptodate)
      /\ (new.buffers <=> zeroed.buffers)
      /\ \A b \in fp!Blocks : ~(2 * b >= psize) => new.buf[b] = zeroed.buf[b]
      /\ \A b \in fp!Blocks : 2 * b >= psize =>
           /\ new.buf[b].delta = None /\ ~new.buf[b].mapped /\ ~new.buf[b].new
           /\ new.buf[b].uptodate <=> zeroed.buf[b].uptodate
    BY <1>1, InvalidateEffect DEF Writable, Changeable
<1> HIDE DEF new
<1>4. \A u \in fp!Units : u \div 2 \in fp!Blocks /\ u \in Int /\ 2 * (u \div 2) <= u /\ u <= 3
    BY BlocksAndUnits
<1>5. \A u \in fp!Units : new.data[u] = IF u >= psize THEN 0 ELSE pg.data[u]
    BY <1>0, <1>2, <1>3, <1>4
<1>6. \A b \in fp!Blocks : b \in Int /\ (2 * b >= psize <=> ~(b < fp!BlocksIn(psize)))
    BY <1>0, BlocksAndUnits DEF fp!BlocksIn
<1>7. \A b \in fp!Blocks : Valid(new, b) <=> Valid(pg, b)
    BY <1>2, <1>3 DEF Valid
<1>8. Holds(new, data)
    BY <1>4, <1>5, <1>7 DEF Holds, Sound
<1>9. Unmapped(new, risky)
    <2> SUFFICES ASSUME NEW b \in fp!Blocks, new.buf[b].uptodate, ~new.buf[b].mapped,
                        ~new.uptodate \/ new.buf[b].delta # None \/ b \in risky,
                        NEW u \in fp!Units, u \div 2 = b
                 PROVE  new.data[u] = 0
        BY DEF Unmapped, Blank
    <2>1. CASE 2 * b >= psize
        BY <1>0, <1>4, <1>5, <1>6, <2>1
    <2>2. CASE ~(2 * b >= psize)
        BY <1>2, <1>3, <1>5, <2>2 DEF Sound, Unmapped, Blank
    <2>3. QED BY <2>1, <2>2
<1>10. Addressed(new, found)
    BY <1>2, <1>3, <1>7 DEF Sound, Addressed
<1>11. Fresh(new)
    BY <1>2, <1>3 DEF Fresh
<1>12. \A b \in fp!Blocks : b < fp!BlocksIn(psize) => new.buf[b].delta = pg.buf[b].delta
    BY <1>2, <1>3, <1>6
<1>13. QED BY <1>1, <1>7, <1>8, <1>9, <1>10, <1>11, <1>12 DEF Sound, new, zeroed

(* tux3_write_end() keeps the data invariant, for a full and for a short    *)
(* copy (kernel/filemap_blocklib.c:305).                                    *)
LEMMA DataWriteEnd ==
    ASSUME PagesInv, PagesInv', DataInv, NEW all \in BOOLEAN, fp!WriteEnd(all)
    PROVE  DataInv'
<1> DEFINE copied == IF all THEN op.to - op.from ELSE 0
           was == pages[live]
           pg == fp!Written(was, op.from, op.to, copied)
           failed == ~all /\ op.to > psize
           written == IF all THEN fp!Overwritten(op.from, op.to) ELSE file
           new == IF failed THEN fp!Failed(pg) ELSE pg
<1>0. /\ fp!slot \in fp!Slots /\ fp!slot' = fp!slot /\ pdelta \in Unit
      /\ PTyped /\ Cache /\ Calls /\ Flushed /\ Below /\ LivePage /\ NoStale /\ Writing
      /\ psize \in 0 .. 4 /\ op.from \in 0 .. 4 /\ op.to \in 0 .. 4
      /\ psize \in Int /\ op.from \in Int /\ op.to \in Int
    BY SlotsTyped, Types, SlotKept DEF PagesInv, DataInv, fp!WriteEnd
<1>1. /\ op.pc = "write" /\ op' = fp!Idle
      /\ IF failed /\ psize = 0
         THEN pages' = [p \in forked |-> pages[p]] /\ live' = NoPage
         ELSE /\ pages' = [pages EXCEPT ![live] = new] /\ live' = live
              /\ unpinned' = ((unpinned \/ failed) /\ ~pages'[live].dirty)
      /\ psize' = IF all THEN fp!Max({psize, op.to}) ELSE psize
      /\ file' = [written EXCEPT !.ops = @ + 1]
      /\ UNCHANGED <<kind, forked, holes, pdtree, fill, pflush, pdelta, idata, snap>>
    BY DEF fp!WriteEnd
<1>2. /\ live # NoPage /\ live \in DOMAIN pages /\ Writable(was, fp!slot) /\ ~fill.on
      /\ kind = "file" /\ op.from < op.to
      /\ \A b \in fp!Blocks : Ready(was, b, op.from, op.to, file.data)
    BY <1>0, <1>1 DEF Calls, Cache, Writing, PTyped, FillType
<1>3. /\ Lim = 4 /\ Lim' = 4 /\ Sz = psize /\ Sz' = psize' /\ op'.pc = "idle"
      /\ ~Cutting /\ ~Cutting'
    BY <1>1 DEF Lim, Sz, Cutting, fp!Idle
<1>4. file' \in [data : [fp!Units -> Unit], ops : Nat]
      /\ file'.data = written.data
      /\ \A u \in fp!Units :
            file'.data[u] = IF Covered(u, op.from, op.from + copied) THEN pdelta ELSE file.data[u]
    <2>1. file \in [data : [fp!Units -> Unit], ops : Nat]
        BY <1>0 DEF Flushed
    <2> DEFINE over == [u \in fp!Units |-> IF u \in op.from .. op.to - 1 THEN pdelta ELSE file.data[u]]
    <2>2. fp!Overwritten(op.from, op.to) = [file EXCEPT !.data = over]
        BY <2>1 DEF fp!Overwritten
    <2>3. over \in [fp!Units -> Unit]
        BY <1>0, <2>1
    <2>4. \A u \in fp!Units : over[u] = IF Covered(u, op.from, op.to) THEN pdelta ELSE file.data[u]
        BY <1>0, BlocksAndUnits DEF Covered
    <2> HIDE DEF over
    <2>5. CASE all
        <3>1. op.from + copied = op.to /\ written = [file EXCEPT !.data = over]
            BY <1>0, <2>2, <2>5
        <3> HIDE DEF written, copied
        <3>2. written \in [data : [fp!Units -> Unit], ops : Nat] /\ written.data = over
            BY <2>1, <2>3, <3>1
        <3>3. file' \in [data : [fp!Units -> Unit], ops : Nat] /\ file'.data = written.data
            BY <1>1, <3>2
        <3>4. QED BY <2>4, <3>1, <3>2, <3>3
    <2>6. CASE ~all
        <3>1. op.from + copied = op.from /\ written = file
            BY <1>0, <2>6
        <3> HIDE DEF written, copied
        <3>3. file' \in [data : [fp!Units -> Unit], ops : Nat] /\ file'.data = written.data
            BY <1>1, <2>1, <3>1
        <3>4. \A u \in fp!Units : ~Covered(u, op.from, op.from)
            BY <1>0, BlocksAndUnits DEF Covered
        <3>5. QED BY <3>1, <3>3, <3>4
    <2>7. QED BY <2>5, <2>6
<1> HIDE DEF written
<1>5. /\ \A u \in fp!Units : Target[u] = file.data[u] /\ Target'[u] = file'.data[u]
      /\ Target' \in [fp!Units -> Unit]
    BY <1>3, <1>4, BlocksAndUnits DEF Target
<1>6. Sound(was, Target, Risky, Found)
    BY <1>0, <1>1, <1>2, <1>3 DEF LivePage, Sound
<1>7. /\ Base' = Base /\ Found' = Found /\ Shown' = Shown
    BY <1>1, <1>3, SameBelow
<1>8. /\ Sound(pg, Target', Risky, Found) /\ Fresh(pg) /\ Writable(pg, fp!slot)
      /\ was.dirty => pg.dirty
      /\ \A b \in fp!Blocks :
           /\ Valid(was, b) => Valid(pg, b)
           /\ was.buf[b].delta = fp!slot => pg.buf[b].delta = fp!slot
           /\ all /\ Covers(b, op.from, op.to) => pg.buf[b].delta = fp!slot
    <2>1. copied \in {0, op.to - op.from} /\ (all => copied # 0)
        BY <1>0, <1>2
    <2>2. \A u \in fp!Units : Target'[u] = IF Covered(u, op.from, op.from + copied) THEN pdelta
                                           ELSE Target[u]
        BY <1>4, <1>5
    <2>3. \A b \in fp!Blocks : Ready(was, b, op.from, op.to, Target)
        BY <1>2, <1>5 DEF Ready
    <2> HIDE DEF copied, was
    <2>4. /\ Sound(pg, Target', Risky, Found) /\ Fresh(pg) /\ Writable(pg, fp!slot)
          /\ was.dirty => pg.dirty
          /\ \A b \in fp!Blocks :
               /\ Valid(was, b) => Valid(pg, b)
               /\ was.buf[b].delta = fp!slot => pg.buf[b].delta = fp!slot
               /\ copied # 0 /\ Covers(b, op.from, op.to) => pg.buf[b].delta = fp!slot
        <3>1. op.from < op.to /\ Writable(was, fp!slot)
            BY <1>2
        <3>2. op.from \in 0 .. 4 /\ op.to \in 0 .. 4 /\ fp!slot \in fp!Slots /\ pdelta \in Unit
            BY <1>0
        <3>3. copied \in {0, op.to - op.from}
            BY <2>1
        <3>4. QED BY ONLY <1>6, <2>2, <2>3, <3>1, <3>2, <3>3, WrittenSound
    <2>5. QED BY <2>1, <2>4
<1>9. \A u \in fp!Units : u >= psize => file.data[u] = 0
    BY <1>0, <1>3 DEF Below
<1>10. ~all => /\ \A u \in fp!Units : Target'[u] = file.data[u]
               /\ \A u \in fp!Units : file'.data[u] = file.data[u]
    <2>1. ~all => copied = 0
        OBVIOUS
    <2>2. \A u \in fp!Units : ~Covered(u, op.from, op.from + 0)
        BY <1>0, BlocksAndUnits DEF Covered
    <2>3. QED BY <1>4, <1>5, <2>1, <2>2
<1>11. /\ psize' \in 0 .. 4 /\ psize' >= psize /\ (all => psize' >= op.to)
       /\ ~all => psize' = psize
       /\ fp!BlocksIn(psize') >= fp!BlocksIn(psize)
       /\ fp!BlocksIn(psize) \in Int /\ fp!BlocksIn(psize') \in Int /\ fp!BlocksIn(idata) \in Int
       /\ fp!BlocksIn(psize) = 0 <=> psize = 0
    <2>1. psize' \in {psize, op.to} /\ psize' >= psize /\ (all => psize' >= op.to)
          /\ (~all => psize' = psize) /\ idata \in 0 .. 4
        BY <1>0, <1>1, MinOfTwo, Types
    <2>2. QED BY <1>0, <2>1 DEF fp!BlocksIn
<1>12. Filling' /\ Writing'
    BY <1>1, <1>2, <1>3 DEF Filling, Writing
<1>13. Truncating'
    BY <1>1, <1>2, <1>3 DEF Truncating
<1>14. \A u \in fp!Units : u \div 2 \in fp!Blocks /\ u \in Int /\ u \div 2 \in Int
         /\ (u \div 2 >= fp!BlocksIn(psize) => u >= psize)
    BY <1>0, BlocksAndUnits DEF fp!BlocksIn
<1>15. \A u \in fp!Units : u \div 2 >= fp!BlocksIn(psize') => Base'[u] = 0
    BY <1>0, <1>3, <1>7, <1>11, <1>14 DEF Below
<1>16. \A u \in fp!Units : u >= psize' => file'.data[u] = 0
    <2> SUFFICES ASSUME NEW u \in fp!Units, u >= psize' PROVE file'.data[u] = 0
        OBVIOUS
    <2>1. u >= psize /\ file.data[u] = 0
        BY <1>0, <1>9, <1>11, <1>14
    <2>2. CASE all
        <3>1. ~Covered(u, op.from, op.from + copied)
            BY <1>0, <1>11, <1>14, <2>2 DEF Covered
        <3>2. QED BY <1>4, <2>1, <3>1
    <2>3. CASE ~all
        BY <1>10, <2>1, <2>3
    <2>4. QED BY <2>2, <2>3
<1>17. pflush' # "idle" => \/ fp!BlocksIn(idata') <= fp!BlocksIn(psize')
                           \/ holes'[fp!slot'] <= fp!BlocksIn(psize')
    <2>1. holes[fp!slot] \in Int
        BY <1>0, Types
    <2>2. QED BY <1>0, <1>1, <1>3, <1>11, <2>1 DEF Below
<1> HIDE DEF copied, was
<1>18. CASE failed /\ psize = 0
    <2>1. pages' = [p \in forked |-> pages[p]] /\ live' = NoPage /\ ~all
        BY <1>1, <1>18
    <2>2. Flushed' /\ SentBlocks' = SentBlocks /\ DirtyNow' = {}
        BY <1>1, <1>2, <1>4, <2>1, DropSends DEF Writable, was
    <2>3. Risky' = {}
        <3>1. Risky' = Risky
            BY <1>7, <2>2 DEF Risky
        <3>2. \A b \in Risky : b \in fp!Blocks /\ b < fp!BlocksIn(psize)
            BY <1>3, RiskyBelow
        <3>3. fp!BlocksIn(psize) = 0 /\ \A b \in fp!Blocks : ~(b < 0)
            BY <1>11, <1>18, BlocksAndUnits
        <3>4. QED BY <3>1, <3>2, <3>3
    <2>4. \A u \in fp!Units : Base'[u] = Target'[u]
        <3>1. \A u \in fp!Units : u >= psize /\ u \div 2 >= fp!BlocksIn(psize)
            <4>1. fp!BlocksIn(psize) = 0
                BY <1>11, <1>18
            <4>2. QED BY <1>18, <4>1, BlocksAndUnits
        <3>2. \A u \in fp!Units : Base[u] = 0
            BY <1>0, <1>3, <3>1 DEF Below
        <3>3. \A u \in fp!Units : Target'[u] = 0
            BY <1>9, <1>10, <2>1, <3>1
        <3>4. QED BY <1>7, <3>2, <3>3
    <2>5. Below'
        BY <1>3, <1>15, <1>16, <1>17, <2>4 DEF Below, fp!Units
    <2>6. LivePage' /\ NoStale'
        BY <2>1, <2>3 DEF LivePage, NoStale
    <2>7. QED BY <1>12, <1>13, <2>2, <2>5, <2>6 DEF DataInv
<1>19. CASE ~(failed /\ psize = 0)
    <2>1. /\ pages' = [pages EXCEPT ![live] = new] /\ live' = live
          /\ unpinned' = ((unpinned \/ failed) /\ ~pages'[live].dirty)
        BY <1>1, <1>19
    <2>2. /\ Sound(new, Target', Risky, Found) /\ Fresh(new) /\ Writable(new, fp!slot)
          /\ \A b \in fp!Blocks : Valid(was, b) => Valid(new, b)
          /\ ~failed => new = pg
          /\ \A b \in fp!Blocks : b < fp!BlocksIn(psize) /\ pg.buf[b].delta = fp!slot
                => new.buf[b].delta = fp!slot
        <3> HIDE DEF pg
        <3>1. CASE failed
            <4>1. \A u \in fp!Units : u >= psize => Target'[u] = 0
                BY <1>9, <1>10, <3>1
            <4> DEFINE it == fp!Failed(pg)
            <4>2. /\ Sound(it, Target', Risky, Found) /\ Fresh(it) /\ Writable(it, fp!slot)
                  /\ \A b \in fp!Blocks :
                       /\ Valid(it, b) <=> Valid(pg, b)
                       /\ b < fp!BlocksIn(psize) => it.buf[b].delta = pg.buf[b].delta
                BY <1>0, <1>8, <4>1, FailedSound
            <4>3. new = it
                BY <3>1
            <4> HIDE DEF it, new
            <4>4. QED BY <1>8, <3>1, <4>2, <4>3
        <3>2. CASE ~failed
            <4>1. new = pg
                BY <3>2
            <4> HIDE DEF new
            <4>2. QED BY <1>8, <4>1
        <3>3. QED BY <3>1, <3>2
    <2> HIDE DEF new, pg
    <2>3. /\ DOMAIN pages' = DOMAIN pages /\ pages'[live] = new
          /\ \A q \in DOMAIN pages \ {live} : pages'[q] = pages[q]
        BY <1>2, <2>1
    <2>4. /\ Flushed' /\ SentBlocks' = SentBlocks /\ OthersSend' = OthersSend
          /\ DirtyNow' = {b \in fp!Blocks : new.buf[b].delta = fp!slot}
        BY <1>1, <1>2, <1>4, <2>1, <2>2, <2>3, InPlaceSends DEF Writable, was
    <2>5. Risky' = Risky
        BY <1>7, <2>4 DEF Risky
    <2>6. \A u \in fp!Units : u \div 2 \notin DirtyNow' => Base'[u] = Target'[u]
        <3> SUFFICES ASSUME NEW u \in fp!Units, u \div 2 \notin DirtyNow'
                     PROVE  Base'[u] = Target'[u]
            OBVIOUS
        <3>1. u \div 2 \in fp!Blocks /\ new.buf[u \div 2].delta # fp!slot
            BY <1>14, <2>4
        <3>2. CASE u \div 2 >= fp!BlocksIn(psize) /\ ~all
            <4>1. Base[u] = 0
                BY <1>0, <1>3, <3>2 DEF Below
            <4>2. Target'[u] = 0
                BY <1>9, <1>10, <1>14, <3>2
            <4>3. QED BY <1>7, <4>1, <4>2
        <3>3. CASE u \div 2 < fp!BlocksIn(psize) \/ all
            <4>1. pg.buf[u \div 2].delta # fp!slot
                BY <2>2, <3>1, <3>3
            <4>2. u \div 2 \notin DirtyNow
                BY <1>8, <3>1, <4>1 DEF DirtyNow, was
            <4>3. u \div 2 < fp!BlocksIn(Lim)
                BY <1>3, BlocksAndUnits
            <4>4. Base[u] = file.data[u]
                BY <1>0, <1>5, <4>2, <4>3 DEF Below
            <4>5. file'.data[u] = file.data[u]
                <5>1. CASE all
                    <6>1. ~Covers(u \div 2, op.from, op.to)
                        BY <1>8, <3>1, <4>1, <5>1
                    <6>2. ~Covered(u, op.from, op.to)
                        BY <1>0, <6>1, BlocksAndUnits DEF Covers, Covered
                    <6>3. op.from + copied = op.to
                        BY <1>0, <5>1 DEF copied
                    <6>4. QED BY <1>4, <6>2, <6>3
                <5>2. CASE ~all
                    BY <1>10, <5>2
                <5>3. QED BY <5>1, <5>2
            <4>6. QED BY <1>5, <1>7, <4>4, <4>5
        <3>4. QED BY <1>11, <1>14, <3>2, <3>3
    <2>7. Below'
        BY <1>3, <1>15, <1>16, <1>17, <2>6 DEF Below, fp!Units
    <2>8. ~AnyDelta(new, fp!old)
        BY <1>0, <2>2, OldSlot DEF Writable, Changeable
    <2>9. LivePage'
        <3>1. fp!old' = fp!old
            BY <1>1, OldSlot
        <3>2. ~AnyDelta(pages'[live'], fp!old')
            BY <2>1, <2>3, <2>8, <3>1
        <3>3. /\ Holds(pages'[live'], Target') /\ Unmapped(pages'[live'], Risky')
              /\ Addressed(pages'[live'], Found') /\ Fresh(pages'[live'])
            BY <1>7, <2>1, <2>2, <2>3, <2>5 DEF Sound
        <3>4. QED BY <3>2, <3>3 DEF LivePage
    <2>10. NoStale'
        <3> SUFFICES ASSUME NEW b \in Risky
                     PROVE  /\ Valid(new, b) /\ new.buffers
                            /\ b \in OthersSend => new.dirty \/ unpinned'
            BY <1>2, <2>1, <2>3, <2>4, <2>5 DEF NoStale
        <3>1. /\ Valid(was, b) /\ b \in fp!Blocks
              /\ b \in OthersSend => was.dirty \/ unpinned
            BY <1>0 DEF NoStale, was, Risky, Shown
        <3>2. Valid(new, b) /\ new.buffers
            BY <2>2, <3>1 DEF Writable
        <3>3. ASSUME b \in OthersSend PROVE new.dirty \/ unpinned'
            <4>1. CASE failed
                BY <2>1, <2>3, <4>1
            <4>2. CASE ~failed
                BY <1>8, <2>1, <2>2, <2>3, <3>1, <3>3, <4>2
            <4>3. QED BY <4>1, <4>2
        <3>4. QED BY <3>2, <3>3
    <2>11. QED BY <1>12, <1>13, <2>4, <2>7, <2>9, <2>10 DEF DataInv
<1>20. QED BY <1>18, <1>19

(* blockread() or blockget() *)
LEMMA BlockFound ==
    ASSUME NEW pg, PageOK(pg), NEW b \in fp!Blocks, NEW grow \in BOOLEAN
    PROVE  LET found == IF grow THEN fp!blockget(pg, b) ELSE fp!WithBuffers(pg)
           IN  /\ PageOK(found) /\ found.buffers /\ found.data = pg.data
               /\ Fresh(pg) => Fresh(found)
               /\ \A k \in fp!Blocks :
                    /\ found.buf[k].delta = pg.buf[k].delta
                    /\ Valid(found, k) => Valid(pg, k) \/ (grow /\ k = b)
                    /\ pg.buffers /\ Valid(pg, k) => Valid(found, k)
<1> DEFINE with == fp!WithBuffers(pg)
           buffer == [with.buf[b] EXCEPT !.mapped = TRUE, !.uptodate = TRUE]
           got == [with EXCEPT !.buf[b] = buffer]
           found == IF grow THEN fp!blockget(pg, b) ELSE with
<1>1. /\ PageOK(with) /\ with.buffers
      /\ with.data = pg.data /\ (with.uptodate <=> pg.uptodate)
      /\ pg.buffers => with = pg
      /\ ~pg.buffers => \A k \in fp!Blocks : with.buf[k] = fp!EmptyBuffer(pg.uptodate)
    BY WithBuffersOK, WithBuffersEffect
<1>2. fp!blockget(pg, b) = got
    BY DEF fp!blockget
<1>3. PageOK(fp!blockget(pg, b)) /\ fp!blockget(pg, b).buffers
    BY blockgetOK
<1> HIDE DEF with
<1>4. /\ Fresh(pg) => Fresh(with)
      /\ \A k \in fp!Blocks :
           /\ with.buf[k].delta = pg.buf[k].delta
           /\ Valid(with, k) => Valid(pg, k)
           /\ pg.buffers /\ Valid(pg, k) => Valid(with, k)
    <2>1. CASE pg.buffers
        BY <1>1, <2>1
    <2>2. CASE ~pg.buffers
        BY <1>1, <2>2 DEF fp!EmptyBuffer, Fresh, Valid, PageOK, None, fp!None
    <2>3. QED BY <2>1, <2>2
<1>5. CASE grow
    <2>1. /\ buffer.delta = with.buf[b].delta /\ buffer.uptodate
          /\ buffer.new <=> with.buf[b].new
        BY <1>1, PageFields DEF PageOK, fp!Buffer
    <2> HIDE DEF buffer
    <2>2. /\ got.data = with.data /\ (got.uptodate <=> with.uptodate) /\ got.buf[b] = buffer
          /\ \A k \in fp!Blocks \ {b} : got.buf[k] = with.buf[k]
        BY <1>1, SetBufferEffect
    <2> HIDE DEF got
    <2>3. /\ Fresh(with) => Fresh(got)
          /\ \A k \in fp!Blocks :
               /\ got.buf[k].delta = with.buf[k].delta
               /\ Valid(got, k) => Valid(with, k) \/ k = b
               /\ Valid(with, k) => Valid(got, k)
        BY <2>1, <2>2 DEF Fresh, Valid
    <2>4. found = got
        BY <1>2, <1>5
    <2> HIDE DEF found
    <2>5. /\ PageOK(found) /\ found.buffers /\ found.data = pg.data
        BY <1>1, <1>2, <1>3, <2>2, <2>4
    <2>6. QED BY <1>4, <1>5, <2>3, <2>4, <2>5 DEF found, with
<1>6. CASE ~grow
    <2>1. found = with
        BY <1>6
    <2> HIDE DEF found
    <2>2. QED BY <1>1, <1>4, <1>6, <2>1 DEF found, with
<1>7. QED BY <1>5, <1>6

(* blockdirty() of a block of a page and the write to it keep the data      *)
(* invariant (kernel/buffer_fork.c:480).                                    *)
LEMMA DataBlockWrite ==
    ASSUME PagesInv, PagesInv', DataInv, NEW b \in fp!Blocks, fp!BlockWrite(b)
    PROVE  DataInv'
<1> DEFINE grow == 2 * b = psize
           found == IF grow THEN fp!blockget(fp!Grabbed, b) ELSE fp!WithBuffers(fp!Grabbed)
           fork == fp!need_fork(found, b, fp!slot) /\ found.buf[b].delta # fp!slot
           base == IF fork THEN fp!clone_page(found) ELSE found
           pg == fp!MarkDirty(base, b, fp!slot)
           changed == IF grow THEN 2 * b .. 2 * b + 1 ELSE {2 * b}
           data == [u \in fp!Units |-> IF u \in changed THEN pdelta ELSE pg.data[u]]
           new == [pg EXCEPT !.data = data]
           wdata == [u \in fp!Units |-> IF u \in changed THEN pdelta ELSE file.data[u]]
<1>0. /\ fp!slot \in fp!Slots /\ fp!slot' = fp!slot /\ fp!old' = fp!old /\ fp!old = 1 - fp!slot
      /\ pdelta \in Unit /\ psize \in 0 .. 4 /\ psize \in Int /\ b \in Int /\ b \in {0, 1}
      /\ PTyped /\ Cache /\ Flushed /\ Below /\ LivePage /\ NoStale /\ Truncating
    <2>1. pdelta' = pdelta
        BY DEF fp!BlockWrite
    <2>2. /\ PTyped /\ Cache /\ Flushed /\ Below /\ LivePage /\ NoStale /\ Truncating
        BY DEF PagesInv, DataInv
    <2>3. b \in {0, 1} /\ psize \in 0 .. 4
        BY <2>2, BlocksAndUnits, Types
    <2> HIDE DEF grow, found, fork, base, pg, changed, data, new, wdata
    <2>4. /\ fp!slot \in fp!Slots /\ fp!slot' = fp!slot /\ fp!old' = fp!old /\ fp!old = 1 - fp!slot
          /\ pdelta \in Unit
        BY <2>1, <2>2, SlotsTyped, OldSlot
    <2>5. QED BY <2>2, <2>3, <2>4
<1>1. /\ op = fp!Idle /\ ~fp!PageLocked /\ kind = "dir"
      /\ grow \/ (2 * b < psize /\ fp!blockread)
      /\ IF live # NoPage /\ ~fork
         THEN pages' = fp!Put(live, new) /\ UNCHANGED <<live, forked>>
         ELSE \E p \in Pages \ DOMAIN pages :
                 /\ live' = p /\ pages' = fp!Put(p, new)
                 /\ forked' = forked \union ({live} \ {NoPage})
      /\ psize' = IF grow THEN psize + 2 ELSE psize
      /\ file' = [file EXCEPT !.data = wdata, !.ops = @ + 1]
      /\ UNCHANGED <<kind, holes, pdtree, op, fill, pflush, pdelta, idata, snap, unpinned>>
    BY DEF fp!BlockWrite, fp!CanCall
<1>2. /\ Lim = 4 /\ Lim' = 4 /\ Sz = psize /\ Sz' = psize' /\ op.pc = "idle" /\ op'.pc = "idle"
      /\ ~fill.on
    BY <1>1 DEF Lim, Sz, Cutting, fp!Idle, fp!PageLocked
<1>3. /\ file' \in [data : [fp!Units -> Unit], ops : Nat] /\ file'.data = wdata
    <2>1. file \in [data : [fp!Units -> Unit], ops : Nat]
        BY <1>0 DEF Flushed
    <2>2. wdata \in [fp!Units -> Unit]
        BY <1>0, <2>1
    <2>3. file' = [file EXCEPT !.data = wdata, !.ops = @ + 1]
        BY <1>1
    <2> HIDE DEF wdata
    <2>4. file.ops + 1 \in Nat
        BY <2>1
    <2>5. QED BY ONLY <2>1, <2>2, <2>3, <2>4
<1>4. /\ \A u \in fp!Units : Target[u] = file.data[u] /\ Target'[u] = wdata[u]
      /\ \A u \in fp!Units : wdata[u] = IF u \in changed THEN pdelta ELSE file.data[u]
    BY <1>2, <1>3, BlocksAndUnits DEF Target
<1> HIDE DEF wdata
<1>5. /\ PageOK(fp!Grabbed)
      /\ live # NoPage => live \in DOMAIN pages /\ fp!Grabbed = pages[live]
      /\ live = NoPage => fp!Grabbed = fp!NewPage
    BY <1>0, GrabbedOK
<1>6. /\ Holds(fp!Grabbed, Target) /\ Fresh(fp!Grabbed)
    <2>1. CASE live # NoPage
        BY <1>0, <1>2, <1>5, <2>1 DEF LivePage
    <2>2. CASE live = NoPage
        <3>1. ~fp!NewPage.uptodate /\ \A k \in fp!Blocks : fp!NewPage.buf[k] = fp!EmptyBuffer(FALSE)
            BY DEF fp!NewPage
        <3>2. QED BY <1>5, <2>2, <3>1, BlocksAndUnits DEF Holds, Fresh, Valid, fp!EmptyBuffer
    <2>3. QED BY <2>1, <2>2
<1>7. /\ PageOK(found) /\ found.buffers /\ found.data = fp!Grabbed.data /\ Fresh(found)
      /\ \A k \in fp!Blocks :
           /\ found.buf[k].delta = fp!Grabbed.buf[k].delta
           /\ Valid(found, k) => Valid(fp!Grabbed, k) \/ (grow /\ k = b)
           /\ fp!Grabbed.buffers /\ Valid(fp!Grabbed, k) => Valid(found, k)
    <2>1. grow \in BOOLEAN
        OBVIOUS
    <2> HIDE DEF grow
    <2>2. QED BY <1>5, <1>6, <2>1, BlockFound
<1>8. /\ ~fork => Writable(found, fp!slot)
      /\ fork => ~AnyDelta(found, fp!slot)
    <2> HIDE DEF found
    <2>1. found.buf[b].delta = fp!slot => Changeable(found, fp!slot)
        <3>1. found.buf[b].delta = fp!slot => AnyDelta(found, fp!slot) /\ ~found.writeback
            BY <1>0, <1>7 DEF PageOK, AnyDelta, fp!Slots, None
        <3>2. AnyDelta(found, fp!slot) => ~AnyDelta(found, 1 - fp!slot)
            BY <1>0, <1>7 DEF PageOK, fp!Slots
        <3>3. QED BY <1>7, <3>1, <3>2 DEF Changeable
    <2>2. ~fp!need_fork(found, b, fp!slot) => Changeable(found, fp!slot)
        BY <1>0, <1>7, NeedFork
    <2>3. fp!need_fork(found, b, fp!slot) => ~AnyDelta(found, fp!slot)
        BY <1>0, <1>7, NeedFork
    <2>4. QED BY <1>7, <2>1, <2>2, <2>3 DEF Writable
<1> HIDE DEF found
<1>9. /\ Writable(base, fp!slot) /\ base.data = found.data /\ Fresh(base)
      /\ \A k \in fp!Blocks : Valid(base, k) <=> Valid(found, k)
      /\ ~fork => base = found
    <2>1. CASE fork
        <3> DEFINE clone == fp!clone_page(found)
        <3>1. Changeable(clone, fp!slot)
            BY <1>0, <1>7, CloneOK
        <3>2. clone.data = found.data /\ clone.buffers
            BY <1>7, CloneEffect
        <3>3. Fresh(clone) /\ \A k \in fp!Blocks : Valid(clone, k) <=> Valid(found, k)
            BY <1>7, CloneSound
        <3>4. base = clone
            BY <2>1
        <3> HIDE DEF clone, base
        <3>5. QED BY <2>1, <3>1, <3>2, <3>3, <3>4 DEF Writable
    <2>2. CASE ~fork
        <3>1. base = found
            BY <2>2
        <3> HIDE DEF base
        <3>2. QED BY <1>7, <1>8, <2>2, <3>1
    <2>3. QED BY <2>1, <2>2
<1> HIDE DEF base
<1>10. /\ Writable(pg, fp!slot)
       /\ pg.data = base.data /\ pg.dirty /\ pg.buf[b].delta = fp!slot /\ Fresh(pg)
       /\ \A k \in fp!Blocks :
            /\ Valid(pg, k) => Valid(base, k) \/ k = b
            /\ Valid(base, k) => Valid(pg, k)
            /\ base.buf[k].delta = fp!slot => pg.buf[k].delta = fp!slot
    <2>1. Writable(pg, fp!slot)
        BY <1>0, <1>9, MarkDirtyOK
    <2>2. /\ pg.data = base.data /\ (pg.uptodate <=> base.uptodate) /\ pg.dirty
          /\ pg.buf[b].delta = fp!slot /\ pg.buf[b].uptodate
          /\ pg.buf[b].new <=> base.buf[b].new
          /\ \A k \in fp!Blocks \ {b} : pg.buf[k] = base.buf[k]
        BY <1>0, <1>9, MarkDirtyEffect
    <2> HIDE DEF pg
    <2>3. QED BY <1>9, <2>1, <2>2 DEF Fresh, Valid
<1> HIDE DEF pg, fork
<1>11. data \in [fp!Units -> Unit]
    BY <1>0, <1>10, PageFields DEF Writable, Changeable, PageOK
<1>12. \A u \in fp!Units : data[u] = IF u \in changed THEN pdelta ELSE pg.data[u]
    OBVIOUS
<1> HIDE DEF data
<1>13. /\ Writable(new, fp!slot) /\ new.data = data /\ new.dirty /\ new.buf = pg.buf
       /\ (new.uptodate <=> pg.uptodate)
    BY <1>0, <1>10, <1>11, DataOK DEF fp!PageType, Writable, Changeable, PageOK
<1> HIDE DEF new
<1>14. \A u \in fp!Units :
         /\ u \div 2 \in fp!Blocks /\ u \in Int
         /\ u \in changed => u \div 2 = b /\ u < psize'
         /\ grow /\ u \div 2 = b => u \in changed
    <2>1. grow => psize' = 2 * b + 2
        BY <1>0, <1>1
    <2>2. ~grow => psize' = psize /\ 2 * b < psize
        BY <1>1
    <2>3. \A u : u \in changed => u \in {2 * b, 2 * b + 1} /\ (~grow => u = 2 * b)
        BY <1>0
    <2>4. grow => changed = {2 * b, 2 * b + 1}
        BY <1>0
    <2> HIDE DEF grow, changed
    <2>5. CASE b = 0
        BY <1>0, <2>1, <2>2, <2>3, <2>4, <2>5, BlocksAndUnits
    <2>6. CASE b = 1
        BY <1>0, <2>1, <2>2, <2>3, <2>4, <2>6, BlocksAndUnits
    <2>7. QED BY <1>0, <2>5, <2>6
<1>15. Holds(new, Target')
    <2> SUFFICES ASSUME NEW u \in fp!Units, Valid(new, u \div 2)
                 PROVE  new.data[u] = Target'[u]
        BY DEF Holds
    <2>1. CASE u \in changed
        BY <1>4, <1>12, <1>13, <2>1
    <2>2. CASE u \notin changed
        <3>1. u \div 2 \in fp!Blocks /\ ~(grow /\ u \div 2 = b)
            BY <1>14, <2>2
        <3>2. Valid(fp!Grabbed, u \div 2)
            <4>1. CASE u \div 2 = b
                <5>1. fp!blockread
                    BY <1>1, <3>1, <4>1
                <5>2. QED BY <1>5, <5>1 DEF fp!blockread, Valid
            <4>2. CASE u \div 2 # b
                <5>1. Valid(pg, u \div 2)
                    BY <1>13 DEF Valid
                <5>2. QED BY <1>7, <1>9, <1>10, <3>1, <4>2, <5>1
            <4>3. QED BY <4>1, <4>2
        <3>3. new.data[u] = fp!Grabbed.data[u]
            BY <1>7, <1>9, <1>10, <1>12, <1>13, <2>2
        <3>4. fp!Grabbed.data[u] = Target[u]
            BY <1>6, <3>2 DEF Holds
        <3>5. QED BY <1>4, <2>2, <3>3, <3>4
    <2>3. QED BY <2>1, <2>2
<1>16. /\ Flushed' /\ SentBlocks' = SentBlocks
       /\ live' # NoPage /\ pages'[live'] = new
       /\ DirtyNow' = {k \in fp!Blocks : new.buf[k].delta = fp!slot}
    <2>1. CASE live # NoPage /\ ~fork
        <3>1. pages' = fp!Put(live, new) /\ live' = live
            BY <1>1, <2>1
        <3>2. live \in DOMAIN pages
            BY <1>5, <2>1
        <3>3. /\ DOMAIN pages' = DOMAIN pages /\ pages'[live] = new
              /\ \A q \in DOMAIN pages \ {live} : pages'[q] = pages[q]
            BY <3>1, <3>2 DEF fp!Put
        <3>4. Changeable(pages[live], fp!slot)
            <4>1. Changeable(found, fp!slot)
                BY <1>8, <2>1 DEF Writable
            <4>2. \A k \in fp!Blocks : found.buf[k].delta = pages[live].buf[k].delta
                BY <1>5, <1>7, <2>1
            <4>3. ~AnyDelta(pages[live], 1 - fp!slot)
                BY <4>1, <4>2 DEF Changeable, AnyDelta
            <4>4. ~pages[live].writeback
                <5>1. Like(found, pages[live])
                    BY <1>5, <2>1, blockgetOK, WithBuffersOK DEF found
                <5>2. QED BY <4>1, <5>1 DEF Like, Changeable
            <4>5. QED BY <1>5, <2>1, <4>3, <4>4 DEF Changeable
        <3>5. QED BY <1>1, <1>3, <1>13, <2>1, <3>1, <3>3, <3>4, InPlaceSends DEF Writable
    <2>2. CASE ~(live # NoPage /\ ~fork)
        <3>1. PICK p \in Pages \ DOMAIN pages : live' = p /\ pages' = fp!Put(p, new)
            BY <1>1, <2>2
        <3>2. /\ DOMAIN pages' = DOMAIN pages \union {p} /\ pages'[p] = new
              /\ \A q \in DOMAIN pages : pages'[q] = pages[q]
            BY <3>1 DEF fp!Put
        <3>3. \A q \in DOMAIN pages' :
                  \/ q \in DOMAIN pages /\ SameSends(pages'[q], pages[q])
                  \/ (q \in DOMAIN pages => Changeable(pages[q], fp!slot))
                     /\ Changeable(pages'[q], fp!slot)
            BY <1>13, <3>2 DEF SameSends, Writable
        <3>4. DOMAIN pages \ DOMAIN pages' = {}
            BY <3>2
        <3>5. Flushed' /\ SentBlocks' = SentBlocks
            BY <1>0, <1>1, <1>3, <3>3, <3>4, SendsKept
        <3>6. live' # NoPage /\ pages'[live'] = new
            BY <3>1, <3>2, PagesAssumption
        <3>7. QED BY <1>0, <3>5, <3>6 DEF DirtyNow, fp!Blocks
    <2>3. QED BY <2>1, <2>2
<1>17. /\ Base' = Base /\ Found' = Found /\ Shown' = Shown /\ Risky' = Risky
    BY <1>1, <1>2, <1>16, SameBelow DEF Risky
<1>18. \A k \in DirtyNow \union {b} : k \in DirtyNow'
    <2>1. b \in DirtyNow'
        BY <1>10, <1>13, <1>16
    <2>2. ASSUME NEW k \in DirtyNow PROVE k \in DirtyNow'
        <3>1. k \in fp!Blocks /\ live # NoPage /\ pages[live].buf[k].delta = fp!slot
            BY <2>2 DEF DirtyNow
        <3>2. found.buf[k].delta = fp!slot
            BY <1>5, <1>7, <3>1
        <3>3. ~fork
            BY <1>8, <3>1, <3>2 DEF AnyDelta
        <3>4. QED BY <1>9, <1>10, <1>13, <1>16, <3>1, <3>2, <3>3
    <2>3. QED BY <2>1, <2>2
<1>19. /\ psize' \in 0 .. 4 /\ psize' >= psize /\ psize' % 2 = 0
       /\ fp!BlocksIn(psize') >= fp!BlocksIn(psize)
       /\ fp!BlocksIn(psize) \in Int /\ fp!BlocksIn(psize') \in Int /\ fp!BlocksIn(idata) \in Int
    <2>1. psize % 2 = 0 /\ idata \in 0 .. 4
        BY <1>0, <1>1, Types DEF Truncating
    <2>2. psize' \in {psize, 2 * b + 2} /\ psize' >= psize /\ psize' \in 0 .. 4
        <3>1. grow => psize' = 2 * b + 2 /\ psize = 2 * b
            BY <1>0, <1>1
        <3>2. ~grow => psize' = psize
            BY <1>1
        <3> HIDE DEF grow
        <3>3. QED BY <1>0, <3>1, <3>2
    <2>3. psize' % 2 = 0
        <3>1. CASE psize' = psize
            BY <2>1, <3>1
        <3>2. CASE psize' = 2 * b + 2
            <4>1. psize' = 2 \/ psize' = 4
                BY <1>0, <3>2
            <4>2. 2 % 2 = 0 /\ 4 % 2 = 0
                OBVIOUS
            <4>3. QED BY <4>1, <4>2
        <3>3. QED BY <2>2, <3>1, <3>2
    <2>4. fp!BlocksIn(psize') >= fp!BlocksIn(psize)
       /\ fp!BlocksIn(psize) \in Int /\ fp!BlocksIn(psize') \in Int /\ fp!BlocksIn(idata) \in Int
        BY <1>0, <2>1, <2>2 DEF fp!BlocksIn
    <2>5. QED BY <2>2, <2>3, <2>4
<1>20. Below'
    <2>1. ASSUME NEW u \in fp!Units
          PROVE  /\ u \div 2 \notin DirtyNow' => Base'[u] = Target'[u]
                 /\ u \div 2 >= fp!BlocksIn(psize') => Base'[u] = 0
                 /\ u >= psize' => file'.data[u] = 0
        <3>1. u \div 2 < fp!BlocksIn(Lim) /\ u \div 2 \in Int /\ u \in Int
            BY <1>2, BlocksAndUnits
        <3>2. ASSUME u \div 2 \notin DirtyNow' PROVE Base'[u] = Target'[u]
            <4>1. u \div 2 \notin DirtyNow /\ u \notin changed
                BY <1>14, <1>18, <2>1, <3>2
            <4>2. QED BY <1>0, <1>4, <1>17, <2>1, <3>1, <4>1 DEF Below
        <3>3. ASSUME u \div 2 >= fp!BlocksIn(psize') PROVE Base'[u] = 0
            <4>1. u \div 2 >= fp!BlocksIn(psize)
                BY <1>19, <3>1, <3>3
            <4>2. QED BY <1>0, <1>2, <1>17, <2>1, <4>1 DEF Below
        <3>4. ASSUME u >= psize' PROVE file'.data[u] = 0
            <4>1. u \notin changed /\ u >= psize
                BY <1>0, <1>14, <1>19, <2>1, <3>1, <3>4
            <4>2. QED BY <1>0, <1>2, <1>3, <1>4, <2>1, <4>1 DEF Below
        <3>5. QED BY <3>2, <3>3, <3>4
    <2>2. pflush' # "idle" => \/ fp!BlocksIn(idata') <= fp!BlocksIn(psize')
                              \/ holes'[fp!slot'] <= fp!BlocksIn(psize')
        <3>1. holes[fp!slot] \in Int
            BY <1>0, Types
        <3>2. QED BY <1>0, <1>1, <1>2, <1>19, <3>1 DEF Below
    <2>3. QED BY <1>2, <2>1, <2>2 DEF Below, fp!Units
<1>21. LivePage'
    <2>1. ~AnyDelta(pages'[live'], fp!old')
        BY <1>0, <1>13, <1>16 DEF Writable, Changeable
    <2>2. Holds(pages'[live'], Target') /\ Fresh(pages'[live']) /\ kind' = "dir"
        BY <1>1, <1>10, <1>13, <1>15, <1>16 DEF Fresh
    <2>3. QED BY <2>1, <2>2 DEF LivePage
<1>22. NoStale'
    <2> SUFFICES ASSUME NEW k \in Risky
                 PROVE  Valid(new, k) /\ new.buffers /\ new.dirty
        BY <1>16, <1>17 DEF NoStale
    <2>1. live # NoPage /\ Valid(pages[live], k) /\ pages[live].buffers /\ k \in fp!Blocks
        BY <1>0 DEF NoStale, Risky, Shown
    <2>2. Valid(found, k)
        BY <1>5, <1>7, <2>1
    <2>3. Valid(pg, k)
        BY <1>9, <1>10, <2>1, <2>2
    <2>4. QED BY <1>13, <2>3 DEF Valid, Writable
<1>23. Filling' /\ Writing'
    BY <1>1, <1>2 DEF Filling, Writing
<1>24. Truncating'
    <2>1. holes = [s \in fp!Slots |-> 2]
        BY <1>0, <1>1 DEF Truncating
    <2>2. holes' = [s \in fp!Slots |-> 2]'
        BY <1>1, <2>1 DEF fp!Slots
    <2>3. op' = fp!Idle /\ op'.pc = "idle" /\ ~Cutting'
        BY <1>1, <1>2 DEF Cutting
    <2>4. QED BY <1>2, <1>19, <2>2, <2>3 DEF Truncating
<1>25. QED BY <1>16, <1>20, <1>21, <1>22, <1>23, <1>24 DEF DataInv

-----------------------------------------------------------------------------
(* truncate(2) *)

(* What a truncation of the page to newsize has to leave.                   *)
TruncatedPage(pg, newsize, target) ==
    /\ Changeable(pg, fp!slot) /\ Sound(pg, target, Risky, Found) /\ Fresh(pg)
    /\ \A b \in fp!Blocks : b >= fp!BlocksIn(newsize) => ~pg.buf[b].mapped \/ Valid(pg, b)
    /\ \A b \in Risky : Valid(pg, b) /\ pg.buffers
    /\ \A u \in fp!Units : u \div 2 < fp!BlocksIn(newsize) /\ Base[u] # target[u] =>
          pg.buf[u \div 2].delta = fp!slot

(* The units behind the new end are zero, those before are the file.        *)
Cut(newsize) == [u \in fp!Units |-> IF u < newsize THEN file.data[u] ELSE 0]

(* Fewer blocks are at risk. *)
LEMMA FewerRisky ==
    ASSUME NEW pg, NEW data, NEW risky, NEW found, NEW less, less \subseteq risky
    PROVE  /\ Unmapped(pg, risky) => Unmapped(pg, less)
           /\ Sound(pg, data, risky, found) => Sound(pg, data, less, found)
BY DEF Unmapped, Sound

(* What a call of truncate(2) leaves as it was when it begins.              *)
LEMMA TruncateBegins ==
    ASSUME PagesInv, DataInv, NEW newsize \in 0 .. 4, newsize # psize, op = fp!Idle,
           op' = [pc |-> "size", from |-> psize, to |-> newsize],
           UNCHANGED <<kind, psize, holes, pdtree, fill, pflush, pdelta, idata, file, snap>>
    PROVE  /\ Lim = 4 /\ Lim' = newsize /\ Sz = psize /\ Sz' = psize
           /\ op'.pc = "size" /\ op'.from = psize /\ op'.to = newsize
           /\ Base' = Base /\ Found' = Found /\ Target' = Cut(newsize) /\ FillData' = FillData
           /\ \A u \in fp!Units : Target[u] = file.data[u]
           /\ SentBlocks' = SentBlocks => Risky' \subseteq Risky
           /\ \A u \in fp!Units : u >= psize => file.data[u] = 0
           /\ \A u \in fp!Units : u \div 2 >= fp!BlocksIn(psize) => Base[u] = 0
<1>1. /\ Lim = 4 /\ Lim' = newsize /\ Sz = psize /\ Sz' = psize
      /\ op'.pc = "size" /\ op'.from = psize /\ op'.to = newsize
    BY DEF Lim, Sz, Cutting, fp!Idle
<1>2. Base' = Base /\ Found' = Found /\ fp!slot' = fp!slot
    BY SameBelow, SlotKept
<1>3. Target' = Cut(newsize)
    BY <1>1 DEF Target, Cut, fp!Units
<1>4. \A u \in fp!Units : Target[u] = file.data[u]
    BY <1>1, BlocksAndUnits DEF Target
<1>5. FillData' = FillData
    BY DEF FillData, fp!Filled, fp!IsHole, fp!Hole, fp!NewPage, fp!Slots, fp!Units, fp!Blocks,
           fp!BlockOf, fp!BlocksIn, fp!DataOf, fp!EmptyBuffer, fp!None, fp!Junk
<1>6. Shown' \subseteq Shown
    <2>1. \A b \in fp!Blocks : b < fp!BlocksIn(4)
        BY BlocksAndUnits
    <2>2. QED BY <1>1, <1>2, <2>1 DEF Shown, fp!Blocks, fp!BlocksIn
<1>7. SentBlocks' = SentBlocks => Risky' \subseteq Risky
    BY <1>6 DEF Risky
<1>8. /\ \A u \in fp!Units : u >= psize => file.data[u] = 0
      /\ \A u \in fp!Units : u \div 2 >= fp!BlocksIn(psize) => Base[u] = 0
    BY <1>1 DEF DataInv, Below
<1>9. QED BY <1>1, <1>2, <1>3, <1>4, <1>5, <1>7, <1>8

(* tux3_truncate_partial_block() puts a page into the radix tree. *)
LEMMA TruncateReplaces ==
    ASSUME PagesInv, PagesInv', DataInv, NEW newsize \in 1 .. 3, newsize < psize,
           op = fp!Idle, kind = "file", ~fill.on,
           NEW pg, TruncatedPage(pg, newsize, Cut(newsize)), fp!Replace(0, pg),
           pg.dirty \/ unpinned' \/ Risky = {}
             \/ (~fp!MustFork(0) /\ live # NoPage /\ ~pages[live].dirty /\ ~unpinned),
           op' = [pc |-> "size", from |-> psize, to |-> newsize],
           UNCHANGED <<kind, psize, holes, pdtree, fill, pflush, pdelta, idata, file, snap>>
    PROVE  DataInv'
<1>0. /\ fp!slot \in fp!Slots /\ fp!slot' = fp!slot /\ fp!old' = fp!old
      /\ PTyped /\ Cache /\ Below /\ NoStale /\ psize \in 0 .. 4 /\ newsize \in 0 .. 4
      /\ Changeable(pg, fp!slot)
    BY Types, SlotKept, OldSlot DEF PagesInv, DataInv, TruncatedPage
<1>1. /\ Lim = 4 /\ Lim' = newsize /\ Sz = psize /\ Sz' = psize
      /\ op'.pc = "size" /\ op'.from = psize /\ op'.to = newsize
      /\ Base' = Base /\ Found' = Found /\ Target' = Cut(newsize)
      /\ SentBlocks' = SentBlocks => Risky' \subseteq Risky
    BY <1>0, TruncateBegins
<1>2. /\ Flushed' /\ SentBlocks' = SentBlocks
      /\ live' # NoPage /\ pages'[live'] = pg
      /\ DirtyNow' = {b \in fp!Blocks : pg.buf[b].delta = fp!slot}
      /\ \A b \in OthersSend' : fp!MustFork(0) \/ b \in OthersSend
      /\ ~AnyDelta(pg, fp!old)
    BY <1>0, ReplaceSends
<1>3. Risky' \subseteq Risky
    BY <1>1, <1>2
<1>4. Below'
    <2>1. ASSUME NEW u \in fp!Units, u \div 2 \notin DirtyNow', u \div 2 < fp!BlocksIn(newsize)
          PROVE  Base'[u] = Target'[u]
        <3>1. u \div 2 \in fp!Blocks
            BY BlocksAndUnits
        <3>2. pg.buf[u \div 2].delta # fp!slot
            BY <1>2, <2>1, <3>1
        <3>3. QED BY <1>1, <2>1, <3>2 DEF TruncatedPage
    <2>2. QED BY <1>0, <1>1, <2>1 DEF Below, fp!BlocksIn, fp!Units
<1>5. LivePage'
    <2>1. Sound(pg, Target', Risky', Found')
        BY <1>1, <1>3, FewerRisky DEF TruncatedPage
    <2>2. Fresh(pg)
        BY DEF TruncatedPage
    <2>3. QED BY <1>0, <1>2, <2>1, <2>2 DEF LivePage, Sound
<1>6. NoStale'
    <2> SUFFICES ASSUME NEW b \in Risky'
                 PROVE  Valid(pg, b) /\ pg.buffers
                        /\ (b \in OthersSend' => pg.dirty \/ unpinned')
        BY <1>2 DEF NoStale
    <2>1. b \in Risky
        BY <1>3
    <2>2. Valid(pg, b) /\ pg.buffers
        BY <2>1 DEF TruncatedPage
    <2>3. ASSUME b \in OthersSend' PROVE pg.dirty \/ unpinned'
        <3>1. CASE ~fp!MustFork(0) /\ ~pages[live].dirty /\ ~unpinned
            <4>1. b \in OthersSend
                BY <1>2, <2>3, <3>1
            <4>2. QED BY <1>0, <2>1, <3>1, <4>1 DEF NoStale
        <3>2. QED BY <2>1, <3>1
    <2>4. QED BY <2>2, <2>3
<1>7. Filling' /\ Writing'
    BY <1>1 DEF Filling, Writing
<1>8. Truncating'
    <2>1. newsize # psize /\ newsize # 0
        BY <1>0
    <2>2. \A b \in fp!Blocks : b >= fp!BlocksIn(newsize) => ~pg.buf[b].mapped \/ Valid(pg, b)
        BY DEF TruncatedPage
    <2>3. QED BY <1>1, <1>2, <2>1, <2>2 DEF Truncating, Cutting, fp!Blocks, fp!BlocksIn
<1>9. QED BY <1>2, <1>4, <1>5, <1>6, <1>7, <1>8 DEF DataInv

(* The page stays as it is: the new end is not inside of it.                *)
LEMMA TruncateSkips ==
    ASSUME PagesInv, PagesInv', DataInv, NEW newsize \in 0 .. 4, newsize # psize,
           op = fp!Idle, kind = "file",
           newsize > psize \/ newsize % 4 = 0 \/ (newsize % 2 = 0 /\ live = NoPage /\ ~fill.on),
           op' = [pc |-> "size", from |-> psize, to |-> newsize],
           UNCHANGED <<pages, live, forked, unpinned>>,
           UNCHANGED <<kind, psize, holes, pdtree, fill, pflush, pdelta, idata, file, snap>>
    PROVE  DataInv'
<1>0. /\ fp!slot \in fp!Slots /\ fp!slot' = fp!slot /\ fp!old' = fp!old
      /\ PTyped /\ Cache /\ Flushed /\ Below /\ LivePage /\ NoStale /\ Filling /\ psize \in 0 .. 4
      /\ psize \in Int /\ newsize \in Int
    BY Types, SlotKept, OldSlot DEF PagesInv, DataInv
<1>1. /\ Lim = 4 /\ Lim' = newsize /\ Sz = psize /\ Sz' = psize
      /\ op'.pc = "size" /\ op'.from = psize /\ op'.to = newsize
      /\ Base' = Base /\ Found' = Found /\ Target' = Cut(newsize) /\ FillData' = FillData
      /\ \A u \in fp!Units : Target[u] = file.data[u]
      /\ SentBlocks' = SentBlocks => Risky' \subseteq Risky
      /\ \A u \in fp!Units : u >= psize => file.data[u] = 0
    BY <1>0, TruncateBegins
<1>2. /\ Flushed' /\ SentBlocks' = SentBlocks
    <2>1. \A p \in DOMAIN pages' : p \in DOMAIN pages /\ SameSends(pages'[p], pages[p])
        BY DEF SameSends
    <2>2. QED BY <1>0, <2>1, SendsKept DEF Flushed
<1>3. /\ Risky' \subseteq Risky /\ DirtyNow' = DirtyNow /\ OthersSend' = OthersSend
    BY <1>0, <1>1, <1>2 DEF DirtyNow, OthersSend, Sends, fp!Blocks, fp!BlocksIn
<1>4. \A u \in fp!Units : /\ u \div 2 < fp!BlocksIn(newsize) => Cut(newsize)[u] = file.data[u]
                          /\ newsize # 0 /\ (live # NoPage \/ fill.on) =>
                                Cut(newsize)[u] = file.data[u]
    <2> SUFFICES ASSUME NEW u \in fp!Units, u >= newsize, file.data[u] # 0
                 PROVE  /\ ~(u \div 2 < fp!BlocksIn(newsize))
                        /\ newsize = 0 \/ (live = NoPage /\ ~fill.on)
        BY <1>0, BlocksAndUnits DEF Cut
    <2>1. ~(newsize > psize) /\ u \in {0, 1, 2, 3}
        BY <1>0, <1>1, BlocksAndUnits
    <2>2. newsize \in {0, 1, 2, 3, 4}
        BY <1>0
    <2>3. CASE newsize = 0
        BY <2>3, BlocksAndUnits
    <2>4. CASE newsize = 2
        BY <2>1, <2>4, BlocksAndUnits
    <2>5. CASE newsize \in {1, 3}
        <3>1. newsize % 4 # 0 /\ newsize % 2 # 0
            BY <2>5
        <3>2. QED BY <2>1, <3>1
    <2>6. CASE newsize = 4
        BY <2>1, <2>6
    <2>7. QED BY <2>2, <2>3, <2>4, <2>5, <2>6
<1>5. Below'
    <2>1. \A u \in fp!Units : u \div 2 < fp!BlocksIn(Lim)
        BY <1>1, BlocksAndUnits
    <2>2. QED BY <1>0, <1>1, <1>3, <1>4, <2>1 DEF Below, fp!BlocksIn, fp!Units
<1>6. LivePage'
    <2> SUFFICES ASSUME live # NoPage
                 PROVE  /\ newsize # 0 => Holds(pages[live], Target')
                        /\ Unmapped(pages[live], Risky') /\ Addressed(pages[live], Found')
                        /\ Fresh(pages[live])
                        /\ pflush # "idle" /\ AnyDelta(pages[live], fp!old) =>
                             \A u \in fp!Units : u >= idata => file.data[u] = 0
        BY <1>0, <1>1 DEF LivePage
    <2>1. /\ Holds(pages[live], Target) /\ Unmapped(pages[live], Risky)
          /\ Addressed(pages[live], Found) /\ Fresh(pages[live])
          /\ pflush # "idle" /\ AnyDelta(pages[live], fp!old) =>
               \A u \in fp!Units : u >= idata => file.data[u] = 0
        BY <1>0 DEF LivePage, fp!Idle
    <2>2. newsize # 0 => Holds(pages[live], Target')
        BY <1>1, <1>4, <2>1 DEF Holds
    <2>3. QED BY <1>1, <1>3, <2>1, <2>2, FewerRisky
<1>7. NoStale'
    BY <1>0, <1>3 DEF NoStale
<1>8. Filling'
    BY <1>0, <1>1, <1>4 DEF Filling, fp!Idle
<1>9. Writing'
    BY <1>1 DEF Writing
<1>10. Truncating'
    <2>1. 0 < newsize /\ newsize < psize => live = NoPage
        <3> HAVE 0 < newsize /\ newsize < psize
        <3>1. newsize \in {1, 2, 3}
            BY <1>0
        <3>2. newsize % 4 # 0
            BY <3>1
        <3>3. QED BY <1>0, <3>2
    <2>2. QED BY <1>1, <2>1 DEF Truncating, Cutting
<1>11. QED BY <1>2, <1>5, <1>6, <1>7, <1>8, <1>9, <1>10 DEF DataInv

(* What __tux3_truncate_partial_block() does to the buffers of the page.    *)
LEMMA PartialBlockEffect ==
    ASSUME NEW pg, fp!slot \in fp!Slots, Writable(pg, fp!slot), NEW newsize, NEW b \in fp!Blocks,
           fp!Lookup(b) \in Content, ~(2 * b >= newsize)
    PROVE  LET new == fp!PartialBlock(pg, newsize, b)
           IN  /\ (new.uptodate <=> pg.uptodate) /\ new.buffers /\ new.dirty
               /\ new.buf[b].delta = fp!slot /\ new.buf[b].uptodate /\ new.buf[b].mapped
               /\ new.buf[b].new <=> pg.buf[b].new
               /\ \A k \in fp!Blocks \ {b} : ~(2 * k >= newsize) => new.buf[k] = pg.buf[k]
               /\ \A k \in fp!Blocks \ {b} : 2 * k >= newsize =>
                    /\ new.buf[k].delta = None /\ ~new.buf[k].mapped /\ ~new.buf[k].new
                    /\ new.buf[k].uptodate <=> pg.buf[k].uptodate
               /\ \A u \in fp!Units :
                    new.data[u] = IF u \in newsize .. 4 - 1 THEN 0
                                  ELSE IF u \div 2 = b /\ ~Valid(pg, b)
                                  THEN fp!DataOf(fp!Lookup(b), u) ELSE pg.data[u]
<1> DEFINE s == fp!slot
           update == [pg EXCEPT !.buf[b].uptodate = TRUE]
           read == IF pg.buf[b].uptodate \/ pg.uptodate THEN update
                   ELSE fp!ReadBlock(pg, b, fp!Lookup(b))
           mapped == [read EXCEPT !.buf[b].mapped = TRUE]
           dirty == fp!MarkDirty(mapped, b, s)
           zeroed == fp!ZeroFill(dirty, newsize, 4)
           new == fp!Invalidate(zeroed, newsize)
<1>1. PageOK(pg) /\ pg.buf[b] \in fp!Buffer /\ pg.buf[b].io \in BOOLEAN /\ pg.buffers
    BY PageFields, BufferFields DEF Writable, Changeable, PageOK
<1>2. /\ Writable(update, s) /\ (update.uptodate <=> pg.uptodate) /\ update.data = pg.data
      /\ update.buf[b].uptodate /\ (update.buf[b].new <=> pg.buf[b].new)
      /\ \A k \in fp!Blocks \ {b} : update.buf[k] = pg.buf[k]
    <2> DEFINE buffer == [pg.buf[b] EXCEPT !.uptodate = TRUE]
    <2>1. /\ buffer \in fp!Buffer /\ buffer.delta = pg.buf[b].delta
          /\ buffer.io = pg.buf[b].io /\ buffer.uptodate /\ buffer.new = pg.buf[b].new
        BY <1>1 DEF fp!Buffer
    <2>2. update = [pg EXCEPT !.buf[b] = buffer]
        OBVIOUS
    <2> HIDE DEF buffer, update
    <2>3. PageOK(update) /\ Like(update, pg) /\ update.buffers = pg.buffers
        BY <1>1, <2>1, <2>2, SetBuffer
    <2>4. Writable(update, s)
        BY <2>3, LikeWritable
    <2>5. /\ update.data = pg.data /\ (update.uptodate <=> pg.uptodate) /\ update.buf[b] = buffer
          /\ \A k \in fp!Blocks \ {b} : update.buf[k] = pg.buf[k]
        BY <1>1, <2>2, SetBufferEffect
    <2>6. QED BY <2>1, <2>4, <2>5
<1> HIDE DEF update
<1>3. /\ Writable(read, s) /\ (read.uptodate <=> pg.uptodate)
      /\ read.buf[b].uptodate /\ (read.buf[b].new <=> pg.buf[b].new)
      /\ \A k \in fp!Blocks \ {b} : read.buf[k] = pg.buf[k]
      /\ \A u \in fp!Units : read.data[u] = IF u \div 2 = b /\ ~Valid(pg, b)
                                THEN fp!DataOf(fp!Lookup(b), u) ELSE pg.data[u]
    <2>1. CASE Valid(pg, b)
        <3>1. read = update
            BY <2>1 DEF Valid
        <3>2. QED BY <1>2, <2>1, <3>1
    <2>2. CASE ~Valid(pg, b)
        <3> DEFINE block == fp!ReadBlock(pg, b, fp!Lookup(b))
        <3>1. ~pg.buf[b].uptodate /\ read = block
            BY <2>2 DEF Valid
        <3>2. PageOK(block) /\ Like(block, pg) /\ block.buffers = pg.buffers
            BY <1>1, <3>1, ReadBlockOK
        <3>3. Writable(block, s)
            BY <3>2, LikeWritable
        <3>4. /\ (block.uptodate <=> pg.uptodate)
              /\ block.buf[b].uptodate /\ (block.buf[b].new <=> pg.buf[b].new)
              /\ \A k \in fp!Blocks \ {b} : block.buf[k] = pg.buf[k]
              /\ \A u \in fp!Units : block.data[u] = IF u \div 2 = b THEN fp!DataOf(fp!Lookup(b), u)
                                                   ELSE pg.data[u]
            BY <1>1, ReadBlockFields
        <3> HIDE DEF block
        <3>5. QED BY <2>2, <3>1, <3>3, <3>4
    <2>3. QED BY <2>1, <2>2
<1> HIDE DEF read
<1>4. PageOK(read) /\ read.buf[b] \in fp!Buffer
    BY <1>3, PageFields DEF Writable, Changeable, PageOK
<1>5. /\ Writable(mapped, s) /\ (mapped.uptodate <=> read.uptodate) /\ mapped.data = read.data
      /\ mapped.buf[b].mapped /\ (mapped.buf[b].new <=> read.buf[b].new)
      /\ \A k \in fp!Blocks \ {b} : mapped.buf[k] = read.buf[k]
    <2> DEFINE buffer == [read.buf[b] EXCEPT !.mapped = TRUE]
    <2>1. /\ buffer \in fp!Buffer /\ buffer.delta = read.buf[b].delta /\ buffer.mapped
          /\ buffer.io = read.buf[b].io /\ (read.buf[b].uptodate => buffer.uptodate)
          /\ buffer.new = read.buf[b].new
        BY <1>4 DEF fp!Buffer
    <2>2. mapped = [read EXCEPT !.buf[b] = buffer]
        OBVIOUS
    <2> HIDE DEF buffer, mapped
    <2>3. PageOK(mapped) /\ Like(mapped, read) /\ mapped.buffers = read.buffers
        BY <1>4, <2>1, <2>2, SetBuffer
    <2>4. Writable(mapped, s)
        BY <1>3, <2>3, LikeWritable
    <2>5. /\ mapped.data = read.data /\ (mapped.uptodate <=> read.uptodate) /\ mapped.buf[b] = buffer
          /\ \A k \in fp!Blocks \ {b} : mapped.buf[k] = read.buf[k]
        BY <1>4, <2>2, SetBufferEffect
    <2>6. QED BY <2>1, <2>4, <2>5
<1>6. fp!PartialBlock(pg, newsize, b) = new
    BY DEF fp!PartialBlock, read, update
<1> HIDE DEF mapped
<1>7. /\ dirty.data = mapped.data /\ (dirty.uptodate <=> mapped.uptodate) /\ dirty.dirty
      /\ dirty.buffers
      /\ dirty.buf[b].delta = s /\ dirty.buf[b].uptodate /\ dirty.buf[b].mapped
      /\ dirty.buf[b].new <=> mapped.buf[b].new
      /\ \A k \in fp!Blocks \ {b} : dirty.buf[k] = mapped.buf[k]
    BY <1>5, MarkDirtyEffect
<1>8. Writable(dirty, s)
    BY <1>5, MarkDirtyOK
<1> HIDE DEF dirty
<1>9. PageOK(dirty)
    BY <1>8 DEF Writable, Changeable
<1>10. /\ (zeroed.uptodate <=> dirty.uptodate) /\ (zeroed.dirty <=> dirty.dirty)
       /\ (zeroed.buffers <=> dirty.buffers) /\ zeroed.buf = dirty.buf
       /\ \A u \in fp!Units : zeroed.data[u] = IF u \in newsize .. 4 - 1 THEN 0 ELSE dirty.data[u]
    BY <1>9, ZeroFillEffect
<1>11. PageOK(zeroed)
    BY <1>9, ZeroFillOK
<1> HIDE DEF zeroed
<1>12. /\ new.data = zeroed.data /\ (new.uptodate <=> zeroed.uptodate)
       /\ (new.buffers <=> zeroed.buffers)
       /\ \A k \in fp!Blocks : ~(2 * k >= newsize) => new.buf[k] = zeroed.buf[k]
       /\ \A k \in fp!Blocks : 2 * k >= newsize =>
            /\ new.buf[k].delta = None /\ ~new.buf[k].mapped /\ ~new.buf[k].new
            /\ new.buf[k].uptodate <=> zeroed.buf[k].uptodate
       /\ new.dirty <=> zeroed.dirty /\ \E k \in fp!Blocks : new.buf[k].delta # None
    BY <1>11, InvalidateEffect
<1> HIDE DEF new
<1>13. new.buf[b] = dirty.buf[b] /\ s # None
    BY <1>10, <1>12 DEF fp!Slots, None
<1>14. new.dirty
    BY <1>7, <1>10, <1>12, <1>13
<1>15. /\ new.buf[b].delta = s /\ new.buf[b].uptodate /\ new.buf[b].mapped
       /\ new.buf[b].new <=> pg.buf[b].new
    BY <1>3, <1>5, <1>7, <1>13
<1>16. \A k \in fp!Blocks \ {b} : zeroed.buf[k] = pg.buf[k]
    BY <1>3, <1>5, <1>7, <1>10
<1>17. \A u \in fp!Units :
        new.data[u] = IF u \in newsize .. 4 - 1 THEN 0
                      ELSE IF u \div 2 = b /\ ~Valid(pg, b)
                      THEN fp!DataOf(fp!Lookup(b), u) ELSE pg.data[u]
    BY <1>3, <1>5, <1>7, <1>10, <1>12
<1>18. (new.uptodate <=> pg.uptodate) /\ new.buffers
    BY <1>3, <1>5, <1>7, <1>10, <1>12
<1>19. QED BY <1>6, <1>12, <1>14, <1>15, <1>16, <1>17, <1>18

(* What BoundaryBlock() does, whether the page has buffers or not.          *)
LEMMA BoundaryBlockEffect ==
    ASSUME NEW pg, fp!slot \in fp!Slots, Changeable(pg, fp!slot), NEW newsize
    PROVE  LET new == fp!BoundaryBlock(pg, newsize)
           IN  /\ (new.uptodate <=> pg.uptodate) /\ (new.buffers <=> pg.buffers)
               /\ pg.buffers => new.dirty /\ new.buf[1].uptodate
               /\ \A k \in fp!Blocks :
                    /\ new.buf[k].mapped <=> pg.buf[k].mapped
                    /\ new.buf[k].new <=> pg.buf[k].new
                    /\ pg.buf[k].uptodate => new.buf[k].uptodate
                    /\ pg.buf[k].delta = fp!slot => new.buf[k].delta = fp!slot
               /\ new.buf[0] = pg.buf[0]
               /\ ~pg.buffers => new.buf = pg.buf
               /\ \A u \in fp!Units : new.data[u] = IF u \in newsize .. 4 - 1 THEN 0 ELSE pg.data[u]
<1> DEFINE dirty == IF pg.buffers THEN fp!MarkDirty(pg, 1, fp!slot) ELSE pg
           new == fp!ZeroFill(dirty, newsize, 4)
<1>0. 0 \in fp!Blocks /\ 1 \in fp!Blocks /\ fp!Blocks = {0, 1} /\ 0 \in fp!Blocks \ {1}
    BY BlocksAndUnits
<1>1. fp!BoundaryBlock(pg, newsize) = new
    BY DEF fp!BoundaryBlock
<1>2. PageOK(pg)
    BY DEF Changeable
<1>3. /\ PageOK(dirty) /\ (dirty.uptodate <=> pg.uptodate) /\ (dirty.buffers <=> pg.buffers)
      /\ dirty.data = pg.data /\ dirty.buf[0] = pg.buf[0]
      /\ pg.buffers => dirty.dirty /\ dirty.buf[1].uptodate /\ dirty.buf[1].delta = fp!slot
      /\ dirty.buf[1].mapped <=> pg.buf[1].mapped
      /\ dirty.buf[1].new <=> pg.buf[1].new
      /\ ~pg.buffers => dirty = pg
    <2>1. CASE pg.buffers
        <3> DEFINE marked == fp!MarkDirty(pg, 1, fp!slot)
        <3>1. Writable(pg, fp!slot)
            BY <2>1 DEF Writable
        <3>2. PageOK(marked)
            BY <1>0, <3>1, MarkDirtyOK DEF Writable, Changeable
        <3>3. /\ marked.data = pg.data /\ (marked.uptodate <=> pg.uptodate) /\ marked.dirty
              /\ marked.buffers /\ marked.buf[1].delta = fp!slot /\ marked.buf[1].uptodate
              /\ marked.buf[1].mapped <=> pg.buf[1].mapped
              /\ marked.buf[1].new <=> pg.buf[1].new
              /\ \A k \in fp!Blocks \ {1} : marked.buf[k] = pg.buf[k]
            BY <1>0, <3>1, MarkDirtyEffect
        <3> HIDE DEF marked
        <3>4. dirty = marked
            BY <2>1 DEF marked
        <3>5. QED BY <1>0, <2>1, <3>2, <3>3, <3>4
    <2>2. CASE ~pg.buffers
        <3>1. dirty = pg
            BY <2>2
        <3>2. QED BY <1>2, <2>2, <3>1
    <2>3. QED BY <2>1, <2>2
<1> HIDE DEF dirty
<1>4. /\ (new.uptodate <=> dirty.uptodate) /\ (new.dirty <=> dirty.dirty)
      /\ (new.buffers <=> dirty.buffers) /\ new.buf = dirty.buf
      /\ \A u \in fp!Units : new.data[u] = IF u \in newsize .. 4 - 1 THEN 0 ELSE dirty.data[u]
    BY <1>3, ZeroFillEffect
<1> HIDE DEF new
<1>5. \A k \in fp!Blocks :
        /\ new.buf[k].mapped <=> pg.buf[k].mapped
        /\ new.buf[k].new <=> pg.buf[k].new
        /\ pg.buf[k].uptodate => new.buf[k].uptodate
        /\ pg.buf[k].delta = fp!slot => new.buf[k].delta = fp!slot
    <2>1. CASE pg.buffers
        BY <1>0, <1>3, <1>4, <2>1
    <2>2. CASE ~pg.buffers
        BY <1>3, <1>4, <2>2
    <2>3. QED BY <2>1, <2>2
<1>6. \A u \in fp!Units : new.data[u] = IF u \in newsize .. 4 - 1 THEN 0 ELSE pg.data[u]
    BY <1>3, <1>4
<1>7. QED BY <1>1, <1>3, <1>4, <1>5, <1>6

(* tux3_truncate_partial_block() finds a hole: the file is zero there.      *)
LEMMA HoleIsZero ==
    ASSUME PagesInv, DataInv, op = fp!Idle, kind = "file", NEW b \in fp!Blocks,
           ~fp!WithBuffers(fp!Forked(0)).buf[b].mapped, fp!Lookup(b) = fp!Hole,
           NEW u \in fp!Units, u \div 2 = b
    PROVE  Target[u] = 0
<1> DEFINE pg == fp!WithBuffers(fp!Forked(0))
<1>1. /\ Writable(pg, fp!slot) /\ Sound(pg, Target, Risky, Found)
      /\ \A k \in fp!Blocks : k \in DirtyNow <=> pg.buf[k].delta = fp!slot
      /\ \A k \in DirtyNow \union Risky : live # NoPage /\ Valid(pg, k)
    BY BufferedSound
<1>2. ~pg.buf[b].mapped
    OBVIOUS
<1> HIDE DEF pg
<1>3. fp!slot # None
    BY SlotsTyped DEF PagesInv, fp!Slots, None
<1>4. CASE b \in DirtyNow \union Risky
    <2>1. Valid(pg, b) /\ pg.buf[b].uptodate
        BY <1>1, <1>4 DEF Valid, Writable, Changeable, PageOK
    <2>2. Blank(pg, b)
        BY <1>1, <1>2, <1>3, <1>4, <2>1 DEF Sound, Unmapped
    <2>3. pg.data[u] = 0 /\ pg.data[u] = Target[u]
        BY <1>1, <2>1, <2>2 DEF Sound, Holds, Blank
    <2>4. QED BY <2>3
<1>5. CASE b \notin DirtyNow \union Risky
    <2>1. Lim = 4
        BY DEF fp!Idle, Lim, Cutting
    <2>2. u \div 2 < fp!BlocksIn(Lim)
        BY <2>1, BlocksAndUnits
    <2>3. fp!DataOf(fp!Lookup(b), u) = Target[u]
        BY <1>5, <2>2, LookupIsTarget
    <2>4. QED BY <2>3 DEF fp!DataOf
<1>6. QED BY <1>4, <1>5

(* The page as it was before a truncation, with or without buffers.         *)
Before(pg) ==
    /\ Changeable(pg, fp!slot) /\ Sound(pg, Target, Risky, Found) /\ Fresh(pg)
    /\ \A b \in fp!Blocks : b \in DirtyNow <=> pg.buf[b].delta = fp!slot
    /\ \A b \in DirtyNow \union Risky : Valid(pg, b) /\ pg.buffers

(* When a truncation begins, the page that it gets to change has the data   *)
(* of the file, and what is not dirty for the delta is as the flush will    *)
(* leave it.                                                                *)
LEMMA BeforeTruncate ==
    ASSUME PagesInv, DataInv, op = fp!Idle, kind = "file"
    PROVE  /\ Before(fp!Forked(0)) /\ Before(fp!WithBuffers(fp!Forked(0)))
           /\ \A u \in fp!Units : /\ Target[u] = file.data[u]
                                  /\ u \div 2 \notin DirtyNow => Base[u] = Target[u]
<1>1. Changeable(fp!Forked(0), fp!slot)
    BY ForkedOK DEF PagesInv
<1>2. Before(fp!Forked(0))
    BY <1>1, ForkedSound DEF Before
<1>3. Before(fp!WithBuffers(fp!Forked(0)))
    BY BufferedSound DEF Before, Writable
<1>4. Lim = 4
    BY DEF fp!Idle, Lim, Cutting
<1>5. \A u \in fp!Units : Target[u] = file.data[u] /\ u \div 2 < fp!BlocksIn(Lim)
    BY <1>4, BlocksAndUnits DEF Target
<1>6. QED BY <1>2, <1>3, <1>5 DEF DataInv, Below

(* A block boundary, and a hole in the first block. *)
LEMMA BoundaryTruncates ==
    ASSUME PagesInv, DataInv, NEW newsize \in {1, 2}, NEW pg, Before(pg),
           \A u \in fp!Units : /\ Target[u] = file.data[u]
                               /\ u \div 2 \notin DirtyNow => Base[u] = Target[u],
           newsize = 1 => Target[1] = 0
    PROVE  TruncatedPage(fp!BoundaryBlock(pg, newsize), newsize, Cut(newsize))
<1> DEFINE new == fp!BoundaryBlock(pg, newsize)
<1>0. /\ fp!slot \in fp!Slots /\ fp!Blocks = {0, 1} /\ fp!Units = {0, 1, 2, 3}
      /\ 0 \in fp!Blocks /\ 1 \in fp!Blocks
      /\ fp!BlocksIn(newsize) = 1
      /\ \A u \in fp!Units : u \div 2 \in fp!Blocks /\ (u \div 2 = 0 <=> u \in {0, 1})
      /\ \A u \in fp!Units : u \in newsize .. 4 - 1 <=> u >= newsize
    BY Types, BlocksAndUnits DEF PagesInv
<1>1. /\ Changeable(pg, fp!slot) /\ PageOK(pg) /\ Sound(pg, Target, Risky, Found) /\ Fresh(pg)
      /\ \A b \in fp!Blocks : b \in DirtyNow <=> pg.buf[b].delta = fp!slot
      /\ \A b \in DirtyNow \union Risky : Valid(pg, b) /\ pg.buffers
    BY DEF Before, Changeable
<1>2. Changeable(new, fp!slot)
    BY <1>0, <1>1, BoundaryBlockOK
<1>3. /\ (new.uptodate <=> pg.uptodate) /\ (new.buffers <=> pg.buffers)
      /\ pg.buffers => new.dirty /\ new.buf[1].uptodate
      /\ \A k \in fp!Blocks :
           /\ new.buf[k].mapped <=> pg.buf[k].mapped
           /\ new.buf[k].new <=> pg.buf[k].new
           /\ pg.buf[k].uptodate => new.buf[k].uptodate
           /\ pg.buf[k].delta = fp!slot => new.buf[k].delta = fp!slot
      /\ new.buf[0] = pg.buf[0]
      /\ ~pg.buffers => new.buf = pg.buf
      /\ \A u \in fp!Units : new.data[u] = IF u \in newsize .. 4 - 1 THEN 0 ELSE pg.data[u]
    BY <1>0, <1>1, BoundaryBlockEffect
<1> HIDE DEF new
<1>4. \A u \in fp!Units : new.data[u] = IF u >= newsize THEN 0 ELSE pg.data[u]
    BY <1>0, <1>3
<1>5. \A u \in fp!Units : Cut(newsize)[u] = IF u < newsize THEN Target[u] ELSE 0
    BY DEF Cut
<1>6. \A b \in fp!Blocks : Valid(pg, b) => Valid(new, b)
    BY <1>3 DEF Valid
<1>7. Holds(new, Cut(newsize))
    <2> SUFFICES ASSUME NEW u \in fp!Units, Valid(new, u \div 2)
                 PROVE  new.data[u] = Cut(newsize)[u]
        BY DEF Holds
    <2>1. CASE u >= newsize
        BY <1>0, <1>4, <1>5, <2>1
    <2>2. CASE ~(u >= newsize)
        <3>1. u \div 2 = 0 /\ u < newsize
            BY <1>0, <2>2
        <3>2. Valid(pg, u \div 2)
            BY <1>3, <3>1 DEF Valid
        <3>3. QED BY <1>1, <1>4, <1>5, <2>2, <3>1, <3>2 DEF Sound, Holds
    <2>3. QED BY <2>1, <2>2
<1>8. Unmapped(new, Risky)
    <2> SUFFICES ASSUME NEW b \in fp!Blocks, new.buf[b].uptodate, ~new.buf[b].mapped,
                        ~new.uptodate \/ new.buf[b].delta # None \/ b \in Risky,
                        NEW u \in fp!Units, u \div 2 = b
                 PROVE  new.data[u] = 0
        BY DEF Unmapped, Blank
    <2>1. CASE b = 0
        <3>1. Blank(pg, 0)
            BY <1>0, <1>1, <1>3, <2>1 DEF Sound, Unmapped
        <3>2. QED BY <1>4, <2>1, <3>1 DEF Blank
    <2>2. CASE b = 1
        <3>1. u >= newsize
            BY <1>0, <2>2
        <3>2. QED BY <1>4, <3>1
    <2>3. QED BY <1>0, <2>1, <2>2
<1>9. Addressed(new, Found)
    <2> SUFFICES ASSUME NEW b \in fp!Blocks, new.buf[b].mapped, ~Valid(new, b), ~new.buf[b].new
                 PROVE  Found[b] # fp!Hole /\ new.buffers
        BY DEF Addressed
    <2>1. pg.buf[b].mapped /\ ~Valid(pg, b) /\ ~pg.buf[b].new
        BY <1>3, <1>6
    <2>2. QED BY <1>1, <1>3, <2>1 DEF Sound, Addressed
<1>10. Fresh(new)
    BY <1>1, <1>3 DEF Fresh
<1>11. \A b \in fp!Blocks : b >= fp!BlocksIn(newsize) => ~new.buf[b].mapped \/ Valid(new, b)
    <2> SUFFICES ASSUME NEW b \in fp!Blocks, b >= 1, new.buf[b].mapped, ~Valid(new, b)
                 PROVE  FALSE
        BY <1>0
    <2>1. b = 1
        BY <1>0
    <2>2. ~pg.buffers
        BY <1>3, <2>1 DEF Valid
    <2>3. pg.buf[b].mapped /\ ~Valid(pg, b) /\ ~pg.buf[b].new
        BY <1>1, <1>3, <1>6 DEF Fresh
    <2>4. QED BY <1>1, <2>2, <2>3 DEF Sound, Addressed
<1>12. \A b \in Risky : Valid(new, b) /\ new.buffers
    BY <1>1, <1>3, <1>6 DEF Risky, Shown
<1>13. ASSUME NEW u \in fp!Units, u \div 2 < fp!BlocksIn(newsize), Base[u] # Cut(newsize)[u]
       PROVE  new.buf[u \div 2].delta = fp!slot
    <2>1. u \div 2 = 0 /\ u \in {0, 1}
        BY <1>0, <1>13
    <2>2. Cut(newsize)[u] = Target[u]
        BY <1>5, <2>1
    <2>3. u \div 2 \in DirtyNow
        BY <1>13, <2>2
    <2>4. QED BY <1>0, <1>1, <1>3, <2>3
<1>14. QED BY <1>2, <1>7, <1>8, <1>9, <1>10, <1>11, <1>12, <1>13 DEF TruncatedPage, Sound, new

(* The new end is inside of a block that has data. *)
LEMMA PartialTruncates ==
    ASSUME PagesInv, DataInv, NEW newsize \in {1, 3}, NEW b, b = newsize \div 2,
           NEW pg, Before(pg), pg.buffers,
           \A u \in fp!Units : /\ Target[u] = file.data[u]
                               /\ u \div 2 \notin DirtyNow => Base[u] = Target[u],
           \A u \in fp!Units : ~Valid(pg, u \div 2) =>
                fp!DataOf(fp!Lookup(u \div 2), u) = Target[u]
    PROVE  /\ TruncatedPage(fp!PartialBlock(pg, newsize, b), newsize, Cut(newsize))
           /\ fp!PartialBlock(pg, newsize, b).dirty
<1> DEFINE new == fp!PartialBlock(pg, newsize, b)
<1>0. /\ fp!slot \in fp!Slots /\ fp!Blocks = {0, 1} /\ fp!Units = {0, 1, 2, 3}
      /\ b \in fp!Blocks
      /\ \/ newsize = 1 /\ b = 0 /\ fp!BlocksIn(newsize) = 1
         \/ newsize = 3 /\ b = 1 /\ fp!BlocksIn(newsize) = 2
      /\ \A u \in fp!Units : u \div 2 \in fp!Blocks /\ (u \div 2 = 0 <=> u \in {0, 1})
      /\ \A u \in fp!Units : u \in newsize .. 4 - 1 <=> u >= newsize
    BY Types, BlocksAndUnits DEF PagesInv
<1>1. /\ Changeable(pg, fp!slot) /\ Writable(pg, fp!slot)
      /\ Sound(pg, Target, Risky, Found) /\ Fresh(pg)
      /\ \A k \in fp!Blocks : k \in DirtyNow <=> pg.buf[k].delta = fp!slot
      /\ \A k \in DirtyNow \union Risky : Valid(pg, k) /\ pg.buffers
    BY DEF Before, Writable
<1>2. fp!Lookup(b) \in Content /\ ~(2 * b >= newsize)
    BY <1>0, LookupTyped DEF PagesInv
<1>3. Changeable(new, fp!slot)
    BY <1>0, <1>1, <1>2, PartialBlockOK DEF Writable
<1>4. /\ (new.uptodate <=> pg.uptodate) /\ new.buffers /\ new.dirty
      /\ new.buf[b].delta = fp!slot /\ new.buf[b].uptodate /\ new.buf[b].mapped
      /\ new.buf[b].new <=> pg.buf[b].new
      /\ \A k \in fp!Blocks \ {b} : ~(2 * k >= newsize) => new.buf[k] = pg.buf[k]
      /\ \A k \in fp!Blocks \ {b} : 2 * k >= newsize =>
           /\ new.buf[k].delta = None /\ ~new.buf[k].mapped /\ ~new.buf[k].new
           /\ new.buf[k].uptodate <=> pg.buf[k].uptodate
      /\ \A u \in fp!Units :
           new.data[u] = IF u \in newsize .. 4 - 1 THEN 0
                         ELSE IF u \div 2 = b /\ ~Valid(pg, b)
                         THEN fp!DataOf(fp!Lookup(b), u) ELSE pg.data[u]
    BY <1>0, <1>1, <1>2, PartialBlockEffect
<1> HIDE DEF new
<1>5. \A u \in fp!Units : Cut(newsize)[u] = IF u < newsize THEN Target[u] ELSE 0
    BY DEF Cut
<1>6. \A k \in fp!Blocks \ {b} :
        \/ newsize = 3 /\ k = 0 /\ new.buf[k] = pg.buf[k]
        \/ /\ newsize = 1 /\ k = 1
           /\ new.buf[k].delta = None /\ ~new.buf[k].mapped /\ ~new.buf[k].new
           /\ new.buf[k].uptodate <=> pg.buf[k].uptodate
    <2>1. CASE newsize = 1
        BY <1>0, <1>4, <2>1
    <2>2. CASE newsize = 3
        BY <1>0, <1>4, <2>2
    <2>3. QED BY <2>1, <2>2
<1>7. \A k \in fp!Blocks : (Valid(pg, k) => Valid(new, k)) /\ (k # b /\ Valid(new, k) => Valid(pg, k))
    BY <1>0, <1>4, <1>6 DEF Valid
<1>8. Holds(new, Cut(newsize))
    <2> SUFFICES ASSUME NEW u \in fp!Units, Valid(new, u \div 2)
                 PROVE  new.data[u] = Cut(newsize)[u]
        BY DEF Holds
    <2>0. u \in newsize .. 4 - 1 <=> ~(u < newsize)
        BY <1>0
    <2>1. CASE ~(u < newsize)
        BY <1>4, <1>5, <2>0, <2>1
    <2>2. CASE u < newsize
        <3>1. Cut(newsize)[u] = Target[u]
            BY <1>5, <2>2
        <3>2. CASE Valid(pg, u \div 2)
            <4>1. new.data[u] = pg.data[u]
                BY <1>4, <2>0, <2>2, <3>2
            <4>2. QED BY <1>1, <3>1, <3>2, <4>1 DEF Sound, Holds
        <3>3. CASE ~Valid(pg, u \div 2)
            <4>1. u \div 2 = b
                BY <1>0, <1>7, <3>3
            <4>2. QED BY <1>4, <2>0, <2>2, <3>1, <3>3, <4>1
        <3>4. QED BY <3>2, <3>3
    <2>3. QED BY <2>1, <2>2
<1>9. Unmapped(new, Risky)
    <2> SUFFICES ASSUME NEW k \in fp!Blocks, new.buf[k].uptodate, ~new.buf[k].mapped,
                        ~new.uptodate \/ new.buf[k].delta # None \/ k \in Risky,
                        NEW u \in fp!Units, u \div 2 = k
                 PROVE  new.data[u] = 0
        BY DEF Unmapped, Blank
    <2>1. k \in fp!Blocks \ {b}
        BY <1>4
    <2>2. CASE newsize = 1 /\ k = 1
        <3>1. u \in newsize .. 4 - 1
            BY <1>0, <2>2
        <3>2. QED BY <1>4, <3>1
    <2>3. CASE newsize = 3 /\ k = 0 /\ new.buf[k] = pg.buf[k]
        <3>1. Blank(pg, k)
            BY <1>1, <1>4, <2>3 DEF Sound, Unmapped
        <3>2. u < newsize /\ ~(u \in newsize .. 4 - 1) /\ k # b
            BY <1>0, <2>1, <2>3
        <3>3. new.data[u] = pg.data[u]
            BY <1>4, <3>2
        <3>4. QED BY <3>1, <3>3 DEF Blank
    <2>4. QED BY <1>6, <2>1, <2>2, <2>3
<1>10. Addressed(new, Found)
    <2> SUFFICES ASSUME NEW k \in fp!Blocks, new.buf[k].mapped, ~Valid(new, k), ~new.buf[k].new
                 PROVE  Found[k] # fp!Hole /\ new.buffers
        BY DEF Addressed
    <2>1. k \in fp!Blocks \ {b}
        BY <1>4 DEF Valid
    <2>2. new.buf[k] = pg.buf[k] /\ ~Valid(pg, k)
        BY <1>6, <1>7, <2>1
    <2>3. QED BY <1>1, <1>4, <2>2 DEF Sound, Addressed
<1>11. Fresh(new)
    BY <1>1, <1>4, <1>6 DEF Fresh
<1>12. \A k \in fp!Blocks : k >= fp!BlocksIn(newsize) => ~new.buf[k].mapped \/ Valid(new, k)
    <2>1. CASE newsize = 1
        BY <1>0, <1>6, <2>1
    <2>2. CASE newsize = 3
        BY <1>0, <2>2
    <2>3. QED BY <2>1, <2>2
<1>13. \A k \in Risky : Valid(new, k) /\ new.buffers
    BY <1>1, <1>4, <1>7 DEF Risky, Shown
<1>14. ASSUME NEW u \in fp!Units, u \div 2 < fp!BlocksIn(newsize), Base[u] # Cut(newsize)[u]
       PROVE  new.buf[u \div 2].delta = fp!slot
    <2>1. CASE u \div 2 = b
        BY <1>4, <2>1
    <2>2. CASE u \div 2 # b
        <3>1. newsize = 3 /\ u \div 2 = 0 /\ u \in {0, 1}
            BY <1>0, <1>14, <2>2
        <3>2. Cut(newsize)[u] = Target[u]
            BY <1>5, <3>1
        <3>3. u \div 2 \in DirtyNow /\ u \div 2 \in fp!Blocks \ {b}
            BY <1>0, <1>14, <2>2, <3>2
        <3>4. new.buf[u \div 2] = pg.buf[u \div 2]
            BY <1>6, <3>1, <3>3
        <3>5. QED BY <1>1, <3>3, <3>4
    <2>3. QED BY <2>1, <2>2
<1>15. QED BY <1>3, <1>4, <1>8, <1>9, <1>10, <1>11, <1>12, <1>13, <1>14 DEF TruncatedPage, Sound, new

(* The zeroing of the rest of the last block keeps the data invariant       *)
(* (kernel/filemap_blocklib.c:439).                                         *)
LEMMA DataTruncatePartial ==
    ASSUME PagesInv, PagesInv', DataInv, NEW newsize \in 0 .. 4, fp!TruncatePartial(newsize)
    PROVE  DataInv'
<1> DEFINE b == fp!BlockOf(newsize)
           was == fp!Forked(0)
           pg == fp!WithBuffers(was)
           isHole == ~pg.buf[b].mapped /\ fp!Lookup(b) = fp!Hole
           skip == \/ newsize > psize \/ newsize % 4 = 0
                   \/ (newsize % 2 = 0 /\ live = NoPage /\ ~fill.on)
<1>0. /\ fp!slot \in fp!Slots
      /\ PTyped /\ Cache /\ Deltas /\ Device /\ psize \in 0 .. 4 /\ psize \in Int
      /\ newsize \in Int
    BY Types DEF PagesInv
<1>1. /\ op = fp!Idle /\ kind = "file" /\ newsize # psize
      /\ op' = [pc |-> "size", from |-> psize, to |-> newsize]
      /\ UNCHANGED <<kind, psize, holes, pdtree, fill, pflush, pdelta, idata, file, snap>>
    BY DEF fp!TruncatePartial, fp!CanCall
<1>2. /\ skip => UNCHANGED <<pages, live, forked, unpinned>>
      /\ ~skip =>
          /\ ~fp!PageLocked
          /\ IF newsize % 2 = 0 THEN fp!Replace(0, fp!BoundaryBlock(was, newsize))
             ELSE IF ~isHole THEN fp!Replace(0, fp!PartialBlock(pg, newsize, b))
             ELSE IF b = 0 THEN fp!Replace(0, fp!BoundaryBlock(pg, newsize))
             ELSE fp!Replace(0, pg)
          /\ unpinned' = ((unpinned \/ (isHole /\ fp!MustFork(0))) /\ ~pages'[live'].dirty)
    BY DEF fp!TruncatePartial
<1>3. /\ Before(was) /\ Before(pg)
      /\ \A u \in fp!Units : /\ Target[u] = file.data[u]
                             /\ u \div 2 \notin DirtyNow => Base[u] = Target[u]
    BY <1>1, BeforeTruncate
<1>4. /\ Writable(pg, fp!slot) /\ pg.buffers
      /\ live # NoPage /\ ~fp!MustFork(0) => (pg.dirty <=> pages[live].dirty)
      /\ \A u \in fp!Units : ~Valid(pg, u \div 2) =>
           fp!DataOf(fp!Lookup(u \div 2), u) = Target[u]
    BY <1>1, BufferedSound DEF Writable
<1>5. isHole => \A u \in fp!Units : u \div 2 = b /\ b \in fp!Blocks => Target[u] = 0
    BY <1>1, HoleIsZero
<1>6. live # NoPage /\ ~fp!MustFork(0) => was = pages[live]
    BY <1>1, ForkedSound
<1>7. newsize = 2 => b = 1
    BY BlocksAndUnits DEF fp!BlockOf
<1>8. newsize = 1 => b = 0 /\ b = newsize \div 2 /\ b \in fp!Blocks
    BY BlocksAndUnits DEF fp!BlockOf
<1>9. newsize = 3 => b = 1 /\ b = newsize \div 2 /\ b \in fp!Blocks
    BY BlocksAndUnits DEF fp!BlockOf
<1> HIDE DEF b, isHole, pg, was
<1>10. ASSUME NEW new, ~skip, newsize \in 1 .. 3, newsize < psize,
              TruncatedPage(new, newsize, Cut(newsize)), fp!Replace(0, new),
              \/ new.dirty \/ Risky = {}
              \/ isHole /\ (~fp!MustFork(0) /\ live # NoPage => (new.dirty <=> pages[live].dirty))
       PROVE  DataInv'
    <2>1. ~fill.on
        BY <1>2, <1>10 DEF fp!PageLocked
    <2>2. /\ live' # NoPage /\ pages'[live'] = new
        <3>1. Changeable(new, fp!slot)
            BY <1>10 DEF TruncatedPage
        <3>2. QED BY <1>0, <1>1, <1>10, <3>1, Replaces
    <2>3. unpinned' <=> (unpinned \/ (isHole /\ fp!MustFork(0))) /\ ~new.dirty
        BY <1>2, <1>10, <2>2
    <2>4. live = NoPage => Risky = {}
        BY DEF DataInv, NoStale
    <2>5. new.dirty \/ unpinned' \/ Risky = {}
          \/ (~fp!MustFork(0) /\ live # NoPage /\ ~pages[live].dirty /\ ~unpinned)
        BY <1>10, <2>3, <2>4
    <2>6. QED BY <1>1, <1>10, <2>1, <2>5, TruncateReplaces
<1>11. CASE skip
    <2>1. UNCHANGED <<pages, live, forked, unpinned>>
        BY <1>2, <1>11
    <2>2. QED BY <1>1, <1>11, <2>1, TruncateSkips
<1>12. CASE ~skip
    <2>1. newsize \in {1, 2, 3} /\ newsize < psize
        <3>1. newsize % 4 # 0 /\ newsize < psize
            BY <1>0, <1>1, <1>12
        <3>2. newsize \in {0, 1, 2, 3, 4} /\ 0 % 4 = 0 /\ 4 % 4 = 0
            OBVIOUS
        <3>3. QED BY <3>1, <3>2
    <2>2. newsize \in 1 .. 3
        BY <2>1
    <2>3. CASE newsize = 2
        <3> DEFINE new == fp!BoundaryBlock(was, newsize)
        <3>1. fp!Replace(0, new)
            <4>1. newsize % 2 = 0
                BY <2>3
            <4>2. QED BY <1>2, <1>12, <4>1
        <3>2. TruncatedPage(new, newsize, Cut(newsize))
            BY <1>3, <2>3, BoundaryTruncates
        <3>3. new.dirty \/ Risky = {}
            <4>1. was.buffers => new.dirty
                BY <1>0, <1>3, BoundaryBlockEffect DEF Before
            <4>2. ~was.buffers => Risky = {}
                BY <1>3 DEF Before
            <4>3. QED BY <4>1, <4>2
        <3> HIDE DEF new
        <3>4. QED BY <1>10, <1>12, <2>1, <2>2, <3>1, <3>2, <3>3
    <2>4. CASE newsize \in {1, 3} /\ ~isHole
        <3> DEFINE new == fp!PartialBlock(pg, newsize, b)
        <3>1. fp!Replace(0, new)
            <4>1. newsize % 2 # 0
                BY <2>4
            <4>2. QED BY <1>2, <1>12, <2>4, <4>1
        <3>2. TruncatedPage(new, newsize, Cut(newsize)) /\ new.dirty
            BY <1>3, <1>4, <1>8, <1>9, <2>4, PartialTruncates
        <3> HIDE DEF new
        <3>3. QED BY <1>10, <1>12, <2>1, <2>2, <3>1, <3>2
    <2>5. CASE newsize = 1 /\ isHole
        <3> DEFINE new == fp!BoundaryBlock(pg, newsize)
        <3>1. fp!Replace(0, new)
            <4>1. newsize % 2 # 0
                BY <2>5
            <4>2. QED BY <1>2, <1>8, <1>12, <2>5, <4>1
        <3>2. Target[1] = 0
            BY <1>5, <1>8, <2>5, BlocksAndUnits
        <3>3. TruncatedPage(new, newsize, Cut(newsize))
            BY <1>3, <2>5, <3>2, BoundaryTruncates
        <3>4. new.dirty
            BY <1>0, <1>3, <1>4, BoundaryBlockEffect DEF Before
        <3> HIDE DEF new
        <3>5. QED BY <1>10, <1>12, <2>1, <2>2, <3>1, <3>3, <3>4
    <2>6. CASE newsize = 3 /\ isHole
        <3>1. fp!Replace(0, pg)
            <4>1. newsize % 2 # 0 /\ b # 0
                BY <1>9, <2>6
            <4>2. QED BY <1>2, <1>12, <2>6, <4>1
        <3>2. Target[3] = 0
            BY <1>5, <1>9, <2>6, BlocksAndUnits
        <3>3. \A u \in fp!Units : Cut(newsize)[u] = Target[u]
            BY <1>3, <2>6, <3>2, BlocksAndUnits DEF Cut
        <3>4. Sound(pg, Cut(newsize), Risky, Found)
            BY <1>3, <3>3 DEF Before, Sound, Holds
        <3>5. TruncatedPage(pg, newsize, Cut(newsize))
            <4>1. /\ Changeable(pg, fp!slot) /\ Fresh(pg)
                  /\ \A k \in fp!Blocks : k \in DirtyNow <=> pg.buf[k].delta = fp!slot
                  /\ \A k \in Risky : Valid(pg, k) /\ pg.buffers
                BY <1>3 DEF Before
            <4>2. \A k \in fp!Blocks : ~(k >= fp!BlocksIn(newsize))
                BY <2>6, BlocksAndUnits
            <4>3. \A u \in fp!Units : Base[u] # Cut(newsize)[u] =>
                    u \div 2 \in DirtyNow /\ u \div 2 \in fp!Blocks
                BY <1>3, <3>3, BlocksAndUnits
            <4>4. QED BY <3>4, <4>1, <4>2, <4>3 DEF TruncatedPage
        <3>6. QED BY <1>4, <1>10, <1>12, <2>1, <2>2, <2>6, <3>1, <3>5
    <2>7. QED BY <2>1, <2>3, <2>4, <2>5, <2>6
<1>13. QED BY <1>11, <1>12
==============================================================================
