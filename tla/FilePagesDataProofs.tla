------------------------- MODULE FilePagesDataProofs -------------------------
(* Proofs about the data of FilePages, second part: truncation, the readers *)
(* of pages and the backend keep the invariant, so that a read gives what   *)
(* was written and a flush leaves the file as it was at the end of its      *)
(* delta.                                                                   *)
EXTENDS FilePagesCallProofs

(* i_size of a truncation is behind both ends of it. *)
LEMMA CutSizes ==
    ASSUME PTyped, Truncating, fp!TruncateSize
    PROVE  /\ kind = "file" /\ op.from # op.to /\ op.from = psize /\ psize' = op.to
           /\ op'.pc = "hole" /\ op'.from = op.from /\ op'.to = op.to
           /\ Lim = op.to /\ Lim' = op.to /\ Sz = psize /\ Sz' >= Sz
           /\ Sz \in 0 .. 4 /\ Sz' \in 0 .. 4 /\ fp!BlocksIn(Sz') >= fp!BlocksIn(Sz)
<1>1. /\ op.pc = "size" /\ psize' = op.to /\ op' = [op EXCEPT !.pc = "hole"]
    BY DEF fp!TruncateSize
<1>2. /\ op.from \in 0 .. 4 /\ op.to \in 0 .. 4 /\ psize \in 0 .. 4 /\ op \in OpType
    BY Types DEF PTyped
<1>3. op'.pc = "hole" /\ op'.from = op.from /\ op'.to = op.to
    BY <1>1, <1>2 DEF OpType
<1>4. kind = "file" /\ op.from # op.to /\ op.from = psize
    BY <1>1 DEF Truncating, Cutting
<1>5. Lim = op.to /\ Lim' = op.to /\ Sz = psize
    BY <1>1, <1>3 DEF Lim, Sz, Cutting
<1>6. Sz' = fp!Max({psize, op.to})
    BY <1>1, <1>3, <1>4 DEF Sz
<1>7. psize \in Int /\ op.to \in Int
    BY <1>2
<1>8. fp!Max({psize, op.to}) \in {psize, op.to} /\ fp!Max({psize, op.to}) >= psize
    BY <1>7, MinOfTwo
<1>9. Sz \in 0 .. 4 /\ Sz' \in 0 .. 4 /\ Sz' >= Sz
    BY <1>2, <1>5, <1>6, <1>8
<1>10. fp!BlocksIn(Sz') >= fp!BlocksIn(Sz)
    BY <1>9 DEF fp!BlocksIn
<1>11. QED BY <1>1, <1>3, <1>4, <1>5, <1>9, <1>10

(* The new i_size and the removal of the pages behind it keep the data      *)
(* invariant (kernel/filemap_blocklib.c:633).                               *)
LEMMA DataTruncateSize ==
    ASSUME PagesInv, PagesInv', DataInv, fp!TruncateSize
    PROVE  DataInv'
<1>0. /\ fp!slot \in fp!Slots /\ fp!slot' = fp!slot /\ fp!old' = fp!old /\ 0 \in fp!Blocks
      /\ PTyped /\ Cache /\ Flushed /\ Below /\ LivePage /\ NoStale /\ Filling /\ Truncating
    <2>1. pdelta' = pdelta /\ PTyped /\ 0 \in fp!Blocks
        BY BlocksAndUnits DEF fp!TruncateSize, PagesInv
    <2>2. fp!slot' = fp!slot /\ fp!old' = fp!old /\ fp!slot \in fp!Slots
        BY <2>1, OldSlot, SlotsTyped
    <2>3. QED BY <2>1, <2>2 DEF PagesInv, DataInv
<1>1. /\ op.pc = "size" /\ (op.to = 0 => ~fp!PageLocked)
      /\ IF op.to = 0 /\ live # NoPage
         THEN /\ live' = NoPage /\ unpinned' = FALSE
              /\ fp!bufferfork_to_invalidate \/ fp!DropPage
         ELSE UNCHANGED <<pages, live, forked, unpinned>>
      /\ UNCHANGED <<kind, holes, pdtree, fill, pflush, pdelta, idata, file, snap>>
    BY DEF fp!TruncateSize
<1>2. /\ kind = "file" /\ op.from # op.to /\ op.from = psize /\ psize' = op.to
      /\ op'.pc = "hole" /\ op'.from = op.from /\ op'.to = op.to
      /\ Lim = op.to /\ Lim' = op.to /\ Sz = psize /\ Sz' >= Sz
      /\ Sz \in 0 .. 4 /\ Sz' \in 0 .. 4 /\ fp!BlocksIn(Sz') >= fp!BlocksIn(Sz)
    BY <1>0, CutSizes
<1>3. Base' = Base /\ Found' = Found /\ Shown' = Shown /\ Target' = Target
    BY <1>1, <1>2, SameBelow, <1>0
<1>4. FillData' = FillData
    BY <1>1 DEF FillData, fp!Filled, fp!IsHole, fp!Hole, fp!NewPage, fp!Slots, fp!Units, fp!Blocks,
           fp!BlockOf, fp!BlocksIn, fp!DataOf, fp!EmptyBuffer, fp!None, fp!Junk
<1>5. op.to = 0 => ~fill.on
    BY <1>1 DEF fp!PageLocked
<1>6. file \in [data : [fp!Units -> Unit], ops : Nat]
    BY <1>0 DEF Flushed
<1>7. Filling'
    <2>1. op.to \in 0 .. 4
        BY <1>0, Types
    <2>2. QED BY <1>0, <1>1, <1>2, <1>3, <1>4, <1>5, <2>1 DEF Filling
<1>8. Writing'
    BY <1>2 DEF Writing
<1>9. ASSUME DirtyNow' \subseteq DirtyNow, DirtyNow' = DirtyNow \/ op.to = 0
      PROVE  Below'
    <2>1. \A u \in fp!Units : u \div 2 >= fp!BlocksIn(Sz') => Base[u] = 0
        <3> SUFFICES ASSUME NEW u \in fp!Units, u \div 2 >= fp!BlocksIn(Sz')
                     PROVE  Base[u] = 0
            OBVIOUS
        <3>1. u \div 2 \in Int /\ fp!BlocksIn(Sz) \in Int /\ fp!BlocksIn(Sz') \in Int
            BY <1>2, BlocksAndUnits DEF fp!BlocksIn
        <3>2. u \div 2 >= fp!BlocksIn(Sz)
            BY <1>2, <3>1
        <3>3. QED BY <1>0, <3>2 DEF Below
    <2>2. \A u \in fp!Units : u >= Sz' => file.data[u] = 0
        <3>1. \A u \in fp!Units : u >= Sz' => u >= Sz
            BY <1>2, BlocksAndUnits
        <3>2. QED BY <1>0, <3>1 DEF Below
    <2>3. pflush # "idle" => \/ fp!BlocksIn(idata) <= fp!BlocksIn(Sz')
                             \/ holes[fp!slot] <= fp!BlocksIn(Sz')
        <3>1. /\ fp!BlocksIn(Sz) \in Int /\ fp!BlocksIn(Sz') \in Int
              /\ fp!BlocksIn(idata) \in Int /\ holes[fp!slot] \in Int
            <4>1. idata \in 0 .. 4 /\ holes[fp!slot] \in 0 .. 2
                BY <1>0, Types
            <4>2. QED BY <1>2, <4>1 DEF fp!BlocksIn
        <3>2. QED BY <1>0, <1>2, <3>1 DEF Below
    <2>4. \A u \in fp!Units : u \div 2 \notin DirtyNow' /\ u \div 2 < fp!BlocksIn(Lim) => Base[u] = Target[u]
        <3>1. CASE DirtyNow' = DirtyNow
            BY <1>0, <3>1 DEF Below
        <3>2. CASE op.to = 0
            <4>1. \A u \in fp!Units : ~(u \div 2 < fp!BlocksIn(Lim))
                BY <1>2, <3>2, BlocksAndUnits
            <4>2. QED BY <4>1
        <3>3. QED BY <1>9, <3>1, <3>2
    <2>5. QED BY ONLY <1>0, <1>1, <1>2, <1>3, <2>1, <2>2, <2>3, <2>4 DEF Below, fp!Units, fp!BlocksIn
<1>10. CASE ~(op.to = 0 /\ live # NoPage)
    <2>1. UNCHANGED <<pages, live, forked, unpinned>>
        BY <1>1, <1>10
    <2>2. /\ Flushed' /\ SentBlocks' = SentBlocks
        <3>1. \A p \in DOMAIN pages' : p \in DOMAIN pages /\ SameSends(pages'[p], pages[p])
            BY <2>1 DEF SameSends
        <3>2. QED BY <1>0, <1>1, <1>6, <2>1, <3>1, SendsKept
    <2>3. /\ Risky' = Risky /\ DirtyNow' = DirtyNow /\ OthersSend' = OthersSend
        BY <1>0, <1>1, <1>3, <2>1, <2>2
        DEF DirtyNow, OthersSend, Sends, Risky, fp!Blocks, fp!BlocksIn
    <2>4. Below'
        BY <1>9, <2>3
    <2>5. LivePage'
        BY <1>0, <1>1, <1>2, <1>3, <1>10, <2>1, <2>3 DEF LivePage, Holds, Unmapped, Addressed, Fresh,
           AnyDelta, Valid, Blank, fp!Units, fp!Blocks, fp!Hole, None
    <2>6. NoStale'
        BY <1>0, <2>1, <2>3 DEF NoStale, Valid
    <2>7. Truncating'
        <3>1. /\ op.to = 0 => live = NoPage
              /\ op.to # 0 /\ 0 < op.to /\ op.to < op.from /\ live # NoPage =>
                  \A b \in fp!Blocks : b >= fp!BlocksIn(op.to) =>
                    ~pages[live].buf[b].mapped \/ Valid(pages[live], b)
            BY <1>0, <1>1, <1>10 DEF Truncating, Cutting
        <3>2. 0 < op.to => op.to # 0
            OBVIOUS
        <3>3. QED BY <1>1, <1>2, <2>1, <3>1, <3>2 DEF Truncating, Cutting, Valid, fp!Blocks, fp!BlocksIn
    <2>8. QED BY <1>7, <1>8, <2>2, <2>4, <2>5, <2>6, <2>7 DEF DataInv
<1>11. CASE op.to = 0 /\ live # NoPage
    <2>1. live' = NoPage /\ live \in DOMAIN pages /\ PageOK(pages[live])
        BY <1>0, <1>1, <1>11 DEF Cache
    <2>2. Flushed' /\ SentBlocks' = SentBlocks
        <3>1. CASE fp!bufferfork_to_invalidate
            <4>1. pages' = pages
                BY <3>1 DEF fp!bufferfork_to_invalidate
            <4>2. \A p \in DOMAIN pages' : p \in DOMAIN pages /\ SameSends(pages'[p], pages[p])
                BY <4>1 DEF SameSends
            <4>3. QED BY <1>0, <1>1, <1>6, <4>1, <4>2, SendsKept
        <3>2. CASE fp!DropPage
            <4>1. ~fp!need_fork(pages[live], 0, fp!slot) /\ pages' = [p \in forked |-> pages[p]]
                BY <3>2 DEF fp!DropPage
            <4>2. Changeable(pages[live], fp!slot)
                BY <1>0, <2>1, <4>1, NeedFork
            <4>3. QED BY <1>1, <1>6, <1>11, <2>1, <4>1, <4>2, DropSends
        <3>3. QED BY <1>1, <1>11, <3>1, <3>2
    <2>3. DirtyNow' = {}
        BY <2>1 DEF DirtyNow
    <2>4. Below'
        BY <1>9, <1>11, <2>3
    <2>5. Risky' = {}
        <3>1. \A b \in fp!Blocks : ~(b < fp!BlocksIn(Lim))
            BY <1>2, <1>11, BlocksAndUnits
        <3>2. Shown' = {}
            BY <1>3, <3>1 DEF Shown
        <3>3. QED BY <3>2 DEF Risky
    <2>6. LivePage' /\ NoStale'
        BY <2>1, <2>5 DEF LivePage, NoStale
    <2>7. Truncating'
        BY <1>1, <1>2, <2>1 DEF Truncating, Cutting
    <2>8. QED BY <1>7, <1>8, <2>2, <2>4, <2>6, <2>7 DEF DataInv
<1>12. QED BY <1>10, <1>11

(* tux3_add_truncate_hole(): a lookup finds what it found before the new    *)
(* end of the file.                                                         *)
LEMMA HoleAdded ==
    ASSUME PTyped, psize = op.to,
           holes' = IF op.to < op.from THEN fp!AddHole(holes, op.to) ELSE holes,
           UNCHANGED <<pdtree, pdelta>>
    PROVE  /\ holes'[fp!old] = holes[fp!old]
           /\ \A b \in fp!Blocks :
                /\ b < holes'[fp!slot] => b < holes[fp!slot]
                /\ b < fp!BlocksIn(op.to) =>
                     /\ b < holes'[fp!slot] <=> b < holes[fp!slot]
                     /\ fp!IsHole(holes', b) <=> fp!IsHole(holes, b)
                /\ fp!IsHole(holes, b) => fp!IsHole(holes', b)
           /\ op.to < op.from => holes'[fp!slot] <= fp!BlocksIn(op.to)
           /\ ~(op.to < op.from) => holes' = holes
<1>1. /\ fp!slot \in fp!Slots /\ fp!old \in fp!Slots /\ fp!slot # fp!old
      /\ fp!Slots = {fp!slot, fp!old}
      /\ holes \in [fp!Slots -> 0 .. 2] /\ holes[fp!slot] \in Int /\ holes[fp!old] \in Int
      /\ op.to \in 0 .. 4
    <2>1. holes[fp!slot] \in 0 .. 2 /\ holes[fp!old] \in 0 .. 2
        BY Types
    <2>2. holes \in [fp!Slots -> 0 .. 2]
        BY DEF PTyped
    <2>3. QED BY <2>1, <2>2, Types
<1>2. \A b \in fp!Blocks : b \in Int
    BY BlocksAndUnits
<1>3. fp!BlocksIn(op.to) \in Int
    BY <1>1 DEF fp!BlocksIn
<1>4. \A hs, b : fp!IsHole(hs, b) <=> hs[fp!slot] <= b \/ hs[fp!old] <= b
    BY <1>1 DEF fp!IsHole
<1>5. CASE ~(op.to < op.from)
    <2>1. holes' = holes
        BY <1>5
    <2>2. QED BY <1>5, <2>1
<1>6. CASE op.to < op.from
    <2> DEFINE m == fp!Min({holes[fp!slot], fp!BlocksIn(op.to)})
    <2>1. /\ m \in {holes[fp!slot], fp!BlocksIn(op.to)}
          /\ m <= holes[fp!slot] /\ m <= fp!BlocksIn(op.to)
        BY <1>1, <1>3, MinOfTwo
    <2>2. holes' = [holes EXCEPT ![fp!slot] = m]
        BY <1>6 DEF fp!AddHole
    <2> HIDE DEF m
    <2>3. holes'[fp!slot] = m /\ holes'[fp!old] = holes[fp!old]
        BY <1>1, <2>2
    <2>4. m \in Int
        BY <1>1, <1>3, <2>1
    <2>5. ASSUME NEW b \in fp!Blocks
          PROVE  /\ b < m => b < holes[fp!slot]
                 /\ b < fp!BlocksIn(op.to) => (b < m <=> b < holes[fp!slot])
                 /\ holes[fp!slot] <= b => m <= b
                 /\ b < fp!BlocksIn(op.to) => (m <= b <=> holes[fp!slot] <= b)
        BY <1>1, <1>2, <1>3, <2>1, <2>4
    <2>6. QED BY <1>4, <1>6, <2>1, <2>3, <2>5
<1>7. QED BY <1>5, <1>6

(* The data of a page that a reader filled.                                 *)
LEMMA FilledIs ==
    ASSUME NEW isize, NEW c0, NEW c1, NEW u \in fp!Units
    PROVE  fp!Filled(isize, c0, c1).data[u]
             = IF u \div 2 >= fp!BlocksIn(isize) THEN 0
               ELSE fp!DataOf(IF u \div 2 = 0 THEN c0 ELSE c1, u)
BY DEF fp!Filled, fp!NewPage, fp!BlockOf

(* tux3_truncate() adding the hole extent keeps the data invariant          *)
(* (kernel/inode.c:698).                                                    *)
LEMMA DataTruncateHole ==
    ASSUME PagesInv, PagesInv', DataInv, fp!TruncateHole
    PROVE  DataInv'
<1>1. /\ op.pc = "hole" /\ op' = fp!Idle
      /\ holes' = (IF op.to < op.from THEN fp!AddHole(holes, op.to) ELSE holes)
      /\ file' = [file EXCEPT !.data = [u \in fp!Units |-> IF u < op.to THEN @[u] ELSE 0],
                              !.ops = @ + 1]
      /\ UNCHANGED <<kind, pages, live, forked, psize, pdtree, fill, pflush, pdelta, idata, snap,
                     unpinned>>
    BY DEF fp!TruncateHole
<1>0. /\ fp!slot \in fp!Slots /\ fp!slot' = fp!slot /\ fp!old' = fp!old
      /\ PTyped /\ Cache /\ Flushed /\ Below /\ LivePage /\ NoStale /\ Filling /\ Truncating
      /\ op.from \in 0 .. 4 /\ op.to \in 0 .. 4 /\ psize \in 0 .. 4 /\ holes[fp!slot] \in Int
    <2>1. pdelta' = pdelta /\ PTyped
        BY <1>1 DEF PagesInv
    <2>2. fp!slot' = fp!slot /\ fp!old' = fp!old /\ fp!slot \in fp!Slots
        BY <2>1, OldSlot, SlotsTyped
    <2>3. /\ op.from \in 0 .. 4 /\ op.to \in 0 .. 4 /\ psize \in 0 .. 4
          /\ holes[fp!slot] \in 0 .. 2
        BY <2>1, Types
    <2>4. QED BY <2>1, <2>2, <2>3 DEF PagesInv, DataInv
<1>2. /\ kind = "file" /\ op.from # op.to /\ op.to = psize /\ (op.to = 0 => live = NoPage)
      /\ op'.pc = "idle" /\ Cutting /\ ~Cutting'
    BY <1>0, <1>1 DEF Truncating, Cutting, fp!Idle
<1>3. /\ Lim = op.to /\ Lim' = 4 /\ Sz' = op.to
      /\ Sz = IF op.from > op.to THEN op.from ELSE op.to
    <2>1. Lim = op.to /\ Lim' = 4
        BY <1>2 DEF Lim
    <2>2. Sz' = op.to /\ Sz = fp!Max({op.from, op.to})
        BY <1>1, <1>2 DEF Sz
    <2>3. op.from \in Int /\ op.to \in Int
        BY <1>0
    <2>4. /\ fp!Max({op.from, op.to}) \in {op.from, op.to}
          /\ fp!Max({op.from, op.to}) >= op.from /\ fp!Max({op.from, op.to}) >= op.to
        BY <2>3, MinOfTwo
    <2>5. QED BY <2>1, <2>2, <2>3, <2>4
<1>4. /\ holes'[fp!old] = holes[fp!old]
      /\ \A b \in fp!Blocks :
           /\ b < holes'[fp!slot] => b < holes[fp!slot]
           /\ b < fp!BlocksIn(op.to) =>
                /\ b < holes'[fp!slot] <=> b < holes[fp!slot]
                /\ fp!IsHole(holes', b) <=> fp!IsHole(holes, b)
           /\ fp!IsHole(holes, b) => fp!IsHole(holes', b)
      /\ op.to < op.from => holes'[fp!slot] <= fp!BlocksIn(op.to)
      /\ ~(op.to < op.from) => holes' = holes
    BY <1>0, <1>1, <1>2, HoleAdded
<1>5. /\ file' \in [data : [fp!Units -> Unit], ops : Nat]
      /\ \A u \in fp!Units : file'.data[u] = IF u < op.to THEN file.data[u] ELSE 0
    <2>1. file \in [data : [fp!Units -> Unit], ops : Nat]
        BY <1>0 DEF Flushed
    <2>2. file.ops + 1 \in Nat /\ 0 \in Unit
        BY <2>1 DEF Unit
    <2>3. QED BY ONLY <1>1, <2>1, <2>2
<1>6. \A u \in fp!Units : /\ u \div 2 \in fp!Blocks /\ u \div 2 \in Int /\ u \in Int
                          /\ u \div 2 < fp!BlocksIn(Lim')
                          /\ (u \div 2 >= fp!BlocksIn(op.to) => u >= op.to)
    <2>1. \A u \in fp!Units : u \div 2 < fp!BlocksIn(4) /\ u \div 2 \in fp!Blocks
                              /\ u \div 2 \in Int /\ u \in Int
        BY BlocksAndUnits
    <2>2. ASSUME NEW u \in fp!Units, u \div 2 >= fp!BlocksIn(op.to)
          PROVE  u >= op.to
        <3>1. op.to \in {0, 1, 2, 3, 4} /\ u \in {0, 1, 2, 3}
            BY <1>0, BlocksAndUnits
        <3>2. QED BY <2>2, <3>1, BlocksAndUnits
    <2>3. QED BY <1>3, <2>1, <2>2
<1>7. \A u \in fp!Units : Target'[u] = Target[u] /\ file'.data[u] = Target[u]
    <2>1. \A u \in fp!Units : Target[u] = IF u < op.to THEN file.data[u] ELSE 0
        BY <1>3 DEF Target
    <2>2. \A u \in fp!Units : Target'[u] = file'.data[u]
        BY <1>3, BlocksAndUnits DEF Target
    <2>3. QED BY <1>5, <2>1, <2>2
<1>8. /\ Flushed' /\ SentBlocks' = SentBlocks
    <2>1. \A p \in DOMAIN pages' : p \in DOMAIN pages /\ SameSends(pages'[p], pages[p])
        BY <1>1 DEF SameSends
    <2>2. QED BY <1>0, <1>1, <1>4, <1>5, <2>1, SendsKept
<1>9. DirtyNow' = DirtyNow /\ OthersSend' = OthersSend
    BY <1>0, <1>1 DEF DirtyNow, OthersSend, Sends, fp!Blocks, fp!BlocksIn
<1>10. Risky' \subseteq Risky
    <2> SUFFICES ASSUME NEW b \in Risky' PROVE b \in Risky
        OBVIOUS
    <2>1. b \in fp!Blocks /\ b \in SentBlocks /\ b < holes'[fp!slot]
        BY <1>0, <1>8 DEF Risky, Shown, fp!Blocks
    <2>2. b < holes[fp!slot]
        BY <1>4, <2>1
    <2>3. b < fp!BlocksIn(Sz)
        BY <2>1, <2>2, SentBelow
    <2>4. b < fp!BlocksIn(op.to)
        <3>1. CASE op.to < op.from
            <4>1. /\ holes'[fp!slot] \in Int /\ fp!BlocksIn(op.to) \in Int /\ b \in Int
                <5>1. holes'[fp!slot] \in 0 .. 2
                    BY <1>0, Types DEF PagesInv, PTyped
                <5>2. QED BY <1>0, <2>1, <5>1, BlocksAndUnits DEF fp!BlocksIn
            <4>2. QED BY <1>4, <2>1, <3>1, <4>1
        <3>2. CASE ~(op.to < op.from)
            <4>1. Sz = op.to
                BY <1>0, <1>3, <3>2
            <4>2. QED BY <2>3, <4>1
        <3>3. QED BY <3>1, <3>2
    <2>5. QED BY <1>3, <2>1, <2>2, <2>4 DEF Risky, Shown
<1>11. \A u \in fp!Units :
         Base'[u] = IF u \div 2 >= holes'[fp!slot] THEN 0 ELSE Durable[u]
    BY <1>0, <1>1 DEF Base, Durable, fp!DataOf, fp!Units, fp!Hole
<1>12. \A u \in fp!Units :
         /\ u \div 2 < fp!BlocksIn(op.to) => Base'[u] = Base[u]
         /\ ~(u \div 2 < fp!BlocksIn(op.to)) => Base'[u] = 0
    <2> SUFFICES ASSUME NEW u \in fp!Units
                 PROVE  /\ u \div 2 < fp!BlocksIn(op.to) => Base'[u] = Base[u]
                        /\ ~(u \div 2 < fp!BlocksIn(op.to)) => Base'[u] = 0
        OBVIOUS
    <2>1. Base[u] = IF u \div 2 >= holes[fp!slot] THEN 0 ELSE Durable[u]
        BY DEF Base
    <2>2. /\ holes'[fp!slot] \in Int /\ fp!BlocksIn(op.to) \in Int /\ u \div 2 \in Int
          /\ u \div 2 \in fp!Blocks
        <3>1. holes'[fp!slot] \in 0 .. 2
            BY <1>0, Types DEF PagesInv, PTyped
        <3>2. QED BY <1>0, <1>6, <3>1 DEF fp!BlocksIn
    <2>3. CASE u \div 2 < fp!BlocksIn(op.to)
        <3>1. u \div 2 >= holes'[fp!slot] <=> u \div 2 >= holes[fp!slot]
            BY <1>0, <1>4, <2>2, <2>3
        <3>2. QED BY <1>11, <2>1, <2>3, <3>1
    <2>4. CASE ~(u \div 2 < fp!BlocksIn(op.to))
        <3>1. CASE op.to < op.from
            <4>1. u \div 2 >= holes'[fp!slot]
                BY <1>4, <2>2, <2>4, <3>1
            <4>2. QED BY <1>11, <2>4, <4>1
        <3>2. CASE ~(op.to < op.from)
            <4>1. Sz = op.to /\ holes' = holes
                BY <1>0, <1>3, <1>4, <3>2
            <4>2. u \div 2 >= fp!BlocksIn(Sz)
                BY <2>2, <2>4, <4>1
            <4>3. Base[u] = 0
                BY <1>0, <4>2 DEF Below
            <4>4. QED BY <1>11, <2>1, <2>4, <4>1, <4>3
        <3>3. QED BY <3>1, <3>2
    <2>5. QED BY <2>3, <2>4
<1>13. \A u \in fp!Units : ~(u \div 2 < fp!BlocksIn(op.to)) => Target[u] = 0
    <2> SUFFICES ASSUME NEW u \in fp!Units, ~(u \div 2 < fp!BlocksIn(op.to))
                 PROVE  Target[u] = 0
        OBVIOUS
    <2>1. fp!BlocksIn(op.to) \in Int
        BY <1>0 DEF fp!BlocksIn
    <2>2. u >= op.to
        BY <1>6, <2>1
    <2>3. ~(u < Lim)
        BY <1>0, <1>3, <1>6, <2>2
    <2>4. QED BY <2>3 DEF Target
<1>14. Below'
    <2>1. ASSUME NEW u \in fp!Units, u \div 2 \notin DirtyNow'
          PROVE  Base'[u] = Target'[u]
        <3>1. CASE u \div 2 < fp!BlocksIn(op.to)
            BY <1>0, <1>3, <1>7, <1>9, <1>12, <2>1, <3>1 DEF Below
        <3>2. CASE ~(u \div 2 < fp!BlocksIn(op.to))
            BY <1>7, <1>12, <1>13, <3>2
        <3>3. QED BY <3>1, <3>2
    <2>2. ASSUME NEW u \in fp!Units, u \div 2 >= fp!BlocksIn(op.to)
          PROVE  Base'[u] = 0
        <3>1. ~(u \div 2 < fp!BlocksIn(op.to))
            <4>1. fp!BlocksIn(op.to) \in Int
                BY <1>0 DEF fp!BlocksIn
            <4>2. QED BY <1>6, <2>2, <4>1
        <3>2. QED BY <1>12, <3>1
    <2>3. \A u \in fp!Units : u >= op.to => file'.data[u] = 0
        <3>1. \A u \in fp!Units : u >= op.to => ~(u < op.to)
            BY <1>0, <1>6
        <3>2. QED BY <1>5, <3>1
    <2>4. pflush' # "idle" => \/ fp!BlocksIn(idata) <= fp!BlocksIn(op.to)
                              \/ holes'[fp!slot] <= fp!BlocksIn(op.to)
        <3>1. CASE op.to < op.from
            BY <1>4, <3>1
        <3>2. CASE ~(op.to < op.from)
            <4>1. Sz = op.to /\ holes' = holes
                BY <1>0, <1>3, <1>4, <3>2
            <4>2. QED BY <1>0, <1>1, <4>1 DEF Below
        <3>3. QED BY <3>1, <3>2
    <2>5. QED BY ONLY <1>0, <1>1, <1>3, <2>1, <2>2, <2>3, <2>4 DEF Below, fp!Units, fp!BlocksIn
<1>15. LivePage'
    <2> SUFFICES ASSUME live # NoPage
                 PROVE  /\ Holds(pages[live], Target') /\ Fresh(pages[live])
                        /\ Unmapped(pages[live], Risky') /\ Addressed(pages[live], Found')
                        /\ pflush # "idle" /\ AnyDelta(pages[live], fp!old) =>
                             \A u \in fp!Units : u >= idata => file'.data[u] = 0
        BY <1>0, <1>1 DEF LivePage, AnyDelta, fp!Blocks, fp!Units
    <2>1. /\ Holds(pages[live], Target) /\ Unmapped(pages[live], Risky)
          /\ Addressed(pages[live], Found) /\ Fresh(pages[live])
          /\ pflush # "idle" /\ AnyDelta(pages[live], fp!old) =>
               \A u \in fp!Units : u >= idata => file.data[u] = 0
        <3>1. op.pc # "write" /\ ~(op.pc = "size" /\ op.to = 0)
            BY <1>1
        <3>2. QED BY <1>0, <1>2, <3>1 DEF LivePage
    <2>2. Holds(pages[live], Target')
        BY <1>7, <2>1 DEF Holds
    <2>3. Unmapped(pages[live], Risky')
        BY <1>10, <2>1, FewerRisky
    <2>4. Addressed(pages[live], Found')
        <3> SUFFICES ASSUME NEW b \in fp!Blocks, pages[live].buf[b].mapped, ~Valid(pages[live], b),
                            ~pages[live].buf[b].new
                     PROVE  Found'[b] # fp!Hole /\ pages[live].buffers
            BY DEF Addressed
        <3>1. Found[b] # fp!Hole /\ pages[live].buffers
            BY <2>1 DEF Addressed
        <3>2. fp!IsHole(holes', b) <=> fp!IsHole(holes, b)
            <4>1. CASE op.to < op.from
                <5>1. op.to # 0 /\ 0 < op.to
                    BY <1>0, <1>2
                <5>2. b < fp!BlocksIn(op.to)
                    <6>1. ~(b >= fp!BlocksIn(op.to))
                        BY <1>0, <1>2, <4>1, <5>1 DEF Truncating
                    <6>2. b \in Int /\ fp!BlocksIn(op.to) \in Int
                        BY <1>0, BlocksAndUnits DEF fp!BlocksIn
                    <6>3. QED BY <6>1, <6>2
                <5>3. QED BY <1>4, <5>2
            <4>2. CASE ~(op.to < op.from)
                BY <1>4, <4>2
            <4>3. QED BY <4>1, <4>2
        <3>3. Found'[b] = Found[b]
            <4>1. Found[b] = IF fp!IsHole(holes, b) THEN fp!Hole ELSE pdtree[b]
                BY DEF Found, fp!Lookup
            <4>2. Found'[b] = IF fp!IsHole(holes', b) THEN fp!Hole ELSE pdtree[b]
                BY <1>1 DEF Found, fp!Lookup, fp!Blocks, fp!Hole, fp!IsHole, fp!Slots
            <4>3. QED BY <3>2, <4>1, <4>2
        <3>4. QED BY <3>1, <3>3
    <2>5. QED BY <1>5, <2>1, <2>2, <2>3, <2>4
<1>16. NoStale'
    BY <1>0, <1>1, <1>9, <1>10 DEF NoStale, Valid
<1>17. Filling'
    <2> SUFFICES ASSUME fill.on, NEW u \in fp!Units
                 PROVE  psize > 0 /\ FillData'[u] = Target'[u]
        BY <1>1, <1>2 DEF Filling, fp!Units
    <2>1. psize > 0 /\ FillData[u] = Target[u]
        BY <1>0, <1>1 DEF Filling
    <2> DEFINE content(hs) == IF fp!IsHole(hs, 1) THEN fp!Hole ELSE fill.found[2]
               data(hs) == IF u \div 2 >= fp!BlocksIn(fill.size) THEN 0
                           ELSE fp!DataOf(IF u \div 2 = 0 THEN fill.found[1] ELSE content(hs), u)
    <2>2. FillData[u] = data(holes)
        BY FilledIs DEF FillData
    <2>3. FillData'[u] = data(holes')
        <3>1. FillData' = fp!Filled(fill.size, fill.found[1], content(holes')).data
            BY <1>1 DEF FillData, fp!Filled, fp!IsHole, fp!Hole, fp!NewPage, fp!Slots, fp!Units,
               fp!Blocks, fp!BlockOf, fp!BlocksIn, fp!DataOf, fp!EmptyBuffer, fp!None, fp!Junk
        <3>2. QED BY <3>1, FilledIs
    <2>4. CASE u \div 2 = 0 \/ (fp!IsHole(holes', 1) <=> fp!IsHole(holes, 1))
        BY <1>7, <2>1, <2>2, <2>3, <2>4
    <2>5. CASE u \div 2 # 0 /\ ~(fp!IsHole(holes', 1) <=> fp!IsHole(holes, 1))
        <3>1. 1 \in fp!Blocks /\ u \div 2 = 1
            BY <1>6, <2>5, BlocksAndUnits
        <3>2. ~(u \div 2 < fp!BlocksIn(op.to)) /\ fp!IsHole(holes', 1)
            BY <1>4, <2>5, <3>1
        <3>3. data(holes') = 0
            BY <3>1, <3>2 DEF fp!DataOf
        <3>4. QED BY <1>7, <1>13, <2>1, <2>3, <3>2, <3>3
    <2>6. QED BY <2>4, <2>5
<1>18. Writing' /\ Truncating'
    BY <1>1, <1>2 DEF Writing, Truncating, Cutting, fp!Idle
<1>19. QED BY <1>8, <1>14, <1>15, <1>16, <1>17, <1>18 DEF DataInv

-----------------------------------------------------------------------------
(* Readers and vmscan *)

(* Nothing that the invariant is about has changed, but the fill. *)
LEMMA Undisturbed ==
    ASSUME PagesInv, PagesInv', DataInv,
           UNCHANGED <<kind, pages, live, forked, psize, holes, pdtree, op, pflush, pdelta, idata,
                       file, snap, unpinned>>
    PROVE  /\ Flushed' /\ Below' /\ LivePage' /\ NoStale' /\ Writing' /\ Truncating'
           /\ Target' = Target
<1>1. /\ fp!slot' = fp!slot /\ fp!old' = fp!old
      /\ Flushed /\ Below /\ LivePage /\ NoStale /\ Writing /\ Truncating
    BY OldSlot DEF DataInv
<1>2. Lim' = Lim /\ Sz' = Sz /\ Cutting' = Cutting
    BY DEF Lim, Sz, Cutting, fp!Max
<1>3. /\ Base' = Base /\ Found' = Found /\ Shown' = Shown /\ Target' = Target
    BY <1>1, <1>2, SameBelow
<1>4. Flushed' /\ SentBlocks' = SentBlocks
    <2>1. \A p \in DOMAIN pages' : p \in DOMAIN pages /\ SameSends(pages'[p], pages[p])
        BY DEF SameSends
    <2>2. file \in [data : [fp!Units -> Unit], ops : Nat]
        BY <1>1 DEF Flushed
    <2>3. QED BY <1>1, <2>1, <2>2, SendsKept
<1>5. Risky' = Risky /\ DirtyNow' = DirtyNow /\ OthersSend' = OthersSend
    BY <1>1, <1>3, <1>4 DEF Risky, DirtyNow, OthersSend, Sends, fp!Blocks, fp!BlocksIn
<1>6. Below'
    BY ONLY <1>1, <1>2, <1>3, <1>5, UNCHANGED <<file, pflush, idata, holes>>
    DEF Below, fp!Units, fp!BlocksIn
<1>7. LivePage'
    BY <1>1, <1>3, <1>5 DEF LivePage, Holds, Unmapped, Addressed, Fresh, AnyDelta, Valid, Blank,
                            fp!Units, fp!Blocks, fp!Hole, None
<1>8. NoStale'
    BY <1>1, <1>5 DEF NoStale, Valid
<1>9. Writing'
    BY <1>1 DEF Writing, Ready, Valid, Covers, Covered, fp!Units, fp!Blocks
<1>10. Truncating'
    BY <1>1 DEF Truncating, Cutting, Valid, fp!Blocks, fp!BlocksIn, fp!Slots, fp!Idle
<1>11. QED BY <1>3, <1>4, <1>6, <1>7, <1>8, <1>9, <1>10

(* Behind the end of the file. *)
LEMMA TargetBehind ==
    ASSUME PagesInv, DataInv, op.pc \notin {"write", "size"},
           NEW u \in fp!Units, ~(u \div 2 < fp!BlocksIn(psize))
    PROVE  Target[u] = 0
<1>1. /\ psize \in 0 .. 4 /\ op.pc \in {"idle", "hole"} /\ u \div 2 \in Int
      /\ fp!BlocksIn(psize) \in Int /\ Truncating /\ Below
    <2>1. psize \in 0 .. 4 /\ op.pc \in {"idle", "write", "size", "hole"}
        BY Types DEF PagesInv
    <2>2. QED BY <2>1, BlocksAndUnits DEF fp!BlocksIn, DataInv
<1>2. \/ Lim = psize
      \/ Lim = 4 /\ Sz = psize
    BY <1>1 DEF Lim, Cutting, Sz, Truncating
<1>3. u >= psize
    <2>1. psize \in {0, 1, 2, 3, 4} /\ u \in {0, 1, 2, 3}
        BY <1>1, BlocksAndUnits
    <2>2. QED BY <2>1, BlocksAndUnits
<1>4. CASE Lim = psize
    <2>1. ~(u < Lim)
        BY <1>1, <1>3, <1>4, BlocksAndUnits
    <2>2. QED BY <2>1 DEF Target
<1>5. CASE Lim = 4 /\ Sz = psize
    <2>1. file.data[u] = 0
        BY <1>1, <1>3, <1>5 DEF Below
    <2>2. QED BY <2>1 DEF Target
<1>6. QED BY <1>2, <1>4, <1>5

(* What a reader finds when the page cache has nothing. *)
LEMMA NothingCached ==
    ASSUME PagesInv, DataInv, live = NoPage, op.pc \notin {"write", "size"}, NEW u \in fp!Units
    PROVE  Target[u] = IF u \div 2 >= fp!BlocksIn(psize) THEN 0
                       ELSE fp!DataOf(fp!Lookup(u \div 2), u)
<1>1. /\ psize \in 0 .. 4 /\ op.pc \in {"idle", "hole"} /\ u \div 2 \in Int
      /\ fp!BlocksIn(psize) \in Int /\ Truncating
    <2>1. psize \in 0 .. 4 /\ op.pc \in {"idle", "write", "size", "hole"}
        BY Types DEF PagesInv
    <2>2. QED BY <2>1, BlocksAndUnits DEF fp!BlocksIn, DataInv
<1>2. CASE u \div 2 >= fp!BlocksIn(psize)
    <2>1. ~(u \div 2 < fp!BlocksIn(psize))
        BY <1>1, <1>2
    <2>2. QED BY <1>2, <2>1, TargetBehind
<1>3. CASE ~(u \div 2 >= fp!BlocksIn(psize))
    <2>1. u \div 2 < fp!BlocksIn(Lim)
        <3>1. op.pc = "hole" => Lim = psize
            BY <1>1 DEF Lim, Cutting, Truncating
        <3>2. op.pc # "hole" => Lim = 4
            BY <1>1 DEF Lim, Cutting
        <3>3. u \div 2 < fp!BlocksIn(4)
            BY BlocksAndUnits
        <3>4. QED BY <1>1, <1>3, <3>1, <3>2, <3>3
    <2>2. QED BY <1>3, <2>1, LookupIs
<1>4. QED BY <1>2, <1>3

(* A reader that looks up the addresses of a page keeps the data invariant: *)
(* the page is not in the radix tree yet (kernel/filemap.c:1068).           *)
LEMMA DataFillLookup ==
    ASSUME PagesInv, PagesInv', DataInv, fp!FillLookup, raced' = {}
    PROVE  DataInv'
<1>1. /\ live = NoPage /\ ~fp!PageLocked /\ psize > 2 /\ op.pc # "size"
      /\ ~fp!IsHole(holes, 0) /\ fp!Hole \notin {pdtree[0], pdtree[1]}
      /\ fill' = [on |-> TRUE, size |-> psize, found |-> <<pdtree[0], pdtree[1]>>]
      /\ UNCHANGED <<kind, pages, live, forked, psize, holes, pdtree, op, pflush, pdelta, idata,
                     file, snap, unpinned>>
    BY DEF fp!FillLookup, fp!RaceIf
<1>2. /\ Flushed' /\ Below' /\ LivePage' /\ NoStale' /\ Writing' /\ Truncating'
      /\ Target' = Target
    BY <1>1, Undisturbed
<1>3. \A u \in fp!Units : FillData'[u] = Target[u]
    <2> SUFFICES ASSUME NEW u \in fp!Units PROVE FillData'[u] = Target[u]
        OBVIOUS
    <2> DEFINE c1 == IF fp!IsHole(holes, 1) THEN fp!Hole ELSE pdtree[2 - 1]
    <2>0. fill'.size = psize /\ fill'.found[1] = pdtree[0] /\ fill'.found[2] = pdtree[1]
        BY <1>1
    <2>1. FillData' = fp!Filled(psize, pdtree[0], c1).data
        BY <1>1, <2>0 DEF FillData, fp!Filled, fp!IsHole, fp!Hole, fp!NewPage, fp!Slots, fp!Units,
           fp!Blocks, fp!BlockOf, fp!BlocksIn, fp!DataOf, fp!EmptyBuffer, fp!None, fp!Junk
    <2>2. FillData'[u] = IF u \div 2 >= fp!BlocksIn(psize) THEN 0
                         ELSE fp!DataOf(IF u \div 2 = 0 THEN pdtree[0] ELSE c1, u)
        BY <2>1, FilledIs
    <2>3. Target[u] = IF u \div 2 >= fp!BlocksIn(psize) THEN 0
                      ELSE fp!DataOf(fp!Lookup(u \div 2), u)
        <3>1. op.pc \notin {"write", "size"}
            BY <1>1 DEF fp!PageLocked
        <3>2. QED BY <1>1, <3>1, NothingCached
    <2>4. fp!Lookup(0) = pdtree[0] /\ fp!Lookup(1) = c1
        BY <1>1 DEF fp!Lookup
    <2>5. u \div 2 \in {0, 1}
        BY BlocksAndUnits
    <2>6. QED BY <2>2, <2>3, <2>4, <2>5
<1>4. Filling'
    <2>1. psize > 0
        <3>1. psize \in 0 .. 4
            BY Types DEF PagesInv
        <3>2. QED BY <1>1, <3>1
    <2>2. QED BY <1>1, <1>2, <1>3, <2>1 DEF Filling, fp!Units
<1>5. QED BY <1>2, <1>4 DEF DataInv

(* A reader puts a page into the radix tree that has none. *)
LEMMA PageFilled ==
    ASSUME PagesInv, PagesInv', DataInv, live = NoPage, op.pc # "write", psize > 0,
           NEW p \in Pages \ DOMAIN pages, NEW isize, NEW c0 \in Content, NEW c1 \in Content,
           live' = p, pages' = fp!Put(p, fp!Filled(isize, c0, c1)),
           ~(op.pc = "size" /\ op.to = 0) =>
               \A u \in fp!Units : fp!Filled(isize, c0, c1).data[u] = Target[u],
           ~fill'.on,
           UNCHANGED <<kind, forked, psize, holes, pdtree, op, pflush, pdelta, idata, file, snap,
                       unpinned>>
    PROVE  DataInv'
<1> DEFINE new == fp!Filled(isize, c0, c1)
<1>1. /\ fp!slot' = fp!slot /\ fp!old' = fp!old /\ fp!slot \in fp!Slots
      /\ PTyped /\ Cache /\ Flushed /\ Below /\ NoStale /\ Truncating
    BY OldSlot, SlotsTyped DEF PagesInv, DataInv
<1>2. Changeable(new, fp!slot)
    BY <1>1, FilledOK
<1>3. new.uptodate /\ \A b \in fp!Blocks : new.buf[b] = fp!EmptyBuffer(FALSE)
    BY FilledEffect
<1>4. ~(op.pc = "size" /\ op.to = 0) => \A u \in fp!Units : new.data[u] = Target[u]
    OBVIOUS
<1>5. /\ DOMAIN pages' = DOMAIN pages \union {p} /\ pages'[p] = new
      /\ \A q \in DOMAIN pages : pages'[q] = pages[q]
    BY DEF fp!Put
<1> HIDE DEF new
<1>6. \A b \in fp!Blocks : /\ new.buf[b].delta = None /\ ~new.buf[b].mapped
                           /\ ~new.buf[b].uptodate /\ ~new.buf[b].new
    BY <1>3 DEF fp!EmptyBuffer, fp!None, None
<1>7. live' = p /\ live' # NoPage
    BY PagesAssumption
<1>8. Lim' = Lim /\ Sz' = Sz
    BY DEF Lim, Sz, Cutting, fp!Max
<1>9. /\ Base' = Base /\ Found' = Found /\ Shown' = Shown /\ Target' = Target
    BY <1>1, <1>8, SameBelow
<1>10. Flushed' /\ SentBlocks' = SentBlocks
    <2>1. \A q \in DOMAIN pages' :
              \/ q \in DOMAIN pages /\ SameSends(pages'[q], pages[q])
              \/ /\ q \in DOMAIN pages => Changeable(pages[q], fp!slot)
                 /\ Changeable(pages'[q], fp!slot)
        BY <1>2, <1>5 DEF SameSends
    <2>2. file \in [data : [fp!Units -> Unit], ops : Nat]
        BY <1>1 DEF Flushed
    <2>3. \A q \in DOMAIN pages \ DOMAIN pages' : Changeable(pages[q], fp!slot)
        BY <1>5
    <2>4. QED BY <1>1, <2>1, <2>2, <2>3, SendsKept
<1>11. Risky' = {}
    <2>1. Risky = {}
        BY <1>1 DEF NoStale
    <2>2. QED BY <1>9, <1>10, <2>1 DEF Risky
<1>12. DirtyNow = {} /\ DirtyNow' = {}
    <2>1. DirtyNow = {}
        BY DEF DirtyNow
    <2>2. fp!slot # None
        BY <1>1 DEF fp!Slots, None
    <2>3. DirtyNow' = {b \in fp!Blocks : new.buf[b].delta = fp!slot}
        BY <1>1, <1>5, <1>7 DEF DirtyNow, fp!Blocks
    <2>4. QED BY <1>6, <2>1, <2>2, <2>3
<1>13. Below'
    BY ONLY <1>1, <1>8, <1>9, <1>12, UNCHANGED <<file, pflush, idata, holes>>
    DEF Below, fp!Units, fp!BlocksIn
<1>14. LivePage'
    <2>1. ~(op.pc = "size" /\ op.to = 0) => Holds(new, Target')
        BY <1>4, <1>9 DEF Holds
    <2>2. Unmapped(new, Risky') /\ Addressed(new, Found') /\ Fresh(new)
        BY <1>6 DEF Unmapped, Addressed, Fresh
    <2>3. ~AnyDelta(new, fp!old)
        <3>1. fp!old # None
            BY <1>1, SlotsTyped DEF fp!Slots, None
        <3>2. QED BY <1>6, <3>1 DEF AnyDelta
    <2>4. QED BY <1>1, <1>5, <1>7, <2>1, <2>2, <2>3 DEF LivePage
<1>15. NoStale' /\ Filling' /\ Writing'
    BY <1>11 DEF NoStale, Filling, Writing
<1>16. Truncating'
    <2>1. ~(op.pc = "hole" /\ op.to = 0)
        <3>1. psize \in 0 .. 4
            BY <1>1, Types
        <3>2. QED BY <1>1, <3>1 DEF Truncating
    <2>2. QED BY <1>1, <1>5, <1>6, <1>7, <2>1
          DEF Truncating, Cutting, Valid, fp!Blocks, fp!BlocksIn, fp!Slots, fp!Idle
<1>17. QED BY <1>10, <1>13, <1>14, <1>15, <1>16 DEF DataInv

(* A reader whose page gets its data and enters the radix tree keeps the    *)
(* data invariant.                                                          *)
LEMMA DataFillRead ==
    ASSUME PagesInv, PagesInv', DataInv, fp!FillRead
    PROVE  DataInv'
<1> DEFINE c1 == IF fp!IsHole(holes, 1) THEN fp!Hole ELSE fill.found[2]
<1>1. /\ fill.on /\ fill' = fp!NoFill
      /\ UNCHANGED <<kind, forked, psize, holes, pdtree, op, pflush, pdelta, idata, file, snap,
                     unpinned>>
    BY DEF fp!FillRead
<1>2. PICK p \in Pages \ DOMAIN pages :
         live' = p /\ pages' = fp!Put(p, fp!Filled(fill.size, fill.found[1], c1))
    BY DEF fp!FillRead
<1>3. live = NoPage /\ op.pc # "write"
    BY <1>1 DEF PagesInv, Calls
<1>4. fill.found[1] \in Content /\ c1 \in Content
    <2>1. fill.found \in Content \X Content
        BY DEF PagesInv, PTyped, FillType
    <2>2. fp!Hole \in Content
        BY DEF fp!Hole, Content
    <2>3. QED BY <2>1, <2>2
<1>5. FillData = fp!Filled(fill.size, fill.found[1], c1).data
    BY DEF FillData
<1> HIDE DEF c1
<1>6. /\ psize > 0
      /\ ~(op.pc = "size" /\ op.to = 0) =>
            \A u \in fp!Units : fp!Filled(fill.size, fill.found[1], c1).data[u] = Target[u]
    BY <1>1, <1>5 DEF DataInv, Filling
<1>7. ~fill'.on
    BY <1>1 DEF fp!NoFill
<1>8. QED BY <1>1, <1>2, <1>3, <1>4, <1>6, <1>7, PageFilled

(* Memory reclaim of a clean page keeps the data invariant: what it had is  *)
(* found below.                                                             *)
LEMMA DataReclaim ==
    ASSUME PagesInv, PagesInv', DataInv, fp!Reclaim, raced' = {}
    PROVE  DataInv'
<1>1. /\ live # NoPage /\ ~fp!PageLocked /\ ~unpinned
      /\ ~pages[live].dirty /\ ~pages[live].writeback
      /\ live' = NoPage /\ unpinned' = FALSE /\ pages' = [p \in forked |-> pages[p]]
      /\ UNCHANGED <<kind, forked, psize, holes, pdtree, op, fill, pflush, pdelta, idata, file, snap>>
    BY DEF fp!Reclaim, fp!RaceIf
<1>2. /\ fp!slot' = fp!slot /\ fp!old' = fp!old /\ fp!slot \in fp!Slots /\ fp!old = 1 - fp!slot
      /\ PTyped /\ Cache /\ Flushed /\ Below /\ NoStale /\ Truncating
    BY <1>1, OldSlot, SlotsTyped DEF PagesInv, DataInv
<1>3. /\ Changeable(pages[live], fp!slot)
      /\ \A b \in fp!Blocks : pages[live].buf[b].delta = None
    <2>1. PageOK(pages[live])
        BY <1>1, <1>2 DEF Cache
    <2>2. \A b \in fp!Blocks : pages[live].buf[b].delta = None
        BY <1>1, <2>1 DEF PageOK
    <2>3. 1 - fp!slot # None
        BY <1>2 DEF fp!Slots, None
    <2>4. QED BY <1>1, <2>1, <2>2, <2>3 DEF Changeable, AnyDelta
<1>4. Lim' = Lim /\ Sz' = Sz
    BY <1>1 DEF Lim, Sz, Cutting, fp!Max
<1>5. /\ Base' = Base /\ Found' = Found /\ Shown' = Shown /\ Target' = Target
    BY <1>1, <1>4, SameBelow
<1>6. Flushed' /\ SentBlocks' = SentBlocks /\ DirtyNow' = {}
    <2>1. file' \in [data : [fp!Units -> Unit], ops : Nat]
        BY <1>1, <1>2 DEF Flushed
    <2>2. QED BY <1>1, <1>3, <2>1, DropSends
<1>7. DirtyNow = {}
    <2>1. fp!slot # None
        BY <1>2 DEF fp!Slots, None
    <2>2. QED BY <1>3, <2>1 DEF DirtyNow
<1>8. Risky' = {}
    <2> SUFFICES ASSUME NEW b \in Risky PROVE FALSE
        BY <1>5, <1>6 DEF Risky
    <2>1. b \in fp!Blocks /\ b \in SentBlocks /\ b \notin OthersSend
        BY <1>1, <1>2 DEF NoStale, Risky, Shown
    <2>2. Sends(pages[live], b, pflush, fp!old, idata)
        BY <2>1 DEF SentBlocks, OthersSend
    <2>3. QED BY <1>2, <1>3, <2>1, <2>2, ChangeableSends
<1>9. Below'
    BY ONLY <1>1, <1>2, <1>4, <1>5, <1>6, <1>7 DEF Below, fp!Units, fp!BlocksIn
<1>10. LivePage' /\ NoStale'
    BY <1>1, <1>8 DEF LivePage, NoStale
<1>11. Filling' /\ Writing'
    BY <1>1 DEF Filling, Writing, fp!PageLocked
<1>12. Truncating'
    BY <1>1, <1>2 DEF Truncating, Cutting, fp!Blocks, fp!BlocksIn, fp!Slots, fp!Idle
<1>13. QED BY <1>6, <1>9, <1>10, <1>11, <1>12 DEF DataInv

(* block_read_full_page(): what was there stays, the rest is read. *)
LEMMA FilledBuffersEffect ==
    ASSUME NEW pg, PageOK(pg), NEW c0 \in Content, NEW c1 \in Content
    PROVE  LET with == fp!WithBuffers(pg)
               one == IF with.buf[0].uptodate THEN with ELSE fp!ReadBlock(with, 0, c0)
               two == IF one.buf[1].uptodate THEN one ELSE fp!ReadBlock(one, 1, c1)
               new == [two EXCEPT !.uptodate = TRUE]
           IN  /\ new.uptodate /\ new.buffers /\ (new.dirty <=> pg.dirty)
               /\ \A b \in fp!Blocks :
                    /\ new.buf[b].uptodate /\ new.buf[b].delta = with.buf[b].delta
                    /\ (new.buf[b].new <=> with.buf[b].new) /\ (new.buf[b].io <=> with.buf[b].io)
                    /\ with.buf[b].uptodate =>
                         /\ new.buf[b] = with.buf[b]
                         /\ \A u \in fp!Units : u \div 2 = b => new.data[u] = pg.data[u]
                    /\ ~with.buf[b].uptodate =>
                         \A u \in fp!Units : u \div 2 = b => new.data[u] = fp!DataOf(IF b = 0 THEN c0 ELSE c1, u)
<1> DEFINE with == fp!WithBuffers(pg)
           r0 == fp!ReadBlock(with, 0, c0)
           one == IF with.buf[0].uptodate THEN with ELSE r0
           r1 == fp!ReadBlock(one, 1, c1)
           two == IF one.buf[1].uptodate THEN one ELSE r1
           new == [two EXCEPT !.uptodate = TRUE]
<1>0. /\ fp!Blocks = {0, 1} /\ 0 \in fp!Blocks /\ 1 \in fp!Blocks
      /\ 1 \in fp!Blocks \ {0} /\ 0 \in fp!Blocks \ {1}
      /\ \A u \in fp!Units : u \div 2 \in {0, 1}
    BY BlocksAndUnits
<1>1. PageOK(with) /\ with.buffers
    BY WithBuffersOK
<1>2. with.data = pg.data /\ (with.dirty <=> pg.dirty)
    BY WithBuffersEffect
<1> HIDE DEF with
<1>3. /\ PageOK(one) /\ one.buffers /\ (one.dirty <=> with.dirty)
      /\ one.buf[1] = with.buf[1]
      /\ one.buf[0].uptodate /\ one.buf[0].delta = with.buf[0].delta
      /\ (one.buf[0].new <=> with.buf[0].new) /\ (one.buf[0].io <=> with.buf[0].io)
      /\ \A u \in fp!Units : u \div 2 # 0 => one.data[u] = with.data[u]
      /\ with.buf[0].uptodate => one = with
      /\ ~with.buf[0].uptodate =>
            \A u \in fp!Units : u \div 2 = 0 => one.data[u] = fp!DataOf(c0, u)
    <2>1. CASE with.buf[0].uptodate
        <3>1. one = with
            BY <2>1
        <3> HIDE DEF one
        <3>2. QED BY <1>1, <2>1, <3>1
    <2>2. CASE ~with.buf[0].uptodate
        <3>1. one = r0
            BY <2>2
        <3>2. PageOK(r0) /\ r0.buffers = with.buffers
            BY <1>0, <1>1, <2>2, ReadBlockOK
        <3>3. /\ (r0.dirty <=> with.dirty)
              /\ r0.buf[0].uptodate /\ r0.buf[0].delta = with.buf[0].delta
              /\ (r0.buf[0].new <=> with.buf[0].new) /\ (r0.buf[0].io <=> with.buf[0].io)
              /\ \A k \in fp!Blocks \ {0} : r0.buf[k] = with.buf[k]
              /\ \A u \in fp!Units : r0.data[u] = IF u \div 2 = 0 THEN fp!DataOf(c0, u)
                                                  ELSE with.data[u]
            BY <1>0, <1>1, ReadBlockFields
        <3> HIDE DEF one, r0
        <3>4. QED BY <1>0, <1>1, <2>2, <3>1, <3>2, <3>3
    <2>3. QED BY <2>1, <2>2
<1> HIDE DEF one
<1>4. /\ PageOK(two) /\ two.buffers /\ (two.dirty <=> one.dirty)
      /\ two.buf[0] = one.buf[0]
      /\ two.buf[1].uptodate /\ two.buf[1].delta = one.buf[1].delta
      /\ (two.buf[1].new <=> one.buf[1].new) /\ (two.buf[1].io <=> one.buf[1].io)
      /\ \A u \in fp!Units : u \div 2 # 1 => two.data[u] = one.data[u]
      /\ one.buf[1].uptodate => two = one
      /\ ~one.buf[1].uptodate =>
            \A u \in fp!Units : u \div 2 = 1 => two.data[u] = fp!DataOf(c1, u)
    <2>1. CASE one.buf[1].uptodate
        <3>1. two = one
            BY <2>1
        <3> HIDE DEF two
        <3>2. QED BY <1>3, <2>1, <3>1
    <2>2. CASE ~one.buf[1].uptodate
        <3>1. two = r1
            BY <2>2
        <3>2. PageOK(r1) /\ r1.buffers = one.buffers
            BY <1>0, <1>3, <2>2, ReadBlockOK
        <3>3. /\ (r1.dirty <=> one.dirty)
              /\ r1.buf[1].uptodate /\ r1.buf[1].delta = one.buf[1].delta
              /\ (r1.buf[1].new <=> one.buf[1].new) /\ (r1.buf[1].io <=> one.buf[1].io)
              /\ \A k \in fp!Blocks \ {1} : r1.buf[k] = one.buf[k]
              /\ \A u \in fp!Units : r1.data[u] = IF u \div 2 = 1 THEN fp!DataOf(c1, u)
                                                  ELSE one.data[u]
            BY <1>0, <1>3, ReadBlockFields
        <3> HIDE DEF two, r1
        <3>4. QED BY <1>0, <1>3, <2>2, <3>1, <3>2, <3>3
    <2>3. QED BY <2>1, <2>2
<1> HIDE DEF two
<1>5. /\ new.uptodate /\ new.buffers = two.buffers /\ new.dirty = two.dirty
      /\ new.buf = two.buf /\ new.data = two.data
    <2>1. two \in fp!PageType
        BY <1>4 DEF PageOK
    <2>2. QED BY <2>1 DEF fp!PageType
<1> HIDE DEF new
<1>6. ASSUME NEW b \in fp!Blocks
      PROVE  /\ new.buf[b].uptodate /\ new.buf[b].delta = with.buf[b].delta
             /\ (new.buf[b].new <=> with.buf[b].new) /\ (new.buf[b].io <=> with.buf[b].io)
             /\ with.buf[b].uptodate =>
                  /\ new.buf[b] = with.buf[b]
                  /\ \A u \in fp!Units : u \div 2 = b => new.data[u] = pg.data[u]
             /\ ~with.buf[b].uptodate =>
                  \A u \in fp!Units : u \div 2 = b => new.data[u] = fp!DataOf(IF b = 0 THEN c0 ELSE c1, u)
    <2>1. CASE b = 0
        BY <1>2, <1>3, <1>4, <1>5, <2>1
    <2>2. CASE b = 1
        BY <1>2, <1>3, <1>4, <1>5, <2>2
    <2>3. QED BY <1>0, <2>1, <2>2
<1>7. new.uptodate /\ new.buffers /\ (new.dirty <=> pg.dirty)
    BY <1>2, <1>3, <1>4, <1>5
<1>8. QED BY <1>6, <1>7 DEF new, two, one, with

(* A read of the blocks that a page lacks keeps the data invariant          *)
(* (kernel/filemap.c:1068).                                                 *)
LEMMA DataFillBlocks ==
    ASSUME PagesInv, PagesInv', DataInv, fp!FillBlocks, raced' = {}
    PROVE  DataInv'
<1>1. /\ ~fp!PageLocked /\ psize > 0 /\ op.pc # "size"
      /\ UNCHANGED <<kind, forked, psize, holes, pdtree, op, fill, pflush, pdelta, idata, file,
                     snap, unpinned>>
    BY DEF fp!FillBlocks, fp!RaceIf
<1>2. op.pc \notin {"write", "size"} /\ ~fill'.on
    BY <1>1 DEF fp!PageLocked
<1>0. /\ fp!slot' = fp!slot /\ fp!old' = fp!old /\ fp!slot \in fp!Slots
      /\ fp!slot # None /\ fp!old # None
      /\ PTyped /\ Cache /\ Flushed /\ Below /\ NoStale /\ LivePage /\ Truncating
      /\ fp!Lookup(0) \in Content /\ fp!Lookup(1) \in Content /\ fp!Hole \in Content
      /\ fp!Blocks = {0, 1} /\ 0 \in fp!Blocks /\ 1 \in fp!Blocks
    <2>1. PTyped /\ fp!Blocks = {0, 1} /\ 0 \in fp!Blocks /\ 1 \in fp!Blocks
        BY BlocksAndUnits DEF PagesInv
    <2>2. fp!Lookup(0) \in Content /\ fp!Lookup(1) \in Content /\ fp!Hole \in Content
        BY <2>1, LookupTyped DEF Content, fp!Hole
    <2>3. fp!slot # None /\ fp!old # None /\ fp!slot \in fp!Slots
        BY <2>1, SlotsTyped DEF fp!Slots, None
    <2>4. QED BY <1>1, <2>1, <2>2, <2>3, OldSlot DEF PagesInv, DataInv
<1>3. CASE live = NoPage
    <2> DEFINE c0 == fp!Lookup(0)
               c1 == fp!Lookup(1)
    <2>1. PICK p \in Pages \ DOMAIN pages : live' = p /\ pages' = fp!Put(p, fp!Filled(psize, c0, c1))
        BY <1>3 DEF fp!FillBlocks, fp!RaceIf
    <2>2. \A u \in fp!Units : fp!Filled(psize, c0, c1).data[u] = Target[u]
        <3> SUFFICES ASSUME NEW u \in fp!Units
                     PROVE  fp!Filled(psize, c0, c1).data[u] = Target[u]
            OBVIOUS
        <3>1. fp!Filled(psize, c0, c1).data[u]
                = IF u \div 2 >= fp!BlocksIn(psize) THEN 0
                  ELSE fp!DataOf(IF u \div 2 = 0 THEN c0 ELSE c1, u)
            BY FilledIs
        <3>2. Target[u] = IF u \div 2 >= fp!BlocksIn(psize) THEN 0
                          ELSE fp!DataOf(fp!Lookup(u \div 2), u)
            BY <1>1, <1>2, <1>3, NothingCached
        <3>3. u \div 2 \in {0, 1}
            BY BlocksAndUnits
        <3>4. QED BY <3>1, <3>2, <3>3
    <2> HIDE DEF c0, c1
    <2>3. c0 \in Content /\ c1 \in Content
        BY <1>0 DEF c0, c1
    <2>4. QED BY <1>1, <1>2, <1>3, <2>1, <2>2, <2>3, PageFilled
<1>4. CASE live # NoPage
    <2> DEFINE content(b) == IF b < fp!BlocksIn(psize) THEN fp!Lookup(b) ELSE fp!Hole
               was == pages[live]
               pg == fp!WithBuffers(was)
               one == IF pg.buf[0].uptodate THEN pg ELSE fp!ReadBlock(pg, 0, content(0))
               two == IF one.buf[1].uptodate THEN one ELSE fp!ReadBlock(one, 1, content(1))
               new == [two EXCEPT !.uptodate = TRUE]
    <2>1. ~pg.uptodate /\ live' = live /\ pages' = fp!Put(live, new)
        BY <1>4 DEF fp!FillBlocks, fp!RaceIf
    <2>2. content(0) \in Content /\ content(1) \in Content /\ live \in DOMAIN pages
        BY <1>0, <1>4 DEF Cache
    <2>3. PageOK(was)
        BY <1>0, <2>2 DEF Cache
    <2>4. \A u \in fp!Units : ~(u \div 2 \in DirtyNow \union Risky) =>
             Target[u] = fp!DataOf(content(u \div 2), u)
        <3> SUFFICES ASSUME NEW u \in fp!Units, u \div 2 \notin DirtyNow \union Risky
                     PROVE  Target[u] = fp!DataOf(content(u \div 2), u)
            OBVIOUS
        <3>1. CASE u \div 2 < fp!BlocksIn(psize)
            <4>1. u \div 2 < fp!BlocksIn(Lim)
                <5>1. op.pc = "hole" => Lim = psize
                    BY <1>0 DEF Lim, Cutting, Truncating
                <5>2. op.pc # "hole" => Lim = 4
                    BY <1>2 DEF Lim, Cutting
                <5>3. u \div 2 < fp!BlocksIn(4)
                    BY BlocksAndUnits
                <5>4. QED BY <3>1, <5>1, <5>2, <5>3
            <4>2. QED BY <3>1, <4>1, LookupIsTarget
        <3>2. CASE ~(u \div 2 < fp!BlocksIn(psize))
            <4>1. Target[u] = 0
                BY <1>1, <1>2, <3>2, TargetBehind
            <4>2. QED BY <3>2, <4>1 DEF fp!DataOf
        <3>3. QED BY <3>1, <3>2
    <2> DEFINE c0 == content(0)
               c1 == content(1)
    <2>5. PageOK(new) /\ Like(new, was)
        <3> HIDE DEF content
        <3>1. QED BY <2>2, <2>3, FilledBuffers
    <2>6. /\ new.uptodate /\ new.buffers /\ (new.dirty <=> was.dirty)
          /\ \A b \in fp!Blocks :
               /\ new.buf[b].uptodate /\ new.buf[b].delta = pg.buf[b].delta
               /\ (new.buf[b].new <=> pg.buf[b].new) /\ (new.buf[b].io <=> pg.buf[b].io)
               /\ pg.buf[b].uptodate =>
                    /\ new.buf[b] = pg.buf[b]
                    /\ \A u \in fp!Units : u \div 2 = b => new.data[u] = was.data[u]
               /\ ~pg.buf[b].uptodate =>
                    \A u \in fp!Units : u \div 2 = b =>
                        new.data[u] = fp!DataOf(IF b = 0 THEN content(0) ELSE content(1), u)
        <3> HIDE DEF content
        <3>1. QED BY <2>2, <2>3, FilledBuffersEffect
    <2> HIDE DEF new
    <2>7. \A b \in fp!Blocks : ~pg.buf[b].uptodate =>
             \A u \in fp!Units : u \div 2 = b => new.data[u] = fp!DataOf(content(u \div 2), u)
        BY <1>0, <2>6
    <2> HIDE DEF content
    <2>8. /\ (pg.uptodate <=> was.uptodate)
          /\ was.buffers => pg = was
          /\ ~was.buffers => \A b \in fp!Blocks : pg.buf[b] = fp!EmptyBuffer(was.uptodate)
        BY <2>3, WithBuffersEffect
    <2>9. /\ DOMAIN pages' = DOMAIN pages /\ pages'[live] = new
          /\ \A q \in DOMAIN pages \ {live} : pages'[q] = pages[q]
        BY <2>1, <2>2 DEF fp!Put
    <2>10. /\ Holds(was, Target) /\ (kind = "file" => Unmapped(was, Risky)) /\ Fresh(was)
           /\ pflush # "idle" /\ AnyDelta(was, fp!old) =>
                \A u \in fp!Units : u >= idata => file.data[u] = 0
        BY <1>0, <1>2, <1>4 DEF LivePage
    <2>11. \A b \in DirtyNow \union Risky : was.buffers /\ Valid(was, b) /\ pg.buf[b].uptodate
        <3>1. \A b \in DirtyNow : was.buffers /\ Valid(was, b)
            BY <1>0, DirtyIsValid
        <3>2. \A b \in Risky : was.buffers /\ Valid(was, b)
            BY <1>0 DEF NoStale
        <3>3. QED BY <2>1, <2>8, <3>1, <3>2 DEF Valid
    <2>12. \A b \in fp!Blocks : pg.buf[b].uptodate => Valid(was, b) /\ was.buffers
        <3>1. ASSUME NEW b \in fp!Blocks, ~was.buffers PROVE ~pg.buf[b].uptodate
            BY <2>1, <2>8, <3>1 DEF fp!EmptyBuffer
        <3>2. QED BY <2>8, <3>1 DEF Valid
    <2>13. \A b \in fp!Blocks : pg.buf[b].delta = was.buf[b].delta
        <3>1. ~was.buffers => \A b \in fp!Blocks : was.buf[b].delta = None /\ pg.buf[b].delta = None
            BY <2>3, <2>8 DEF PageOK, fp!EmptyBuffer, fp!None, None
        <3>2. QED BY <2>8, <3>1
    <2> HIDE DEF pg
    <2>14. \/ Changeable(was, fp!slot) /\ Changeable(new, fp!slot)
           \/ SameSends(new, was)
        <3>1. CASE was.buffers
            <4>1. pg = was
                BY <2>8, <3>1
            <4>2. SameSends(new, was)
                BY <2>6, <4>1 DEF SameSends
            <4>3. QED BY <4>2
        <3>2. CASE ~was.buffers
            <4>1. ~was.writeback /\ \A s : s # None => ~AnyDelta(was, s)
                BY <2>3, <3>2 DEF PageOK, AnyDelta
            <4>2. fp!old = 1 - fp!slot
                BY OldSlot
            <4>3. Changeable(was, fp!slot)
                BY <1>0, <2>3, <4>1, <4>2 DEF Changeable
            <4>4. QED BY <1>0, <2>5, <4>3, LikeWritable
        <3>3. QED BY <3>1, <3>2
    <2>15. /\ Flushed' /\ SentBlocks' = SentBlocks /\ OthersSend' = OthersSend
           /\ DirtyNow' = {b \in fp!Blocks : new.buf[b].delta = fp!slot}
        <3>1. file' \in [data : [fp!Units -> Unit], ops : Nat]
            BY <1>0, <1>1 DEF Flushed
        <3>2. holes'[fp!old] = holes[fp!old]
            BY <1>1
        <3>3. QED BY <1>1, <1>4, <2>1, <2>9, <2>14, <3>1, <3>2, InPlaceSends
    <2>16. DirtyNow' = DirtyNow
        BY <1>4, <2>6, <2>13, <2>15 DEF DirtyNow
    <2>17. Lim' = Lim /\ Sz' = Sz
        BY <1>1 DEF Lim, Sz, Cutting, fp!Max
    <2>18. /\ Base' = Base /\ Found' = Found /\ Target' = Target /\ Risky' = Risky
        <3>1. Base' = Base /\ Found' = Found /\ Shown' = Shown /\ Target' = Target
            BY <1>1, <2>17, SameBelow
        <3>2. QED BY <2>15, <3>1 DEF Risky
    <2>19. Below'
        BY ONLY <1>0, <1>1, <2>16, <2>17, <2>18 DEF Below, fp!Units, fp!BlocksIn
    <2>20. Holds(new, Target)
        <3> SUFFICES ASSUME NEW u \in fp!Units
                     PROVE  new.data[u] = Target[u]
            BY DEF Holds
        <3>0. u \div 2 \in fp!Blocks
            BY BlocksAndUnits
        <3>1. CASE pg.buf[u \div 2].uptodate
            BY <2>6, <2>10, <2>12, <3>0, <3>1 DEF Holds
        <3>2. CASE ~pg.buf[u \div 2].uptodate
            BY <2>4, <2>7, <2>11, <3>0, <3>2
        <3>3. QED BY <3>1, <3>2
    <2>21. kind = "file" => Unmapped(new, Risky)
        <3> SUFFICES ASSUME kind = "file", NEW b \in fp!Blocks, ~new.buf[b].mapped,
                            new.buf[b].delta # None \/ b \in Risky,
                            NEW u \in fp!Units, u \div 2 = b
                     PROVE  new.data[u] = 0
            BY <2>6 DEF Unmapped, Blank
        <3>1. pg.buf[b].uptodate /\ pg = was
            <4>1. CASE b \in Risky
                BY <2>8, <2>11, <4>1
            <4>2. CASE new.buf[b].delta # None
                <5>1. was.buf[b].delta # None
                    BY <2>6, <2>13, <4>2
                <5>2. was.buffers /\ was.buf[b].uptodate
                    BY <2>3, <5>1 DEF PageOK
                <5>3. QED BY <2>8, <5>2
            <4>3. QED BY <4>1, <4>2
        <3>2. Blank(was, b)
            BY <2>6, <2>10, <3>1 DEF Unmapped
        <3>3. QED BY <2>6, <3>1, <3>2 DEF Blank
    <2>22. Addressed(new, Found) /\ Fresh(new)
        <3>1. Addressed(new, Found)
            BY <2>6 DEF Addressed, Valid
        <3>2. Fresh(pg)
            BY <2>8, <2>10 DEF Fresh, fp!EmptyBuffer
        <3>3. QED BY <2>6, <3>1, <3>2 DEF Fresh
    <2>23. LivePage'
        <3>1. AnyDelta(new, fp!old) => AnyDelta(was, fp!old)
            BY <2>6, <2>13 DEF AnyDelta
        <3>2. QED BY <1>0, <1>1, <2>1, <2>9, <2>10, <2>18, <2>20, <2>21, <2>22, <3>1 DEF LivePage
    <2>24. NoStale'
        <3>1. \A b \in Risky : b \in fp!Blocks
            BY DEF Risky, Shown
        <3>2. QED BY <1>0, <1>1, <1>4, <2>1, <2>6, <2>9, <2>15, <2>18, <3>1 DEF NoStale, Valid
    <2>25. Filling' /\ Writing'
        BY <1>1, <1>2 DEF Filling, Writing
    <2>26. Truncating'
        <3>1. \A b \in fp!Blocks : Valid(new, b)
            BY <2>6 DEF Valid
        <3>2. op'.pc = "hole" => op'.to = psize' /\ (op'.to = 0 => live' = NoPage)
            BY <1>0, <1>1, <2>1 DEF Truncating
        <3>3. QED BY <1>0, <1>1, <1>2, <2>1, <2>9, <3>1, <3>2
              DEF Truncating, Cutting, fp!Blocks, fp!BlocksIn, fp!Slots, fp!Idle
    <2>27. QED BY <2>15, <2>19, <2>23, <2>24, <2>25, <2>26 DEF DataInv
<1>5. QED BY <1>3, <1>4

-----------------------------------------------------------------------------
(* The backend *)

(* A step of the flush that leaves the pages alone and what a lookup finds. *)
LEMMA FlushQuiet ==
    ASSUME PagesInv, PagesInv', DataInv, pflush # "idle", pflush' # "idle",
           UNCHANGED <<kind, pages, live, forked, psize, op, fill, pdelta, idata, file, snap,
                       unpinned>>,
           holes'[fp!slot] = holes[fp!slot], Found' = Found,
           fill.on => holes' = holes, kind = "dir" => holes' = holes,
           Flushed'
    PROVE  DataInv'
<1>1. /\ fp!slot' = fp!slot /\ fp!old' = fp!old
      /\ Flushed /\ Below /\ LivePage /\ NoStale /\ Filling /\ Writing /\ Truncating
    BY OldSlot DEF DataInv
<1>2. Lim' = Lim /\ Sz' = Sz /\ Cutting' = Cutting
    BY DEF Lim, Sz, Cutting, fp!Max
<1>3. Base' = Base /\ Shown' = Shown /\ Target' = Target
    <2>1. Durable = snap /\ Durable' = snap
        BY <1>1 DEF Durable, Flushed, fp!Units
    <2>2. Base' = Base
        BY <1>1, <2>1 DEF Base, fp!Units
    <2>3. Shown' = Shown /\ Target' = Target
        BY <1>1, <1>2 DEF Shown, Target, fp!Blocks, fp!BlocksIn, fp!Units
    <2>4. QED BY <2>2, <2>3
<1>4. SentBlocks' = SentBlocks /\ OthersSend' = OthersSend /\ DirtyNow' = DirtyNow
    BY <1>1 DEF SentBlocks, OthersSend, DirtyNow, Sends, fp!Blocks, fp!BlocksIn
<1>5. Risky' = Risky
    BY <1>3, <1>4 DEF Risky
<1>6. Below'
    <2>1. UNCHANGED <<file, idata>> /\ holes'[fp!slot'] = holes[fp!slot]
        BY <1>1
    <2>2. QED
        BY ONLY <1>1, <1>2, <1>3, <1>4, <2>1, pflush # "idle", pflush' # "idle"
        DEF Below, fp!Units, fp!BlocksIn
<1>7. LivePage'
    BY <1>1, <1>3, <1>5 DEF LivePage, Holds, Unmapped, Addressed, Fresh, AnyDelta, Valid, Blank,
                            fp!Units, fp!Blocks, fp!Hole, None
<1>8. NoStale'
    BY <1>1, <1>4, <1>5 DEF NoStale, Valid
<1>9. Writing'
    BY <1>1 DEF Writing, Ready, Valid, Covers, Covered, fp!Units, fp!Blocks
<1>10. Truncating'
    BY <1>1 DEF Truncating, Cutting, Valid, fp!Blocks, fp!BlocksIn, fp!Slots, fp!Idle
<1>11. Filling'
    <2>1. fill.on => FillData' = FillData
        BY DEF FillData, fp!Filled, fp!IsHole, fp!Hole, fp!NewPage, fp!Slots, fp!Units, fp!Blocks,
               fp!BlockOf, fp!BlocksIn, fp!DataOf, fp!EmptyBuffer, fp!None, fp!Junk
    <2>2. QED BY ONLY <1>1, <1>3, <2>1, UNCHANGED <<fill, psize, op>> DEF Filling, fp!Units
<1>12. QED BY <1>6, <1>7, <1>8, <1>9, <1>10, <1>11 DEF DataInv

(* The flush removing the addresses that a hole extent covers keeps the     *)
(* data invariant (kernel/filemap_hole.c:94).                               *)
LEMMA DataChop ==
    ASSUME PagesInv, PagesInv', DataInv, fp!Chop
    PROVE  DataInv'
<1>1. /\ pflush = "chop" /\ pflush' = "unhole"
      /\ pdtree' = [b \in fp!Blocks |-> IF b >= holes[fp!old] THEN fp!Hole ELSE pdtree[b]]
      /\ UNCHANGED <<kind, pages, live, forked, psize, holes, op, fill, pdelta, idata, file,
                     snap, unpinned>>
    BY DEF fp!Chop
<1>2. /\ fp!slot' = fp!slot /\ fp!old' = fp!old /\ fp!old \in fp!Slots
      /\ Flushed /\ holes[fp!old] \in 0 .. 2
    BY <1>1, OldSlot, Types DEF DataInv, PagesInv
<1>3. Found' = Found
    <2>1. \A b \in fp!Blocks : fp!Lookup(b)' = fp!Lookup(b)
        <3> TAKE b \in fp!Blocks
        <3>1. CASE b >= holes[fp!old]
            <4>1. fp!IsHole(holes, b)
                BY <1>2, <3>1, BlocksAndUnits DEF fp!IsHole
            <4>2. fp!IsHole(holes', b)
                BY <1>1, <4>1
            <4>3. QED BY <4>1, <4>2 DEF fp!Lookup, fp!Hole
        <3>2. CASE ~(b >= holes[fp!old])
            <4>1. pdtree'[b] = pdtree[b] /\ holes' = holes
                BY <1>1, <3>2
            <4>2. QED BY <4>1 DEF fp!Lookup, fp!Hole, fp!IsHole, fp!Slots
        <3>3. QED BY <3>1, <3>2
    <2>2. QED BY <2>1 DEF Found, fp!Blocks
<1>4. Flushed'
    <2>1. SentBlocks' = SentBlocks
        BY <1>1, <1>2 DEF SentBlocks, Sends, fp!Blocks, fp!BlocksIn
    <2>2. \A p \in DOMAIN pages' : Carried(pages[p])'
        BY <1>1, <1>2 DEF Flushed, Carried, Sends, fp!Units, fp!BlocksIn
    <2>3. \A u \in fp!Units : u \div 2 \notin SentBlocks => fp!DataOf(pdtree'[u \div 2], u) = snap[u]
        <3> SUFFICES ASSUME NEW u \in fp!Units, u \div 2 \notin SentBlocks
                     PROVE  fp!DataOf(pdtree'[u \div 2], u) = snap[u]
            OBVIOUS
        <3>1. /\ u \div 2 \in fp!Blocks
              /\ (IF u \div 2 >= holes[fp!old] THEN 0 ELSE fp!DataOf(pdtree[u \div 2], u)) = snap[u]
            BY <1>1, <1>2, BlocksAndUnits DEF Flushed
        <3>2. QED BY <1>1, <3>1 DEF fp!DataOf
    <2>4. \A b \in fp!Blocks : b >= holes[fp!old] => pdtree'[b] = fp!Hole
        BY <1>1
    <2>5. /\ file' \in [data : [fp!Units -> Unit], ops : Nat] /\ snap' \in [fp!Units -> Unit]
          /\ \A u \in fp!Units : u >= idata' => snap'[u] = 0
        BY <1>1, <1>2 DEF Flushed
    <2>6. QED
        BY ONLY <1>1, <1>2, <2>1, <2>2, <2>3, <2>4, <2>5
        DEF Flushed, Carried, Sends, fp!Units, fp!Blocks, fp!BlocksIn, fp!DataOf, fp!Hole, Unit
<1>5. QED BY <1>1, <1>2, <1>3, <1>4, FlushQuiet

(* The flush removing the hole extents of its delta keeps the data          *)
(* invariant: the dtree has no block there any more                         *)
(* (kernel/filemap_hole.c:123).                                             *)
LEMMA DataUnhole ==
    ASSUME PagesInv, PagesInv', DataInv, fp!Unhole, raced' = {}
    PROVE  DataInv'
<1>1. /\ pflush = "unhole" /\ pflush' = "map" /\ ~fill.on
      /\ holes' = [holes EXCEPT ![fp!old] = 2]
      /\ UNCHANGED <<kind, pages, live, forked, psize, pdtree, op, fill, pdelta, idata, file,
                     snap, unpinned>>
    BY DEF fp!Unhole, fp!RaceIf
<1>2. /\ fp!slot' = fp!slot /\ fp!old' = fp!old /\ fp!old \in fp!Slots /\ fp!slot # fp!old
      /\ fp!Slots = {fp!slot, fp!old} /\ holes \in [fp!Slots -> 0 .. 2]
      /\ Flushed /\ Truncating /\ holes[fp!old] \in 0 .. 2
    BY <1>1, OldSlot, Types DEF DataInv, PagesInv, PTyped
<1>3. holes'[fp!slot] = holes[fp!slot] /\ holes'[fp!old] = 2 /\ holes'[fp!old'] = 2
    BY <1>1, <1>2
<1>4. kind = "dir" => holes' = holes
    BY <1>1, <1>2 DEF Truncating
<1>5. Found' = Found
    <2>1. \A b \in fp!Blocks : fp!Lookup(b)' = fp!Lookup(b)
        <3> TAKE b \in fp!Blocks
        <3>0. /\ fp!IsHole(holes, b) <=> holes[fp!slot] <= b \/ holes[fp!old] <= b
              /\ fp!IsHole(holes', b) <=> holes'[fp!slot] <= b \/ holes'[fp!old] <= b
            BY <1>2 DEF fp!IsHole
        <3>1. ~(holes'[fp!old] <= b)
            BY <1>3, BlocksAndUnits
        <3>2. b \in Int /\ (b >= holes[fp!old] => pdtree[b] = fp!Hole)
            BY <1>1, <1>2, BlocksAndUnits DEF Flushed
        <3>3. fp!Lookup(b) = IF fp!IsHole(holes, b) THEN fp!Hole ELSE pdtree[b]
            BY DEF fp!Lookup
        <3>4. fp!Lookup(b)' = IF fp!IsHole(holes', b) THEN fp!Hole ELSE pdtree[b]
            BY <1>1 DEF fp!Lookup, fp!Hole, fp!IsHole, fp!Slots
        <3>5. QED BY <1>2, <1>3, <3>0, <3>1, <3>2, <3>3, <3>4
    <2>2. QED BY <2>1 DEF Found, fp!Blocks
<1>6. Flushed'
    <2>1. SentBlocks' = SentBlocks
        BY <1>1, <1>2 DEF SentBlocks, Sends, fp!Blocks, fp!BlocksIn
    <2>2. \A p \in DOMAIN pages' : Carried(pages[p])'
        BY <1>1, <1>2 DEF Flushed, Carried, Sends, fp!Units, fp!BlocksIn
    <2>3. \A u \in fp!Units : u \div 2 \notin SentBlocks => fp!DataOf(pdtree[u \div 2], u) = snap[u]
        BY <1>1, <1>2 DEF Flushed
    <2>4. /\ file' \in [data : [fp!Units -> Unit], ops : Nat] /\ snap' \in [fp!Units -> Unit]
          /\ \A u \in fp!Units : u >= idata' => snap'[u] = 0
        BY <1>1, <1>2 DEF Flushed
    <2>5. QED
        BY ONLY <1>1, <1>2, <1>3, <2>1, <2>2, <2>3, <2>4
        DEF Flushed, Carried, Sends, fp!Units, fp!Blocks, fp!BlocksIn, fp!DataOf, fp!Hole, Unit
<1>7. QED BY <1>1, <1>2, <1>3, <1>4, <1>5, <1>6, FlushQuiet

(* Between calls the file is what the page cache has to show. *)
LEMMA BetweenCalls ==
    ASSUME PagesInv, op = fp!Idle
    PROVE  /\ Lim = 4 /\ Sz = psize /\ ~Cutting /\ op.pc = "idle"
           /\ \A u \in fp!Units : Target[u] = file.data[u] /\ u \div 2 < fp!BlocksIn(Lim)
           /\ \A u \in fp!Units : u \div 2 >= fp!BlocksIn(psize) => u >= psize
<1>1. op.pc = "idle"
    BY DEF fp!Idle
<1>2. Lim = 4 /\ Sz = psize /\ ~Cutting
    BY <1>1 DEF Lim, Sz, Cutting
<1>3. \A u \in fp!Units : u < 4 /\ u \div 2 < fp!BlocksIn(4)
    BY BlocksAndUnits
<1>4. psize \in {0, 1, 2, 3, 4}
    BY Types DEF PagesInv
<1>5. \A u \in fp!Units : u \div 2 >= fp!BlocksIn(psize) => u >= psize
    BY <1>4, BlocksAndUnits
<1>6. QED BY <1>1, <1>2, <1>3, <1>5 DEF Target

(* The frontend's delta becomes the backend's: delta_transition(). *)
LEMMA DataTransition ==
    ASSUME PagesInv, PagesInv', DataInv, fp!Transition
    PROVE  DataInv'
<1>1. /\ op = fp!Idle /\ pflush = "idle" /\ pdelta' = pdelta + 1
      /\ pflush' = "chop" /\ idata' = psize /\ snap' = file.data
      /\ UNCHANGED <<kind, pages, live, forked, psize, holes, pdtree, op, fill, file, unpinned>>
    BY DEF fp!Transition
<1>2. /\ fp!slot \in fp!Slots /\ fp!old \in fp!Slots /\ fp!slot # fp!old
      /\ PTyped /\ Cache /\ Deltas /\ Device /\ psize \in 0 .. 4
      /\ Flushed /\ Below /\ LivePage /\ NoStale /\ Filling /\ Writing /\ Truncating
    BY Types DEF DataInv, PagesInv
<1>3. fp!slot' = fp!old /\ fp!old' = fp!slot
    <2>1. pdelta \in Nat
        BY <1>2, PagesAssumption DEF PTyped
    <2>2. (pdelta + 1) % 2 = 1 - (pdelta % 2)
        BY <2>1
    <2>3. 1 - (1 - (pdelta % 2)) = pdelta % 2
        BY <2>1
    <2>4. QED BY <1>1, <2>2, <2>3 DEF fp!slot, fp!old
<1>4. /\ Lim = 4 /\ Sz = psize /\ ~Cutting /\ op.pc = "idle"
      /\ \A u \in fp!Units : Target[u] = file.data[u] /\ u \div 2 < fp!BlocksIn(Lim)
      /\ \A u \in fp!Units : u \div 2 >= fp!BlocksIn(psize) => u >= psize
    BY <1>1, BetweenCalls
<1>5. Lim' = Lim /\ Sz' = Sz /\ Cutting' = Cutting /\ Target' = Target /\ Found' = Found
    <2>1. Lim' = Lim /\ Sz' = Sz /\ Cutting' = Cutting
        BY <1>1 DEF Lim, Sz, Cutting, fp!Max
    <2>2. Target' = Target
        BY <1>1, <2>1 DEF Target, fp!Units
    <2>3. Found' = Found
        BY <1>1 DEF Found, fp!Lookup, fp!IsHole, fp!Hole, fp!Slots, fp!Blocks
    <2>4. QED BY <2>1, <2>2, <2>3
<1>6. \A p \in DOMAIN pages : \A b \in fp!Blocks :
        /\ ~pages[p].buf[b].io /\ pages[p].buf[b].delta # fp!old
        /\ pages[p].buf[b].delta = fp!slot => p = live /\ live # NoPage /\ b \in DirtyNow
    <2>1. \A p \in DOMAIN pages : \A b \in fp!Blocks : ~pages[p].buf[b].io
        BY <1>1, <1>2 DEF Cache, PageOK, Device
    <2>2. \A p \in DOMAIN pages : \A b \in fp!Blocks : pages[p].buf[b].delta # fp!old
        BY <1>1, <1>2 DEF Deltas, AnyDelta
    <2>3. \A p \in DOMAIN pages : \A b \in fp!Blocks :
            pages[p].buf[b].delta = fp!slot => p = live /\ live # NoPage /\ b \in DirtyNow
        BY <1>2 DEF Deltas, AnyDelta, Cache, DirtyNow
    <2>4. QED BY <2>1, <2>2, <2>3
<1>7. \A p \in DOMAIN pages : \A b \in fp!Blocks :
        Sends(pages[p], b, pflush', fp!old', idata')
            <=> p = live /\ live # NoPage /\ b \in DirtyNow /\ b < fp!BlocksIn(psize)
    BY <1>1, <1>3, <1>6 DEF Sends, DirtyNow
<1>8. /\ SentBlocks' = {b \in DirtyNow : b < fp!BlocksIn(psize)}
      /\ OthersSend' = {} /\ DirtyNow' = {}
    <2>1. live # NoPage => live \in DOMAIN pages
        BY <1>2 DEF Cache
    <2>2. SentBlocks' = {b \in fp!Blocks : \E p \in DOMAIN pages :
                                Sends(pages[p], b, pflush', fp!old', idata')}
        BY <1>1 DEF SentBlocks, Sends, fp!Blocks, fp!BlocksIn
    <2>3. OthersSend' = {b \in fp!Blocks : \E p \in DOMAIN pages \ {live} :
                                Sends(pages[p], b, pflush', fp!old', idata')}
        BY <1>1 DEF OthersSend, Sends, fp!Blocks, fp!BlocksIn
    <2>4. DirtyNow' = {}
        BY <1>1, <1>3, <1>6, <2>1 DEF DirtyNow, fp!Blocks
    <2>5. DirtyNow \subseteq fp!Blocks /\ (DirtyNow # {} => live # NoPage)
        BY DEF DirtyNow
    <2>6. QED BY <1>7, <2>1, <2>2, <2>3, <2>4, <2>5
<1>9. \A u \in fp!Units : u >= psize => file.data[u] = 0
    BY <1>2, <1>4 DEF Below
<1>10. Flushed'
    <2>1. /\ file' \in [data : [fp!Units -> Unit], ops : Nat] /\ snap' \in [fp!Units -> Unit]
          /\ \A u \in fp!Units : u >= idata' => snap'[u] = 0
        BY <1>1, <1>2, <1>9 DEF Flushed
    <2>2. \A p \in DOMAIN pages : \A u \in fp!Units :
            Sends(pages[p], u \div 2, pflush', fp!old', idata') =>
                /\ u \div 2 < fp!BlocksIn(psize) /\ ~pages[p].buf[u \div 2].io
                /\ pages[p].data[u] = snap'[u]
        <3> SUFFICES ASSUME NEW p \in DOMAIN pages, NEW u \in fp!Units,
                            Sends(pages[p], u \div 2, pflush', fp!old', idata')
                     PROVE  /\ u \div 2 < fp!BlocksIn(psize) /\ ~pages[p].buf[u \div 2].io
                            /\ pages[p].data[u] = snap'[u]
            OBVIOUS
        <3>1. u \div 2 \in fp!Blocks
            BY BlocksAndUnits
        <3>2. p = live /\ live # NoPage /\ u \div 2 \in DirtyNow /\ u \div 2 < fp!BlocksIn(psize)
            BY <1>7, <3>1
        <3>3. Valid(pages[live], u \div 2)
            BY <1>2, <3>2, DirtyIsValid
        <3>4. pages[live].data[u] = Target[u]
            BY <1>2, <1>4, <3>2, <3>3 DEF LivePage, Holds
        <3>5. QED BY <1>1, <1>4, <1>6, <3>1, <3>2, <3>4
    <2>3. \A p \in DOMAIN pages' : Carried(pages[p])'
        BY <1>1, <2>2 DEF Carried, Sends, fp!Units, fp!BlocksIn
    <2>4. \A u \in fp!Units : u \div 2 \notin SentBlocks' =>
            (IF u \div 2 >= holes[fp!slot] THEN 0 ELSE fp!DataOf(pdtree[u \div 2], u)) = snap'[u]
        <3> SUFFICES ASSUME NEW u \in fp!Units, u \div 2 \notin SentBlocks'
                     PROVE  (IF u \div 2 >= holes[fp!slot] THEN 0
                             ELSE fp!DataOf(pdtree[u \div 2], u)) = snap'[u]
            OBVIOUS
        <3>1. Base[u] = IF u \div 2 >= holes[fp!slot] THEN 0 ELSE fp!DataOf(pdtree[u \div 2], u)
            BY <1>1 DEF Base, Durable
        <3>2. CASE u \div 2 \notin DirtyNow
            BY <1>1, <1>2, <1>4, <3>1, <3>2 DEF Below
        <3>3. CASE u \div 2 \in DirtyNow
            <4>1. ~(u \div 2 < fp!BlocksIn(psize))
                BY <1>8, <3>3
            <4>2. u \div 2 \in Int /\ fp!BlocksIn(psize) \in Int
                BY <1>2, BlocksAndUnits DEF fp!BlocksIn
            <4>3. u \div 2 >= fp!BlocksIn(psize)
                BY <4>1, <4>2
            <4>4. Base[u] = 0
                BY <1>2, <1>4, <4>3 DEF Below
            <4>5. file.data[u] = 0
                BY <1>4, <1>9, <4>3
            <4>6. QED BY <1>1, <3>1, <4>4, <4>5
        <3>4. QED BY <3>2, <3>3
    <2>5. QED
        BY ONLY <1>1, <1>3, <2>1, <2>3, <2>4
        DEF Flushed, fp!Units, fp!Blocks, fp!DataOf, fp!Hole, Unit
<1>11. \A u \in fp!Units : Base'[u] = file.data[u]
    <2> SUFFICES ASSUME NEW u \in fp!Units PROVE Base'[u] = file.data[u]
        OBVIOUS
    <2>1. holes[fp!old] = 2
        BY <1>1, <1>2 DEF Flushed
    <2>2. Durable'[u] = file.data[u]
        BY <1>1 DEF Durable, fp!Units
    <2>3. ~(u \div 2 >= 2)
        BY BlocksAndUnits
    <2>4. Base'[u] = IF u \div 2 >= holes[fp!old] THEN 0 ELSE Durable'[u]
        BY <1>1, <1>3 DEF Base, fp!Units
    <2>5. QED BY <2>1, <2>2, <2>3, <2>4
<1>12. Below'
    <2>1. \A u \in fp!Units :
            /\ Base'[u] = Target[u]
            /\ u \div 2 >= fp!BlocksIn(Sz) => Base'[u] = 0
            /\ u >= Sz => file'.data[u] = 0
        BY <1>1, <1>4, <1>9, <1>11
    <2>2. fp!BlocksIn(idata') <= fp!BlocksIn(Sz) /\ idata' = Sz
        <3>1. fp!BlocksIn(psize) \in Int
            BY <1>2 DEF fp!BlocksIn
        <3>2. QED BY <1>1, <1>4, <3>1
    <2>3. QED BY ONLY <1>5, <2>1, <2>2 DEF Below, fp!Units, fp!BlocksIn
<1>13. \A b \in Risky' : b \in DirtyNow
    BY <1>8 DEF Risky
<1>14. LivePage'
    <2> SUFFICES ASSUME live # NoPage PROVE LivePage'
        BY <1>1 DEF LivePage
    <2>0. live \in DOMAIN pages
        BY <1>2 DEF Cache
    <2>1. kind = "file" => Unmapped(pages[live], Risky')
        <3> SUFFICES ASSUME kind = "file", NEW b \in fp!Blocks,
                            pages[live].buf[b].uptodate /\ ~pages[live].buf[b].mapped,
                            \/ ~pages[live].uptodate
                            \/ pages[live].buf[b].delta # None \/ b \in Risky'
                     PROVE  Blank(pages[live], b)
            BY DEF Unmapped
        <3>1. b \in Risky' => pages[live].buf[b].delta # None
            BY <1>2, <1>13 DEF DirtyNow, None, fp!Slots
        <3>2. Unmapped(pages[live], Risky)
            BY <1>2 DEF LivePage
        <3>3. QED BY <3>1, <3>2 DEF Unmapped
    <2>2. /\ Holds(pages[live], Target) /\ (kind = "file" => Addressed(pages[live], Found))
          /\ Fresh(pages[live])
        BY <1>2, <1>4 DEF LivePage
    <2>3. \A u \in fp!Units : u >= idata' => file'.data[u] = 0
        BY <1>1, <1>9
    <2>4. QED
        BY ONLY <1>1, <1>5, <2>1, <2>2, <2>3
        DEF LivePage, Holds, Unmapped, Addressed, Fresh, AnyDelta, Valid, Blank,
            fp!Units, fp!Blocks, fp!Hole, None
<1>15. NoStale'
    <2>1. \A b \in Risky' : live # NoPage /\ Valid(pages[live], b) /\ pages[live].buffers
        BY <1>2, <1>13, DirtyIsValid
    <2>2. QED BY <1>1, <1>8, <2>1 DEF NoStale, Valid
<1>16. Filling'
    <2>1. fill.on => FillData' = FillData
        BY <1>1 DEF FillData, fp!Filled, fp!IsHole, fp!Hole, fp!NewPage, fp!Slots, fp!Units, fp!Blocks,
               fp!BlockOf, fp!BlocksIn, fp!DataOf, fp!EmptyBuffer, fp!None, fp!Junk
    <2>2. QED BY ONLY <1>1, <1>2, <1>5, <2>1 DEF Filling, fp!Units
<1>17. Writing' /\ Truncating'
    <2>1. Writing'
        BY <1>1, <1>4 DEF Writing
    <2>2. Truncating'
        BY <1>1, <1>2 DEF Truncating, Cutting, Valid, fp!Blocks, fp!BlocksIn, fp!Slots, fp!Idle
    <2>3. QED BY <2>1, <2>2
<1>18. QED BY <1>10, <1>12, <1>14, <1>15, <1>16, <1>17 DEF DataInv

(* bufvec_cancel_dirty_outside(): the data stays, and so does every buffer  *)
(* but those behind i_size, which are clean then and count as mapped.       *)
LEMMA CancelledEffect ==
    ASSUME NEW pg, PageOK(pg), NEW outside \in Nat, fp!slot \in fp!Slots
    PROVE  LET new == fp!Cancelled(pg, outside)
           IN  /\ new.data = pg.data /\ (new.uptodate <=> pg.uptodate)
               /\ (new.buffers <=> pg.buffers)
               /\ \A b \in fp!Blocks :
                    IF pg.buf[b].delta = fp!old /\ b >= outside
                    THEN /\ new.buf[b].delta = None /\ new.buf[b].mapped /\ new.buf[b].uptodate
                         /\ (new.buf[b].new <=> pg.buf[b].new)
                         /\ (new.buf[b].io <=> pg.buf[b].io)
                    ELSE new.buf[b] = pg.buf[b]
<1> DEFINE bufs == [b \in fp!Blocks |->
                       IF pg.buf[b].delta = fp!old /\ b >= outside
                       THEN fp!Cleared(pg.buf[b]) ELSE pg.buf[b]]
           dirty == pg.dirty /\ outside > 0 /\ fp!AnyDirty(bufs)
           new == [pg EXCEPT !.buf = bufs, !.dirty = dirty]
<1>1. pg \in fp!PageType /\ pg.buf \in [fp!Blocks -> fp!Buffer] /\ fp!old \in fp!Slots
    BY PageFields DEF PageOK, fp!old, fp!Slots
<1>2. fp!Cancelled(pg, outside) = new
    BY DEF fp!Cancelled
<1>3. /\ new.buf = bufs /\ new.data = pg.data /\ (new.uptodate <=> pg.uptodate)
      /\ (new.buffers <=> pg.buffers)
    <2> HIDE DEF bufs, dirty
    <2>1. QED BY <1>1 DEF fp!PageType
<1>4. \A b \in fp!Blocks :
        IF pg.buf[b].delta = fp!old /\ b >= outside
        THEN /\ bufs[b].delta = None /\ bufs[b].mapped /\ bufs[b].uptodate
             /\ (bufs[b].new <=> pg.buf[b].new) /\ (bufs[b].io <=> pg.buf[b].io)
        ELSE bufs[b] = pg.buf[b]
    <2> SUFFICES ASSUME NEW b \in fp!Blocks
                 PROVE  IF pg.buf[b].delta = fp!old /\ b >= outside
                        THEN /\ bufs[b].delta = None /\ bufs[b].mapped /\ bufs[b].uptodate
                             /\ (bufs[b].new <=> pg.buf[b].new) /\ (bufs[b].io <=> pg.buf[b].io)
                        ELSE bufs[b] = pg.buf[b]
        OBVIOUS
    <2>1. pg.buf[b] \in fp!Buffer
        BY <1>1
    <2>2. LET c == fp!Cleared(pg.buf[b])
          IN  /\ c.delta = None /\ c.mapped /\ (c.uptodate <=> pg.buf[b].uptodate)
              /\ (c.new <=> pg.buf[b].new) /\ (c.io <=> pg.buf[b].io)
        BY <2>1 DEF fp!Cleared, fp!Buffer, fp!None, None
    <2>3. pg.buf[b].delta = fp!old => pg.buf[b].uptodate
        BY <1>1 DEF PageOK, fp!Slots, None
    <2>4. QED BY <2>2, <2>3
<1> HIDE DEF new, bufs
<1>5. QED BY <1>2, <1>3, <1>4

(* Map, as the data sees it: every page keeps its data, the blocks that are *)
(* written have an address, the others keep theirs.                         *)
LEMMA MapEffect ==
    ASSUME PagesInv, fp!Map
    PROVE  /\ pflush = "map" /\ pflush' \in {"commit", "prepare"}
           /\ UNCHANGED <<kind, live, forked, psize, holes, op, fill, pdelta, idata, file, snap,
                          unpinned>>
           /\ DOMAIN pages' = DOMAIN pages
           /\ \A p \in DOMAIN pages : ~AnyDelta(pages[p], fp!old) => pages'[p] = pages[p]
           /\ \A p \in DOMAIN pages :
                /\ pages'[p].data = pages[p].data
                /\ pages'[p].uptodate <=> pages[p].uptodate
                /\ pages'[p].buffers <=> pages[p].buffers
                /\ \A b \in fp!Blocks :
                     IF pages[p].buf[b].delta = fp!old /\ b >= fp!BlocksIn(idata)
                     THEN /\ pages'[p].buf[b].delta = None /\ pages'[p].buf[b].mapped
                          /\ pages'[p].buf[b].uptodate
                          /\ (pages'[p].buf[b].new <=> pages[p].buf[b].new)
                          /\ (pages'[p].buf[b].io <=> pages[p].buf[b].io)
                     ELSE pages'[p].buf[b] = pages[p].buf[b]
           /\ \A b \in fp!Blocks :
                pdtree'[b] = IF b \in SentBlocks THEN <<fp!Junk, fp!Junk>> ELSE pdtree[b]
<1> DEFINE outside == fp!BlocksIn(idata)
           written == (UNION {fp!DirtyIn(pages[p]) : p \in fp!Owners}) \cap (0 .. outside - 1)
<1>0. fp!slot \in fp!Slots /\ fp!old \in fp!Slots /\ PTyped /\ Cache /\ Deltas /\ Device
    BY SlotsTyped DEF PagesInv
<1>1. /\ pages' = [p \in DOMAIN pages |->
                      IF p \in fp!Owners THEN fp!Cancelled(pages[p], outside) ELSE pages[p]]
      /\ pdtree' = fp!Redirected(written)
    BY Zenon DEF fp!Map
<1>2. pflush' = IF written = {} THEN "commit" ELSE "prepare"
    BY Zenon DEF fp!Map
<1>3. /\ pflush = "map"
      /\ UNCHANGED <<kind, live, forked, psize, holes, op, fill, pdelta, idata, file, snap,
                     unpinned>>
    BY Zenon DEF fp!Map
<1>4. outside \in Nat /\ outside \in 0 .. 2
    <2>1. idata \in 0 .. 4
        BY <1>0 DEF PTyped
    <2>2. QED BY <2>1 DEF fp!BlocksIn
<1>5. written = SentBlocks
    <2>1. \A p \in DOMAIN pages : \A b \in fp!Blocks : ~pages[p].buf[b].io
        BY <1>0, <1>3 DEF Cache, PageOK, Device
    <2>2. \A b : b \in SentBlocks <=> /\ b \in fp!Blocks /\ b < outside
                                      /\ \E p \in DOMAIN pages : pages[p].buf[b].delta = fp!old
        BY <1>3, <2>1 DEF SentBlocks, Sends
    <2>3. \A b \in fp!Blocks : b < outside <=> b \in 0 .. outside - 1
        BY <1>4, BlocksAndUnits
    <2> HIDE DEF outside
    <2>4. \A b : b \in UNION {fp!DirtyIn(pages[p]) : p \in fp!Owners}
                    <=> b \in fp!Blocks /\ \E p \in DOMAIN pages : pages[p].buf[b].delta = fp!old
        <3>1. \A b : b \in UNION {fp!DirtyIn(pages[p]) : p \in fp!Owners}
                    <=> \E p \in fp!Owners : b \in fp!DirtyIn(pages[p])
            OBVIOUS
        <3>2. QED BY <3>1, OwnersAre DEF AnyDelta
    <2>5. QED BY <2>2, <2>3, <2>4
<1> HIDE DEF written, outside
<1>6. DOMAIN pages' = DOMAIN pages
    BY <1>1
<1>7. \A p \in DOMAIN pages : ~AnyDelta(pages[p], fp!old) => pages'[p] = pages[p]
    BY <1>1, OwnersAre
<1>8. \A p \in DOMAIN pages :
        /\ pages'[p].data = pages[p].data
        /\ pages'[p].uptodate <=> pages[p].uptodate
        /\ pages'[p].buffers <=> pages[p].buffers
        /\ \A b \in fp!Blocks :
             IF pages[p].buf[b].delta = fp!old /\ b >= outside
             THEN /\ pages'[p].buf[b].delta = None /\ pages'[p].buf[b].mapped
                  /\ pages'[p].buf[b].uptodate
                  /\ (pages'[p].buf[b].new <=> pages[p].buf[b].new)
                  /\ (pages'[p].buf[b].io <=> pages[p].buf[b].io)
             ELSE pages'[p].buf[b] = pages[p].buf[b]
    <2> TAKE p \in DOMAIN pages
    <2>1. CASE AnyDelta(pages[p], fp!old)
        <3>1. pages'[p] = fp!Cancelled(pages[p], outside) /\ PageOK(pages[p])
            BY <1>0, <1>1, <2>1, OwnersAre DEF Cache
        <3>2. QED BY <1>0, <1>4, <3>1, CancelledEffect
    <2>2. CASE ~AnyDelta(pages[p], fp!old)
        <3>1. pages'[p] = pages[p] /\ \A b \in fp!Blocks : pages[p].buf[b].delta # fp!old
            BY <1>7, <2>2 DEF AnyDelta
        <3>2. QED BY <3>1
    <2>3. QED BY <2>1, <2>2
<1>9. \A b \in fp!Blocks :
        pdtree'[b] = IF b \in SentBlocks THEN <<fp!Junk, fp!Junk>> ELSE pdtree[b]
    BY <1>1, <1>5 DEF fp!Redirected
<1>10. pflush' \in {"commit", "prepare"}
    BY <1>2
<1>11. QED BY <1>3, <1>6, <1>7, <1>8, <1>9, <1>10 DEF outside

(* The flush giving addresses to the dirty blocks of its delta keeps the    *)
(* data invariant (kernel/buffer_writeback.c:806).                          *)
LEMMA DataMap ==
    ASSUME PagesInv, PagesInv', DataInv, fp!Map
    PROVE  DataInv'
<1>1. /\ pflush = "map" /\ pflush' \in {"commit", "prepare"}
      /\ UNCHANGED <<kind, live, forked, psize, holes, op, fill, pdelta, idata, file, snap,
                     unpinned>>
      /\ DOMAIN pages' = DOMAIN pages
      /\ \A p \in DOMAIN pages : ~AnyDelta(pages[p], fp!old) => pages'[p] = pages[p]
      /\ \A b \in fp!Blocks :
           pdtree'[b] = IF b \in SentBlocks THEN <<fp!Junk, fp!Junk>> ELSE pdtree[b]
    BY MapEffect
<1>2. \A p \in DOMAIN pages :
        /\ pages'[p].data = pages[p].data
        /\ pages'[p].uptodate <=> pages[p].uptodate
        /\ pages'[p].buffers <=> pages[p].buffers
        /\ \A b \in fp!Blocks :
             IF pages[p].buf[b].delta = fp!old /\ b >= fp!BlocksIn(idata)
             THEN /\ pages'[p].buf[b].delta = None /\ pages'[p].buf[b].mapped
                  /\ pages'[p].buf[b].uptodate
                  /\ (pages'[p].buf[b].new <=> pages[p].buf[b].new)
                  /\ (pages'[p].buf[b].io <=> pages[p].buf[b].io)
             ELSE pages'[p].buf[b] = pages[p].buf[b]
    BY MapEffect
<1>3. /\ fp!slot' = fp!slot /\ fp!old' = fp!old /\ fp!slot # fp!old
      /\ fp!slot \in fp!Slots /\ fp!old \in fp!Slots
      /\ PTyped /\ Cache /\ Deltas /\ Device /\ Calls /\ fp!BlocksIn(idata) \in Int
      /\ Flushed /\ Below /\ LivePage /\ NoStale /\ Filling /\ Writing /\ Truncating
    <2>1. idata \in 0 .. 4 /\ fp!slot \in fp!Slots /\ fp!old \in fp!Slots /\ fp!slot # fp!old
        BY Types DEF PagesInv
    <2>2. QED BY <1>1, <2>1, OldSlot DEF DataInv, PagesInv, fp!BlocksIn
<1>4. Lim' = Lim /\ Sz' = Sz /\ Cutting' = Cutting
    BY <1>1 DEF Lim, Sz, Cutting, fp!Max
<1>5. Base' = Base /\ Shown' = Shown /\ Target' = Target
    <2>1. Durable = snap /\ Durable' = snap
        BY <1>1, <1>3 DEF Durable, Flushed, fp!Units
    <2>2. QED BY <1>1, <1>3, <1>4, <2>1 DEF Base, Shown, Target, fp!Blocks, fp!BlocksIn, fp!Units
<1>6. \A p \in DOMAIN pages : \A b \in fp!Blocks :
        /\ ~pages[p].buf[b].io /\ ~pages'[p].buf[b].io
        /\ pages[p].buf[b].delta # None => Valid(pages[p], b)
        /\ Valid(pages'[p], b) <=> Valid(pages[p], b)
        /\ pages'[p].buf[b].delta = fp!slot <=> pages[p].buf[b].delta = fp!slot
        /\ pages'[p].buf[b].delta = fp!old =>
             pages[p].buf[b].delta = fp!old /\ b < fp!BlocksIn(idata)
        /\ Sends(pages'[p], b, pflush', fp!old, idata) <=> Sends(pages[p], b, pflush, fp!old, idata)
    <2> TAKE p \in DOMAIN pages
    <2> TAKE b \in fp!Blocks
    <2>1. ~pages[p].buf[b].io /\ ~pages'[p].buf[b].io
        BY <1>1, <1>2, <1>3 DEF Cache, PageOK, Device
    <2>2. pages[p].buf[b].delta # None => Valid(pages[p], b)
        BY <1>3 DEF Cache, PageOK, Valid
    <2>3. None \notin fp!Slots /\ b \in Int
        BY BlocksAndUnits DEF None
    <2>4. CASE pages[p].buf[b].delta = fp!old /\ b >= fp!BlocksIn(idata)
        <3>1. ~(b < fp!BlocksIn(idata))
            BY <1>3, <2>3, <2>4
        <3>2. QED BY <1>1, <1>2, <1>3, <2>1, <2>2, <2>3, <2>4, <3>1 DEF Sends, Valid
    <2>5. CASE ~(pages[p].buf[b].delta = fp!old /\ b >= fp!BlocksIn(idata))
        <3>1. pages[p].buf[b].delta = fp!old => b < fp!BlocksIn(idata)
            BY <1>3, <2>3, <2>5
        <3>2. pages'[p].buf[b] = pages[p].buf[b]
            BY <1>2, <2>5
        <3>3. QED BY <1>1, <1>2, <2>1, <2>2, <3>1, <3>2 DEF Sends, Valid
    <2>6. QED BY <2>4, <2>5
<1>7. /\ SentBlocks' = SentBlocks /\ OthersSend' = OthersSend /\ DirtyNow' = DirtyNow
      /\ Risky' = Risky
    <2>1. SentBlocks' = SentBlocks
        BY <1>1, <1>3, <1>6 DEF SentBlocks, Sends, fp!Blocks, fp!BlocksIn
    <2>2. OthersSend' = OthersSend
        BY <1>1, <1>3, <1>6 DEF OthersSend, Sends, fp!Blocks, fp!BlocksIn
    <2>3. DirtyNow' = DirtyNow
        BY <1>1, <1>3, <1>6 DEF DirtyNow, fp!Blocks, Cache
    <2>4. QED BY <1>5, <2>1, <2>2, <2>3 DEF Risky
<1>8. \A b \in fp!Blocks : Found[b] # fp!Hole => Found'[b] # fp!Hole
    <2> SUFFICES ASSUME NEW b \in fp!Blocks, Found[b] # fp!Hole PROVE Found'[b] # fp!Hole
        OBVIOUS
    <2>1. Found[b] = IF fp!IsHole(holes, b) THEN fp!Hole ELSE pdtree[b]
        BY DEF Found, fp!Lookup
    <2>2. Found'[b] = IF fp!IsHole(holes, b) THEN fp!Hole ELSE pdtree'[b]
        BY <1>1 DEF Found, fp!Lookup, fp!Hole, fp!IsHole, fp!Slots, fp!Blocks
    <2>3. <<fp!Junk, fp!Junk>> # fp!Hole
        BY DEF fp!Hole
    <2>4. QED BY <1>1, <2>1, <2>2, <2>3
<1>9. Flushed'
    <2>1. /\ file' \in [data : [fp!Units -> Unit], ops : Nat] /\ snap' \in [fp!Units -> Unit]
          /\ \A u \in fp!Units : u >= idata' => snap'[u] = 0
          /\ holes'[fp!old] = 2
        BY <1>1, <1>3 DEF Flushed
    <2>2. \A p \in DOMAIN pages : \A u \in fp!Units :
            Sends(pages'[p], u \div 2, pflush', fp!old, idata) =>
                /\ u \div 2 < fp!BlocksIn(idata) /\ ~pages'[p].buf[u \div 2].io
                /\ u < idata => pages'[p].data[u] = snap[u]
        BY <1>2, <1>3, <1>6, BlocksAndUnits DEF Flushed, Carried
    <2>3. \A p \in DOMAIN pages' : Carried(pages[p])'
        BY <1>1, <1>3, <2>2 DEF Carried, Sends, fp!Units, fp!BlocksIn
    <2>4. \A u \in fp!Units : u \div 2 \notin SentBlocks => fp!DataOf(pdtree'[u \div 2], u) = snap[u]
        <3> SUFFICES ASSUME NEW u \in fp!Units, u \div 2 \notin SentBlocks
                     PROVE  fp!DataOf(pdtree'[u \div 2], u) = snap[u]
            OBVIOUS
        <3>1. u \div 2 \in fp!Blocks /\ pdtree'[u \div 2] = pdtree[u \div 2]
            BY <1>1, BlocksAndUnits
        <3>2. fp!DataOf(pdtree[u \div 2], u) = snap[u]
            BY <1>1, <1>3 DEF Flushed
        <3>3. QED BY <3>1, <3>2 DEF fp!DataOf
    <2>5. \A p \in DOMAIN pages' : \A b \in fp!Blocks :
            pages'[p].buf[b].delta = fp!old => b < fp!BlocksIn(idata)
        BY <1>1, <1>6
    <2>6. QED
        BY ONLY <1>1, <1>3, <1>7, <2>1, <2>3, <2>4, <2>5
        DEF Flushed, fp!Units, fp!Blocks, fp!BlocksIn, fp!DataOf, fp!Hole, Unit
<1>10. Below'
    <2>1. UNCHANGED <<file, idata, holes>> /\ pflush # "idle" /\ pflush' # "idle"
        BY <1>1
    <2>2. QED BY ONLY <1>3, <1>4, <1>5, <1>7, <2>1 DEF Below, fp!Units, fp!BlocksIn
<1>11. LivePage'
    <2> SUFFICES ASSUME live # NoPage PROVE LivePage'
        BY <1>1 DEF LivePage
    <2>0. live \in DOMAIN pages /\ live' = live
        BY <1>1, <1>3 DEF Cache
    <2> DEFINE new == pages'[live]
    <2>1. ~(op.pc = "size" /\ op.to = 0) => Holds(new, Target)
        BY <1>2, <1>3, <1>6, <2>0, BlocksAndUnits DEF LivePage, Holds
    <2>2. kind = "file" => Unmapped(new, Risky)
        <3> SUFFICES ASSUME kind = "file", NEW b \in fp!Blocks,
                            new.buf[b].uptodate /\ ~new.buf[b].mapped,
                            \/ ~new.uptodate
                            \/ new.buf[b].delta # None \/ b \in Risky
                     PROVE  Blank(new, b)
            BY DEF Unmapped
        <3>1. new.buf[b] = pages[live].buf[b]
            BY <1>2, <2>0
        <3>2. Unmapped(pages[live], Risky)
            BY <1>3 DEF LivePage
        <3>3. Blank(pages[live], b)
            BY <1>2, <2>0, <3>1, <3>2 DEF Unmapped
        <3>4. QED BY <1>2, <2>0, <3>3 DEF Blank
    <2>3. kind = "file" => Addressed(new, Found')
        <3> SUFFICES ASSUME kind = "file", NEW b \in fp!Blocks,
                            new.buf[b].mapped /\ ~Valid(new, b) /\ ~new.buf[b].new
                     PROVE  Found'[b] # fp!Hole /\ new.buffers
            BY DEF Addressed
        <3>1. new.buf[b] = pages[live].buf[b]
            BY <1>2, <2>0 DEF Valid
        <3>2. Addressed(pages[live], Found)
            BY <1>3 DEF LivePage
        <3>3. ~Valid(pages[live], b)
            BY <1>6, <2>0
        <3>4. Found[b] # fp!Hole /\ pages[live].buffers
            BY <3>1, <3>2, <3>3 DEF Addressed
        <3>5. QED BY <1>2, <1>8, <2>0, <3>4
    <2>4. op.pc # "write" => Fresh(new)
        BY <1>2, <1>3, <2>0 DEF LivePage, Fresh
    <2>5. AnyDelta(new, fp!old) => \A u \in fp!Units : u >= idata => file.data[u] = 0
        BY <1>1, <1>3, <1>6, <2>0 DEF LivePage, AnyDelta
    <2> HIDE DEF new
    <2>6. new = pages'[live]
        BY DEF new
    <2>7. QED
        BY ONLY <1>1, <1>3, <1>5, <1>7, <2>0, <2>1, <2>2, <2>3, <2>4, <2>5, <2>6
        DEF LivePage, Holds, Unmapped, Addressed, Fresh, AnyDelta, Valid, Blank,
            fp!Units, fp!Blocks, fp!Hole, None
<1>12. NoStale'
    <2> SUFFICES ASSUME NEW b \in Risky
                 PROVE  /\ live # NoPage /\ Valid(pages'[live], b) /\ pages'[live].buffers
                        /\ b \in OthersSend => pages'[live].dirty \/ unpinned
        BY <1>1, <1>7 DEF NoStale, Valid
    <2>1. /\ live # NoPage /\ Valid(pages[live], b) /\ pages[live].buffers
          /\ b \in OthersSend => pages[live].dirty \/ unpinned
          /\ live \in DOMAIN pages /\ b \in fp!Blocks
        BY <1>3 DEF NoStale, Cache, Risky, SentBlocks
    <2>2. b \in OthersSend => ~AnyDelta(pages[live], fp!old)
        <3> SUFFICES ASSUME b \in OthersSend, AnyDelta(pages[live], fp!old) PROVE FALSE
            OBVIOUS
        <3>1. PICK p \in DOMAIN pages \ {live} : Sends(pages[p], b, pflush, fp!old, idata)
            BY DEF OthersSend
        <3>2. AnyDelta(pages[p], fp!old)
            BY <1>6, <2>1, <3>1 DEF Sends, AnyDelta
        <3>3. QED BY <1>3, <2>1, <3>1, <3>2 DEF Deltas
    <2>3. QED BY <1>1, <1>2, <1>6, <2>1, <2>2
<1>13. Filling'
    <2>1. fill.on => FillData' = FillData
        BY <1>1 DEF FillData, fp!Filled, fp!IsHole, fp!Hole, fp!NewPage, fp!Slots, fp!Units, fp!Blocks,
               fp!BlockOf, fp!BlocksIn, fp!DataOf, fp!EmptyBuffer, fp!None, fp!Junk
    <2>2. QED BY ONLY <1>1, <1>3, <1>5, <2>1 DEF Filling, fp!Units
<1>14. Writing'
    <2>1. op.pc = "write" => live \in DOMAIN pages /\ pages'[live] = pages[live]
        <3> SUFFICES ASSUME op.pc = "write" PROVE live \in DOMAIN pages /\ pages'[live] = pages[live]
            OBVIOUS
        <3>1. live # NoPage /\ Writable(pages[live], fp!slot) /\ live \in DOMAIN pages
            BY <1>3 DEF Calls, Cache
        <3>2. ~AnyDelta(pages[live], fp!old)
            BY <3>1 DEF Writable, Changeable, fp!old
        <3>3. QED BY <1>1, <3>1, <3>2
    <2>2. QED BY ONLY <1>1, <1>3, <2>1 DEF Writing, Ready, Valid, Covers, Covered, fp!Units, fp!Blocks
<1>15. Truncating'
    <2>1. live # NoPage => \A b \in fp!Blocks :
            ~pages[live].buf[b].mapped \/ Valid(pages[live], b)
                => ~pages'[live].buf[b].mapped \/ Valid(pages'[live], b)
        <3> SUFFICES ASSUME live # NoPage, NEW b \in fp!Blocks,
                            ~pages[live].buf[b].mapped \/ Valid(pages[live], b)
                     PROVE  ~pages'[live].buf[b].mapped \/ Valid(pages'[live], b)
            OBVIOUS
        <3>1. live \in DOMAIN pages
            BY <1>3 DEF Cache
        <3>2. QED BY <1>2, <1>6, <3>1 DEF Valid
    <2>2. QED
        BY ONLY <1>1, <1>3, <1>4, <2>1
        DEF Truncating, Cutting, Valid, fp!Blocks, fp!BlocksIn, fp!Slots, fp!Idle
<1>16. QED BY <1>9, <1>10, <1>11, <1>12, <1>13, <1>14, <1>15 DEF DataInv

(* tux3_clear_buffer_dirty_for_io(): the buffers of the delta are clean,    *)
(* mapped and in flight, the others as they were.                           *)
LEMMA InFlightEffect ==
    ASSUME NEW pg, PageOK(pg)
    PROVE  LET new == fp!InFlight(pg)
           IN  /\ new.data = pg.data /\ (new.uptodate <=> pg.uptodate)
               /\ (new.buffers <=> pg.buffers)
               /\ \A b \in fp!Blocks :
                    IF pg.buf[b].delta = fp!old
                    THEN /\ new.buf[b].delta = None /\ new.buf[b].mapped /\ new.buf[b].io
                         /\ (new.buf[b].uptodate <=> pg.buf[b].uptodate)
                         /\ (new.buf[b].new <=> pg.buf[b].new)
                    ELSE new.buf[b] = pg.buf[b]
<1> DEFINE bufs == [b \in fp!Blocks |-> IF pg.buf[b].delta # fp!old THEN pg.buf[b]
                          ELSE [fp!Cleared(pg.buf[b]) EXCEPT !.io = TRUE]]
           new == [pg EXCEPT !.dirty = FALSE, !.writeback = TRUE, !.buf = bufs]
<1>1. pg \in fp!PageType /\ pg.buf \in [fp!Blocks -> fp!Buffer]
    BY PageFields DEF PageOK
<1>2. fp!InFlight(pg) = new
    BY DEF fp!InFlight
<1>3. /\ new.buf = bufs /\ new.data = pg.data /\ (new.uptodate <=> pg.uptodate)
      /\ (new.buffers <=> pg.buffers)
    <2> HIDE DEF bufs
    <2>1. QED BY <1>1 DEF fp!PageType
<1>4. \A b \in fp!Blocks :
        IF pg.buf[b].delta = fp!old
        THEN /\ bufs[b].delta = None /\ bufs[b].mapped /\ bufs[b].io
             /\ (bufs[b].uptodate <=> pg.buf[b].uptodate)
             /\ (bufs[b].new <=> pg.buf[b].new)
        ELSE bufs[b] = pg.buf[b]
    <2> SUFFICES ASSUME NEW b \in fp!Blocks
                 PROVE  IF pg.buf[b].delta = fp!old
                        THEN /\ bufs[b].delta = None /\ bufs[b].mapped /\ bufs[b].io
                             /\ (bufs[b].uptodate <=> pg.buf[b].uptodate)
                             /\ (bufs[b].new <=> pg.buf[b].new)
                        ELSE bufs[b] = pg.buf[b]
        OBVIOUS
    <2>1. pg.buf[b] \in fp!Buffer
        BY <1>1
    <2>2. LET c == [fp!Cleared(pg.buf[b]) EXCEPT !.io = TRUE]
          IN  /\ c.delta = None /\ c.mapped /\ c.io /\ (c.uptodate <=> pg.buf[b].uptodate)
              /\ (c.new <=> pg.buf[b].new)
        BY <2>1 DEF fp!Cleared, fp!Buffer, fp!None, None
    <2>3. QED BY <2>2
<1> HIDE DEF new, bufs
<1>5. QED BY <1>2, <1>3, <1>4

(* The page that goes to the device: tux3_clear_buffer_dirty_for_io(), and  *)
(* what is behind i_size is zeroed.                                         *)
LEMMA PreparedPage ==
    ASSUME PagesInv, NEW p \in Pages, fp!Prepare(p)
    PROVE  /\ p \in DOMAIN pages /\ AnyDelta(pages[p], fp!old) /\ DOMAIN pages' = DOMAIN pages
           /\ \A q \in DOMAIN pages \ {p} : pages'[q] = pages[q] /\ ~AnyDelta(pages[q], fp!old)
           /\ pages'[p].uptodate <=> pages[p].uptodate
           /\ pages'[p].buffers <=> pages[p].buffers
           /\ \A b \in fp!Blocks :
                IF pages[p].buf[b].delta = fp!old
                THEN /\ pages'[p].buf[b].delta = None /\ pages'[p].buf[b].mapped
                     /\ pages'[p].buf[b].io
                     /\ (pages'[p].buf[b].uptodate <=> pages[p].buf[b].uptodate)
                     /\ (pages'[p].buf[b].new <=> pages[p].buf[b].new)
                ELSE pages'[p].buf[b] = pages[p].buf[b]
           /\ \A u \in fp!Units :
                pages'[p].data[u] = IF u >= idata /\ idata % 4 # 0 THEN 0 ELSE pages[p].data[u]
<1> DEFINE pg == fp!InFlight(pages[p])
           new == IF idata % 4 = 0 THEN pg ELSE fp!ZeroFill(pg, idata, 4)
<1>0. /\ fp!slot \in fp!Slots /\ PTyped /\ Cache /\ Deltas /\ idata \in 0 .. 4
    BY SlotsTyped DEF PagesInv, PTyped
<1>1. p \in fp!Owners /\ pages' = [pages EXCEPT ![p] = new]
    BY DEF fp!Prepare
<1>2. p \in DOMAIN pages /\ AnyDelta(pages[p], fp!old) /\ PageOK(pages[p])
    BY <1>0, <1>1, OwnersAre DEF Cache
<1>3. PageOK(pg)
    BY <1>0, <1>2, InFlightOK
<1>4. /\ pg.data = pages[p].data /\ (pg.uptodate <=> pages[p].uptodate)
      /\ (pg.buffers <=> pages[p].buffers)
      /\ \A b \in fp!Blocks :
           IF pages[p].buf[b].delta = fp!old
           THEN /\ pg.buf[b].delta = None /\ pg.buf[b].mapped /\ pg.buf[b].io
                /\ (pg.buf[b].uptodate <=> pages[p].buf[b].uptodate)
                /\ (pg.buf[b].new <=> pages[p].buf[b].new)
           ELSE pg.buf[b] = pages[p].buf[b]
    BY <1>2, InFlightEffect
<1> HIDE DEF pg
<1>5. /\ (new.uptodate <=> pg.uptodate) /\ (new.buffers <=> pg.buffers) /\ new.buf = pg.buf
      /\ \A u \in fp!Units :
           new.data[u] = IF u >= idata /\ idata % 4 # 0 THEN 0 ELSE pg.data[u]
    <2>1. CASE idata % 4 = 0
        BY <2>1
    <2>2. CASE idata % 4 # 0
        <3>1. new = fp!ZeroFill(pg, idata, 4)
            BY <2>2
        <3> HIDE DEF new
        <3>2. \A u \in fp!Units : u \in idata .. 4 - 1 <=> u >= idata
            BY <1>0, BlocksAndUnits
        <3>3. QED BY <1>3, <2>2, <3>1, <3>2, ZeroFillEffect
    <2>3. QED BY <2>1, <2>2
<1> HIDE DEF new
<1>6. /\ DOMAIN pages' = DOMAIN pages /\ pages'[p] = new
      /\ \A q \in DOMAIN pages \ {p} : pages'[q] = pages[q]
    BY <1>1, <1>2
<1>7. \A q \in DOMAIN pages \ {p} : ~AnyDelta(pages[q], fp!old)
    BY <1>0, <1>2 DEF Deltas
<1>8. QED BY <1>2, <1>4, <1>5, <1>6, <1>7

(* A page that is made ready for the device, its tail behind i_size zeroed, *)
(* keeps the data invariant (kernel/buffer_writeback.c:242).                *)
LEMMA DataPrepare ==
    ASSUME PagesInv, PagesInv', DataInv, NEW p \in Pages, fp!Prepare(p)
    PROVE  DataInv'
<1>1. /\ pflush = "prepare" /\ pflush' = "io" /\ ~(p = live /\ fp!PageLocked)
      /\ UNCHANGED <<kind, live, forked, psize, holes, pdtree, op, fill, pdelta, idata, file,
                     snap, unpinned>>
    BY DEF fp!Prepare
<1>2. /\ p \in DOMAIN pages /\ AnyDelta(pages[p], fp!old) /\ DOMAIN pages' = DOMAIN pages
      /\ \A q \in DOMAIN pages \ {p} : pages'[q] = pages[q] /\ ~AnyDelta(pages[q], fp!old)
      /\ pages'[p].uptodate <=> pages[p].uptodate
      /\ pages'[p].buffers <=> pages[p].buffers
      /\ \A b \in fp!Blocks :
           IF pages[p].buf[b].delta = fp!old
           THEN /\ pages'[p].buf[b].delta = None /\ pages'[p].buf[b].mapped
                /\ pages'[p].buf[b].io
                /\ (pages'[p].buf[b].uptodate <=> pages[p].buf[b].uptodate)
                /\ (pages'[p].buf[b].new <=> pages[p].buf[b].new)
           ELSE pages'[p].buf[b] = pages[p].buf[b]
      /\ \A u \in fp!Units :
           pages'[p].data[u] = IF u >= idata /\ idata % 4 # 0 THEN 0 ELSE pages[p].data[u]
    BY PreparedPage
<1>3. /\ fp!slot' = fp!slot /\ fp!old' = fp!old /\ fp!slot # fp!old
      /\ fp!slot \in fp!Slots /\ fp!old \in fp!Slots /\ None \notin fp!Slots
      /\ PTyped /\ Cache /\ Deltas /\ Device /\ Calls /\ idata \in 0 .. 4
      /\ Flushed /\ Below /\ LivePage /\ NoStale /\ Filling /\ Writing /\ Truncating
    <2>1. idata \in 0 .. 4 /\ fp!slot \in fp!Slots /\ fp!old \in fp!Slots /\ fp!slot # fp!old
        BY Types DEF PagesInv
    <2>2. QED BY <1>1, <2>1, OldSlot, BlocksAndUnits DEF DataInv, PagesInv, None
<1>4. Lim' = Lim /\ Sz' = Sz /\ Cutting' = Cutting
    BY <1>1 DEF Lim, Sz, Cutting, fp!Max
<1>5. Base' = Base /\ Shown' = Shown /\ Target' = Target /\ Found' = Found
    <2>1. Durable = snap /\ Durable' = snap
        BY <1>1, <1>3 DEF Durable, Flushed, fp!Units
    <2>2. Found' = Found
        BY <1>1 DEF Found, fp!Lookup, fp!IsHole, fp!Hole, fp!Slots, fp!Blocks
    <2>3. QED BY <1>1, <1>3, <1>4, <2>1, <2>2
              DEF Base, Shown, Target, fp!Blocks, fp!BlocksIn, fp!Units
<1>6. \A q \in DOMAIN pages : \A b \in fp!Blocks :
        /\ ~pages[q].buf[b].io
        /\ pages[q].buf[b].delta = fp!old => b < fp!BlocksIn(idata)
        /\ pages[q].buf[b].delta # None => Valid(pages[q], b)
    BY <1>1, <1>3 DEF Cache, PageOK, Device, Flushed, Valid
<1>7. \A b \in fp!Blocks :
        /\ Valid(pages'[p], b) <=> Valid(pages[p], b)
        /\ pages[p].buf[b].delta # fp!slot /\ pages'[p].buf[b].delta \notin {fp!slot, fp!old}
        /\ Sends(pages'[p], b, pflush', fp!old, idata) <=> pages[p].buf[b].delta = fp!old
        /\ Sends(pages[p], b, pflush, fp!old, idata) <=> pages[p].buf[b].delta = fp!old
        /\ pages'[p].buf[b].io => pages[p].buf[b].delta = fp!old
    <2>1. \A b \in fp!Blocks : pages[p].buf[b].delta # fp!slot
        <3>1. ~AnyDelta(pages[p], fp!slot)
            BY <1>2, <1>3, OldSlot, BlocksAndUnits DEF Cache, PageOK
        <3>2. QED BY <3>1 DEF AnyDelta
    <2>2. QED BY <1>1, <1>2, <1>3, <1>6, <2>1 DEF Valid, Sends
<1>8. \A q \in DOMAIN pages : \A b \in fp!Blocks :
        Sends(pages'[q], b, pflush', fp!old, idata) <=> Sends(pages[q], b, pflush, fp!old, idata)
    <2> TAKE q \in DOMAIN pages
    <2>1. CASE q = p
        BY <1>7, <2>1
    <2>2. CASE q # p
        <3>1. pages'[q] = pages[q] /\ \A b \in fp!Blocks : pages[q].buf[b].delta # fp!old
            BY <1>2, <2>2 DEF AnyDelta
        <3>2. QED BY <1>1, <3>1 DEF Sends
    <2>3. QED BY <2>1, <2>2
<1>9. /\ SentBlocks' = SentBlocks /\ OthersSend' = OthersSend /\ DirtyNow' = DirtyNow
      /\ Risky' = Risky
    <2>1. SentBlocks' = SentBlocks
        BY <1>1, <1>2, <1>3, <1>8 DEF SentBlocks, Sends, fp!Blocks, fp!BlocksIn
    <2>2. OthersSend' = OthersSend
        BY <1>1, <1>2, <1>3, <1>8 DEF OthersSend, Sends, fp!Blocks, fp!BlocksIn
    <2>3. DirtyNow' = DirtyNow
        <3>1. CASE live = p
            BY <1>1, <1>3, <1>7, <3>1 DEF DirtyNow, fp!Blocks
        <3>2. CASE live # p
            BY <1>1, <1>2, <1>3, <3>2 DEF DirtyNow, fp!Blocks, Cache
        <3>3. QED BY <3>1, <3>2
    <2>4. QED BY <1>5, <2>1, <2>2, <2>3 DEF Risky
<1>10. Flushed'
    <2>1. /\ file' \in [data : [fp!Units -> Unit], ops : Nat] /\ snap' \in [fp!Units -> Unit]
          /\ \A u \in fp!Units : u >= idata' => snap'[u] = 0
          /\ holes'[fp!old] = 2
        BY <1>1, <1>3 DEF Flushed
    <2>2. \A q \in DOMAIN pages : \A u \in fp!Units :
            Sends(pages'[q], u \div 2, pflush', fp!old, idata) =>
                /\ u \div 2 < fp!BlocksIn(idata)
                /\ u < idata => pages'[q].data[u] = snap[u]
                /\ u >= idata /\ pages'[q].buf[u \div 2].io => pages'[q].data[u] = 0
        <3> TAKE q \in DOMAIN pages
        <3> TAKE u \in fp!Units
        <3> HAVE Sends(pages'[q], u \div 2, pflush', fp!old, idata)
        <3>1. u \div 2 \in fp!Blocks /\ u \in Nat /\ Sends(pages[q], u \div 2, pflush, fp!old, idata)
            BY <1>8, BlocksAndUnits
        <3>2. /\ u \div 2 < fp!BlocksIn(idata)
              /\ u < idata => pages[q].data[u] = snap[u]
              /\ u >= idata /\ pages[q].buf[u \div 2].io => pages[q].data[u] = 0
            BY <1>3, <3>1 DEF Flushed, Carried
        <3>3. CASE q # p
            BY <1>2, <3>2, <3>3
        <3>4. CASE q = p
            <4>1. u < idata => pages'[p].data[u] = pages[p].data[u]
                BY <1>2, <1>3, <3>1
            <4>2. ASSUME u >= idata PROVE pages'[p].data[u] = 0
                <5>1. idata % 4 # 0
                    <6>1. idata \in {0, 1, 2, 3, 4} /\ u <= 3
                        BY <1>3, BlocksAndUnits
                    <6>2. idata # 4
                        BY <3>1, <4>2, <6>1
                    <6>3. idata # 0
                        BY <3>1, <3>2, BlocksAndUnits
                    <6>4. QED BY <6>1, <6>2, <6>3
                <5>2. QED BY <1>2, <4>2, <5>1
            <4>3. QED BY <3>2, <3>4, <4>1, <4>2
        <3>5. QED BY <3>3, <3>4
    <2>3. \A q \in DOMAIN pages' : Carried(pages[q])'
        BY <1>1, <1>2, <1>3, <2>2 DEF Carried, Sends, fp!Units, fp!BlocksIn
    <2>4. \A u \in fp!Units : u \div 2 \notin SentBlocks => fp!DataOf(pdtree[u \div 2], u) = snap[u]
        BY <1>1, <1>3 DEF Flushed
    <2>5. QED
        BY ONLY <1>1, <1>3, <1>9, <2>1, <2>3, <2>4
        DEF Flushed, fp!Units, fp!Blocks, fp!BlocksIn, fp!DataOf, fp!Hole, Unit
<1>11. Below'
    <2>1. UNCHANGED <<file, idata, holes>> /\ pflush # "idle" /\ pflush' # "idle"
        BY <1>1
    <2>2. QED BY ONLY <1>3, <1>4, <1>5, <1>9, <2>1 DEF Below, fp!Units, fp!BlocksIn
<1>12. LivePage'
    <2> SUFFICES ASSUME live # NoPage PROVE LivePage'
        BY <1>1 DEF LivePage
    <2>0. live \in DOMAIN pages /\ live' = live
        BY <1>1, <1>3 DEF Cache
    <2> DEFINE new == pages'[live]
    <2>1. CASE live = p
        <3>1. ~(op.pc = "size" /\ op.to = 0) => Holds(new, Target)
            <4> SUFFICES ASSUME ~(op.pc = "size" /\ op.to = 0), NEW u \in fp!Units,
                                Valid(new, u \div 2)
                         PROVE  new.data[u] = Target[u]
                BY DEF Holds
            <4>1. Valid(pages[live], u \div 2)
                BY <1>7, <2>1, BlocksAndUnits
            <4>2. pages[live].data[u] = Target[u]
                BY <1>3, <4>1 DEF LivePage, Holds
            <4>3. u >= idata => Target[u] = 0
                BY <1>1, <1>2, <1>3, <2>1 DEF LivePage, Target
            <4>4. QED BY <1>2, <2>1, <4>2, <4>3
        <3>2. kind = "file" => Unmapped(new, Risky)
            <4> SUFFICES ASSUME kind = "file", NEW b \in fp!Blocks,
                                new.buf[b].uptodate /\ ~new.buf[b].mapped,
                                \/ ~new.uptodate
                                \/ new.buf[b].delta # None \/ b \in Risky
                         PROVE  Blank(new, b)
                BY DEF Unmapped
            <4>1. new.buf[b] = pages[live].buf[b]
                BY <1>2, <2>1
            <4>2. Unmapped(pages[live], Risky)
                BY <1>3 DEF LivePage
            <4>3. Blank(pages[live], b)
                BY <1>2, <2>1, <4>1, <4>2 DEF Unmapped
            <4>4. QED BY <1>2, <2>1, <4>3 DEF Blank
        <3>3. kind = "file" => Addressed(new, Found)
            <4> SUFFICES ASSUME kind = "file", NEW b \in fp!Blocks,
                                new.buf[b].mapped /\ ~Valid(new, b) /\ ~new.buf[b].new
                         PROVE  Found[b] # fp!Hole /\ new.buffers
                BY DEF Addressed
            <4>1. ~Valid(pages[live], b)
                BY <1>7, <2>1
            <4>2. new.buf[b] = pages[live].buf[b]
                BY <1>2, <1>3, <1>6, <2>1, <4>1
            <4>3. Addressed(pages[live], Found)
                BY <1>3 DEF LivePage
            <4>4. QED BY <1>2, <2>1, <4>1, <4>2, <4>3 DEF Addressed
        <3>4. op.pc # "write" => Fresh(new)
            BY <1>2, <1>3, <2>1 DEF LivePage, Fresh
        <3>5. ~AnyDelta(new, fp!old)
            BY <1>7, <2>1 DEF AnyDelta
        <3> HIDE DEF new
        <3>6. new = pages'[live]
            BY DEF new
        <3>7. QED
            BY ONLY <1>1, <1>3, <1>5, <1>9, <2>0, <3>1, <3>2, <3>3, <3>4, <3>5, <3>6
            DEF LivePage, Holds, Unmapped, Addressed, Fresh, AnyDelta, Valid, Blank,
                fp!Units, fp!Blocks, fp!Hole, None
    <2>2. CASE live # p
        <3>1. pages'[live] = pages[live]
            BY <1>2, <2>0, <2>2
        <3>2. QED
            BY <1>1, <1>3, <1>5, <1>9, <2>0, <3>1
            DEF LivePage, Holds, Unmapped, Addressed, Fresh, AnyDelta, Valid, Blank,
                fp!Units, fp!Blocks, fp!Hole, None
    <2>3. QED BY <2>1, <2>2
<1>13. NoStale'
    <2> SUFFICES ASSUME NEW b \in Risky
                 PROVE  /\ live # NoPage /\ Valid(pages'[live], b) /\ pages'[live].buffers
                        /\ b \in OthersSend => pages'[live].dirty \/ unpinned
        BY <1>1, <1>9 DEF NoStale, Valid
    <2>1. /\ live # NoPage /\ Valid(pages[live], b) /\ pages[live].buffers
          /\ b \in OthersSend => pages[live].dirty \/ unpinned
          /\ live \in DOMAIN pages /\ b \in fp!Blocks
        BY <1>3 DEF NoStale, Cache, Risky, SentBlocks
    <2>2. CASE live = p
        <3>1. b \notin OthersSend
            BY <1>2, <1>6, <2>1, <2>2 DEF OthersSend, Sends, AnyDelta
        <3>2. QED BY <1>2, <1>7, <2>1, <2>2, <3>1
    <2>3. CASE live # p
        <3>1. pages'[live] = pages[live]
            BY <1>2, <2>1, <2>3
        <3>2. QED BY <2>1, <3>1
    <2>4. QED BY <2>2, <2>3
<1>14. Filling'
    <2>1. fill.on => FillData' = FillData
        BY <1>1 DEF FillData, fp!Filled, fp!IsHole, fp!Hole, fp!NewPage, fp!Slots, fp!Units, fp!Blocks,
               fp!BlockOf, fp!BlocksIn, fp!DataOf, fp!EmptyBuffer, fp!None, fp!Junk
    <2>2. QED BY ONLY <1>1, <1>3, <1>5, <2>1 DEF Filling, fp!Units
<1>15. Writing'
    <2>1. op.pc = "write" => live \in DOMAIN pages /\ pages'[live] = pages[live]
        BY <1>1, <1>2, <1>3 DEF Calls, Cache, fp!PageLocked
    <2>2. QED BY ONLY <1>1, <1>3, <2>1 DEF Writing, Ready, Valid, Covers, Covered, fp!Units, fp!Blocks
<1>16. Truncating'
    <2>1. live # NoPage => \A b \in fp!Blocks :
            ~pages[live].buf[b].mapped \/ Valid(pages[live], b)
                => ~pages'[live].buf[b].mapped \/ Valid(pages'[live], b)
        <3> SUFFICES ASSUME live # NoPage, NEW b \in fp!Blocks,
                            ~pages[live].buf[b].mapped \/ Valid(pages[live], b)
                     PROVE  ~pages'[live].buf[b].mapped \/ Valid(pages'[live], b)
            OBVIOUS
        <3>1. live \in DOMAIN pages
            BY <1>3 DEF Cache
        <3>2. CASE live = p
            BY <1>2, <1>3, <1>6, <1>7, <3>2
        <3>3. CASE live # p
            BY <1>2, <3>1, <3>3 DEF Valid
        <3>4. QED BY <3>2, <3>3
    <2>2. QED
        BY ONLY <1>1, <1>3, <1>4, <2>1
        DEF Truncating, Cutting, Valid, fp!Blocks, fp!BlocksIn, fp!Slots, fp!Idle
<1>17. QED BY <1>10, <1>11, <1>12, <1>13, <1>14, <1>15, <1>16 DEF DataInv

(* The buffers after a bio: bufvec_end_io_multiple().                       *)
LEMMA EndedEffect ==
    ASSUME NEW pg, PageOK(pg), NEW bio
    PROVE  LET new == fp!Ended(pg, bio)
           IN  /\ new.data = pg.data /\ (new.uptodate <=> pg.uptodate)
               /\ (new.buffers <=> pg.buffers) /\ (new.dirty <=> pg.dirty)
               /\ \A b \in fp!Blocks :
                    /\ new.buf[b].delta = pg.buf[b].delta
                    /\ new.buf[b].mapped <=> pg.buf[b].mapped
                    /\ new.buf[b].uptodate <=> pg.buf[b].uptodate
                    /\ new.buf[b].new <=> pg.buf[b].new
                    /\ new.buf[b].io <=> pg.buf[b].io /\ b \notin bio
<1> DEFINE bufs == [b \in fp!Blocks |-> [pg.buf[b] EXCEPT !.io = pg.buf[b].io /\ b \notin bio]]
           writeback == \E b \in fp!Blocks \ bio : pg.buf[b].io
           new == [pg EXCEPT !.buf = bufs, !.writeback = writeback]
<1>1. pg \in fp!PageType /\ pg.buf \in [fp!Blocks -> fp!Buffer]
    BY PageFields DEF PageOK
<1>2. fp!Ended(pg, bio) = new
    <2>1. bufs = [b \in fp!Blocks |-> [pg.buf[b] EXCEPT !.io = @ /\ b \notin bio]]
        OBVIOUS
    <2>2. QED BY <2>1 DEF fp!Ended
<1>3. /\ new.buf = bufs /\ new.data = pg.data /\ (new.uptodate <=> pg.uptodate)
      /\ (new.buffers <=> pg.buffers) /\ (new.dirty <=> pg.dirty)
    <2> HIDE DEF bufs, writeback
    <2>1. QED BY <1>1 DEF fp!PageType
<1>4. \A b \in fp!Blocks :
        /\ bufs[b].delta = pg.buf[b].delta
        /\ bufs[b].mapped <=> pg.buf[b].mapped
        /\ bufs[b].uptodate <=> pg.buf[b].uptodate
        /\ bufs[b].new <=> pg.buf[b].new
        /\ bufs[b].io <=> pg.buf[b].io /\ b \notin bio
    BY <1>1 DEF fp!Buffer
<1> HIDE DEF new, bufs
<1>5. QED BY <1>2, <1>3, <1>4

(* A page that was written to the device keeps the data invariant           *)
(* (kernel/buffer_writeback.c:497).                                         *)
LEMMA DataEndIO ==
    ASSUME PagesInv, PagesInv', DataInv, NEW p \in Pages, fp!EndIO(p)
    PROVE  DataInv'
<1>1. PICK bio \in fp!Bios(pages[p]) :
      /\ pdtree' = [b \in fp!Blocks |->
                      IF b \in bio THEN <<pages[p].data[2 * b], pages[p].data[2 * b + 1]>>
                      ELSE pdtree[b]]
      /\ pages' = [pages EXCEPT ![p] = fp!Ended(pages[p], bio)]
      /\ pflush' = IF \E b \in fp!Blocks \ bio : pages[p].buf[b].io THEN "io" ELSE "commit"
    BY DEF fp!EndIO
<1>2. /\ pflush = "io" /\ pflush' \in {"io", "commit"} /\ p \in DOMAIN pages
      /\ UNCHANGED <<kind, live, forked, psize, holes, op, fill, pdelta, idata, file, snap,
                     unpinned>>
    BY <1>1 DEF fp!EndIO
<1>3. /\ fp!slot' = fp!slot /\ fp!old' = fp!old
      /\ PTyped /\ Cache /\ Deltas /\ Device /\ Calls
      /\ Flushed /\ Below /\ LivePage /\ NoStale /\ Filling /\ Writing /\ Truncating
    BY <1>2, OldSlot DEF DataInv, PagesInv
<1>4. bio \subseteq {b \in fp!Blocks : pages[p].buf[b].io}
    BY <1>1 DEF fp!Bios
<1>5. \A q \in DOMAIN pages :
        /\ pages'[q].data = pages[q].data /\ (pages'[q].uptodate <=> pages[q].uptodate)
        /\ (pages'[q].buffers <=> pages[q].buffers) /\ (pages'[q].dirty <=> pages[q].dirty)
        /\ \A b \in fp!Blocks :
             /\ pages'[q].buf[b].delta = pages[q].buf[b].delta
             /\ pages'[q].buf[b].mapped <=> pages[q].buf[b].mapped
             /\ pages'[q].buf[b].uptodate <=> pages[q].buf[b].uptodate
             /\ pages'[q].buf[b].new <=> pages[q].buf[b].new
             /\ pages'[q].buf[b].io <=> pages[q].buf[b].io /\ (q = p => b \notin bio)
    <2> TAKE q \in DOMAIN pages
    <2>1. CASE q = p
        <3>1. pages'[p] = fp!Ended(pages[p], bio) /\ PageOK(pages[p])
            BY <1>1, <1>2, <1>3 DEF Cache
        <3>2. QED BY <2>1, <3>1, EndedEffect
    <2>2. CASE q # p
        <3>1. pages'[q] = pages[q]
            BY <1>1, <2>2
        <3>2. QED BY <2>2, <3>1
    <2>3. QED BY <2>1, <2>2
<1>6. DOMAIN pages' = DOMAIN pages
    BY <1>1
<1>7. Lim' = Lim /\ Sz' = Sz /\ Cutting' = Cutting
    BY <1>2 DEF Lim, Sz, Cutting, fp!Max
<1>8. Base' = Base /\ Shown' = Shown /\ Target' = Target
    <2>1. Durable = snap /\ Durable' = snap
        BY <1>2, <1>3 DEF Durable, Flushed, fp!Units
    <2>2. QED BY <1>2, <1>3, <1>7, <2>1 DEF Base, Shown, Target, fp!Blocks, fp!BlocksIn, fp!Units
<1>9. \A q \in DOMAIN pages : \A b \in fp!Blocks :
        /\ Sends(pages[q], b, pflush, fp!old, idata) <=> pages[q].buf[b].io
        /\ Sends(pages'[q], b, pflush', fp!old, idata) <=> pages'[q].buf[b].io
        /\ pages[q].buf[b].io => q = p
        /\ pages'[q].buf[b].io <=> pages[q].buf[b].io /\ b \notin bio
    <2> TAKE q \in DOMAIN pages
    <2> TAKE b \in fp!Blocks
    <2>1. pages[q].buf[b].delta # fp!old /\ pages'[q].buf[b].delta # fp!old
        BY <1>2, <1>3, <1>5 DEF Deltas, AnyDelta
    <2>2. pages[q].buf[b].io => q = p
        <3> SUFFICES ASSUME pages[q].buf[b].io PROVE q = p
            OBVIOUS
        <3>1. \E k \in fp!Blocks : pages[p].buf[k].io
            BY <1>1 DEF fp!Bios
        <3>2. pages[p].writeback /\ pages[q].writeback
            BY <1>2, <1>3, <3>1 DEF Cache, PageOK
        <3>3. QED BY <1>2, <1>3, <3>2 DEF Device
    <2>3. QED BY <1>5, <2>1, <2>2 DEF Sends
<1>10. SentBlocks' = SentBlocks \ bio /\ OthersSend' \subseteq OthersSend /\ DirtyNow' = DirtyNow
    <2>1. SentBlocks' = {b \in fp!Blocks : \E q \in DOMAIN pages :
                            Sends(pages'[q], b, pflush', fp!old, idata)}
        BY <1>2, <1>3, <1>6 DEF SentBlocks, Sends, fp!Blocks, fp!BlocksIn
    <2>2. OthersSend' = {b \in fp!Blocks : \E q \in DOMAIN pages \ {live} :
                            Sends(pages'[q], b, pflush', fp!old, idata)}
        BY <1>2, <1>3, <1>6 DEF OthersSend, Sends, fp!Blocks, fp!BlocksIn
    <2>3. DirtyNow' = DirtyNow
        BY <1>2, <1>3, <1>5 DEF DirtyNow, fp!Blocks, Cache
    <2>4. QED BY <1>9, <2>1, <2>2, <2>3 DEF SentBlocks, OthersSend
<1>11. Risky' \subseteq Risky
    BY <1>8, <1>10 DEF Risky
<1>12. \A b \in fp!Blocks : Found[b] # fp!Hole => Found'[b] # fp!Hole
    <2> SUFFICES ASSUME NEW b \in fp!Blocks, Found[b] # fp!Hole PROVE Found'[b] # fp!Hole
        OBVIOUS
    <2>1. Found[b] = IF fp!IsHole(holes, b) THEN fp!Hole ELSE pdtree[b]
        BY DEF Found, fp!Lookup
    <2>2. Found'[b] = IF fp!IsHole(holes, b) THEN fp!Hole ELSE pdtree'[b]
        BY <1>2 DEF Found, fp!Lookup, fp!Hole, fp!IsHole, fp!Slots, fp!Blocks
    <2>3. <<pages[p].data[2 * b], pages[p].data[2 * b + 1]>> # fp!Hole
        BY DEF fp!Hole
    <2>4. QED BY <1>1, <2>1, <2>2, <2>3
<1>13. Flushed'
    <2>1. /\ file' \in [data : [fp!Units -> Unit], ops : Nat] /\ snap' \in [fp!Units -> Unit]
          /\ \A u \in fp!Units : u >= idata' => snap'[u] = 0
          /\ holes'[fp!old] = 2
        BY <1>2, <1>3 DEF Flushed
    <2>2. \A q \in DOMAIN pages : \A u \in fp!Units :
            pages[q].buf[u \div 2].io =>
                /\ u \div 2 < fp!BlocksIn(idata)
                /\ u < idata => pages[q].data[u] = snap[u]
                /\ u >= idata => pages[q].data[u] = 0
        BY <1>3, <1>9, BlocksAndUnits DEF Flushed, Carried
    <2>3. \A q \in DOMAIN pages : \A u \in fp!Units :
            Sends(pages'[q], u \div 2, pflush', fp!old, idata) =>
                /\ u \div 2 < fp!BlocksIn(idata)
                /\ u < idata => pages'[q].data[u] = snap[u]
                /\ u >= idata => pages'[q].data[u] = 0
        BY <1>5, <1>9, <2>2, BlocksAndUnits
    <2>4. \A q \in DOMAIN pages' : Carried(pages[q])'
        BY <1>2, <1>3, <1>6, <2>3 DEF Carried, Sends, fp!Units, fp!BlocksIn
    <2>5. \A u \in fp!Units : u \div 2 \notin SentBlocks' => fp!DataOf(pdtree'[u \div 2], u) = snap[u]
        <3> SUFFICES ASSUME NEW u \in fp!Units, u \div 2 \notin SentBlocks'
                     PROVE  fp!DataOf(pdtree'[u \div 2], u) = snap[u]
            OBVIOUS
        <3>0. u \div 2 \in fp!Blocks /\ u \in {0, 1, 2, 3}
            BY BlocksAndUnits
        <3>1. CASE u \div 2 \in bio
            <4>1. /\ pdtree'[u \div 2]
                       = <<pages[p].data[2 * (u \div 2)], pages[p].data[2 * (u \div 2) + 1]>>
                  /\ pages[p].buf[u \div 2].io
                BY <1>1, <1>4, <3>0, <3>1
            <4>2. fp!DataOf(pdtree'[u \div 2], u) = pages[p].data[u]
                <5>1. pdtree'[u \div 2] # fp!Hole
                    BY <4>1 DEF fp!Hole
                <5>2. \/ u % 2 = 0 /\ u = 2 * (u \div 2)
                      \/ u % 2 = 1 /\ u = 2 * (u \div 2) + 1
                    BY <3>0
                <5>3. fp!DataOf(pdtree'[u \div 2], u) = pdtree'[u \div 2][(u % 2) + 1]
                    BY <5>1 DEF fp!DataOf
                <5>4. CASE u % 2 = 0 /\ u = 2 * (u \div 2)
                    <6>1. (u % 2) + 1 = 1
                        BY <5>4
                    <6>2. pdtree'[u \div 2][1] = pages[p].data[2 * (u \div 2)]
                        BY <4>1
                    <6>3. QED BY <5>3, <5>4, <6>1, <6>2
                <5>5. CASE u % 2 = 1 /\ u = 2 * (u \div 2) + 1
                    <6>1. (u % 2) + 1 = 2
                        BY <5>5
                    <6>2. pdtree'[u \div 2][2] = pages[p].data[2 * (u \div 2) + 1]
                        BY <4>1
                    <6>3. QED BY <5>3, <5>5, <6>1, <6>2
                <5>6. QED BY <5>2, <5>4, <5>5
            <4>3. u >= idata => snap[u] = 0
                BY <1>2, <1>3 DEF Flushed
            <4>4. u < idata \/ u >= idata
                BY <1>3, <3>0 DEF PTyped
            <4>5. QED BY <1>2, <2>2, <4>1, <4>2, <4>3, <4>4
        <3>2. CASE u \div 2 \notin bio
            <4>1. pdtree'[u \div 2] = pdtree[u \div 2] /\ u \div 2 \notin SentBlocks
                BY <1>1, <1>10, <3>0, <3>2
            <4>2. fp!DataOf(pdtree[u \div 2], u) = snap[u]
                BY <1>2, <1>3, <4>1 DEF Flushed
            <4>3. QED BY <4>1, <4>2 DEF fp!DataOf
        <3>3. QED BY <3>1, <3>2
    <2>6. QED
        BY ONLY <1>2, <1>3, <2>1, <2>4, <2>5
        DEF Flushed, fp!Units, fp!Blocks, fp!BlocksIn, fp!DataOf, fp!Hole, Unit
<1>14. Below'
    <2>1. UNCHANGED <<file, idata, holes>> /\ pflush # "idle" /\ pflush' # "idle"
        BY <1>2
    <2>2. QED BY ONLY <1>3, <1>7, <1>8, <1>10, <2>1 DEF Below, fp!Units, fp!BlocksIn
<1>15. LivePage'
    <2> SUFFICES ASSUME live # NoPage PROVE LivePage'
        BY <1>2 DEF LivePage
    <2>0. live \in DOMAIN pages /\ live' = live
        BY <1>2, <1>3 DEF Cache
    <2> DEFINE new == pages'[live]
    <2>1. ~(op.pc = "size" /\ op.to = 0) => Holds(new, Target)
        BY <1>3, <1>5, <2>0, BlocksAndUnits DEF LivePage, Holds, Valid
    <2>2. kind = "file" => Unmapped(new, Risky')
        BY <1>3, <1>5, <1>11, <2>0 DEF LivePage, Unmapped, Blank
    <2>3. kind = "file" => Addressed(new, Found')
        BY <1>3, <1>5, <1>12, <2>0 DEF LivePage, Addressed, Valid
    <2>4. op.pc # "write" => Fresh(new)
        BY <1>3, <1>5, <2>0 DEF LivePage, Fresh
    <2>5. ~AnyDelta(new, fp!old)
        BY <1>2, <1>3, <1>5, <2>0 DEF Deltas, AnyDelta
    <2> HIDE DEF new
    <2>6. new = pages'[live]
        BY DEF new
    <2>7. QED
        BY ONLY <1>2, <1>3, <1>8, <2>0, <2>1, <2>2, <2>3, <2>4, <2>5, <2>6
        DEF LivePage, Holds, Unmapped, Addressed, Fresh, AnyDelta, Valid, Blank,
            fp!Units, fp!Blocks, fp!Hole, None
<1>16. NoStale'
    <2> SUFFICES ASSUME NEW b \in Risky
                 PROVE  /\ live # NoPage /\ Valid(pages'[live], b) /\ pages'[live].buffers
                        /\ b \in OthersSend => pages'[live].dirty \/ unpinned
        BY <1>2, <1>10, <1>11 DEF NoStale, Valid
    <2>1. /\ live # NoPage /\ Valid(pages[live], b) /\ pages[live].buffers
          /\ b \in OthersSend => pages[live].dirty \/ unpinned
          /\ live \in DOMAIN pages /\ b \in fp!Blocks
        BY <1>3 DEF NoStale, Cache, Risky, SentBlocks
    <2>2. QED BY <1>5, <2>1 DEF Valid
<1>17. Filling'
    <2>1. fill.on => FillData' = FillData
        BY <1>2 DEF FillData, fp!Filled, fp!IsHole, fp!Hole, fp!NewPage, fp!Slots, fp!Units, fp!Blocks,
               fp!BlockOf, fp!BlocksIn, fp!DataOf, fp!EmptyBuffer, fp!None, fp!Junk
    <2>2. QED BY ONLY <1>2, <1>3, <1>8, <2>1 DEF Filling, fp!Units
<1>18. Writing'
    <2>1. op.pc = "write" => live \in DOMAIN pages /\ pages'[live] = pages[live]
        <3> SUFFICES ASSUME op.pc = "write" PROVE live \in DOMAIN pages /\ pages'[live] = pages[live]
            OBVIOUS
        <3>1. live \in DOMAIN pages /\ ~pages[live].writeback
            BY <1>3 DEF Calls, Cache, Writable, Changeable
        <3>2. \E k \in fp!Blocks : pages[p].buf[k].io
            BY <1>1 DEF fp!Bios
        <3>3. pages[p].writeback
            BY <1>2, <1>3, <3>2 DEF Cache, PageOK
        <3>4. QED BY <1>1, <3>1, <3>3
    <2>2. QED BY ONLY <1>2, <1>3, <2>1 DEF Writing, Ready, Valid, Covers, Covered, fp!Units, fp!Blocks
<1>19. Truncating'
    <2>1. live # NoPage => \A b \in fp!Blocks :
            ~pages[live].buf[b].mapped \/ Valid(pages[live], b)
                => ~pages'[live].buf[b].mapped \/ Valid(pages'[live], b)
        BY <1>3, <1>5 DEF Cache, Valid
    <2>2. QED
        BY ONLY <1>2, <1>3, <1>7, <2>1
        DEF Truncating, Cutting, Valid, fp!Blocks, fp!BlocksIn, fp!Slots, fp!Idle
<1>20. QED BY <1>13, <1>14, <1>15, <1>16, <1>17, <1>18, <1>19 DEF DataInv

(* post_commit(), free_forked_buffers(): nothing is on its way any more,    *)
(* the dtree is the file at the end of the delta.                           *)
LEMMA DataCommitDelta ==
    ASSUME PagesInv, PagesInv', DataInv, fp!CommitDelta
    PROVE  DataInv'
<1>1. PICK freed \in SUBSET fp!Freeable : forked' = forked \ freed /\ pages' = fp!Without(freed)
    BY DEF fp!CommitDelta
<1>2. /\ pflush = "commit" /\ pflush' = "idle"
      /\ UNCHANGED <<kind, live, psize, holes, pdtree, op, fill, pdelta, idata, file, snap>>
    BY DEF fp!CommitDelta
<1>3. /\ fp!slot' = fp!slot /\ fp!old' = fp!old
      /\ PTyped /\ Cache /\ Deltas /\ Device /\ Calls
      /\ Flushed /\ Below /\ LivePage /\ NoStale /\ Filling /\ Writing /\ Truncating
    BY <1>2, OldSlot DEF DataInv, PagesInv
<1>4. /\ DOMAIN pages' = DOMAIN pages \ freed /\ freed \subseteq forked
      /\ \A q \in DOMAIN pages' : pages'[q] = pages[q]
      /\ live # NoPage => live \in DOMAIN pages /\ live \in DOMAIN pages' /\ pages'[live] = pages[live]
    BY <1>1, <1>3 DEF fp!Without, fp!Freeable, Cache
<1>5. SentBlocks = {}
    BY <1>2, NothingSent
<1>6. \A q \in DOMAIN pages' : \A b \in fp!Blocks : ~pages'[q].buf[b].io
    BY <1>2, <1>3, <1>4 DEF Cache, PageOK, Device
<1>7. SentBlocks' = {} /\ OthersSend' = {} /\ Risky' = {}
    <2>1. SentBlocks' = {} /\ OthersSend' = {}
        BY <1>2, <1>6 DEF SentBlocks, OthersSend, Sends, fp!Blocks
    <2>2. QED BY <2>1 DEF Risky
<1>8. DirtyNow' = DirtyNow
    BY <1>2, <1>3, <1>4 DEF DirtyNow, fp!Blocks
<1>9. Lim' = Lim /\ Sz' = Sz /\ Cutting' = Cutting
    BY <1>2 DEF Lim, Sz, Cutting, fp!Max
<1>10. Base' = Base /\ Target' = Target /\ Found' = Found
    <2>1. Durable = snap
        BY <1>2, <1>3 DEF Durable, Flushed, fp!Units
    <2>2. Durable' = snap
        <3>1. \A u \in fp!Units : fp!DataOf(pdtree[u \div 2], u) = snap[u]
            BY <1>2, <1>3, <1>5 DEF Flushed
        <3>2. \A u \in fp!Units : fp!DataOf(pdtree'[u \div 2], u) = snap[u]
            BY <1>2, <3>1 DEF fp!DataOf
        <3>3. Durable' = [u \in fp!Units |-> fp!DataOf(pdtree'[u \div 2], u)]
            BY <1>2 DEF Durable, fp!Units, fp!DataOf, fp!Hole
        <3>4. snap = [u \in fp!Units |-> snap[u]]
            BY <1>3 DEF Flushed
        <3> HIDE DEF fp!DataOf
        <3>5. QED BY <3>2, <3>3, <3>4
    <2>3. Found' = Found
        BY <1>2 DEF Found, fp!Lookup, fp!IsHole, fp!Hole, fp!Slots, fp!Blocks
    <2>4. QED BY <1>2, <1>3, <1>9, <2>1, <2>2, <2>3 DEF Base, Target, fp!BlocksIn, fp!Units
<1>11. Flushed'
    <2>1. /\ file' \in [data : [fp!Units -> Unit], ops : Nat] /\ snap' \in [fp!Units -> Unit]
          /\ holes'[fp!old] = 2
        BY <1>2, <1>3 DEF Flushed
    <2>2. \A q \in DOMAIN pages' : Carried(pages[q])'
        BY <1>2, <1>6, BlocksAndUnits DEF Carried, Sends, fp!Units, fp!BlocksIn
    <2>3. QED
        BY ONLY <1>2, <1>3, <2>1, <2>2
        DEF Flushed, fp!Units, fp!Blocks, fp!BlocksIn, fp!DataOf, fp!Hole, Unit
<1>12. Below'
    <2>1. UNCHANGED <<file, idata, holes>> /\ pflush' = "idle"
        BY <1>2
    <2>2. QED BY ONLY <1>3, <1>8, <1>9, <1>10, <2>1 DEF Below, fp!Units, fp!BlocksIn
<1>13. LivePage'
    <2>1. live # NoPage /\ kind = "file" => Unmapped(pages[live], {})
        BY <1>3 DEF LivePage, Unmapped
    <2>2. QED
        BY ONLY <1>2, <1>3, <1>4, <1>7, <1>10, <2>1
        DEF LivePage, Holds, Unmapped, Addressed, Fresh, AnyDelta, Valid, Blank,
            fp!Units, fp!Blocks, fp!Hole, None
<1>14. NoStale'
    BY <1>7 DEF NoStale
<1>15. Filling'
    <2>1. fill.on => FillData' = FillData
        BY <1>2 DEF FillData, fp!Filled, fp!IsHole, fp!Hole, fp!NewPage, fp!Slots, fp!Units, fp!Blocks,
               fp!BlockOf, fp!BlocksIn, fp!DataOf, fp!EmptyBuffer, fp!None, fp!Junk
    <2>2. QED BY ONLY <1>2, <1>3, <1>10, <2>1 DEF Filling, fp!Units
<1>16. Writing'
    <2>1. op.pc = "write" => live # NoPage
        BY <1>3 DEF Calls
    <2>2. QED
        BY ONLY <1>2, <1>3, <1>4, <2>1 DEF Writing, Ready, Valid, Covers, Covered, fp!Units, fp!Blocks
<1>17. Truncating'
    BY ONLY <1>2, <1>3, <1>4, <1>9
    DEF Truncating, Cutting, Valid, fp!Blocks, fp!BlocksIn, fp!Slots, fp!Idle
<1>18. QED BY <1>11, <1>12, <1>13, <1>14, <1>15, <1>16, <1>17 DEF DataInv

(* tux3_evict_inode(): a clean inode loses its pages, nothing else had what *)
(* they had.                                                                *)
LEMMA DataEvict ==
    ASSUME PagesInv, PagesInv', DataInv, fp!Evict
    PROVE  DataInv'
<1>1. /\ op = fp!Idle /\ pflush = "idle" /\ ~fill.on /\ \A p \in DOMAIN pages : ~pages[p].dirty
      /\ live' = NoPage /\ forked' = {} /\ pages' = [p \in {} |-> fp!NewPage]
      /\ UNCHANGED <<kind, psize, holes, pdtree, op, fill, pflush, pdelta, idata, file, snap,
                     unpinned>>
    BY DEF fp!Evict
<1>2. DOMAIN pages' = {}
    BY <1>1
<1>3. /\ fp!slot' = fp!slot /\ fp!old' = fp!old /\ fp!slot \in fp!Slots /\ None \notin fp!Slots
      /\ Cache /\ Flushed /\ Below /\ Truncating
    BY <1>1, OldSlot, Types, BlocksAndUnits DEF DataInv, PagesInv, None
<1>4. DirtyNow = {} /\ DirtyNow' = {}
    <2>1. DirtyNow' = {}
        BY <1>1 DEF DirtyNow
    <2>2. ASSUME NEW b \in DirtyNow PROVE FALSE
        <3>1. live \in DOMAIN pages /\ b \in fp!Blocks /\ pages[live].buf[b].delta # None
            BY <1>3 DEF DirtyNow, Cache
        <3>2. QED BY <1>1, <1>3, <3>1 DEF Cache, PageOK
    <2>3. QED BY <2>1, <2>2
<1>5. Lim' = Lim /\ Sz' = Sz /\ Cutting' = Cutting /\ op.pc = "idle"
    BY <1>1 DEF Lim, Sz, Cutting, fp!Max, fp!Idle
<1>6. Base' = Base /\ Target' = Target
    BY <1>1, <1>5, SameBelow
<1>7. SentBlocks' = {} /\ Risky' = {}
    <2>1. SentBlocks' = {}
        BY <1>2 DEF SentBlocks
    <2>2. QED BY <2>1 DEF Risky
<1>8. Flushed'
    <2>1. /\ file' \in [data : [fp!Units -> Unit], ops : Nat] /\ snap' \in [fp!Units -> Unit]
          /\ holes'[fp!old] = 2
        BY <1>1, <1>3 DEF Flushed
    <2>2. \A q \in DOMAIN pages' : Carried(pages[q])'
        BY <1>2
    <2>3. QED
        BY ONLY <1>1, <1>3, <2>1, <2>2
        DEF Flushed, fp!Units, fp!Blocks, fp!BlocksIn, fp!DataOf, fp!Hole, Unit
<1>9. Below'
    <2>1. UNCHANGED <<file, idata, holes, pflush>>
        BY <1>1
    <2>2. QED BY ONLY <1>3, <1>4, <1>5, <1>6, <2>1 DEF Below, fp!Units, fp!BlocksIn
<1>10. LivePage' /\ NoStale' /\ Filling' /\ Writing'
    BY <1>1, <1>5, <1>7 DEF LivePage, NoStale, Filling, Writing
<1>11. Truncating'
    <2>1. Truncating' <=> /\ kind = "dir" => op = fp!Idle /\ holes = [s \in fp!Slots |-> 2]
                                            /\ psize % 2 = 0
        BY <1>1, <1>5 DEF Truncating, Cutting, fp!Slots, fp!Idle
    <2>2. QED BY <1>3, <2>1 DEF Truncating
<1>12. QED BY <1>8, <1>9, <1>10, <1>11 DEF DataInv

-----------------------------------------------------------------------------
(* A new inode has no data anywhere. *)
LEMMA DataInit ==
    ASSUME FrontInit
    PROVE  DataInv
<1>1. /\ kind \in {"file", "dir"}
      /\ pages = [p \in {} |-> fp!NewPage] /\ live = NoPage /\ forked = {}
      /\ psize = 0 /\ holes = [s \in fp!Slots |-> 2] /\ pdtree = [b \in fp!Blocks |-> fp!Hole]
      /\ op = fp!Idle /\ fill = fp!NoFill /\ pflush = "idle" /\ idata = 0
      /\ file = [data |-> [u \in fp!Units |-> 0], ops |-> 0] /\ snap = [u \in fp!Units |-> 0]
    BY DEF FrontInit, fp!Init
<1>2. PagesInv
    BY PagesInit
<1>3. DOMAIN pages = {} /\ op.pc = "idle" /\ ~fill.on
    BY <1>1 DEF fp!Idle, fp!NoFill
<1>4. fp!slot \in fp!Slots /\ fp!old \in fp!Slots
    BY <1>2, Types DEF PagesInv
<1>5. \A u \in fp!Units : Durable[u] = 0 /\ Base[u] = 0 /\ Target[u] = 0
    <2> SUFFICES ASSUME NEW u \in fp!Units
                 PROVE  Durable[u] = 0 /\ Base[u] = 0 /\ Target[u] = 0
        OBVIOUS
    <2>1. u \div 2 \in fp!Blocks
        BY BlocksAndUnits
    <2>2. Durable[u] = 0
        BY <1>1, <2>1 DEF Durable, fp!DataOf
    <2>3. QED BY <1>1, <2>2 DEF Base, Target
<1>6. SentBlocks = {} /\ Risky = {}
    BY <1>3 DEF SentBlocks, Risky
<1>7. Flushed
    <2>1. file \in [data : [fp!Units -> Unit], ops : Nat] /\ snap \in [fp!Units -> Unit]
        BY <1>1 DEF Unit
    <2>2. holes[fp!old] = 2
        BY <1>1, <1>4
    <2>3. QED BY <1>1, <1>3, <2>1, <2>2 DEF Flushed
<1>8. Below
    BY <1>1, <1>5 DEF Below
<1>9. LivePage /\ NoStale /\ Filling /\ Writing
    BY <1>1, <1>3, <1>6 DEF LivePage, NoStale, Filling, Writing
<1>10. Truncating
    BY <1>1, <1>3 DEF Truncating, Cutting
<1>11. QED BY <1>7, <1>8, <1>9, <1>10 DEF DataInv

(* Every step that is in no race keeps the data invariant.                  *)
LEMMA DataStep ==
    ASSUME PagesInv, DataInv, [FrontNext]_frontVars, raced' = {}
    PROVE  DataInv'
<1>0. PagesInv'
    BY PagesStep
<1>1. CASE UNCHANGED pagesVars
    <2>1. UNCHANGED <<kind, pages, live, forked, psize, holes, pdtree, op, pflush, pdelta, idata,
                      file, snap, unpinned, fill>>
        BY <1>1 DEF pagesVars
    <2>2. /\ Flushed' /\ Below' /\ LivePage' /\ NoStale' /\ Writing' /\ Truncating'
          /\ Target' = Target
        BY <1>0, <2>1, Undisturbed
    <2>3. Filling'
        <3>1. fill.on => FillData' = FillData
            BY <2>1 DEF FillData, fp!Filled, fp!IsHole, fp!Hole, fp!NewPage, fp!Slots, fp!Units,
               fp!Blocks, fp!BlockOf, fp!BlocksIn, fp!DataOf, fp!EmptyBuffer, fp!None, fp!Junk
        <3>2. Filling
            BY DEF DataInv
        <3>3. QED BY ONLY <2>1, <2>2, <3>1, <3>2 DEF Filling, fp!Units
    <2>4. QED BY <2>2, <2>3 DEF DataInv
<1>2. CASE fp!Next
    <2>1. CASE \E from \in Starts, to \in Ends : from < to /\ fp!WriteBegin(from, to)
        BY <1>0, <2>1, DataWriteBegin
    <2>2. CASE \E all \in BOOLEAN : fp!WriteEnd(all)
        BY <1>0, <2>2, DataWriteEnd
    <2>3. CASE \E b \in fp!Blocks : fp!BlockWrite(b)
        BY <1>0, <2>3, DataBlockWrite
    <2>4. CASE \E newsize \in 0 .. 4 : fp!TruncatePartial(newsize)
        BY <1>0, <2>4, DataTruncatePartial
    <2>5. CASE fp!TruncateSize  BY <1>0, <2>5, DataTruncateSize
    <2>6. CASE fp!TruncateHole  BY <1>0, <2>6, DataTruncateHole
    <2>7. CASE fp!FillLookup    BY <1>0, <2>7, DataFillLookup
    <2>8. CASE fp!FillRead      BY <1>0, <2>8, DataFillRead
    <2>9. CASE fp!FillBlocks    BY <1>0, <2>9, DataFillBlocks
    <2>10. CASE fp!Reclaim      BY <1>0, <2>10, DataReclaim
    <2>11. CASE fp!Transition   BY <1>0, <2>11, DataTransition
    <2>12. CASE fp!Chop         BY <1>0, <2>12, DataChop
    <2>13. CASE fp!Unhole       BY <1>0, <2>13, DataUnhole
    <2>14. CASE fp!Map          BY <1>0, <2>14, DataMap
    <2>15. CASE \E p \in Pages : fp!Prepare(p)
        BY <1>0, <2>15, DataPrepare
    <2>16. CASE \E p \in Pages : fp!EndIO(p)
        BY <1>0, <2>16, DataEndIO
    <2>17. CASE fp!CommitDelta  BY <1>0, <2>17, DataCommitDelta
    <2>18. CASE fp!Evict        BY <1>0, <2>18, DataEvict
    <2>19. QED
        BY <1>2, <2>1, <2>2, <2>3, <2>4, <2>5, <2>6, <2>7, <2>8, <2>9, <2>10, <2>11, <2>12,
           <2>13, <2>14, <2>15, <2>16, <2>17, <2>18 DEF fp!Next
<1>3. QED
    BY <1>1, <1>2 DEF FrontNext, frontVars

(* The invariant of both theorems: the data is right until there is a race. *)
RaceFree == raced = {} => DataInv

LEMMA RaceFreeStep ==
    ASSUME PagesInv, RaceFree, [FrontNext]_frontVars
    PROVE  RaceFree'
<1> SUFFICES ASSUME raced' = {} PROVE DataInv'
    BY DEF RaceFree
<1>1. raced = {}
    BY RacedGrows
<1>2. QED BY <1>1, DataStep DEF RaceFree

(* Between system calls a read gives the file as they left it, whatever     *)
(* page was forked, flushed, reclaimed or filled again, and whatever hole   *)
(* is in between, until one of the three races that raced records: the page *)
(* cache first, then the hole extents, then the dtree                       *)
(* (kernel/filemap_hole.c:6-13).                                            *)
THEOREM PagesReadExactly == FrontSpec => []PagesReadExact
<1>1. FrontInit => PagesInv /\ RaceFree
    BY PagesInit, DataInit DEF RaceFree
<1>2. PagesInv /\ RaceFree /\ [FrontNext]_frontVars => (PagesInv /\ RaceFree)'
    BY PagesStep, RaceFreeStep
<1>3. PagesInv /\ RaceFree => PagesReadExact
    BY ReadsExactly DEF PagesReadExact, RaceFree, fp!ReadExact
<1>4. QED
    BY <1>1, <1>2, <1>3, PTL DEF FrontSpec

(* When the flush of a delta is done, the blocks of the inode are the file  *)
(* at the end of that delta, nothing of the next one, and zero behind the   *)
(* end of the file in the last block (kernel/buffer_fork.c:480,             *)
(* kernel/buffer_writeback.c:296), until one of the three races; on the way *)
(* no assertion fires, with races or without.                               *)
THEOREM PagesFlushExactly == FrontSpec => []PagesFlushExact
<1>1. FrontInit => PagesInv /\ RaceFree
    BY PagesInit, DataInit DEF RaceFree
<1>2. PagesInv /\ RaceFree /\ [FrontNext]_frontVars => (PagesInv /\ RaceFree)'
    BY PagesStep, RaceFreeStep
<1>3. PagesInv /\ RaceFree => fp!FlushExact
    <2>1. PagesInv /\ DataInv => fp!FlushExact
        BY FlushesExactly
    <2>2. raced # {} => fp!FlushExact
        BY DEF fp!FlushExact
    <2>3. QED BY <2>1, <2>2 DEF RaceFree
<1>4. fp!TypeOK /\ fp!AssertionsHold /\ fp!FlushExact => PagesFlushExact
    BY DEF PagesFlushExact
<1>5. QED
    BY <1>1, <1>2, <1>3, <1>4, PagesAssertions, PTL DEF FrontSpec
==============================================================================
