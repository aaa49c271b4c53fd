---------------------------- MODULE InodesProofs ----------------------------
(* Proofs about Inodes, for any number of inodes, in-core objects and       *)
(* links: a commit makes durable exactly what the frontend left when the    *)
(* delta closed, and a crash finds exactly the inodes without links as      *)
(* orphans; no assertion on the way fires but that on the stable copy of a  *)
(* directory, an inum names one inode, and the counters of inodes are       *)
(* exact.                                                                   *)
(*                                                                         *)
(* The invariant follows one inode through two deltas: what the frontend    *)
(* has of it, what the delta in the backend still has to save, and what the *)
(* inode table holds.                                                       *)
EXTENDS MCFrontend, FiniteSetTheorems, FunctionTheorems, SequenceTheorems,
        WellFoundedInduction, TLAPS

(* The slots of the delta of the frontend and of the one before it *)
S == idelta % 2
B == 1 - S

Busy        == cur # in!NoCur
Hashed(o)   == inode[o] # NoObject /\ inode[o].hashed
Pending(o)  == phase = "flush" /\ o \in todo
AtHand(o)   == phase = "flush" /\ Busy /\ cur.obj = o
Clearing(o) == phase = "clear" /\ Busy /\ cur.obj = o
Lost(i)     == i.dead # in!NONE \/ i.gone

(* The attributes that the delta in the backend has of an inode *)
Flushed(i) == IF i.iattr \in {in!NONE, B} THEN i.attr ELSE i.copy[B]
SeenAs(a, t) == [nlink |-> a.nlink, val |-> a.val, kind |-> t]
Unlinked(table, n) == table[n] # in!NoInode /\ table[n].nlink = 0

Stored  == in!Saved \union {in!NoInode}
Tables  == [in!Inums -> Stored]
Records == {"add", "del"} \X in!Inums

ITyped ==
    /\ inode \in [Objs -> in!InCore \union {NoObject}]
    /\ idelta \in 0 .. Period - 1 /\ phase \in {"idle", "flush", "clear"}
    /\ todo \subseteq Objs
    /\ cur \in [obj : Objs \union {NoObject}, idata : in!Attrs \union {in!INVALID},
                orphaned : BOOLEAN, deleted : BOOLEAN]
    /\ itree \in Tables /\ front \in Tables /\ view \in Tables
    /\ otree \subseteq in!Inums /\ orphanDel \subseteq in!Inums /\ log \in Seq(Records)
    /\ used \in Nat /\ freeinodes \in Int
    /\ nextinum \in in!Inums /\ crudehack \in 0 .. UnifyEvery - 1
    /\ disk \in [itree : Tables, otree : SUBSET in!Inums, log : Seq(Records), used : Nat]

(* Which objects have dirty flags of the delta in the backend *)
Flags(o) ==
    LET i == inode[o] IN
    /\ i.iattr # in!NONE => i.iattr \in i.dirty
    /\ i.dead # in!NONE => i.dead \in i.dirty
    /\ ~ Pending(o) => i.iattr # B /\ i.dead # B
    /\ Pending(o) \/ AtHand(o) => B \in i.dirty /\ i.hashed
    /\ phase = "idle" => B \notin i.dirty
    /\ phase = "clear" => (o \in todo <=> B \in i.dirty)
    /\ i.dead = B \/ i.gone => S \notin i.dirty
    /\ i.gone => i.dead = in!NONE
    /\ i.kind = "dir" => /\ i.copy[S] = in!INVALID
                         /\ i.copy[B] # in!INVALID => Pending(o) /\ i.iattr = S

(* Who refers to an object, and what became of one without links *)
Refs(o) ==
    LET i == inode[o] IN
    /\ Lost(i) => i.attr.nlink = 0 /\ (i.count = 0 \/ (i.count = 1 /\ Clearing(o)))
    /\ Clearing(o) => i.count >= 1
    /\ ~ i.hashed => i.gone /\ ~ i.deferred /\ ~ i.onAdd
    /\ i.gone /\ i.hashed => AtHand(o) /\ cur.deleted
    /\ i.deferred => S \in i.dirty \/ Pending(o) \/ AtHand(o)
    /\ i.orphaned => i.attr.nlink = 0
    /\ i.onAdd => i.attr.nlink = 0

(* What the delta in the backend took of an inode it has not flushed yet,   *)
(* unless it is a directory whose stable copy was never made.               *)
Awaited(o) ==
    LET i == inode[o] IN
    IF Flushed(i) = in!INVALID THEN i.kind = "dir" ELSE
    /\ view[i.inum] = IF i.dead = B THEN in!NoInode ELSE SeenAs(Flushed(i), i.kind)
    /\ i.orphaned => Flushed(i).nlink = 0
    /\ i.attr.nlink = 0 \/ Flushed(i).nlink # 0

(* What it has read of the inode at hand *)
Read(o) ==
    LET i == inode[o] IN
    /\ cur.idata # in!INVALID
    /\ view[i.inum] = IF cur.deleted THEN in!NoInode ELSE SeenAs(cur.idata, i.kind)
    /\ cur.deleted <=> i.gone
    /\ cur.deleted => cur.idata.nlink = 0
    /\ S \notin i.dirty => cur.idata = i.attr
    /\ i.attr.nlink = 0 \/ cur.idata.nlink # 0
    /\ i.orphaned <=> cur.idata.nlink = 0
    /\ cur.orphaned <=> (i.orphaned /\ ~ Unlinked(itree, i.inum))
    /\ Unlinked(itree, i.inum) => i.orphaned

(* What the frontend, the delta and the inode table have of a hashed object *)
Image(o) ==
    LET i == inode[o]
        n == i.inum
    IN
    /\ front[n] = IF Lost(i) THEN in!NoInode ELSE SeenAs(i.attr, i.kind)
    /\ S \notin i.dirty /\ ~ Pending(o) /\ ~ AtHand(o) => itree[n] = SeenAs(i.attr, i.kind)
    /\ i.deferred <=> itree[n] = in!NoInode
    /\ Pending(o) => Awaited(o)
    /\ ~ AtHand(o) => (i.orphaned <=> Unlinked(itree, n))
    /\ AtHand(o) => Read(o)

Kept(o) == inode[o] # NoObject => Flags(o) /\ Refs(o) /\ (Hashed(o) => Image(o))

Unique ==
    \A o, p \in Objs : Hashed(o) /\ Hashed(p) /\ inode[o].inum = inode[p].inum => o = p

(* An inode that no object holds is as the frontend, the delta and the      *)
(* superblock left it.                                                      *)
FrontAsleep ==
    \A n \in in!Inums : (\A o \in Objs : Hashed(o) => inode[o].inum # n) => front[n] = itree[n]

ViewAsleep ==
    phase # "idle" =>
        \A n \in in!Inums :
            (\A o \in Objs : Pending(o) \/ AtHand(o) => inode[o].inum # n) => itree[n] = view[n]

Work ==
    /\ phase = "idle" => todo = {} /\ ~ Busy
    /\ Busy => cur.obj \in Objs /\ inode[cur.obj] # NoObject /\ cur.obj \notin todo
    /\ \A o \in todo : inode[o] # NoObject
    /\ phase = "clear" => disk.itree = view

(* A volume records its orphans once, and counts its inodes. *)
Added(recs, n)   == in!OrphanAdd(recs, n, Len(recs))
Deleted(recs, n) == \E k \in 1 .. Len(recs) : /\ recs[k] = <<"del", n>>
                                              /\ ~ in!OrphanAdd(recs, n, k - 1)
Once(recs) == \A k \in 1 .. Len(recs) :
                  recs[k][1] = "add" => ~ in!OrphanAdd(recs, recs[k][2], k - 1)

Volume(v) ==
    /\ \A n \in in!Inums :
         /\ Unlinked(v.itree, n) <=> Added(v.log, n) \/ (n \in v.otree /\ ~ Deleted(v.log, n))
         /\ ~ (Added(v.log, n) /\ n \in v.otree /\ ~ Deleted(v.log, n))
    /\ Once(v.log)
    /\ v.used = Cardinality({n \in in!Inums : v.itree[n] # in!NoInode})

Core == [itree |-> itree, otree |-> otree, log |-> log, used |-> used]

Orphans ==
    /\ Volume(disk) /\ Volume(Core)
    /\ orphanDel = {n \in in!Inums : Deleted(log, n)}
    /\ \A n \in in!Inums :
         Added(log, n) <=> \E o \in Objs : inode[o] # NoObject /\ inode[o].onAdd
                                           /\ inode[o].inum = n

Deferred == {o \in Objs : inode[o] # NoObject /\ inode[o].deferred}
Counted  == freeinodes = MaxInum - used - Cardinality(Deferred)

InodesInv ==
    /\ ITyped /\ Work /\ ifailed \subseteq {"idata of dir"}
    /\ \A o \in Objs : Kept(o)
    /\ Unique /\ FrontAsleep /\ ViewAsleep /\ Orphans /\ Counted

-----------------------------------------------------------------------------
(* Deltas alternate between two slots. *)
LEMMA Slots ==
    ASSUME ITyped
    PROVE  /\ S \in {0, 1} /\ B \in {0, 1} /\ S # B /\ in!Slots = {S, B} /\ 1 - S = B /\ 1 - B = S
           /\ S # in!NONE /\ B # in!NONE /\ in!NONE \notin in!Slots /\ S \in in!Slots /\ B \in in!Slots
           /\ in!tux3_delta(idelta) = S
           /\ in!tux3_delta(in!Marshal(idelta)) = B
           /\ (idelta + 1) % Period \in 0 .. Period - 1
           /\ ((idelta + 1) % Period) % 2 = B
  <1> idelta \in 0 .. Period - 1
    BY DEF ITyped
  <1>1. PICK h \in Nat : Period = 2 * h /\ h > 0
    BY InodesAssumption
  <1>2. (idelta + Period - 1) % Period = IF idelta = 0 THEN Period - 1 ELSE idelta - 1
    BY <1>1
  <1>3. (idelta + 1) % Period = IF idelta = Period - 1 THEN 0 ELSE idelta + 1
    BY <1>1
  <1>4. ((idelta + Period - 1) % Period) % 2 = 1 - (idelta % 2)
    BY <1>1, <1>2
  <1>5. ((idelta + 1) % Period) % 2 = 1 - (idelta % 2)
    BY <1>1, <1>3
  <1> QED
    BY <1>1, <1>3, <1>4, <1>5 DEF S, B, in!NONE, in!Slots, in!tux3_delta, in!Marshal

(* The values of the model that stand for nothing are none of the others. *)
LEMMA Distinct ==
    /\ in!INVALID \notin in!Attrs /\ in!NoInode \notin in!Saved
    /\ in!NoCur \in [obj : Objs \union {NoObject}, idata : in!Attrs \union {in!INVALID},
                     orphaned : BOOLEAN, deleted : BOOLEAN]
    /\ in!NoCur.obj = NoObject
    /\ in!Inums \subseteq Nat /\ IsFiniteSet(in!Inums) /\ 1 \in in!Inums
    /\ \A a \in in!Attrs : a.nlink \in Nat /\ a = [nlink |-> a.nlink, val |-> a.val]
    /\ \A a \in in!Attrs : \A t \in in!Kinds :
         /\ SeenAs(a, t) \in in!Saved /\ SeenAs(a, t) # in!NoInode
         /\ SeenAs(a, t).nlink = a.nlink
    /\ \A a, b \in in!Attrs : \A t \in in!Kinds : SeenAs(a, t) = SeenAs(b, t) => a = b
  <1>1. in!INVALID \notin in!Attrs
    BY InodesAssumption DEF in!INVALID, in!Attrs
  <1>2. in!NoInode \notin in!Saved
    BY DEF in!NoInode, in!Saved, in!Kinds
  <1>3. in!NoCur \in [obj : Objs \union {NoObject}, idata : in!Attrs \union {in!INVALID},
                      orphaned : BOOLEAN, deleted : BOOLEAN] /\ in!NoCur.obj = NoObject
    BY DEF in!NoCur
  <1>4. in!Inums \subseteq Nat /\ IsFiniteSet(in!Inums) /\ 1 \in in!Inums
    BY InodesAssumption, FS_Interval DEF in!Inums
  <1>5. \A a \in in!Attrs : a.nlink \in Nat /\ a = [nlink |-> a.nlink, val |-> a.val]
    BY InodesAssumption DEF in!Attrs
  <1>6. \A a \in in!Attrs : \A t \in in!Kinds :
          SeenAs(a, t) \in in!Saved /\ SeenAs(a, t).nlink = a.nlink
    BY DEF SeenAs, in!Attrs, in!Saved
  <1>7. \A a, b \in in!Attrs : \A t \in in!Kinds : SeenAs(a, t) = SeenAs(b, t) => a = b
    <2> SUFFICES ASSUME NEW a \in in!Attrs, NEW b \in in!Attrs, NEW t \in in!Kinds,
                        SeenAs(a, t) = SeenAs(b, t)
                 PROVE  a = b
      OBVIOUS
    <2>1. a.nlink = b.nlink /\ a.val = b.val
      BY DEF SeenAs
    <2> QED
      BY <2>1, <1>5
  <1> QED
    BY <1>1, <1>2, <1>3, <1>4, <1>5, <1>6, <1>7

(* What an operation of the frontend that dirties an object leaves alone:   *)
(* the attributes of the delta in the backend among it.                     *)
Touched(i, j) ==
    /\ j \in in!InCore
    /\ j.inum = i.inum /\ j.kind = i.kind /\ j.count = i.count /\ j.hashed = i.hashed
    /\ j.dead = i.dead /\ j.gone = i.gone /\ j.orphaned = i.orphaned
    /\ j.deferred = i.deferred /\ j.onAdd = i.onAdd
    /\ j.dirty = i.dirty \union {S}
    /\ j.iattr = S \/ (j.iattr = i.iattr /\ j.attr = i.attr)
    /\ \/ Flushed(j) = Flushed(i)
       \/ i.kind = "dir" /\ i.iattr = in!NONE /\ Flushed(j) = i.copy[B]
    /\ i.kind = "dir" => /\ j.copy[S] = i.copy[S]
                         /\ j.copy[B] = i.copy[B] \/ (i.iattr = B /\ j.iattr = S)

(* tux3_iattrdirty() keeps the attributes that the delta in the backend     *)
(* needs: in the copy of its slot if it changes them.                       *)
LEMMA ChangedTouches ==
    ASSUME ITyped, NEW i \in in!InCore, NEW a \in in!Attrs
    PROVE  Touched(i, in!Changed(i, a)) /\ in!Changed(i, a).attr = a
  <1> DEFINE old == IF i.iattr = in!NONE THEN B ELSE i.iattr
             fork == (i.kind = "reg" \/ i.iattr # in!NONE) /\ old # S
             copy == [i.copy EXCEPT ![old] = IF fork THEN i.attr ELSE @]
             j == in!Changed(i, a)
  <1>1. /\ i.iattr \in {S, B, in!NONE} /\ old \in in!Slots
        /\ i.copy \in [in!Slots -> in!Attrs \union {in!INVALID}] /\ i.attr \in in!Attrs
        /\ i.dirty \union {S} \in SUBSET in!Slots
    BY Slots DEF in!InCore
  <1>2. copy \in [in!Slots -> in!Attrs \union {in!INVALID}]
    BY <1>1
  <1>3. j = [i EXCEPT !.iattr = S, !.copy = copy, !.attr = a, !.dirty = i.dirty \union {S}]
    <2>1. in!tux3_iattrdirty(i) = [i EXCEPT !.iattr = S, !.copy = copy]
      BY Slots DEF in!tux3_iattrdirty, in!InCore
    <2> HIDE DEF copy
    <2> QED
      BY <2>1, <1>2, Slots DEF in!Changed, in!tux3_dirty_inode, in!InCore
  <1>4. j = [inum |-> i.inum, kind |-> i.kind, attr |-> a, count |-> i.count,
             hashed |-> i.hashed, dirty |-> i.dirty \union {S}, iattr |-> S,
             dead |-> i.dead, copy |-> copy, gone |-> i.gone, orphaned |-> i.orphaned,
             deferred |-> i.deferred, onAdd |-> i.onAdd]
    <2> HIDE DEF copy
    <2> QED
      BY <1>3 DEF in!InCore
  <1>5. j \in in!InCore
    <2> HIDE DEF copy
    <2> QED
      BY <1>1, <1>2, <1>4, Slots DEF in!InCore
  <1>6. ASSUME i.kind = "reg" \/ i.iattr # in!NONE PROVE copy[B] = Flushed(i)
    <2>1. CASE i.iattr = S
      BY <1>1, Slots, <2>1 DEF Flushed
    <2>2. CASE i.iattr # S
      <3>1. fork /\ old = B
        BY <1>1, Slots, <1>6, <2>2
      <3> QED
        BY <1>1, Slots, <2>2, <3>1 DEF Flushed
    <2> QED
      BY <2>1, <2>2
  <1> HIDE DEF copy
  <1>7. \/ Flushed(j) = Flushed(i)
        \/ i.kind = "dir" /\ i.iattr = in!NONE /\ Flushed(j) = i.copy[B]
    <2>1. CASE i.kind = "reg" \/ i.iattr # in!NONE
      BY <1>4, <1>6, <2>1, Slots DEF Flushed
    <2>2. CASE ~ (i.kind = "reg" \/ i.iattr # in!NONE)
      <3>1. i.kind = "dir" /\ copy[B] = i.copy[B]
        BY <1>1, <2>2, Slots DEF copy, in!InCore, in!Kinds
      <3> QED
        BY <1>4, <2>2, <3>1, Slots DEF Flushed
    <2> QED
      BY <2>1, <2>2
  <1>8. copy[S] = i.copy[S] /\ (copy[B] = i.copy[B] \/ i.iattr \in {B, in!NONE})
    BY <1>1, Slots DEF copy
  <1>9. i.kind = "dir" /\ i.iattr = in!NONE => copy[B] = i.copy[B]
    BY <1>1, Slots DEF copy
  <1> HIDE DEF j
  <1>10. Touched(i, j) /\ j.attr = a
    BY <1>4, <1>5, <1>7, <1>8, <1>9 DEF Touched
  <1> QED
    BY <1>10 DEF j

LEMMA DirtyTouches ==
    ASSUME ITyped, NEW i \in in!InCore
    PROVE  Touched(i, in!tux3_dirty_inode(i)) /\ in!tux3_dirty_inode(i).attr = i.attr
  <1> DEFINE j == in!tux3_dirty_inode(i)
  <1>1. j = [i EXCEPT !.dirty = i.dirty \union {S}]
    BY Slots DEF in!tux3_dirty_inode, in!InCore
  <1>2. i.dirty \union {S} \in SUBSET in!Slots
    BY Slots DEF in!InCore
  <1>3. j = [inum |-> i.inum, kind |-> i.kind, attr |-> i.attr, count |-> i.count,
             hashed |-> i.hashed, dirty |-> i.dirty \union {S}, iattr |-> i.iattr,
             dead |-> i.dead, copy |-> i.copy, gone |-> i.gone, orphaned |-> i.orphaned,
             deferred |-> i.deferred, onAdd |-> i.onAdd]
    BY <1>1 DEF in!InCore
  <1>4. j \in in!InCore
    BY <1>2, <1>3 DEF in!InCore
  <1> HIDE DEF j
  <1>5. Touched(i, j) /\ j.attr = i.attr
    BY <1>3, <1>4 DEF Touched, Flushed
  <1> QED
    BY <1>5 DEF j

(* What the first step of a flush, tux3_state_read_and_clear(), does.       *)
Cleared(i, j) ==
    /\ j \in in!InCore
    /\ j.inum = i.inum /\ j.kind = i.kind /\ j.count = i.count /\ j.hashed = i.hashed
    /\ j.attr = i.attr /\ j.dirty = i.dirty /\ j.deferred = i.deferred /\ j.onAdd = i.onAdd
    /\ j.iattr = IF i.iattr = B THEN in!NONE ELSE i.iattr
    /\ j.dead = IF i.dead = B THEN in!NONE ELSE i.dead
    /\ j.gone = (i.gone \/ i.dead = B)
    /\ j.orphaned = (i.orphaned \/ Flushed(i).nlink = 0)
    /\ j.copy[B] = in!INVALID /\ j.copy[S] = i.copy[S]

LEMMA ReadClears ==
    ASSUME ITyped, NEW i \in in!InCore
    PROVE  /\ Cleared(i, in!ReadAndClear(i, in!Marshal(idelta)))
           /\ in!Stable(i, in!Marshal(idelta)) = Flushed(i)
           /\ Flushed(i) \in in!Attrs \union {in!INVALID}
  <1>1. in!Stable(i, in!Marshal(idelta)) = Flushed(i)
    BY Slots DEF in!Stable, Flushed
  <1>2. /\ i.iattr \in {S, B, in!NONE} /\ i.dead \in {S, B, in!NONE} /\ i.attr \in in!Attrs
        /\ i.copy \in [in!Slots -> in!Attrs \union {in!INVALID}]
        /\ i.gone \in BOOLEAN /\ i.orphaned \in BOOLEAN
    BY Slots DEF in!InCore
  <1>3. Flushed(i) \in in!Attrs \union {in!INVALID}
    BY <1>2, Slots DEF Flushed
  <1> DEFINE copy == [i.copy EXCEPT ![B] = in!INVALID]
             orphaned == i.orphaned \/ Flushed(i).nlink = 0
             gone == i.gone \/ i.dead = B
             iattr == IF i.iattr = B THEN in!NONE ELSE i.iattr
             dead == IF i.dead = B THEN in!NONE ELSE i.dead
             j == in!ReadAndClear(i, in!Marshal(idelta))
  <1>4. /\ copy \in [in!Slots -> in!Attrs \union {in!INVALID}] /\ orphaned \in BOOLEAN
        /\ gone \in BOOLEAN /\ iattr \in in!Slots \union {in!NONE}
        /\ dead \in in!Slots \union {in!NONE}
    BY <1>2, Slots
  <1>5. j = [i EXCEPT !.iattr = iattr, !.copy = copy, !.orphaned = orphaned,
                      !.gone = gone, !.dead = dead]
    BY <1>1, Slots DEF in!ReadAndClear, in!InCore
  <1>9. copy[B] = in!INVALID /\ copy[S] = i.copy[S]
    BY <1>2, Slots
  <1> HIDE DEF copy, orphaned, gone, iattr, dead
  <1>6. j = [inum |-> i.inum, kind |-> i.kind, attr |-> i.attr, count |-> i.count,
             hashed |-> i.hashed, dirty |-> i.dirty, iattr |-> iattr, dead |-> dead,
             copy |-> copy, gone |-> gone, orphaned |-> orphaned,
             deferred |-> i.deferred, onAdd |-> i.onAdd]
    BY <1>5 DEF in!InCore
  <1>7. j \in in!InCore
    BY <1>4, <1>6 DEF in!InCore
  <1> HIDE DEF j
  <1>8. Cleared(i, j)
    BY <1>6, <1>7, <1>9 DEF Cleared, orphaned, gone, iattr, dead
  <1> QED
    BY <1>1, <1>3, <1>8 DEF j

(* iput() by a task in the slot s: the last reference to an object evicts a *)
(* clean one, and marks one without links to be deleted.                    *)
Dropped(i, j, s) ==
    /\ j \in in!InCore
    /\ j.inum = i.inum /\ j.kind = i.kind /\ j.hashed = i.hashed /\ j.attr = i.attr
    /\ j.iattr = i.iattr /\ j.copy = i.copy /\ j.gone = i.gone /\ j.orphaned = i.orphaned
    /\ j.deferred = i.deferred /\ j.onAdd = i.onAdd
    /\ j.count = i.count - 1
    /\ \/ /\ j.dead = i.dead /\ j.dirty = i.dirty
          /\ i.count > 1 \/ i.attr.nlink # 0 \/ i.dead # in!NONE \/ i.gone
       \/ /\ i.count = 1 /\ i.attr.nlink = 0 /\ i.dead = in!NONE /\ ~ i.gone
          /\ j.dead = s /\ j.dirty = i.dirty \union {s}

Evicted(i) ==
    /\ i.count = 1 /\ i.dirty = {} /\ i.iattr = in!NONE /\ i.dead = in!NONE
    /\ i.attr.nlink # 0 \/ i.gone

LEMMA IputDrops ==
    ASSUME NEW i \in in!InCore, NEW d, in!tux3_delta(d) \in in!Slots, i.count >= 1
    PROVE  \/ in!iput(i, d) = NoObject /\ Evicted(i)
           \/ Dropped(i, in!iput(i, d), in!tux3_delta(d))
  <1> DEFINE s == in!tux3_delta(d)
             j == [i EXCEPT !.count = i.count - 1]
             k == in!tux3_drop_inode(j, d)
  <1>1. s \in {0, 1} /\ s # in!NONE
    BY DEF in!Slots, in!NONE
  <1>2. i.count \in Nat /\ i.count - 1 \in Nat
    BY DEF in!InCore
  <1>3. Dropped(i, j, s) \/ (i.count = 1 /\ i.attr.nlink = 0 /\ i.dead = in!NONE /\ ~ i.gone)
    BY <1>2 DEF Dropped, in!InCore
  <1>4. j.count = i.count - 1 /\ j.attr = i.attr /\ j.dead = i.dead /\ j.gone = i.gone
        /\ j.dirty = i.dirty /\ j.iattr = i.iattr /\ j \in in!InCore
    BY <1>2 DEF in!InCore
  <1>5. CASE i.count > 1
    <2>1. in!iput(i, d) = j
      BY <1>2, <1>4, <1>5 DEF in!iput
    <2> QED
      BY <1>2, <1>3, <1>5, <2>1
  <1>6. CASE i.count = 1 /\ i.attr.nlink = 0 /\ i.dead = in!NONE /\ ~ i.gone
    <2>1. k = [j EXCEPT !.dead = s, !.dirty = i.dirty \union {s}]
      BY <1>4, <1>6 DEF in!tux3_drop_inode
    <2>2. k = [inum |-> i.inum, kind |-> i.kind, attr |-> i.attr, count |-> i.count - 1,
               hashed |-> i.hashed, dirty |-> i.dirty \union {s}, iattr |-> i.iattr,
               dead |-> s, copy |-> i.copy, gone |-> i.gone, orphaned |-> i.orphaned,
               deferred |-> i.deferred, onAdd |-> i.onAdd]
      BY <1>4, <2>1 DEF in!InCore
    <2>3. k \in in!InCore
      BY <1>1, <1>2, <2>2 DEF in!InCore
    <2>4. Dropped(i, k, s)
      <3> HIDE DEF k, s
      <3> QED
        BY <1>6, <2>2, <2>3 DEF Dropped
    <2>5. in!iput(i, d) = k
      <3>1. in!iput(i, d) = IF in!IsDirty(k) THEN k ELSE NoObject
        BY <1>4, <1>6 DEF in!iput
      <3>2. k.dead = s
        BY <2>2
      <3> QED
        BY <1>1, <3>1, <3>2 DEF in!IsDirty
    <2> QED
      BY <2>4, <2>5
  <1>7. CASE i.count = 1 /\ ~ (i.attr.nlink = 0 /\ i.dead = in!NONE /\ ~ i.gone)
    <2>1. k = j
      BY <1>4, <1>7 DEF in!tux3_drop_inode
    <2>2. in!iput(i, d) = IF in!IsDirty(j) THEN j ELSE NoObject
      BY <1>4, <1>7, <2>1 DEF in!iput
    <2> QED
      BY <1>3, <1>4, <1>7, <2>2 DEF in!IsDirty, Evicted
  <1> QED
    BY <1>2, <1>5, <1>6, <1>7

(* An object that a step leaves alone stays as it has to be. *)
Spared(p) ==
    /\ inode'[p] = inode[p] /\ idelta' = idelta /\ phase' = phase /\ view' = view
    /\ p \in todo' <=> p \in todo
    /\ AtHand(p)' <=> AtHand(p)
    /\ Clearing(p)' <=> Clearing(p)
    /\ AtHand(p) => cur' = cur
    /\ Hashed(p) => /\ front'[inode[p].inum] = front[inode[p].inum]
                    /\ itree'[inode[p].inum] = itree[inode[p].inum]

LEMMA SparedKept ==
    ASSUME NEW p \in Objs, Kept(p), Spared(p)
    PROVE  Kept(p)' /\ (Hashed(p)' <=> Hashed(p)) /\ (Pending(p)' <=> Pending(p))
  <1>1. S' = S /\ B' = B
    BY DEF Spared, S, B
  <1>2. (Hashed(p)' <=> Hashed(p)) /\ (Pending(p)' <=> Pending(p))
    BY DEF Spared, Hashed, Pending
  <1>3. Flags(p) => Flags(p)'
    BY <1>1, <1>2 DEF Spared, Flags
  <1>4. Refs(p) => Refs(p)'
    BY <1>1, <1>2 DEF Spared, Refs, Lost
  <1>5. Pending(p) /\ Awaited(p) => Awaited(p)'
    BY <1>1 DEF Spared, Awaited, Flushed
  <1>6. Hashed(p) /\ AtHand(p) /\ Read(p) => Read(p)'
    BY <1>1 DEF Spared, Read, Unlinked
  <1>7. Hashed(p) /\ Image(p) => Image(p)'
    BY <1>1, <1>2, <1>5, <1>6 DEF Spared, Image, Lost, Unlinked
  <1> QED
    BY <1>2, <1>3, <1>4, <1>7 DEF Kept, Spared

(* The records of orphans and the counters need not care for a step that    *)
(* changes nothing they are about.                                          *)
LEMMA OrphansKept ==
    ASSUME Orphans, UNCHANGED <<itree, otree, log, used, orphanDel, disk>>,
           \A p \in Objs : /\ inode'[p] # NoObject /\ inode'[p].onAdd
                              <=> inode[p] # NoObject /\ inode[p].onAdd
                           /\ inode[p] # NoObject /\ inode[p].onAdd =>
                                 inode'[p].inum = inode[p].inum
    PROVE  Orphans'
  <1>1. Volume(disk)' /\ Volume(Core)'
    BY DEF Orphans, Core
  <1> QED
    BY <1>1 DEF Orphans

LEMMA CountedKept ==
    ASSUME Counted, UNCHANGED <<used, freeinodes>>,
           \A p \in Objs : inode'[p] # NoObject /\ inode'[p].deferred
                           <=> inode[p] # NoObject /\ inode[p].deferred
    PROVE  Counted'
  <1>1. Deferred' = Deferred
    BY DEF Deferred
  <1> QED
    BY <1>1 DEF Counted

(* What the frontend refers to is hashed and not about to be deleted.       *)
LEMMA HeldSound ==
    ASSUME InodesInv, NEW o \in Objs, in!Held(o)
    PROVE  /\ inode[o] \in in!InCore /\ Hashed(o) /\ ~ Lost(inode[o])
           /\ inode[o].dead = in!NONE /\ ~ inode[o].gone
           /\ Flags(o) /\ Refs(o) /\ Image(o)
  <1>1. inode[o] # NoObject /\ inode[o] \in in!InCore
    BY DEF in!Held, InodesInv, ITyped
  <1>2. Flags(o) /\ Refs(o) /\ (Hashed(o) => Image(o))
    BY <1>1 DEF InodesInv, Kept
  <1>3. inode[o].count > 0 /\ (Clearing(o) => inode[o].count > 1)
    BY DEF in!Held, Clearing
  <1>4. inode[o].count \in Nat
    BY <1>1 DEF in!InCore
  <1>5. ~ Lost(inode[o])
    BY <1>2, <1>3, <1>4 DEF Refs
  <1>6. inode[o].hashed
    BY <1>2, <1>5 DEF Refs, Lost
  <1> QED
    BY <1>1, <1>2, <1>5, <1>6 DEF Hashed, Lost

(* An operation of the frontend on an inode that it refers to.              *)
LEMMA UpdateStep ==
    ASSUME InodesInv, ifailed = {}, NEW o \in Objs, in!Held(o), NEW j, Touched(inode[o], j),
           inode[o].attr.nlink = 0 => j.attr.nlink = 0,
           in!Update(o, j)
    PROVE  InodesInv'
  <1> DEFINE i == inode[o]
             n == inode[o].inum
  <1>1. /\ i \in in!InCore /\ Hashed(o) /\ ~ Lost(i) /\ i.dead = in!NONE /\ ~ i.gone
        /\ Flags(o) /\ Refs(o) /\ Image(o)
    BY HeldSound
  <1>2. /\ inode' = [inode EXCEPT ![o] = j] /\ front' = [front EXCEPT ![j.inum] = in!Seen(j)]
        /\ UNCHANGED <<idelta, phase, todo, cur, itree, otree, orphanDel, log, used,
                       crudehack, disk, view, freeinodes, nextinum, ifailed>>
    BY DEF in!Update, in!backVars, in!sbVars
  <1>3. ITyped /\ Work /\ (\A p \in Objs : Kept(p)) /\ Unique /\ FrontAsleep /\ ViewAsleep
        /\ Orphans /\ Counted /\ ifailed = {}
    BY DEF InodesInv
  <1>4. S' = S /\ B' = B
    BY <1>2 DEF S, B
  <1>5. /\ j \in in!InCore /\ j.inum = n /\ j.kind = i.kind /\ j.count = i.count
        /\ j.hashed = i.hashed /\ j.dead = in!NONE /\ ~ j.gone /\ j.orphaned = i.orphaned
        /\ j.deferred = i.deferred /\ j.onAdd = i.onAdd /\ j.dirty = i.dirty \union {S}
        /\ j # NoObject /\ j.attr \in in!Attrs /\ j.kind \in in!Kinds /\ n \in in!Inums
    BY <1>1, InodesAssumption DEF Touched, in!InCore
  <1>6. inode'[o] = j /\ (\A p \in Objs : p # o => inode'[p] = inode[p])
        /\ \A m \in in!Inums : front'[m] = IF m = n THEN SeenAs(j.attr, j.kind) ELSE front[m]
    BY <1>2, <1>3, <1>5 DEF ITyped, in!Seen, SeenAs, Tables
  <1>7. ITyped'
    <2>1. in!Seen(j) \in Stored
      BY <1>5, Distinct DEF in!Seen, SeenAs, Stored
    <2>2. inode' \in [Objs -> in!InCore \union {NoObject}] /\ front' \in Tables
      BY <1>2, <1>3, <1>5, <2>1 DEF ITyped, Tables
    <2> QED
      BY <1>2, <1>3, <2>2 DEF ITyped
  <1>8. /\ Hashed(o)' /\ (Pending(o)' <=> Pending(o)) /\ (AtHand(o)' <=> AtHand(o))
        /\ (Clearing(o)' <=> Clearing(o)) /\ ~ Lost(j)
    BY <1>1, <1>2, <1>5, <1>6 DEF Hashed, Pending, AtHand, Clearing, Busy, Lost
  <1>9. \A p \in Objs : p # o => Kept(p)' /\ (Hashed(p)' <=> Hashed(p))
    <2> SUFFICES ASSUME NEW p \in Objs, p # o PROVE Spared(p)
      BY <1>3, SparedKept
    <2>1. Hashed(p) => inode[p].inum # n /\ inode[p].inum \in in!Inums
      BY <1>1, <1>3 DEF Unique, Hashed, ITyped, in!InCore
    <2> QED
      BY <1>2, <1>6, <2>1 DEF Spared, AtHand, Clearing, Busy
  <1>10. Flags(o)'
    <2>1. j.iattr = S \/ j.iattr = i.iattr
      BY DEF Touched
    <2>2. i.kind = "dir" => /\ j.copy[S] = i.copy[S]
                            /\ j.copy[B] = i.copy[B] \/ (i.iattr = B /\ j.iattr = S)
      BY DEF Touched
    <2> QED
      BY <1>1, <1>2, <1>4, <1>5, <1>6, <1>8, <2>1, <2>2, <1>3, Slots DEF Flags, Hashed
  <1>11. Refs(o)'
    BY <1>1, <1>2, <1>4, <1>5, <1>6, <1>8 DEF Refs
  <1>12. Image(o)'
    <2>1. Pending(o) => \/ Flushed(j) = Flushed(i)
                        \/ i.kind = "dir" /\ Flushed(j) = in!INVALID
      <3>1. i.kind = "dir" /\ i.iattr = in!NONE => i.copy[B] = in!INVALID
        BY <1>1, <1>3, Slots DEF Flags
      <3> QED
        BY <3>1 DEF Touched
    <2>2. Flushed(j)' = Flushed(j)
      BY <1>4 DEF Flushed
    <2>3. Pending(o) => Awaited(o)'
      BY <1>1, <1>2, <1>4, <1>5, <1>6, <2>1, <2>2 DEF Image, Awaited, Flushed
    <2>4. AtHand(o) => Read(o)'
      BY <1>1, <1>2, <1>4, <1>5, <1>6 DEF Image, Read
    <2> QED
      BY <1>1, <1>2, <1>4, <1>5, <1>6, <1>8, <2>3, <2>4 DEF Image
  <1>13. \A p \in Objs : Kept(p)' /\ (Hashed(p)' <=> Hashed(p))
    BY <1>1, <1>8, <1>9, <1>10, <1>11, <1>12 DEF Kept
  <1>14. \A p \in Objs : Hashed(p) => inode'[p].inum = inode[p].inum
    BY <1>5, <1>6
  <1>15. Unique'
    BY <1>3, <1>13, <1>14 DEF Unique
  <1>16. FrontAsleep'
    BY <1>1, <1>2, <1>3, <1>6, <1>13, <1>14 DEF FrontAsleep
  <1>17. ViewAsleep'
    BY <1>2, <1>3, <1>5, <1>6 DEF ViewAsleep, Pending, AtHand, Busy
  <1>18. Work'
    BY <1>2, <1>3, <1>5, <1>6 DEF Work, Busy, ITyped
  <1>19. Orphans'
    BY <1>1, <1>2, <1>3, <1>5, <1>6, OrphansKept DEF Hashed
  <1>20. Counted'
    BY <1>2, <1>3, <1>5, <1>6, <1>1, CountedKept DEF Hashed
  <1> QED
    BY <1>2, <1>3, <1>7, <1>13, <1>15, <1>16, <1>17, <1>18, <1>19, <1>20 DEF InodesInv

(* The system calls that change an inode                                    *)
LEMMA ChangeStep ==
    ASSUME InodesInv, ifailed = {}, NEW o \in Objs,
           in!Change(o) \/ in!DirtyOnly(o) \/ in!Link(o) \/ in!Unlink(o)
    PROVE  InodesInv'
  <1> DEFINE i == inode[o]
  <1>1. in!Held(o)
    BY DEF in!Change, in!DirtyOnly, in!Link, in!Unlink
  <1>2. ITyped /\ i \in in!InCore /\ i.attr \in in!Attrs /\ i.kind \in in!Kinds
        /\ idelta \in 0 .. Period - 1 /\ i.attr.nlink \in 0 .. MaxNlink
    BY <1>1, HeldSound DEF InodesInv, ITyped, in!InCore, in!Attrs
  <1>3. ASSUME NEW a \in in!Attrs, i.attr.nlink = 0 => a.nlink = 0,
               in!Update(o, in!Changed(i, a))
        PROVE  InodesInv'
    <2>1. Touched(i, in!Changed(i, a)) /\ in!Changed(i, a).attr = a
      BY <1>2, ChangedTouches
    <2> QED
      BY <1>1, <1>3, <2>1, UpdateStep
  <1>4. CASE in!Change(o)
    <2> DEFINE a == [i.attr EXCEPT !.val = idelta]
    <2>1. a \in in!Attrs /\ a.nlink = i.attr.nlink
      BY <1>2 DEF in!Attrs
    <2>2. in!Update(o, in!Changed(i, a))
      BY <1>4 DEF in!Change
    <2> QED
      BY <1>3, <2>1, <2>2
  <1>5. CASE in!DirtyOnly(o)
    <2>1. in!Update(o, in!tux3_dirty_inode(i))
      BY <1>5 DEF in!DirtyOnly
    <2>2. Touched(i, in!tux3_dirty_inode(i)) /\ in!tux3_dirty_inode(i).attr = i.attr
      BY <1>2, DirtyTouches
    <2> QED
      BY <1>1, <2>1, <2>2, UpdateStep
  <1>6. CASE in!Link(o)
    <2> DEFINE a == [nlink |-> i.attr.nlink + 1, val |-> idelta]
    <2>1. i.attr.nlink \in 1 .. MaxNlink - 1 /\ in!Update(o, in!Changed(i, a))
      BY <1>6 DEF in!Link
    <2>2. a \in in!Attrs
      BY <1>2, <2>1, InodesAssumption DEF in!Attrs
    <2>3. i.attr.nlink # 0
      BY <2>1, InodesAssumption
    <2> QED
      BY <1>3, <2>1, <2>2, <2>3
  <1>7. CASE in!Unlink(o)
    <2> DEFINE a == [nlink |-> IF i.kind = "dir" THEN 0 ELSE i.attr.nlink - 1, val |-> idelta]
    <2>1. i.attr.nlink > 0 /\ in!Update(o, in!Changed(i, a))
      BY <1>7 DEF in!Unlink
    <2>2. a \in in!Attrs
      BY <1>2, <2>1, InodesAssumption DEF in!Attrs
    <2>3. i.attr.nlink # 0
      BY <1>2, <2>1, InodesAssumption
    <2> QED
      BY <1>3, <2>1, <2>2, <2>3
  <1> QED
    BY <1>4, <1>5, <1>6, <1>7

(* An iput(), by the frontend or by the backend when it has cleared the     *)
(* dirty flags of an object                                                 *)
Put(o) ==
    /\ inode' = [inode EXCEPT ![o] = in!iput(inode[o], idelta)]
    /\ front' = [n \in in!Inums |->
                   IF n \in in!Forget(inode[o], in!iput(inode[o], idelta))
                   THEN in!NoInode ELSE front[n]]
    /\ ifailed' = ifailed \union in!DestroyError(inode[o], idelta)
    /\ UNCHANGED <<idelta, phase, todo, itree, otree, orphanDel, log, used, crudehack,
                   disk, view, freeinodes, nextinum>>
    /\ (in!Held(o) /\ cur' = cur) \/ (Clearing(o) /\ cur' = in!NoCur)

LEMMA PutStep ==
    ASSUME InodesInv, ifailed = {}, NEW o \in Objs, Put(o)
    PROVE  InodesInv'
  <1> DEFINE i == inode[o]
             n == inode[o].inum
             r == in!iput(inode[o], idelta)
  <1>1. ITyped /\ Work /\ (\A p \in Objs : Kept(p)) /\ Unique /\ FrontAsleep /\ ViewAsleep
        /\ Orphans /\ Counted /\ ifailed = {}
    BY DEF InodesInv
  <1>2. /\ inode' = [inode EXCEPT ![o] = r]
        /\ UNCHANGED <<idelta, phase, todo, itree, otree, orphanDel, log, used,
                       crudehack, disk, view, freeinodes, nextinum>>
    BY DEF Put
  <1>3. S' = S /\ B' = B
    BY <1>2 DEF S, B
  <1>4. /\ i # NoObject /\ i \in in!InCore /\ n \in in!Inums /\ i.count \in Nat
        /\ i.attr \in in!Attrs /\ i.kind \in in!Kinds
    <2>1. i # NoObject
      BY <1>1 DEF Put, in!Held, Work, Clearing, Busy
    <2>2. i \in in!InCore
      BY <1>1, <2>1 DEF ITyped
    <2> QED
      BY <2>1, <2>2 DEF in!InCore
  <1>5. Flags(o) /\ Refs(o) /\ (Hashed(o) => Image(o))
    BY <1>1, <1>4 DEF Kept
  <1>6. /\ i.count >= 1 /\ (Lost(i) => i.count = 1) /\ (Clearing(o)' => i.count > 1)
        /\ (in!Held(o) \/ Clearing(o))
    <2>1. CASE in!Held(o) /\ cur' = cur
      <3>1. i.count >= 1 /\ (Clearing(o) => i.count > 1) /\ (Clearing(o)' <=> Clearing(o))
        BY <1>2, <1>4, <2>1 DEF in!Held, Clearing, Busy
      <3>2. ~ Lost(i)
        BY <2>1, HeldSound
      <3> QED
        BY <2>1, <3>1, <3>2
    <2>2. CASE Clearing(o) /\ cur' = in!NoCur
      <3>1. ~ Clearing(o)'
        BY <2>2 DEF Clearing, Busy
      <3> QED
        BY <1>4, <1>5, <2>2, <3>1 DEF Refs
    <2> QED
      BY <2>1, <2>2 DEF Put
  <1>7. /\ \A p \in Objs : AtHand(p)' <=> AtHand(p)
        /\ \A p \in Objs : p # o => (Clearing(p)' <=> Clearing(p))
        /\ \A p \in Objs : AtHand(p) => cur' = cur
    BY <1>2 DEF Put, AtHand, Clearing, Busy
  <1>8. \/ r = NoObject /\ Evicted(i)
        \/ Dropped(i, r, S)
    BY <1>1, <1>4, <1>6, Slots, IputDrops
  <1>9. inode'[o] = r /\ (\A p \in Objs : p # o => inode'[p] = inode[p])
    BY <1>1, <1>2 DEF ITyped
  <1>10. \A m \in in!Inums : front'[m] = IF m \in in!Forget(i, r) THEN in!NoInode ELSE front[m]
    BY DEF Put
  <1>11. /\ in!Forget(i, r) = IF r # NoObject /\ r.dead # i.dead THEN {n} ELSE {}
         /\ ifailed' = IF r = NoObject /\ (i.deferred \/ i.onAdd)
                       THEN ifailed \union {"destroy"} ELSE ifailed
         /\ front' = [m \in in!Inums |-> IF m \in in!Forget(i, r) THEN in!NoInode ELSE front[m]]
    BY DEF in!Forget, in!DestroyError, Put
  <1> HIDE DEF r
  <1>12. r # NoObject /\ r.dead # i.dead => i.hashed /\ r.dead = S
    BY <1>5, <1>8, InodesAssumption DEF Dropped, Refs
  <1>13. \A p \in Objs : p # o => /\ Kept(p)' /\ (Hashed(p)' <=> Hashed(p))
                                  /\ (Pending(p)' <=> Pending(p))
    <2> SUFFICES ASSUME NEW p \in Objs, p # o PROVE Spared(p)
      BY <1>1, SparedKept
    <2>1. Hashed(p) => /\ inode[p].inum \in in!Inums
                       /\ i.hashed => inode[p].inum # n
      BY <1>1, <1>4 DEF Unique, Hashed, ITyped, in!InCore
    <2>2. Hashed(p) => front'[inode[p].inum] = front[inode[p].inum]
      BY <1>10, <1>11, <1>12, <2>1
    <2> QED
      BY <1>2, <1>7, <1>9, <2>2 DEF Spared
  <1>14. ITyped'
    <2>1. r \in in!InCore \union {NoObject} /\ front' \in Tables
      <3>1. in!NoInode \in Stored /\ front \in Tables
        BY <1>1 DEF Stored, ITyped
      <3> QED
        BY <1>8, <1>11, <3>1 DEF Dropped, Tables
    <2>2. cur' = cur \/ cur' = in!NoCur
      BY DEF Put
    <2> QED
      BY <1>1, <1>2, <2>1, <2>2, Distinct DEF ITyped
  <1>15. CASE r = NoObject /\ Evicted(i)
    <2>1. ~ Pending(o) /\ ~ AtHand(o) /\ o \notin todo /\ S \notin i.dirty
      BY <1>1, <1>5, <1>15 DEF Evicted, Flags, ITyped, Pending, Work
    <2>2. ~ i.deferred /\ ~ i.onAdd /\ ~ (i.gone /\ i.hashed)
      BY <1>5, <1>15, <2>1 DEF Evicted, Refs
    <2>3. ifailed' = {}
      BY <1>1, <1>11, <2>2
    <2>4. front' = front
      BY <1>1, <1>10, <1>11, <1>15, <1>14 DEF ITyped, Tables
    <2>5. Kept(o)' /\ ~ Hashed(o)'
      BY <1>9, <1>15 DEF Kept, Hashed
    <2>6. Hashed(o) => front[n] = itree[n]
      BY <1>5, <1>15, <2>1, <2>2 DEF Image, Lost, Evicted, Hashed
    <2>7. \A p \in Objs : Hashed(p)' => Hashed(p) /\ inode'[p].inum = inode[p].inum
      BY <1>9, <1>13, <2>5
    <2>8. Unique'
      BY <1>1, <2>7 DEF Unique
    <2>9. FrontAsleep'
      <3> SUFFICES ASSUME NEW m \in in!Inums, \A p \in Objs : Hashed(p)' => inode'[p].inum # m
                   PROVE  front[m] = itree[m]
        BY <1>2, <2>4 DEF FrontAsleep
      <3>1. \A p \in Objs : p # o /\ Hashed(p) => inode[p].inum # m
        BY <1>9, <1>13
      <3> QED
        BY <1>1, <2>6, <3>1 DEF FrontAsleep
    <2>10. ViewAsleep'
      <3>1. \A p \in Objs : Pending(p) \/ AtHand(p) =>
              (Pending(p)' \/ AtHand(p)') /\ inode'[p].inum = inode[p].inum
        BY <1>7, <1>9, <1>13, <2>1
      <3> QED
        BY <1>1, <1>2, <3>1 DEF ViewAsleep
    <2>11. Work'
      <3>1. cur' = cur /\ Busy => cur.obj # o
        <4> SUFFICES ASSUME cur' = cur, Busy, cur.obj = o PROVE FALSE
          OBVIOUS
        <4>1. phase = "clear"
          BY <1>1, <2>1 DEF AtHand, Work, ITyped
        <4>2. Clearing(o)'
          BY <1>2, <4>1 DEF Clearing, Busy
        <4> QED
          BY <1>6, <1>15, <4>2 DEF Evicted
      <3>2. cur' = cur \/ cur' = in!NoCur
        BY DEF Put
      <3> QED
        BY <1>1, <1>2, <1>9, <2>1, <3>1, <3>2 DEF Work, Busy, ITyped
    <2>12. Orphans'
      BY <1>1, <1>2, <1>9, <1>15, <2>2, OrphansKept
    <2>13. Counted'
      BY <1>1, <1>2, <1>9, <1>15, <2>2, CountedKept
    <2> QED
      BY <1>13, <1>14, <2>3, <2>5, <2>8, <2>9, <2>10, <2>11, <2>12, <2>13 DEF InodesInv
  <1>16. CASE Dropped(i, r, S)
    <2>1. /\ r \in in!InCore /\ r # NoObject /\ r.inum = n /\ r.kind = i.kind
          /\ r.hashed = i.hashed /\ r.attr = i.attr /\ r.iattr = i.iattr /\ r.copy = i.copy
          /\ r.gone = i.gone /\ r.orphaned = i.orphaned /\ r.deferred = i.deferred
          /\ r.onAdd = i.onAdd /\ r.count = i.count - 1
      BY <1>16, InodesAssumption DEF Dropped
    <2>2. ifailed' = {}
      BY <1>1, <1>11, <2>1
    <2>3. (Hashed(o)' <=> Hashed(o)) /\ (Pending(o)' <=> Pending(o)) /\ Flushed(inode[o])' = Flushed(i)
      BY <1>2, <1>3, <1>4, <1>9, <2>1 DEF Hashed, Pending, Flushed
    <2>4. ASSUME r.dead = i.dead, r.dirty = i.dirty PROVE Kept(o)'
      <3>1. front'[n] = front[n]
        BY <1>4, <1>10, <1>11, <2>4
      <3>2. Flags(o)'
        BY <1>2, <1>3, <1>5, <1>7, <1>9, <2>1, <2>3, <2>4 DEF Flags
      <3>3. Refs(o)'
        <4>1. Lost(r) <=> Lost(i)
          BY <2>1, <2>4 DEF Lost
        <4>2. Lost(r) => r.count = 0
          BY <1>6, <2>1, <4>1
        <4>3. Clearing(o)' => r.count >= 1
          BY <1>4, <1>6, <2>1
        <4> QED
          BY <1>2, <1>3, <1>5, <1>7, <1>9, <2>1, <2>3, <2>4, <4>1, <4>2, <4>3 DEF Refs
      <3>4. Hashed(o) => Image(o)'
        <4>1. Pending(o) /\ Awaited(o) => Awaited(o)'
          BY <1>2, <1>3, <1>9, <2>1, <2>3, <2>4 DEF Awaited, Flushed
        <4>2. AtHand(o) /\ Read(o) => Read(o)'
          BY <1>2, <1>3, <1>7, <1>9, <2>1, <2>4 DEF Read
        <4> QED
          BY <1>2, <1>3, <1>5, <1>7, <1>9, <2>1, <2>3, <2>4, <3>1, <4>1, <4>2 DEF Image, Lost
      <3> QED
        BY <2>3, <3>2, <3>3, <3>4 DEF Kept
    <2>5. ASSUME i.count = 1, i.attr.nlink = 0, i.dead = in!NONE, ~ i.gone,
                 r.dead = S, r.dirty = i.dirty \union {S}
          PROVE  Kept(o)'
      <3>1. Hashed(o) /\ front'[n] = in!NoInode /\ ~ Clearing(o)' /\ S # in!NONE /\ S # B /\ B # in!NONE
        BY <1>1, <1>4, <1>5, <1>6, <1>10, <1>11, <2>1, <2>5, Slots DEF Refs, Hashed
      <3>2. Flags(o)'
        BY <1>2, <1>3, <1>5, <1>7, <1>9, <2>1, <2>3, <2>5, <3>1 DEF Flags
      <3>3. Refs(o)'
        BY <1>2, <1>3, <1>5, <1>7, <1>9, <2>1, <2>3, <2>5, <3>1 DEF Refs, Lost
      <3>4. Image(o)'
        <4>1. Pending(o) /\ Awaited(o) => Awaited(o)'
          BY <1>2, <1>3, <1>9, <2>1, <2>3, <2>5, <3>1 DEF Awaited, Flushed
        <4>2. AtHand(o) /\ Read(o) => Read(o)'
          BY <1>2, <1>3, <1>7, <1>9, <2>1, <2>5 DEF Read
        <4> QED
          BY <1>2, <1>3, <1>5, <1>7, <1>9, <2>1, <2>3, <2>5, <3>1, <4>1, <4>2 DEF Image, Lost
      <3> QED
        BY <2>3, <3>2, <3>3, <3>4 DEF Kept
    <2>6. Kept(o)'
      BY <1>16, <2>4, <2>5 DEF Dropped
    <2>7. \A p \in Objs : /\ (Hashed(p)' <=> Hashed(p)) /\ (Pending(p)' <=> Pending(p))
                          /\ (inode[p] # NoObject => inode'[p].inum = inode[p].inum)
      BY <1>9, <1>13, <2>1, <2>3
    <2>8. Unique'
      BY <1>1, <2>7 DEF Unique, Hashed
    <2>9. FrontAsleep'
      <3> SUFFICES ASSUME NEW m \in in!Inums, \A p \in Objs : Hashed(p)' => inode'[p].inum # m
                   PROVE  front'[m] = itree[m]
        BY <1>2 DEF FrontAsleep
      <3>1. \A p \in Objs : Hashed(p) => inode[p].inum # m
        BY <2>7 DEF Hashed
      <3>2. front'[m] = front[m]
        BY <1>4, <1>10, <1>11, <1>12, <3>1 DEF Hashed
      <3> QED
        BY <1>1, <3>1, <3>2 DEF FrontAsleep
    <2>10. ViewAsleep'
      <3>1. \A p \in Objs : Pending(p) \/ AtHand(p) =>
              (Pending(p)' \/ AtHand(p)') /\ inode'[p].inum = inode[p].inum
        BY <1>1, <1>7, <2>7 DEF Work, Pending, AtHand
      <3> QED
        BY <1>1, <1>2, <3>1 DEF ViewAsleep
    <2>11. Work'
      <3>1. cur' = cur \/ cur' = in!NoCur
        BY DEF Put
      <3> QED
        BY <1>1, <1>2, <1>9, <2>1, <3>1 DEF Work, Busy, ITyped
    <2>12. Orphans'
      BY <1>1, <1>2, <1>4, <1>9, <2>1, OrphansKept
    <2>13. Counted'
      BY <1>1, <1>2, <1>4, <1>9, <2>1, CountedKept
    <2> QED
      BY <1>13, <1>14, <2>2, <2>6, <2>8, <2>9, <2>10, <2>11, <2>12, <2>13 DEF InodesInv
  <1> QED
    BY <1>8, <1>15, <1>16

LEMMA CloseStep ==
    ASSUME InodesInv, ifailed = {}, NEW o \in Objs, in!Close(o)
    PROVE  InodesInv'
  <1>1. Put(o)
    BY DEF in!Close, Put, in!backVars, in!sbVars
  <1> QED
    BY <1>1, PutStep

LEMMA ClearPutStep ==
    ASSUME InodesInv, ifailed = {}, in!ClearPut
    PROVE  InodesInv'
  <1>1. Clearing(cur.obj) /\ cur.obj \in Objs
    BY DEF in!ClearPut, Clearing, Busy, InodesInv, Work
  <1>2. Put(cur.obj)
    BY <1>1 DEF in!ClearPut, Put, in!sbVars
  <1> QED
    BY <1>1, <1>2, PutStep

(* An inode with a new object: one that was created, or read from itree.    *)
Fresh(o, n, j) ==
    /\ inode[o] = NoObject /\ n \in in!Inums
    /\ \A p \in Objs : Hashed(p) => inode[p].inum # n
    /\ inode' = [inode EXCEPT ![o] = j]
    /\ j \in in!InCore /\ j.inum = n /\ j.hashed /\ j.dead = in!NONE /\ ~ j.gone
    /\ j.dirty \in {{}, {S}} /\ j.count = 1 /\ ~ j.orphaned /\ ~ j.onAdd
    /\ j.iattr # in!NONE => j.iattr = S /\ S \in j.dirty
    /\ j.kind = "dir" => j.copy[S] = in!INVALID /\ j.copy[B] = in!INVALID
    /\ front' = [front EXCEPT ![n] = SeenAs(j.attr, j.kind)]
    /\ j.deferred => S \in j.dirty
    /\ j.deferred <=> itree[n] = in!NoInode
    /\ S \notin j.dirty => itree[n] = SeenAs(j.attr, j.kind)
    /\ ~ Unlinked(itree, n)
    /\ UNCHANGED <<idelta, phase, todo, cur, itree, otree, orphanDel, log, used,
                   crudehack, disk, view>>

LEMMA FreshKept ==
    ASSUME InodesInv, NEW o \in Objs, NEW n, NEW j, Fresh(o, n, j)
    PROVE  /\ (\A p \in Objs : Kept(p)') /\ Unique' /\ FrontAsleep' /\ ViewAsleep' /\ Work'
           /\ Orphans' /\ inode' \in [Objs -> in!InCore \union {NoObject}] /\ front' \in Tables
           /\ Deferred' = IF j.deferred THEN Deferred \union {o} ELSE Deferred
           /\ o \notin Deferred
  <1>1. ITyped /\ Work /\ (\A p \in Objs : Kept(p)) /\ Unique /\ FrontAsleep /\ ViewAsleep
        /\ Orphans
    BY DEF InodesInv
  <1>2. UNCHANGED <<idelta, phase, todo, cur, itree, otree, orphanDel, log, used, crudehack,
                    disk, view>>
    BY DEF Fresh
  <1>3. S' = S /\ B' = B /\ S # B /\ B # in!NONE /\ S # in!NONE
    BY <1>1, <1>2, Slots DEF S, B
  <1>4. j \in in!InCore /\ j # NoObject /\ j.inum = n /\ j.attr \in in!Attrs /\ j.kind \in in!Kinds
    BY InodesAssumption DEF Fresh, in!InCore
  <1>5. inode'[o] = j /\ \A p \in Objs : p # o => inode'[p] = inode[p]
    BY <1>1 DEF Fresh, ITyped
  <1>6. \A m \in in!Inums : front'[m] = IF m = n THEN SeenAs(j.attr, j.kind) ELSE front[m]
    BY <1>1 DEF Fresh, ITyped, Tables
  <1>7. o \notin todo /\ ~ Pending(o)' /\ ~ AtHand(o)' /\ ~ Clearing(o)' /\ (Busy => cur.obj # o)
    BY <1>1, <1>2 DEF Fresh, Work, Pending, AtHand, Clearing, Busy
  <1>8. \A p \in Objs : p # o => /\ Kept(p)' /\ (Hashed(p)' <=> Hashed(p))
                                 /\ (Pending(p)' <=> Pending(p))
    <2> SUFFICES ASSUME NEW p \in Objs, p # o PROVE Spared(p)
      BY <1>1, SparedKept
    <2>1. Hashed(p) => inode[p].inum # n /\ inode[p].inum \in in!Inums
      BY <1>1 DEF Fresh, Hashed, ITyped, in!InCore
    <2> QED
      BY <1>2, <1>5, <1>6, <2>1 DEF Spared, AtHand, Clearing, Busy
  <1>9. Hashed(o)' /\ ~ Hashed(o) /\ ~ Lost(j)
    BY <1>4, <1>5 DEF Fresh, Hashed, Lost
  <1>10. Flags(o)'
    BY <1>2, <1>3, <1>5, <1>7 DEF Fresh, Flags
  <1>11. Refs(o)'
    BY <1>3, <1>5, <1>7, <1>9 DEF Fresh, Refs
  <1>12. Image(o)'
    BY <1>2, <1>3, <1>4, <1>5, <1>6, <1>7, <1>9 DEF Fresh, Image, Unlinked
  <1>13. \A p \in Objs : Kept(p)'
    BY <1>8, <1>10, <1>11, <1>12 DEF Kept
  <1>14. Unique'
    BY <1>1, <1>4, <1>5, <1>8, <1>9 DEF Unique, Fresh
  <1>15. FrontAsleep'
    BY <1>1, <1>2, <1>4, <1>5, <1>6, <1>8, <1>9 DEF FrontAsleep
  <1>16. ViewAsleep'
    <2>1. \A p \in Objs : Pending(p) \/ AtHand(p) =>
            (Pending(p)' \/ AtHand(p)') /\ inode'[p].inum = inode[p].inum
      BY <1>2, <1>5, <1>7 DEF Pending, AtHand, Busy
    <2> QED
      BY <1>1, <1>2, <2>1 DEF ViewAsleep
  <1>17. Work'
    <2>1. todo \subseteq Objs
      BY <1>1 DEF ITyped
    <2> QED
      BY <1>1, <1>2, <1>4, <1>5, <1>7, <2>1 DEF Work, Busy
  <1>18. Orphans'
    BY <1>1, <1>2, <1>5, OrphansKept DEF Fresh
  <1>19. /\ Deferred' = IF j.deferred THEN Deferred \union {o} ELSE Deferred
         /\ o \notin Deferred
    BY <1>4, <1>5 DEF Deferred, Fresh
  <1>20. inode' \in [Objs -> in!InCore \union {NoObject}] /\ front' \in Tables
    <2>1. SeenAs(j.attr, j.kind) \in Stored
      BY <1>4, Distinct DEF Stored
    <2> QED
      BY <1>1, <1>4, <2>1 DEF Fresh, ITyped, Tables
  <1> QED
    BY <1>13, <1>14, <1>15, <1>16, <1>17, <1>18, <1>19, <1>20

(* The objects that hold an inode without an entry in itree are finitely    *)
(* many, and Inodes counts as FiniteSets does.                              *)
LEMMA DeferredFinite == IsFiniteSet(Deferred) /\ Cardinality(Deferred) \in Nat
  <1>1. Deferred \subseteq Objs
    BY DEF Deferred
  <1> QED
    BY <1>1, InodesAssumption, FS_Subset, FS_CardinalityType

(* find_free_inum() finds an inum that no inode has. *)
LEMMA FreeInum ==
    ASSUME ITyped, in!UsedInums # in!Inums
    PROVE  in!find_free_inum \in in!Inums \ in!UsedInums
  <1> DEFINE unused == in!Inums \ in!UsedInums
             steps == {in!Ahead(m) : m \in unused}
  <1>1. in!UsedInums \subseteq in!Inums
    BY DEF in!UsedInums
  <1>2. steps # {}
    BY <1>1
  <1>3. \A m \in in!Inums : in!Ahead(m) \in Nat
    <2> SUFFICES ASSUME NEW m \in in!Inums PROVE in!Ahead(m) \in Nat
      OBVIOUS
    <2>1. m + MaxInum - nextinum \in Nat /\ MaxInum \in Nat \ {0}
      BY InodesAssumption DEF ITyped, in!Inums
    <2> QED
      BY <2>1 DEF in!Ahead
  <1>4. PICK x \in steps : \A y \in steps : ~ (<<y, x>> \in OpToRel(<, Nat))
    <2>1. steps \subseteq Nat
      BY <1>3
    <2> HIDE DEF steps
    <2> QED
      BY <1>2, <2>1, NatLessThanWellFounded, WFMin
  <1>5. PICK n \in unused : x = in!Ahead(n)
    BY <1>4
  <1>6. ASSUME NEW m \in unused PROVE in!Ahead(n) <= in!Ahead(m)
    <2>1. ~ (<<in!Ahead(m), in!Ahead(n)>> \in OpToRel(<, Nat))
      BY <1>4, <1>5
    <2>2. in!Ahead(m) \in Nat /\ in!Ahead(n) \in Nat
      BY <1>3
    <2>3. ~ (in!Ahead(m) < in!Ahead(n))
      BY <2>1, <2>2 DEF OpToRel
    <2> QED
      BY <2>2, <2>3
  <1> QED
    BY <1>5, <1>6 DEF in!find_free_inum

LEMMA NewInodeTyped ==
    ASSUME ITyped, NEW n \in in!Inums, NEW t \in in!Kinds, NEW a \in in!Attrs
    PROVE  /\ in!NewInode(n, t, a) \in in!InCore
           /\ [in!NewInode(n, t, a) EXCEPT !.deferred = TRUE] \in in!InCore
  <1>1. in!NewInode(n, t, a) \in in!InCore
    BY DEF in!NewInode, in!InCore
  <1> QED
    BY <1>1 DEF in!InCore

LEMMA CreateStep ==
    ASSUME InodesInv, ifailed = {}, NEW o \in Objs, NEW t \in in!Kinds, in!Create(o, t)
    PROVE  InodesInv'
  <1> DEFINE n == in!find_free_inum
             a == [nlink |-> IF t = "dir" THEN 2 ELSE 1, val |-> idelta]
             i == [in!NewInode(n, t, a) EXCEPT !.deferred = TRUE]
             j == in!Changed(i, a)
  <1>1. ITyped /\ Counted /\ ifailed = {}
    BY DEF InodesInv
  <1>2. /\ inode' = [inode EXCEPT ![o] = j] /\ front' = [front EXCEPT ![n] = in!Seen(j)]
        /\ nextinum' = in!ialloc_linear_update(n) /\ freeinodes' = freeinodes - 1
        /\ UNCHANGED <<idelta, phase, todo, cur, itree, otree, orphanDel, log, used,
                       crudehack, disk, view, ifailed>>
        /\ inode[o] = NoObject /\ in!UsedInums # in!Inums
    BY DEF in!Create, in!backVars, in!sbVars, in!FreeObjs
  <1>3. n \in in!Inums /\ itree[n] = in!NoInode /\ \A p \in Objs : Hashed(p) => inode[p].inum # n
    BY <1>1, <1>2, FreeInum DEF in!UsedInums, in!At, Hashed
  <1>4. a \in in!Attrs
    BY <1>1, InodesAssumption DEF ITyped, in!Attrs
  <1>5. i \in in!InCore
    BY <1>1, <1>3, <1>4, NewInodeTyped
  <1>6. /\ i.inum = n /\ i.kind = t /\ i.attr = a /\ i.count = 1 /\ i.hashed /\ i.dirty = {}
        /\ i.iattr = in!NONE /\ i.dead = in!NONE /\ ~ i.gone /\ ~ i.orphaned /\ i.deferred
        /\ ~ i.onAdd /\ i.copy[S] = in!INVALID /\ i.copy[B] = in!INVALID
    BY <1>1, Slots DEF in!NewInode
  <1> HIDE DEF i, a, n
  <1>7. Touched(i, j) /\ j.attr = a
    BY <1>1, <1>4, <1>5, ChangedTouches
  <1> HIDE DEF j
  <1>8. Fresh(o, n, j)
    <2>1. j.kind = "dir" => j.copy[S] = in!INVALID /\ j.copy[B] = in!INVALID
      BY <1>1, <1>6, <1>7, Slots DEF Touched
    <2>2. j.iattr = S \/ j.iattr = in!NONE
      BY <1>6, <1>7 DEF Touched
    <2>3. j.dirty = {S} /\ j.inum = n
      BY <1>6, <1>7 DEF Touched
    <2>4. in!Seen(j) = SeenAs(j.attr, j.kind)
      BY DEF in!Seen, SeenAs
    <2> QED
      BY <1>2, <1>3, <1>6, <1>7, <2>1, <2>2, <2>3, <2>4 DEF Fresh, Touched, Unlinked
  <1>9. /\ (\A p \in Objs : Kept(p)') /\ Unique' /\ FrontAsleep' /\ ViewAsleep' /\ Work'
        /\ Orphans' /\ inode' \in [Objs -> in!InCore \union {NoObject}] /\ front' \in Tables
        /\ Deferred' = Deferred \union {o} /\ o \notin Deferred
    BY <1>6, <1>7, <1>8, FreshKept DEF Touched
  <1>10. ITyped'
    <2>1. nextinum' \in in!Inums
      BY <1>2, <1>3, InodesAssumption DEF in!ialloc_linear_update, in!Inums
    <2> QED
      BY <1>1, <1>2, <1>9, <2>1 DEF ITyped
  <1>11. Counted'
    <2>1. Cardinality(Deferred') = Cardinality(Deferred) + 1
      BY <1>9, DeferredFinite, FS_AddElement
    <2>2. used \in Nat /\ MaxInum \in Nat /\ Cardinality(Deferred) \in Nat
      BY <1>1, DeferredFinite, InodesAssumption DEF ITyped
    <2> QED
      BY <1>1, <1>2, <2>1, <2>2 DEF Counted
  <1> QED
    BY <1>1, <1>2, <1>9, <1>10, <1>11 DEF InodesInv

(* Opening an inode finds its object, or what itree has of it.              *)
LEMMA OpenStep ==
    ASSUME InodesInv, ifailed = {}, NEW n \in in!Inums, in!Open(n)
    PROVE  InodesInv'
  <1>1. ITyped /\ Work /\ (\A p \in Objs : Kept(p)) /\ Unique /\ FrontAsleep /\ ViewAsleep
        /\ Orphans /\ Counted /\ ifailed = {}
    BY DEF InodesInv
  <1>2. /\ UNCHANGED <<idelta, phase, todo, cur, itree, otree, orphanDel, log, used,
                       crudehack, disk, view, freeinodes, nextinum, front>>
        /\ front[n] # in!NoInode /\ front[n].nlink > 0
    BY DEF in!Open, in!backVars, in!sbVars
  <1>3. ASSUME NEW o \in in!At(n), inode' = [inode EXCEPT ![o].count = @ + 1],
               ifailed' = ifailed
        PROVE  InodesInv'
    <2> DEFINE i == inode[o]
               j == [inode[o] EXCEPT !.count = inode[o].count + 1]
    <2>1. o \in Objs /\ i \in in!InCore /\ Hashed(o) /\ i.inum = n
      BY <1>1 DEF in!At, ITyped, Hashed
    <2>2. Flags(o) /\ Refs(o) /\ Image(o) /\ ~ Lost(i)
      BY <1>1, <1>2, <2>1 DEF Kept, Hashed, Image
    <2>3. inode' = [inode EXCEPT ![o] = j]
      BY <1>1, <1>3, <2>1 DEF ITyped
    <2>4. i.count \in Nat
      BY <2>1 DEF in!InCore
    <2>5. /\ j.inum = n /\ j.kind = i.kind /\ j.attr = i.attr /\ j.hashed = i.hashed
          /\ j.dirty = i.dirty /\ j.iattr = i.iattr /\ j.dead = i.dead /\ j.copy = i.copy
          /\ j.gone = i.gone /\ j.orphaned = i.orphaned /\ j.deferred = i.deferred
          /\ j.onAdd = i.onAdd /\ j.count = i.count + 1 /\ j \in in!InCore /\ j # NoObject
      BY <2>1, <2>4, InodesAssumption DEF in!InCore
    <2> HIDE DEF j
    <2>6. inode'[o] = j /\ \A p \in Objs : p # o => inode'[p] = inode[p]
      BY <1>1, <2>1, <2>3 DEF ITyped
    <2>7. \A p \in Objs : p # o => Kept(p)' /\ (Hashed(p)' <=> Hashed(p))
      BY <1>1, <1>2, <2>6, SparedKept DEF Spared, AtHand, Clearing, Busy
    <2>8. /\ S' = S /\ B' = B /\ Hashed(o)' /\ (Pending(o)' <=> Pending(o))
          /\ (AtHand(o)' <=> AtHand(o)) /\ (Clearing(o)' <=> Clearing(o)) /\ ~ Lost(j)
      BY <1>2, <2>1, <2>2, <2>5, <2>6 DEF S, B, Hashed, Pending, AtHand, Clearing, Busy, Lost
    <2>9. Flags(o)'
      BY <1>2, <2>2, <2>5, <2>6, <2>8 DEF Flags
    <2>10. Refs(o)'
      BY <1>2, <2>2, <2>4, <2>5, <2>6, <2>8 DEF Refs
    <2>11. Image(o)'
      <3>1. Awaited(o) => Awaited(o)'
        BY <1>2, <2>1, <2>5, <2>6, <2>8 DEF Awaited, Flushed
      <3>2. Read(o) => Read(o)'
        BY <1>2, <2>1, <2>5, <2>6, <2>8 DEF Read
      <3> QED
        BY <1>2, <2>1, <2>2, <2>5, <2>6, <2>8, <3>1, <3>2 DEF Image
    <2>12. \A p \in Objs : /\ Kept(p)' /\ (Hashed(p)' <=> Hashed(p))
                           /\ (inode[p] # NoObject <=> inode'[p] # NoObject)
                           /\ inode'[p].inum = inode[p].inum
      BY <2>1, <2>5, <2>6, <2>7, <2>8, <2>9, <2>10, <2>11 DEF Kept, Hashed
    <2>13. ITyped'
      BY <1>1, <1>2, <2>1, <2>3, <2>5 DEF ITyped
    <2>14. Unique'
      BY <1>1, <2>12 DEF Unique
    <2>15. FrontAsleep' /\ ViewAsleep'
      BY <1>1, <1>2, <2>12 DEF FrontAsleep, ViewAsleep, Pending, AtHand, Busy
    <2>16. Work'
      BY <1>1, <1>2, <2>12 DEF Work, Busy, ITyped
    <2>17. Orphans'
      BY <1>1, <1>2, <2>5, <2>6, <2>12, OrphansKept
    <2>18. Counted'
      BY <1>1, <1>2, <2>5, <2>6, <2>12, CountedKept
    <2> QED
      BY <1>1, <1>3, <2>12, <2>13, <2>14, <2>15, <2>16, <2>17, <2>18 DEF InodesInv
  <1>4. ASSUME in!At(n) = {}, NEW o \in in!FreeObjs,
               inode' = [inode EXCEPT ![o] = in!NewInode(n, front[n].kind,
                             [nlink |-> itree[n].nlink, val |-> itree[n].val])],
               ifailed' = ifailed \union
                 (IF itree[n] = in!NoInode \/ itree[n].kind # front[n].kind
                  THEN {"iget"} ELSE {})
        PROVE  InodesInv'
    <2> DEFINE a == [nlink |-> itree[n].nlink, val |-> itree[n].val]
               j == in!NewInode(n, front[n].kind, a)
    <2>1. o \in Objs /\ inode[o] = NoObject /\ \A p \in Objs : Hashed(p) => inode[p].inum # n
      BY <1>4 DEF in!FreeObjs, in!At, Hashed
    <2>2. front[n] = itree[n] /\ itree[n] \in in!Saved
      BY <1>1, <1>2, <2>1 DEF FrontAsleep, ITyped, Tables, Stored
    <2>3. /\ a \in in!Attrs /\ itree[n].kind \in in!Kinds
          /\ SeenAs(a, itree[n].kind) = itree[n]
      BY <2>2 DEF in!Saved, in!Attrs, SeenAs
    <2>4. j \in in!InCore
      BY <1>1, <2>2, <2>3, NewInodeTyped
    <2>5. /\ j.inum = n /\ j.kind = itree[n].kind /\ j.attr = a /\ j.count = 1 /\ j.hashed
          /\ j.dirty = {} /\ j.iattr = in!NONE /\ j.dead = in!NONE /\ ~ j.gone
          /\ ~ j.orphaned /\ ~ j.deferred /\ ~ j.onAdd
          /\ j.copy[S] = in!INVALID /\ j.copy[B] = in!INVALID
      BY <1>1, <2>2, Slots DEF in!NewInode
    <2>6. inode' = [inode EXCEPT ![o] = j] /\ ifailed' = {}
      BY <1>1, <1>2, <1>4, <2>2
    <2> HIDE DEF j
    <2>7. front' = [front EXCEPT ![n] = SeenAs(j.attr, j.kind)]
      <3>1. front \in [in!Inums -> Stored]
        BY <1>1 DEF ITyped, Tables
      <3> QED
        BY <1>2, <2>2, <2>3, <2>5, <3>1
    <2>8. Fresh(o, n, j)
      <3>1. itree[n] # in!NoInode /\ ~ Unlinked(itree, n)
        BY <1>2, <2>2 DEF Unlinked
      <3>2. S \notin j.dirty /\ itree[n] = SeenAs(j.attr, j.kind)
        BY <2>3, <2>5
      <3> HIDE DEF a
      <3> QED
        BY <1>2, <2>1, <2>4, <2>5, <2>6, <2>7, <3>1, <3>2 DEF Fresh
    <2>9. /\ (\A p \in Objs : Kept(p)') /\ Unique' /\ FrontAsleep' /\ ViewAsleep' /\ Work'
          /\ Orphans' /\ inode' \in [Objs -> in!InCore \union {NoObject}] /\ front' \in Tables
          /\ Deferred' = Deferred
      BY <2>1, <2>5, <2>8, FreshKept
    <2>10. ITyped' /\ Counted'
      BY <1>1, <1>2, <2>9 DEF ITyped, Counted
    <2> QED
      BY <2>6, <2>9, <2>10 DEF InodesInv
  <1> QED
    BY <1>3, <1>4 DEF in!Open

(* A transition of the delta: the slots change places, and the backend      *)
(* takes what is dirty.                                                     *)
LEMMA TransitionStep ==
    ASSUME InodesInv, ifailed = {}, in!Transition
    PROVE  InodesInv'
  <1>1. ITyped /\ Work /\ (\A p \in Objs : Kept(p)) /\ Unique /\ FrontAsleep /\ ViewAsleep
        /\ Orphans /\ Counted /\ ifailed = {}
    BY DEF InodesInv
  <1>2. /\ phase = "idle" /\ idelta' = (idelta + 1) % Period /\ phase' = "flush" /\ view' = front
        /\ todo' = {o \in Objs : inode[o] # NoObject /\ S \in inode[o].dirty}
        /\ UNCHANGED <<inode, cur, itree, otree, orphanDel, log, used, crudehack, freeinodes,
                       nextinum, disk, front, ifailed>>
    BY DEF in!Transition, in!sbVars, in!tux3_delta, S
  <1>3. S' = B /\ B' = S /\ S # B /\ B # in!NONE /\ S # in!NONE
    BY <1>1, <1>2, Slots DEF S, B
  <1>4. ~ Busy /\ todo = {}
    BY <1>1, <1>2 DEF Work
  <1>5. \A o \in Objs : /\ ~ Pending(o) /\ ~ AtHand(o) /\ ~ AtHand(o)' /\ ~ Clearing(o)
                        /\ ~ Clearing(o)' /\ (Hashed(o)' <=> Hashed(o))
                        /\ Pending(o)' <=> inode[o] # NoObject /\ S \in inode[o].dirty
    BY <1>2, <1>4 DEF Pending, AtHand, Clearing, Hashed, Busy
  <1>6. ASSUME NEW o \in Objs, inode[o] # NoObject
        PROVE  /\ Kept(o)'
               /\ Hashed(o) /\ ~ Pending(o)' => front[inode[o].inum] = itree[inode[o].inum]
    <2> DEFINE i == inode[o]
    <2>1. Flags(o) /\ Refs(o) /\ (Hashed(o) => Image(o))
      BY <1>1, <1>6 DEF Kept
    <2>2. i.iattr \in {in!NONE, S} /\ i.dead \in {in!NONE, S} /\ B \notin i.dirty
      <3>1. i.iattr \in {S, B, in!NONE} /\ i.dead \in {S, B, in!NONE}
        BY <1>1, <1>6, Slots DEF ITyped, in!InCore
      <3> QED
        BY <1>2, <1>5, <2>1, <3>1 DEF Flags
    <2>3. S \in i.dirty => i.hashed /\ ~ i.gone
      BY <2>1 DEF Refs, Flags
    <2>4. Flags(o)'
      BY <1>2, <1>3, <1>5, <1>6, <2>1, <2>2, <2>3 DEF Flags
    <2>5. Refs(o)'
      BY <1>2, <1>3, <1>5, <1>6, <2>1 DEF Refs, Lost
    <2>6. ASSUME Hashed(o)
          PROVE  Image(o)' /\ (~ Pending(o)' => front[i.inum] = itree[i.inum])
      <3>1. ~ i.gone /\ i.hashed
        BY <1>5, <2>1, <2>6 DEF Refs, Hashed
      <3>2. Flushed(i)' = i.attr
        BY <1>2, <1>3, <2>2 DEF Flushed
      <3>3. i.attr # in!INVALID
        BY <1>1, <1>6, Distinct DEF ITyped, in!InCore
      <3>4. Pending(o)' => Awaited(o)'
        <4>1. front[i.inum] = IF i.dead = S THEN in!NoInode ELSE SeenAs(i.attr, i.kind)
          BY <1>3, <2>1, <2>2, <2>6, <3>1 DEF Image, Lost
        <4>2. i.orphaned => i.attr.nlink = 0
          BY <2>1 DEF Refs
        <4> QED
          BY <1>2, <1>3, <3>2, <3>3, <4>1, <4>2 DEF Awaited
      <3>5. ~ Pending(o)' => ~ Lost(i)
        BY <1>3, <1>5, <1>6, <2>1, <2>2, <3>1 DEF Flags, Lost
      <3> QED
        BY <1>2, <1>3, <1>5, <1>6, <2>1, <2>2, <2>6, <3>4, <3>5 DEF Image, Lost
    <2> QED
      BY <1>5, <2>4, <2>5, <2>6 DEF Kept
  <1>7. \A o \in Objs : Kept(o)'
    BY <1>2, <1>6 DEF Kept
  <1>8. ITyped'
    BY <1>1, <1>2, Slots DEF ITyped
  <1>9. Unique' /\ FrontAsleep'
    BY <1>1, <1>2, <1>5 DEF Unique, FrontAsleep
  <1>10. ViewAsleep'
    <2> SUFFICES ASSUME NEW n \in in!Inums,
                        \A o \in Objs : Pending(o)' \/ AtHand(o)' => inode[o].inum # n
                 PROVE  itree[n] = front[n]
      BY <1>2 DEF ViewAsleep
    <2>1. CASE \E o \in Objs : Hashed(o) /\ inode[o].inum = n
      BY <1>6, <2>1 DEF Hashed
    <2>2. CASE \A o \in Objs : Hashed(o) => inode[o].inum # n
      BY <1>1, <2>2 DEF FrontAsleep
    <2> QED
      BY <2>1, <2>2
  <1>11. Work'
    BY <1>2, <1>4 DEF Work, Busy
  <1>12. Orphans' /\ Counted'
    BY <1>1, <1>2, OrphansKept, CountedKept
  <1> QED
    BY <1>1, <1>2, <1>7, <1>8, <1>9, <1>10, <1>11, <1>12 DEF InodesInv

(* The backend is done with a delta. *)
LEMMA FlushDoneStep ==
    ASSUME InodesInv, ifailed = {}, in!FlushDone
    PROVE  InodesInv'
  <1>1. ITyped /\ Work /\ (\A p \in Objs : Kept(p)) /\ Unique /\ FrontAsleep /\ ViewAsleep
        /\ Orphans /\ Counted /\ ifailed = {}
    BY DEF InodesInv
  <1>2. /\ phase = "clear" /\ phase' = "idle" /\ ~ Busy /\ todo = {}
        /\ UNCHANGED <<inode, idelta, todo, cur, itree, otree, orphanDel, log, used, crudehack,
                       disk, view, freeinodes, nextinum, front, ifailed>>
    BY DEF in!FlushDone, in!sbVars, Busy
  <1>3. /\ S' = S /\ B' = B
        /\ \A o \in Objs : /\ ~ Pending(o) /\ ~ AtHand(o) /\ ~ Clearing(o) /\ ~ Pending(o)'
                           /\ ~ AtHand(o)' /\ ~ Clearing(o)' /\ (Hashed(o)' <=> Hashed(o))
    BY <1>2 DEF S, B, Pending, AtHand, Clearing, Hashed, Busy
  <1>4. ASSUME NEW o \in Objs PROVE Kept(o)'
    <2>1. Flags(o) => Flags(o)'
      BY <1>2, <1>3 DEF Flags
    <2>2. Refs(o) => Refs(o)'
      BY <1>2, <1>3 DEF Refs, Lost
    <2>3. Image(o) => Image(o)'
      BY <1>2, <1>3 DEF Image, Lost
    <2> QED
      BY <1>1, <1>2, <1>3, <2>1, <2>2, <2>3 DEF Kept
  <1>5. ITyped' /\ Unique' /\ FrontAsleep' /\ ViewAsleep' /\ Work'
    BY <1>1, <1>2, <1>3 DEF ITyped, Unique, FrontAsleep, ViewAsleep, Work, Busy
  <1>6. Orphans' /\ Counted'
    BY <1>1, <1>2, OrphansKept, CountedKept
  <1> QED
    BY <1>1, <1>2, <1>4, <1>5, <1>6 DEF InodesInv

(* What one more record makes of the orphans in a log                       *)
LEMMA LogAppend ==
    ASSUME NEW recs \in Seq(Records), NEW r \in Records
    PROVE  /\ \A m : Added(Append(recs, r), m)
                       <=> r = <<"add", m>> \/ (r[2] # m /\ Added(recs, m))
           /\ \A m : Deleted(Append(recs, r), m)
                       <=> Deleted(recs, m) \/ (r = <<"del", m>> /\ ~ Added(recs, m))
           /\ Once(Append(recs, r)) <=> Once(recs) /\ (r[1] = "add" => ~ Added(recs, r[2]))
  <1> DEFINE l == Append(recs, r)
             len == Len(recs)
  <1>1. /\ l \in Seq(Records) /\ Len(l) = len + 1 /\ len \in Nat
        /\ (\A k \in 1 .. len : l[k] = recs[k]) /\ l[len + 1] = r
    BY AppendProperties, LenProperties
  <1> HIDE DEF l, len
  <1>2. ASSUME NEW m, NEW k \in 0 .. len
        PROVE  in!OrphanAdd(l, m, k) <=> in!OrphanAdd(recs, m, k)
    <2>1. \A i \in 1 .. k : l[i] = recs[i]
      BY <1>1
    <2>2. \A i \in 1 .. k : \A j \in i + 1 .. k : l[j] = recs[j]
      BY <1>1
    <2> QED
      BY <2>1, <2>2 DEF in!OrphanAdd
  <1>3. ASSUME NEW m
        PROVE  in!OrphanAdd(l, m, len + 1)
                 <=> r = <<"add", m>> \/ (r[2] # m /\ in!OrphanAdd(recs, m, len))
    <2>1. ASSUME r = <<"add", m>> PROVE in!OrphanAdd(l, m, len + 1)
      BY <1>1, <2>1 DEF in!OrphanAdd
    <2>2. ASSUME r[2] # m, in!OrphanAdd(recs, m, len) PROVE in!OrphanAdd(l, m, len + 1)
      <3>1. PICK i \in 1 .. len : l[i] = <<"add", m>> /\ \A j \in i + 1 .. len : l[j][2] # m
        BY <1>1, <1>2, <2>2 DEF in!OrphanAdd
      <3>2. \A j \in i + 1 .. len + 1 : l[j][2] # m
        BY <1>1, <2>2, <3>1
      <3> QED
        BY <1>1, <3>1, <3>2 DEF in!OrphanAdd
    <2>3. ASSUME in!OrphanAdd(l, m, len + 1)
          PROVE  r = <<"add", m>> \/ (r[2] # m /\ in!OrphanAdd(recs, m, len))
      <3>1. PICK i \in 1 .. len + 1 : /\ l[i] = <<"add", m>>
                                      /\ \A j \in i + 1 .. len + 1 : l[j][2] # m
        BY <2>3 DEF in!OrphanAdd
      <3>2. CASE i = len + 1
        BY <1>1, <3>1, <3>2
      <3>3. CASE i # len + 1
        <4>1. i \in 1 .. len /\ r[2] # m
          BY <1>1, <3>1, <3>3
        <4>2. in!OrphanAdd(l, m, len)
          BY <1>1, <3>1, <4>1 DEF in!OrphanAdd
        <4> QED
          BY <1>1, <1>2, <4>1, <4>2
      <3> QED
        BY <3>2, <3>3
    <2> QED
      BY <2>1, <2>2, <2>3
  <1>4. \A m : Added(l, m) <=> r = <<"add", m>> \/ (r[2] # m /\ Added(recs, m))
    BY <1>1, <1>3 DEF Added, len
  <1>5. ASSUME NEW m
        PROVE  Deleted(l, m) <=> Deleted(recs, m) \/ (r = <<"del", m>> /\ ~ Added(recs, m))
    <2>1. \A k \in 1 .. len : /\ l[k] = recs[k]
                              /\ in!OrphanAdd(l, m, k - 1) <=> in!OrphanAdd(recs, m, k - 1)
      <3> TAKE k \in 1 .. len
      <3>1. k - 1 \in 0 .. len
        BY <1>1
      <3> QED
        BY <1>1, <1>2, <3>1
    <2>2. in!OrphanAdd(l, m, (len + 1) - 1) <=> Added(recs, m)
      <3>1. (len + 1) - 1 = len /\ len \in 0 .. len
        BY <1>1
      <3> QED
        BY <1>2, <3>1 DEF Added, len
    <2>3. ASSUME Deleted(recs, m) PROVE Deleted(l, m)
      <3>1. PICK k \in 1 .. len : recs[k] = <<"del", m>> /\ ~ in!OrphanAdd(recs, m, k - 1)
        BY <2>3 DEF Deleted, len
      <3>2. k \in 1 .. len + 1
        BY <1>1
      <3> QED
        BY <1>1, <2>1, <3>1, <3>2 DEF Deleted
    <2>4. ASSUME r = <<"del", m>>, ~ Added(recs, m) PROVE Deleted(l, m)
      <3>1. len + 1 \in 1 .. len + 1
        BY <1>1
      <3> QED
        BY <1>1, <2>2, <2>4, <3>1 DEF Deleted
    <2>5. ASSUME Deleted(l, m)
          PROVE  Deleted(recs, m) \/ (r = <<"del", m>> /\ ~ Added(recs, m))
      <3>1. PICK k \in 1 .. len + 1 : l[k] = <<"del", m>> /\ ~ in!OrphanAdd(l, m, k - 1)
        BY <1>1, <2>5 DEF Deleted
      <3>2. CASE k = len + 1
        BY <1>1, <2>2, <3>1, <3>2
      <3>3. CASE k # len + 1
        <4>1. k \in 1 .. len
          BY <1>1, <3>3
        <4> QED
          BY <2>1, <3>1, <4>1 DEF Deleted, len
      <3> QED
        BY <3>2, <3>3
    <2> QED
      BY <2>3, <2>4, <2>5
  <1>6. Once(l) <=> Once(recs) /\ (r[1] = "add" => ~ Added(recs, r[2]))
    <2>1. \A k \in 1 .. len : /\ l[k] = recs[k]
                              /\ in!OrphanAdd(l, l[k][2], k - 1)
                                   <=> in!OrphanAdd(recs, recs[k][2], k - 1)
      <3> TAKE k \in 1 .. len
      <3>1. k - 1 \in 0 .. len
        BY <1>1
      <3> QED
        BY <1>1, <1>2, <3>1
    <2>2. in!OrphanAdd(l, l[len + 1][2], (len + 1) - 1) <=> Added(recs, r[2])
      <3>1. (len + 1) - 1 = len /\ len \in 0 .. len
        BY <1>1
      <3> QED
        BY <1>1, <1>2, <3>1 DEF Added, len
    <2>3. \A k : k \in 1 .. len + 1 <=> k \in 1 .. len \/ k = len + 1
      BY <1>1
    <2>4. Once(recs) <=> \A k \in 1 .. len :
                            recs[k][1] = "add" => ~ in!OrphanAdd(recs, recs[k][2], k - 1)
      BY DEF Once, len
    <2>5. Once(l) <=> \A k \in 1 .. len + 1 :
                            l[k][1] = "add" => ~ in!OrphanAdd(l, l[k][2], k - 1)
      BY <1>1 DEF Once
    <2> QED
      BY <1>1, <2>1, <2>2, <2>3, <2>4, <2>5
  <1> QED
    BY <1>4, <1>5, <1>6 DEF l

LEMMA LogEmpty == Once(<<>>) /\ \A m : ~ Added(<<>>, m) /\ ~ Deleted(<<>>, m)
  <1>1. Len(<<>>) = 0
    OBVIOUS
  <1> QED
    BY <1>1 DEF Once, Added, Deleted, in!OrphanAdd

(* The first step of a flush reads what the delta has of the inode.         *)
LEMMA FlushReadStep ==
    ASSUME InodesInv, ifailed = {}, NEW o \in Objs, in!FlushRead(o)
    PROVE  InodesInv'
  <1> DEFINE i == inode[o]
             j == in!ReadAndClear(i, in!Marshal(idelta))
             idata1 == in!Stable(i, in!Marshal(idelta))
  <1>1. ITyped /\ Work /\ (\A p \in Objs : Kept(p)) /\ Unique /\ FrontAsleep /\ ViewAsleep
        /\ Orphans /\ Counted /\ ifailed = {}
    BY DEF InodesInv
  <1>2. /\ phase = "flush" /\ ~ Busy /\ o \in todo
        /\ cur' = [obj |-> o, idata |-> idata1,
                   orphaned |-> idata1.nlink = 0 /\ ~ i.orphaned,
                   deleted |-> i.dead = in!tux3_delta(in!Marshal(idelta))]
        /\ inode' = [inode EXCEPT ![o] = j] /\ todo' = todo \ {o}
        /\ idata1 # in!INVALID
        /\ UNCHANGED <<idelta, phase, itree, otree, orphanDel, log, used, crudehack, disk,
                       view, freeinodes, nextinum, front, ifailed>>
    BY DEF in!FlushRead, in!Flushes, in!sbVars, Busy
  <1>3. i # NoObject /\ i \in in!InCore /\ Pending(o) /\ ~ AtHand(o)
    BY <1>1, <1>2 DEF Work, ITyped, Pending, AtHand
  <1>4. Flags(o) /\ Refs(o) /\ Image(o) /\ Awaited(o) /\ Hashed(o) /\ B \in i.dirty
    BY <1>1, <1>3 DEF Kept, Flags, Hashed, Image
  <1>5. /\ Cleared(i, j) /\ idata1 = Flushed(i) /\ Flushed(i) \in in!Attrs
    BY <1>1, <1>2, <1>3, ReadClears
  <1>6. S' = S /\ B' = B /\ S # B /\ B # in!NONE /\ S # in!NONE
        /\ in!tux3_delta(in!Marshal(idelta)) = B
    BY <1>1, <1>2, Slots DEF S, B
  <1>7. /\ j \in in!InCore /\ j # NoObject
        /\ j.inum = i.inum /\ j.kind = i.kind /\ j.count = i.count /\ j.hashed = i.hashed
        /\ j.attr = i.attr /\ j.dirty = i.dirty /\ j.deferred = i.deferred
        /\ j.onAdd = i.onAdd
        /\ j.iattr = (IF i.iattr = B THEN in!NONE ELSE i.iattr)
        /\ j.dead = (IF i.dead = B THEN in!NONE ELSE i.dead)
        /\ (j.gone <=> i.gone \/ i.dead = B)
        /\ (j.orphaned <=> i.orphaned \/ Flushed(i).nlink = 0)
        /\ j.copy[B] = in!INVALID /\ j.copy[S] = i.copy[S]
    BY <1>5, InodesAssumption DEF Cleared
  <1>8. /\ cur'.obj = o /\ cur'.idata = Flushed(i) /\ (cur'.deleted <=> i.dead = B)
        /\ (cur'.orphaned <=> Flushed(i).nlink = 0 /\ ~ i.orphaned) /\ ifailed' = {}
    BY <1>1, <1>2, <1>5, <1>6
  <1> HIDE DEF j, idata1
  <1>9. inode'[o] = j /\ \A p \in Objs : p # o => inode'[p] = inode[p]
    BY <1>1, <1>2 DEF ITyped
  <1>10. Busy'
    BY <1>8, Distinct, InodesAssumption DEF Busy
  <1>11. /\ AtHand(o)' /\ ~ Pending(o)' /\ Hashed(o)' /\ ~ Clearing(o)' /\ ~ Clearing(o)
    BY <1>2, <1>4, <1>7, <1>8, <1>9, <1>10 DEF AtHand, Pending, Hashed, Clearing
  <1>12. \A p \in Objs : p # o => /\ Kept(p)' /\ (Hashed(p)' <=> Hashed(p))
                                  /\ (Pending(p)' <=> Pending(p))
    <2> SUFFICES ASSUME NEW p \in Objs, p # o PROVE Spared(p)
      BY <1>1, SparedKept
    <2> QED
      BY <1>2, <1>8, <1>9 DEF Spared, AtHand, Clearing, Busy
  <1>13. Flags(o)'
    <2>1. phase' = phase /\ phase = "flush"
      BY <1>2
    <2>2. i.dead = B \/ i.gone => S \notin i.dirty
      BY <1>4 DEF Flags
    <2>3. /\ i.iattr # in!NONE => i.iattr \in i.dirty
          /\ i.dead # in!NONE => i.dead \in i.dirty
          /\ i.gone => i.dead = in!NONE
          /\ i.kind = "dir" => i.copy[S] = in!INVALID
      BY <1>4 DEF Flags
    <2>4. B \in i.dirty /\ i.hashed
      BY <1>4 DEF Hashed
    <2> QED
      BY <1>6, <1>7, <1>9, <1>11, <2>1, <2>2, <2>3, <2>4 DEF Flags
  <1>14. i.attr.nlink = 0 \/ Flushed(i).nlink # 0
    BY <1>4, <1>5, Distinct DEF Awaited
  <1>15. ~ i.gone
    BY <1>2, <1>4 DEF Refs, Hashed, AtHand
  <1>16. Lost(j) <=> Lost(i)
    BY <1>6, <1>7, <1>15 DEF Lost
  <1>17. Refs(o)'
    BY <1>3, <1>4, <1>6, <1>7, <1>8, <1>9, <1>11, <1>14, <1>15, <1>16 DEF Refs, Hashed
  <1>18. Image(o)'
    <2>1. i.iattr \in {S, B, in!NONE}
      BY <1>1, <1>3, Slots DEF in!InCore
    <2>2. S \notin i.dirty => Flushed(i) = i.attr
      BY <1>4, <1>6, <2>1 DEF Flushed, Flags
    <2>3. i.dead = B => Flushed(i).nlink = 0
      BY <1>4, <1>6, <2>2 DEF Flags, Refs, Lost
    <2>4. Flushed(i) # in!INVALID
      BY <1>5, Distinct
    <2>5. (i.orphaned <=> Unlinked(itree, i.inum)) /\ (i.orphaned => Flushed(i).nlink = 0)
      BY <1>3, <1>4, <2>4 DEF Image, Awaited
    <2>6. view[i.inum] = IF i.dead = B THEN in!NoInode ELSE SeenAs(Flushed(i), i.kind)
      BY <1>4, <2>4 DEF Awaited
    <2>7. Read(o)'
      <3>1. view' = view /\ itree' = itree
        BY <1>2
      <3> QED
        BY <3>1, <1>6, <1>7, <1>8, <1>9, <1>14, <1>15, <2>2, <2>3, <2>4, <2>5, <2>6
        DEF Read, Unlinked
    <2> QED
      BY <1>2, <1>4, <1>6, <1>7, <1>9, <1>11, <1>16, <2>7 DEF Image
  <1>19. \A p \in Objs : Kept(p)' /\ (Hashed(p)' <=> Hashed(p))
                         /\ (inode'[p] # NoObject <=> inode[p] # NoObject)
                         /\ inode'[p].inum = inode[p].inum
    BY <1>3, <1>4, <1>7, <1>9, <1>11, <1>12, <1>13, <1>17, <1>18 DEF Kept
  <1>20. ITyped'
    <2>1. cur' \in [obj : Objs \union {NoObject}, idata : in!Attrs \union {in!INVALID},
                    orphaned : BOOLEAN, deleted : BOOLEAN]
      BY <1>2, <1>5
    <2>2. inode' \in [Objs -> in!InCore \union {NoObject}]
      BY <1>1, <1>2, <1>7 DEF ITyped
    <2> QED
      BY <1>1, <1>2, <2>1, <2>2 DEF ITyped
  <1>21. Unique' /\ FrontAsleep'
    BY <1>1, <1>2, <1>19 DEF Unique, FrontAsleep
  <1>22. ViewAsleep'
    <2>1. \A p \in Objs : Pending(p) \/ AtHand(p) => Pending(p)' \/ AtHand(p)'
      BY <1>2, <1>11, <1>12 DEF AtHand
    <2> QED
      BY <1>1, <1>2, <1>19, <2>1 DEF ViewAsleep
  <1>23. Work'
    <2>1. todo \subseteq Objs
      BY <1>1 DEF ITyped
    <2> QED
      BY <1>1, <1>2, <1>3, <1>8, <1>19, <2>1 DEF Work
  <1>24. Orphans'
    BY <1>1, <1>2, <1>7, <1>9, <1>19, OrphansKept
  <1>25. Counted'
    BY <1>1, <1>2, <1>7, <1>9, <1>19, CountedKept
  <1> QED
    BY <1>8, <1>19, <1>20, <1>21, <1>22, <1>23, <1>24, <1>25 DEF InodesInv

(* A step that changes none of the inodes' state                            *)
LEMMA StillSound ==
    ASSUME InodesInv, ifailed' \subseteq {"idata of dir"},
           UNCHANGED <<inode, idelta, phase, todo, cur, itree, otree, orphanDel, log, used,
                       crudehack, freeinodes, nextinum, disk, front, view>>
    PROVE  InodesInv'
  <1>2. S' = S /\ B' = B
    BY DEF S, B
  <1>3. ITyped' /\ Work' /\ Unique' /\ FrontAsleep'
    BY DEF InodesInv, ITyped, Work, Unique, FrontAsleep, Busy, Hashed
  <1>4. ViewAsleep'
    BY DEF InodesInv, ViewAsleep, Pending, AtHand, Busy
  <1>5. Orphans' /\ Counted'
    BY OrphansKept, CountedKept DEF InodesInv
  <1>6. \A o \in Objs : Kept(o)'
    <2> SUFFICES ASSUME NEW o \in Objs PROVE Spared(o)
      BY SparedKept DEF InodesInv
    <2> QED
      BY DEF Spared, AtHand, Clearing, Busy
  <1> QED
    BY <1>3, <1>4, <1>5, <1>6 DEF InodesInv

(* The assertion on the stable copy: only a directory's was never made.     *)
LEMMA FlushFailsStep ==
    ASSUME InodesInv, ifailed = {}, NEW o \in Objs, in!FlushFails(o)
    PROVE  InodesInv'
  <1> DEFINE i == inode[o]
  <1>1. ITyped /\ Work /\ (\A p \in Objs : Kept(p)) /\ Unique /\ FrontAsleep /\ ViewAsleep
        /\ Orphans /\ Counted
    BY DEF InodesInv
  <1>2. /\ phase = "flush" /\ o \in todo
        /\ in!Stable(i, in!Marshal(idelta)) = in!INVALID
        /\ ifailed' = ifailed \union {IF i.kind = "dir" THEN "idata of dir" ELSE "idata"}
        /\ UNCHANGED <<inode, idelta, phase, todo, cur, itree, otree, orphanDel, log, used,
                       crudehack, freeinodes, nextinum, disk, front, view>>
    BY DEF in!FlushFails, in!Flushes, in!backVars, in!sbVars
  <1>3. i # NoObject /\ i \in in!InCore /\ Pending(o) /\ Flushed(i) = in!INVALID
    BY <1>1, <1>2, ReadClears DEF Work, ITyped, Pending
  <1>4. i.kind = "dir"
    <2>1. Hashed(o) /\ Image(o)
      BY <1>1, <1>3 DEF Kept, Flags, Hashed
    <2> QED
      BY <1>3, <2>1 DEF Image, Awaited
  <1>5. ifailed' \subseteq {"idata of dir"}
    BY <1>2, <1>4
  <1> QED
    BY <1>2, <1>5, StillSound

(* The backend takes a reference to clear the flags of its delta.           *)
LEMMA ClearDirtyStep ==
    ASSUME InodesInv, ifailed = {}, NEW o \in Objs, in!ClearDirty(o)
    PROVE  InodesInv'
  <1> DEFINE i == inode[o]
             j == [inode[o] EXCEPT !.count = i.count + 1, !.dirty = i.dirty \ {B}]
  <1>1. ITyped /\ Work /\ (\A p \in Objs : Kept(p)) /\ Unique /\ FrontAsleep /\ ViewAsleep
        /\ Orphans /\ Counted /\ ifailed = {}
    BY DEF InodesInv
  <1>2. S # B /\ B # in!NONE /\ S # in!NONE /\ in!tux3_delta(in!Marshal(idelta)) = B
    BY <1>1, Slots
  <1>3. /\ phase = "clear" /\ ~ Busy /\ o \in todo
        /\ cur' = [in!NoCur EXCEPT !.obj = o] /\ todo' = todo \ {o}
        /\ UNCHANGED <<idelta, phase, itree, otree, orphanDel, log, used, crudehack, disk,
                       view, freeinodes, nextinum, front, ifailed>>
    BY DEF in!ClearDirty, in!sbVars, Busy
  <1>4. S' = S /\ B' = B
    BY <1>3 DEF S, B
  <1>5. i # NoObject /\ i \in in!InCore /\ i.count \in Nat
    BY <1>1, <1>3 DEF Work, ITyped, in!InCore
  <1>6. inode' = [inode EXCEPT ![o] = j]
    BY <1>1, <1>2, <1>5 DEF in!ClearDirty, ITyped, in!InCore
  <1>7. /\ j.inum = i.inum /\ j.kind = i.kind /\ j.attr = i.attr /\ j.hashed = i.hashed
        /\ j.dirty = i.dirty \ {B} /\ j.iattr = i.iattr /\ j.dead = i.dead /\ j.copy = i.copy
        /\ j.gone = i.gone /\ j.orphaned = i.orphaned /\ j.deferred = i.deferred
        /\ j.onAdd = i.onAdd /\ j.count = i.count + 1 /\ j \in in!InCore /\ j # NoObject
    <2>1. i.dirty \ {B} \in SUBSET in!Slots /\ i.count + 1 \in Nat
      BY <1>5 DEF in!InCore
    <2> QED
      BY <1>5, <2>1, InodesAssumption DEF in!InCore
  <1> HIDE DEF j
  <1>8. inode'[o] = j /\ \A p \in Objs : p # o => inode'[p] = inode[p]
    BY <1>1, <1>6 DEF ITyped
  <1>9. cur'.obj = o /\ Busy'
    BY <1>3, InodesAssumption DEF Busy, in!NoCur
  <1>10. /\ \A p \in Objs : ~ Pending(p) /\ ~ AtHand(p) /\ ~ Pending(p)' /\ ~ AtHand(p)'
         /\ ~ Clearing(o) /\ Clearing(o)' /\ (Hashed(o)' <=> Hashed(o))
    BY <1>3, <1>5, <1>7, <1>8, <1>9 DEF Pending, AtHand, Clearing, Hashed
  <1>11. \A p \in Objs : p # o => Kept(p)' /\ (Hashed(p)' <=> Hashed(p))
    <2> SUFFICES ASSUME NEW p \in Objs, p # o PROVE Spared(p)
      BY <1>1, SparedKept
    <2> QED
      BY <1>3, <1>8, <1>9, <1>10 DEF Spared, Clearing
  <1>12. Flags(o) /\ Refs(o) /\ (Hashed(o) => Image(o))
    BY <1>1, <1>5 DEF Kept
  <1>13. Flags(o)'
    BY <1>2, <1>3, <1>4, <1>7, <1>8, <1>10, <1>12 DEF Flags
  <1>14. Refs(o)'
    <2>1. Lost(j) => j.count = 1
      BY <1>7, <1>10, <1>12 DEF Refs, Lost
    <2>2. j.count >= 1
      BY <1>5, <1>7
    <2> QED
      BY <1>2, <1>3, <1>4, <1>7, <1>8, <1>10, <1>12, <2>1, <2>2 DEF Refs, Lost
  <1>15. Hashed(o) => Image(o)'
    BY <1>2, <1>3, <1>4, <1>7, <1>8, <1>10, <1>12 DEF Image, Lost, Unlinked
  <1>16. \A p \in Objs : Kept(p)' /\ (Hashed(p)' <=> Hashed(p))
                         /\ (inode'[p] # NoObject <=> inode[p] # NoObject)
                         /\ inode'[p].inum = inode[p].inum
    BY <1>5, <1>7, <1>8, <1>10, <1>11, <1>13, <1>14, <1>15 DEF Kept
  <1>17. ITyped'
    <2>1. cur' \in [obj : Objs \union {NoObject}, idata : in!Attrs \union {in!INVALID},
                    orphaned : BOOLEAN, deleted : BOOLEAN]
      BY <1>3 DEF in!NoCur
    <2>2. inode' \in [Objs -> in!InCore \union {NoObject}]
      BY <1>1, <1>6, <1>7 DEF ITyped
    <2> QED
      BY <1>1, <1>3, <2>1, <2>2 DEF ITyped
  <1>18. Unique' /\ FrontAsleep' /\ ViewAsleep'
    BY <1>1, <1>3, <1>10, <1>16 DEF Unique, FrontAsleep, ViewAsleep
  <1>19. Work'
    <2>1. todo \subseteq Objs
      BY <1>1 DEF ITyped
    <2> QED
      BY <1>1, <1>3, <1>5, <1>9, <1>16, <2>1 DEF Work
  <1>20. Orphans'
    BY <1>1, <1>3, <1>7, <1>8, <1>16, OrphansKept
  <1>21. Counted'
    BY <1>1, <1>3, <1>7, <1>8, <1>16, CountedKept
  <1> QED
    BY <1>1, <1>3, <1>16, <1>17, <1>18, <1>19, <1>20, <1>21 DEF InodesInv

(* The inodes of a volume are finitely many.                                *)
SavedIn(table) == {n \in in!Inums : table[n] # in!NoInode}

LEMMA SavedFinite ==
    ASSUME NEW table
    PROVE  IsFiniteSet(SavedIn(table)) /\ Cardinality(SavedIn(table)) \in Nat
  <1>1. SavedIn(table) \subseteq in!Inums
    BY DEF SavedIn
  <1> QED
    BY <1>1, Distinct, FS_Subset, FS_CardinalityType

(* The inode at hand is hashed, and its orphan record is in the log if the  *)
(* object is on sb->orphan_add.                                             *)
LEMMA AtHandSound ==
    ASSUME InodesInv, phase = "flush", Busy
    PROVE  /\ cur.obj \in Objs /\ inode[cur.obj] # NoObject /\ inode[cur.obj] \in in!InCore
           /\ AtHand(cur.obj) /\ Hashed(cur.obj) /\ ~ Pending(cur.obj)
           /\ Flags(cur.obj) /\ Refs(cur.obj) /\ Image(cur.obj) /\ Read(cur.obj)
           /\ inode[cur.obj].inum \in in!Inums
           /\ inode[cur.obj].onAdd <=> Added(log, inode[cur.obj].inum)
  <1> DEFINE o == cur.obj
  <1>1. o \in Objs /\ inode[o] # NoObject /\ o \notin todo
    BY DEF InodesInv, Work
  <1>2. inode[o] \in in!InCore /\ inode[o].inum \in in!Inums
    BY <1>1 DEF InodesInv, ITyped, in!InCore
  <1>3. AtHand(o) /\ ~ Pending(o)
    BY <1>1 DEF AtHand, Pending
  <1>4. Flags(o) /\ Refs(o) /\ Hashed(o) /\ Image(o)
    BY <1>1, <1>3 DEF InodesInv, Kept, Flags, Hashed
  <1>5. Read(o)
    BY <1>3, <1>4 DEF Image
  <1>6. ASSUME Added(log, inode[o].inum) PROVE inode[o].onAdd
    <2>1. PICK p \in Objs : inode[p] # NoObject /\ inode[p].onAdd /\ inode[p].inum = inode[o].inum
      BY <1>2, <1>6 DEF InodesInv, Orphans
    <2>2. Hashed(p)
      BY <2>1 DEF InodesInv, Kept, Refs, Hashed
    <2> QED
      BY <1>1, <1>4, <2>1, <2>2 DEF InodesInv, Unique
  <1>7. ASSUME inode[o].onAdd PROVE Added(log, inode[o].inum)
    BY <1>1, <1>2, <1>7 DEF InodesInv, Orphans
  <1> QED
    BY <1>1, <1>2, <1>3, <1>4, <1>5, <1>6, <1>7

(* The backend is done with the inode at hand: the object becomes j, and    *)
(* itree has s of it.                                                       *)
HandOver(o, j, s) ==
    /\ Busy /\ cur.obj = o /\ phase = "flush" /\ ~ Busy' /\ Hashed(o)
    /\ UNCHANGED <<idelta, phase, todo, view, front>>
    /\ inode' = [inode EXCEPT ![o] = j]
    /\ itree' = [itree EXCEPT ![inode[o].inum] = s]

LEMMA HandedOver ==
    ASSUME InodesInv, NEW o \in Objs, NEW j, NEW s, HandOver(o, j, s)
    PROVE  \A p \in Objs : p # o => /\ Kept(p)' /\ (Hashed(p)' <=> Hashed(p))
                                    /\ (Pending(p)' <=> Pending(p))
                                    /\ inode'[p] = inode[p] /\ ~ AtHand(p) /\ ~ AtHand(p)'
  <1> SUFFICES ASSUME NEW p \in Objs, p # o
               PROVE  /\ Kept(p)' /\ (Hashed(p)' <=> Hashed(p)) /\ (Pending(p)' <=> Pending(p))
                      /\ inode'[p] = inode[p] /\ ~ AtHand(p) /\ ~ AtHand(p)'
    OBVIOUS
  <1>1. Kept(p) /\ inode'[p] = inode[p]
    BY DEF HandOver, InodesInv, ITyped
  <1>2. ~ AtHand(p) /\ ~ AtHand(p)' /\ ~ Clearing(p) /\ ~ Clearing(p)'
    BY DEF HandOver, AtHand, Clearing
  <1>3. Hashed(p) => itree'[inode[p].inum] = itree[inode[p].inum]
    BY DEF HandOver, InodesInv, Unique, Hashed, ITyped, Tables, in!InCore
  <1>4. Spared(p)
    BY <1>1, <1>2, <1>3 DEF HandOver, Spared
  <1> QED
    BY <1>1, <1>2, <1>4, SparedKept

(* An object that leaves alloc_list, and sb->orphan_add or the inode hash   *)
OtherLists(i, j) ==
    /\ j \in in!InCore
    /\ j.inum = i.inum /\ j.kind = i.kind /\ j.count = i.count /\ j.attr = i.attr
    /\ j.dirty = i.dirty /\ j.iattr = i.iattr /\ j.dead = i.dead /\ j.copy = i.copy
    /\ j.gone = i.gone /\ j.orphaned = i.orphaned

Relist(i, j, h, a) ==
    /\ i \in in!InCore /\ h \in BOOLEAN /\ a \in BOOLEAN
    /\ j = [i EXCEPT !.hashed = h, !.deferred = FALSE, !.onAdd = a]

LEMMA Relisted ==
    ASSUME NEW i, NEW j, NEW h, NEW a, Relist(i, j, h, a)
    PROVE  OtherLists(i, j) /\ j.hashed = h /\ ~ j.deferred /\ j.onAdd = a
  <1>1. j = [inum |-> i.inum, kind |-> i.kind, attr |-> i.attr, count |-> i.count,
             hashed |-> h, dirty |-> i.dirty, iattr |-> i.iattr, dead |-> i.dead,
             copy |-> i.copy, gone |-> i.gone, orphaned |-> i.orphaned,
             deferred |-> FALSE, onAdd |-> a]
    BY DEF Relist, in!InCore
  <1>2. j \in in!InCore
    BY <1>1 DEF Relist, in!InCore
  <1> QED
    BY <1>1, <1>2 DEF OtherLists

LEMMA SaveInodeStep ==
    ASSUME InodesInv, ifailed = {}, NEW o \in Objs, o = cur.obj, in!SaveInode
    PROVE  InodesInv'
  <1> DEFINE i == inode[o]
             n == inode[o].inum
             s == SeenAs(cur.idata, inode[o].kind)
             listed == i.onAdd \/ cur.orphaned
             j == [i EXCEPT !.hashed = i.hashed, !.deferred = FALSE, !.onAdd = listed]
  <1>1. ITyped /\ Work /\ (\A p \in Objs : Kept(p)) /\ Unique /\ FrontAsleep /\ ViewAsleep
        /\ Orphans /\ Counted /\ ifailed = {}
    BY DEF InodesInv
  <1>2. /\ phase = "flush" /\ Busy /\ ~ cur.deleted /\ cur' = in!NoCur
        /\ inode' = [inode EXCEPT ![o].deferred = FALSE, ![o].onAdd = @ \/ cur.orphaned]
        /\ log' = (IF cur.orphaned THEN Append(log, <<"add", n>>) ELSE log)
        /\ itree' = [itree EXCEPT ![n] = s]
        /\ used' = (IF i.deferred THEN used + 1 ELSE used)
        /\ ifailed' = ifailed
              \union (IF ~ i.deferred /\ itree[n] = in!NoInode THEN {"ileaf_lookup"} ELSE {})
              \union (IF cur.orphaned /\ i.onAdd THEN {"orphan_list"} ELSE {})
        /\ UNCHANGED <<idelta, phase, todo, otree, orphanDel, crudehack, disk, view,
                       freeinodes, nextinum, front>>
    BY DEF in!SaveInode, Busy, SeenAs
  <1>3. /\ o \in Objs /\ i # NoObject /\ i \in in!InCore /\ n \in in!Inums
        /\ AtHand(o) /\ Hashed(o) /\ ~ Pending(o) /\ Flags(o) /\ Refs(o) /\ Image(o) /\ Read(o)
        /\ (i.onAdd <=> Added(log, n))
    BY <1>2, AtHandSound
  <1>4. /\ cur.idata \in in!Attrs /\ i.kind \in in!Kinds /\ s \in in!Saved /\ s # in!NoInode
        /\ s.nlink = cur.idata.nlink /\ cur.orphaned \in BOOLEAN
    <2>1. cur.idata \in in!Attrs /\ i.kind \in in!Kinds /\ cur.orphaned \in BOOLEAN
      BY <1>1, <1>3 DEF ITyped, Read, in!InCore
    <2> QED
      BY <2>1, Distinct
  <1>5. /\ j.inum = n /\ j.kind = i.kind /\ j.attr = i.attr /\ j.hashed = i.hashed
        /\ j.dirty = i.dirty /\ j.iattr = i.iattr /\ j.dead = i.dead /\ j.copy = i.copy
        /\ j.gone = i.gone /\ j.orphaned = i.orphaned /\ j.count = i.count
        /\ ~ j.deferred /\ (j.onAdd <=> i.onAdd \/ cur.orphaned)
        /\ j \in in!InCore /\ j # NoObject
    <2>1. listed \in BOOLEAN
      BY <1>3, <1>4 DEF in!InCore
    <2>2. i.hashed \in BOOLEAN
      BY <1>3 DEF in!InCore
    <2> HIDE DEF listed
    <2>3. Relist(i, j, i.hashed, listed)
      BY <1>3, <2>1, <2>2 DEF Relist
    <2> HIDE DEF j
    <2>4. OtherLists(i, j) /\ j.hashed = i.hashed /\ ~ j.deferred /\ j.onAdd = listed
      BY <2>3, Relisted
    <2> QED
      BY <2>4, InodesAssumption DEF OtherLists, listed
  <1>6. inode' = [inode EXCEPT ![o] = j]
    BY <1>1, <1>2, <1>3 DEF ITyped, in!InCore
  <1> HIDE DEF j
  <1>7. inode'[o] = j
    BY <1>1, <1>3, <1>6 DEF ITyped
  <1>8. /\ itree'[n] = s /\ (\A m \in in!Inums : m # n => itree'[m] = itree[m])
        /\ itree' \in Tables
    BY <1>1, <1>2, <1>3, <1>4 DEF ITyped, Tables, Stored
  <1> HIDE DEF s
  <1>9. S' = S /\ B' = B /\ ~ Busy'
    BY <1>2 DEF S, B, Busy
  <1>10. \A p \in Objs : p # o => /\ Kept(p)' /\ (Hashed(p)' <=> Hashed(p))
                                  /\ (Pending(p)' <=> Pending(p))
                                  /\ inode'[p] = inode[p] /\ ~ AtHand(p) /\ ~ AtHand(p)'
    <2>1. HandOver(o, j, s)
      BY <1>2, <1>3, <1>6, <1>9 DEF HandOver
    <2> QED
      BY <2>1, HandedOver
  <1>11. ~ AtHand(o)' /\ ~ Pending(o)' /\ ~ Clearing(o)' /\ Hashed(o)' /\ ~ Clearing(o)
    BY <1>2, <1>3, <1>5, <1>7, <1>9 DEF AtHand, Pending, Clearing, Hashed
  (* Orphans have no links, the others do. *)
  <1>12. ~ i.gone /\ (cur.orphaned => i.orphaned) /\ (i.orphaned <=> cur.idata.nlink = 0)
         /\ (cur.orphaned <=> i.orphaned /\ ~ Unlinked(itree, n))
         /\ (Unlinked(itree, n) => i.orphaned)
    BY <1>2, <1>3 DEF Read
  <1>13. Unlinked(itree', n) <=> i.orphaned
    BY <1>4, <1>8, <1>12 DEF Unlinked
  <1>14. ~ Lost(j) <=> ~ Lost(i)
    BY <1>5 DEF Lost
  <1>15. Flags(o)'
    <2>1. phase' = "flush" /\ phase = "flush"
      BY <1>2
    <2> QED
      BY <2>1, <1>3, <1>5, <1>7, <1>9, <1>11 DEF Flags
  <1>16. Refs(o)'
    <2>1. j.onAdd => j.attr.nlink = 0
      BY <1>3, <1>5, <1>12 DEF Refs
    <2> QED
      BY <1>3, <1>5, <1>7, <1>9, <1>11, <1>12, <1>14, <2>1 DEF Refs, Hashed
  <1>17. Image(o)'
    <2>1. S \notin i.dirty => itree'[n] = SeenAs(i.attr, i.kind)
      BY <1>3, <1>8 DEF Read, s
    <2>2. front' = front
      BY <1>2
    <2> QED
      BY <1>3, <1>4, <1>5, <1>7, <1>8, <1>9, <1>11, <1>13, <1>14, <2>1, <2>2 DEF Image
  <1>18. \A p \in Objs : Kept(p)' /\ (Hashed(p)' <=> Hashed(p))
                         /\ (inode'[p] # NoObject <=> inode[p] # NoObject)
                         /\ inode'[p].inum = inode[p].inum
    BY <1>3, <1>5, <1>7, <1>10, <1>11, <1>15, <1>16, <1>17 DEF Kept
  <1>19. Unique'
    BY <1>1, <1>18 DEF Unique
  <1>20. FrontAsleep'
    <2> SUFFICES ASSUME NEW m \in in!Inums, \A p \in Objs : Hashed(p)' => inode'[p].inum # m
                 PROVE  front[m] = itree'[m]
      BY <1>2 DEF FrontAsleep
    <2>1. (\A p \in Objs : Hashed(p) => inode[p].inum # m) /\ m # n
      BY <1>3, <1>18
    <2> QED
      BY <1>1, <1>8, <2>1 DEF FrontAsleep
  <1>21. ViewAsleep'
    <2> SUFFICES ASSUME NEW m \in in!Inums,
                        \A p \in Objs : Pending(p)' \/ AtHand(p)' => inode'[p].inum # m
                 PROVE  itree'[m] = view[m]
      BY <1>2 DEF ViewAsleep
    <2>1. CASE m = n
      BY <1>2, <1>3, <1>8, <2>1 DEF Read, s
    <2>2. CASE m # n
      <3>1. \A p \in Objs : Pending(p) \/ AtHand(p) => inode[p].inum # m
        BY <1>3, <1>10, <2>2
      <3> QED
        BY <1>1, <1>2, <1>8, <2>2, <3>1 DEF ViewAsleep
    <2> QED
      BY <2>1, <2>2
  <1>22. Work'
    <2>1. todo \subseteq Objs
      BY <1>1 DEF ITyped
    <2> QED
      BY <1>1, <1>2, <1>9, <1>18, <2>1 DEF Work
  <1>23. Volume(Core) /\ Volume(disk) /\ orphanDel = {m \in in!Inums : Deleted(log, m)}
    BY <1>1 DEF Orphans
  <1>24. cur.orphaned => ~ Added(log, n) /\ (n \in otree => Deleted(log, n))
    BY <1>3, <1>12, <1>23 DEF Volume, Core
  <1>25. ifailed' = {}
    <2>1. ~ i.deferred => itree[n] # in!NoInode
      BY <1>3 DEF Image
    <2>2. ~ (cur.orphaned /\ i.onAdd)
      BY <1>3, <1>24
    <2> QED
      BY <1>1, <1>2, <2>1, <2>2
  <1>26. log \in Seq(Records) /\ <<"add", n>> \in Records
    BY <1>1, <1>3 DEF ITyped, Records
  <1>27. /\ \A m : Added(log', m) <=> (cur.orphaned /\ m = n) \/ Added(log, m)
         /\ \A m : Deleted(log', m) <=> Deleted(log, m)
         /\ Once(log') /\ log' \in Seq(Records)
    <2>1. Once(log)
      BY <1>23 DEF Volume, Core
    <2>2. CASE cur.orphaned
      <3>1. log' = Append(log, <<"add", n>>)
        BY <1>2, <2>2
      <3>2. log' \in Seq(Records)
        BY <1>26, <3>1, AppendProperties
      <3>3. <<"add", n>>[1] = "add" /\ <<"add", n>>[2] = n
            /\ \A m : (<<"add", n>> = <<"add", m>> <=> m = n) /\ <<"add", n>> # <<"del", m>>
        OBVIOUS
      <3>4. /\ \A m : Added(Append(log, <<"add", n>>), m)
                         <=> <<"add", n>> = <<"add", m>> \/ (n # m /\ Added(log, m))
            /\ \A m : Deleted(Append(log, <<"add", n>>), m)
                         <=> Deleted(log, m) \/ (<<"add", n>> = <<"del", m>> /\ ~ Added(log, m))
            /\ Once(Append(log, <<"add", n>>)) <=> Once(log) /\ ~ Added(log, n)
        BY <1>26, <3>3, LogAppend
      <3> QED
        BY <1>24, <2>1, <2>2, <3>1, <3>2, <3>3, <3>4
    <2>3. CASE ~ cur.orphaned
      <3>1. log' = log
        BY <1>2, <2>3
      <3> QED
        BY <1>26, <2>1, <2>3, <3>1
    <2> QED
      BY <2>2, <2>3
  <1>28. used' = Cardinality(SavedIn(itree'))
    <2>1. used = Cardinality(SavedIn(itree)) /\ used \in Nat
      BY <1>1, <1>23 DEF Volume, Core, SavedIn, ITyped
    <2>2. SavedIn(itree') = SavedIn(itree) \union {n}
      BY <1>3, <1>4, <1>8 DEF SavedIn
    <2>3. n \in SavedIn(itree) <=> ~ i.deferred
      BY <1>3 DEF Image, SavedIn
    <2>4. Cardinality(SavedIn(itree')) =
            IF n \in SavedIn(itree) THEN Cardinality(SavedIn(itree))
                                    ELSE Cardinality(SavedIn(itree)) + 1
      BY <2>2, SavedFinite, FS_AddElement
    <2> QED
      BY <1>2, <2>1, <2>3, <2>4
  <1>29. Volume(Core')
    <2> SUFFICES ASSUME NEW m \in in!Inums
                 PROVE /\ Unlinked(itree', m) <=>
                            Added(log', m) \/ (m \in otree /\ ~ Deleted(log', m))
                       /\ ~ (Added(log', m) /\ m \in otree /\ ~ Deleted(log', m))
      BY <1>2, <1>27, <1>28 DEF Volume, Core, SavedIn
    <2>1. /\ Unlinked(itree, m) <=> Added(log, m) \/ (m \in otree /\ ~ Deleted(log, m))
          /\ ~ (Added(log, m) /\ m \in otree /\ ~ Deleted(log, m))
      BY <1>23 DEF Volume, Core
    <2>2. CASE m # n
      BY <1>8, <1>27, <2>1, <2>2 DEF Unlinked
    <2>3. CASE m = n
      BY <1>12, <1>13, <1>24, <1>27, <2>1, <2>3
    <2> QED
      BY <2>2, <2>3
  <1>30. Orphans'
    <2>1. \A m \in in!Inums : Added(log', m) <=>
             \E p \in Objs : inode'[p] # NoObject /\ inode'[p].onAdd /\ inode'[p].inum = m
      <3>1. \A m \in in!Inums : Added(log, m) <=>
             \E p \in Objs : inode[p] # NoObject /\ inode[p].onAdd /\ inode[p].inum = m
        BY <1>1 DEF Orphans
      <3> QED
        BY <1>3, <1>5, <1>7, <1>10, <1>27, <3>1
    <2>2. orphanDel' = {m \in in!Inums : Deleted(log', m)}
      BY <1>2, <1>23, <1>27
    <2>3. Volume(disk')
      BY <1>2, <1>23
    <2> QED
      BY <1>29, <2>1, <2>2, <2>3 DEF Orphans
  <1>31. Counted'
    <2>1. Deferred' = Deferred \ {o} /\ (o \in Deferred <=> i.deferred)
      BY <1>3, <1>5, <1>7, <1>10 DEF Deferred
    <2>2. Cardinality(Deferred') = IF i.deferred THEN Cardinality(Deferred) - 1
                                                 ELSE Cardinality(Deferred)
      BY <2>1, DeferredFinite, FS_RemoveElement
    <2>3. used \in Nat /\ Cardinality(Deferred) \in Nat /\ MaxInum \in Nat
      BY <1>1, DeferredFinite, InodesAssumption DEF ITyped
    <2> QED
      BY <1>1, <1>2, <2>2, <2>3 DEF Counted
  <1>32. ITyped'
    <2>1. inode' \in [Objs -> in!InCore \union {NoObject}]
      BY <1>1, <1>5, <1>6 DEF ITyped
    <2>2. used' \in Nat
      BY <1>28, SavedFinite
    <2> QED
      BY <1>1, <1>2, <1>8, <1>27, <2>1, <2>2, Distinct DEF ITyped
  <1> QED
    BY <1>18, <1>19, <1>20, <1>21, <1>22, <1>25, <1>30, <1>31, <1>32 DEF InodesInv

LEMMA PurgeInodeStep ==
    ASSUME InodesInv, ifailed = {}, NEW o \in Objs, o = cur.obj, in!PurgeInode
    PROVE  InodesInv'
  <1> DEFINE i == inode[o]
             n == inode[o].inum
             j == [i EXCEPT !.hashed = FALSE, !.deferred = FALSE, !.onAdd = FALSE]
  <1>1. ITyped /\ Work /\ (\A p \in Objs : Kept(p)) /\ Unique /\ FrontAsleep /\ ViewAsleep
        /\ Orphans /\ Counted /\ ifailed = {}
    BY DEF InodesInv
  <1>2. /\ phase = "flush" /\ Busy /\ cur.deleted /\ cur' = in!NoCur
        /\ inode' = [inode EXCEPT ![o].hashed = FALSE, ![o].deferred = FALSE,
                                  ![o].onAdd = FALSE]
        /\ orphanDel' = (IF cur.orphaned \/ i.onAdd THEN orphanDel ELSE orphanDel \union {n})
        /\ log' = (IF cur.orphaned THEN log ELSE Append(log, <<"del", n>>))
        /\ itree' = [itree EXCEPT ![n] = IF i.deferred THEN @ ELSE in!NoInode]
        /\ used' = (IF i.deferred THEN used ELSE used - 1)
        /\ freeinodes' = freeinodes + 1
        /\ UNCHANGED <<idelta, phase, todo, otree, crudehack, disk, view, nextinum, front,
                       ifailed>>
    BY DEF in!PurgeInode, Busy
  <1>3. /\ o \in Objs /\ i # NoObject /\ i \in in!InCore /\ n \in in!Inums
        /\ AtHand(o) /\ Hashed(o) /\ ~ Pending(o) /\ Flags(o) /\ Refs(o) /\ Image(o) /\ Read(o)
        /\ (i.onAdd <=> Added(log, n))
    BY <1>2, AtHandSound
  <1>4. /\ j.inum = n /\ j.kind = i.kind /\ j.attr = i.attr /\ j.dirty = i.dirty
        /\ j.iattr = i.iattr /\ j.dead = i.dead /\ j.copy = i.copy /\ j.gone = i.gone
        /\ j.orphaned = i.orphaned /\ j.count = i.count
        /\ ~ j.hashed /\ ~ j.deferred /\ ~ j.onAdd /\ j \in in!InCore /\ j # NoObject
    <2>1. Relist(i, j, FALSE, FALSE)
      BY <1>3 DEF Relist
    <2> HIDE DEF j
    <2>2. OtherLists(i, j) /\ ~ j.hashed /\ ~ j.deferred /\ ~ j.onAdd
      BY <2>1, Relisted
    <2> QED
      BY <2>2, InodesAssumption DEF OtherLists
  <1>5. inode' = [inode EXCEPT ![o] = j]
    BY <1>1, <1>2, <1>3 DEF ITyped, in!InCore
  <1> HIDE DEF j
  <1>6. inode'[o] = j
    BY <1>1, <1>3, <1>5 DEF ITyped
  <1>7. /\ itree' = [itree EXCEPT ![n] = in!NoInode] /\ itree'[n] = in!NoInode
        /\ (\A m \in in!Inums : m # n => itree'[m] = itree[m]) /\ itree' \in Tables
    <2>1. i.deferred => itree[n] = in!NoInode
      BY <1>3 DEF Image
    <2>2. itree' = [itree EXCEPT ![n] = in!NoInode]
      BY <1>2, <2>1
    <2> QED
      BY <1>1, <1>3, <2>2 DEF ITyped, Tables, Stored
  <1>8. S' = S /\ B' = B /\ ~ Busy'
    BY <1>2 DEF S, B, Busy
  <1>9. \A p \in Objs : p # o => /\ Kept(p)' /\ (Hashed(p)' <=> Hashed(p))
                                 /\ (Pending(p)' <=> Pending(p))
                                 /\ inode'[p] = inode[p] /\ ~ AtHand(p) /\ ~ AtHand(p)'
    <2>1. HandOver(o, j, in!NoInode)
      BY <1>2, <1>3, <1>5, <1>7, <1>8 DEF HandOver
    <2> QED
      BY <2>1, HandedOver
  <1>10. ~ AtHand(o)' /\ ~ Pending(o)' /\ ~ Clearing(o)' /\ ~ Hashed(o)' /\ ~ Clearing(o)
    BY <1>2, <1>3, <1>4, <1>6, <1>8 DEF AtHand, Pending, Clearing, Hashed
  (* The inode at hand is deleted, and was an orphan of this or an earlier delta. *)
  <1>11. i.gone /\ i.orphaned /\ (cur.orphaned <=> ~ Unlinked(itree, n))
         /\ view[n] = in!NoInode /\ front[n] = in!NoInode
    BY <1>2, <1>3 DEF Read, Image, Lost
  <1>12. Kept(o)'
    <2>1. phase' = "flush" /\ phase = "flush"
      BY <1>2
    <2>2. Flags(o)'
      BY <2>1, <1>3, <1>4, <1>6, <1>8, <1>10 DEF Flags
    <2>3. Refs(o)'
      BY <1>3, <1>4, <1>6, <1>8, <1>10, <1>11 DEF Refs, Lost
    <2> QED
      BY <1>10, <2>2, <2>3 DEF Kept
  <1>13. \A p \in Objs : Kept(p)' /\ (Hashed(p)' <=> Hashed(p) /\ p # o)
                         /\ (inode'[p] # NoObject <=> inode[p] # NoObject)
                         /\ inode'[p].inum = inode[p].inum
    BY <1>3, <1>4, <1>6, <1>9, <1>10, <1>12
  <1>14. Unique'
    BY <1>1, <1>13 DEF Unique
  <1>15. FrontAsleep'
    <2> SUFFICES ASSUME NEW m \in in!Inums, \A p \in Objs : Hashed(p)' => inode'[p].inum # m
                 PROVE  front[m] = itree'[m]
      BY <1>2 DEF FrontAsleep
    <2>1. CASE m = n
      BY <1>7, <1>11, <2>1
    <2>2. CASE m # n
      <3>1. \A p \in Objs : Hashed(p) => inode[p].inum # m
        BY <1>13, <2>2
      <3> QED
        BY <1>1, <1>7, <2>2, <3>1 DEF FrontAsleep
    <2> QED
      BY <2>1, <2>2
  <1>16. ViewAsleep'
    <2> SUFFICES ASSUME NEW m \in in!Inums,
                        \A p \in Objs : Pending(p)' \/ AtHand(p)' => inode'[p].inum # m
                 PROVE  itree'[m] = view[m]
      BY <1>2 DEF ViewAsleep
    <2>1. CASE m = n
      BY <1>7, <1>11, <2>1
    <2>2. CASE m # n
      <3>1. \A p \in Objs : Pending(p) \/ AtHand(p) => inode[p].inum # m
        BY <1>3, <1>9, <2>2
      <3> QED
        BY <1>1, <1>2, <1>7, <2>2, <3>1 DEF ViewAsleep
    <2> QED
      BY <2>1, <2>2
  <1>17. Work'
    <2>1. todo \subseteq Objs
      BY <1>1 DEF ITyped
    <2> QED
      BY <1>1, <1>2, <1>8, <1>13, <2>1 DEF Work
  <1>18. Volume(Core) /\ Volume(disk) /\ orphanDel = {m \in in!Inums : Deleted(log, m)}
    BY <1>1 DEF Orphans
  <1>19. /\ Unlinked(itree, n) <=> Added(log, n) \/ (n \in otree /\ ~ Deleted(log, n))
         /\ ~ (Added(log, n) /\ n \in otree /\ ~ Deleted(log, n))
    BY <1>3, <1>18 DEF Volume, Core
  <1>20. log \in Seq(Records) /\ <<"del", n>> \in Records
    BY <1>1, <1>3 DEF ITyped, Records
  <1>21. /\ \A m : Added(log', m) <=> m # n /\ Added(log, m)
         /\ \A m : Deleted(log', m)
                     <=> Deleted(log, m) \/ (m = n /\ ~ cur.orphaned /\ ~ Added(log, n))
         /\ Once(log') /\ log' \in Seq(Records)
    <2>1. Once(log)
      BY <1>18 DEF Volume, Core
    <2>2. CASE ~ cur.orphaned
      <3>1. log' = Append(log, <<"del", n>>)
        BY <1>2, <2>2
      <3>2. log' \in Seq(Records)
        BY <1>20, <3>1, AppendProperties
      <3>3. <<"del", n>>[1] # "add" /\ <<"del", n>>[2] = n
            /\ \A m : (<<"del", n>> = <<"del", m>> <=> m = n) /\ <<"del", n>> # <<"add", m>>
        OBVIOUS
      <3> QED
        BY <1>20, <2>1, <2>2, <3>1, <3>2, <3>3, LogAppend
    <2>3. CASE cur.orphaned
      BY <1>2, <1>11, <1>19, <1>20, <2>1, <2>3
    <2> QED
      BY <2>2, <2>3
  <1>22. /\ used' = Cardinality(SavedIn(itree')) /\ used \in Nat
         /\ i.deferred \/ used # 0
    <2>1. used = Cardinality(SavedIn(itree)) /\ used \in Nat
      BY <1>1, <1>18 DEF Volume, Core, SavedIn, ITyped
    <2>2. SavedIn(itree') = SavedIn(itree) \ {n}
      BY <1>3, <1>7 DEF SavedIn
    <2>3. n \in SavedIn(itree) <=> ~ i.deferred
      BY <1>3 DEF Image, SavedIn
    <2>4. Cardinality(SavedIn(itree')) =
            IF n \in SavedIn(itree) THEN Cardinality(SavedIn(itree)) - 1
                                    ELSE Cardinality(SavedIn(itree))
      BY <2>2, SavedFinite, FS_RemoveElement
    <2>5. i.deferred \/ used # 0
      BY <2>1, <2>3, SavedFinite, FS_EmptySet
    <2> QED
      BY <1>2, <2>1, <2>3, <2>4, <2>5
  <1>23. Volume(Core')
    <2> SUFFICES ASSUME NEW m \in in!Inums
                 PROVE /\ Unlinked(itree', m) <=>
                            Added(log', m) \/ (m \in otree /\ ~ Deleted(log', m))
                       /\ ~ (Added(log', m) /\ m \in otree /\ ~ Deleted(log', m))
      BY <1>2, <1>21, <1>22 DEF Volume, Core, SavedIn
    <2>1. /\ Unlinked(itree, m) <=> Added(log, m) \/ (m \in otree /\ ~ Deleted(log, m))
          /\ ~ (Added(log, m) /\ m \in otree /\ ~ Deleted(log, m))
      BY <1>18 DEF Volume, Core
    <2>2. CASE m # n
      BY <1>7, <1>21, <2>1, <2>2 DEF Unlinked
    <2>3. CASE m = n
      <3>1. ~ Unlinked(itree', n)
        BY <1>7 DEF Unlinked
      <3> QED
        BY <1>11, <1>19, <1>21, <2>3, <3>1
    <2> QED
      BY <2>2, <2>3
  <1>24. Orphans'
    <2>1. \A m \in in!Inums : Added(log', m) <=>
             \E p \in Objs : inode'[p] # NoObject /\ inode'[p].onAdd /\ inode'[p].inum = m
      <3>1. \A m \in in!Inums : Added(log, m) <=>
             \E p \in Objs : inode[p] # NoObject /\ inode[p].onAdd /\ inode[p].inum = m
        BY <1>1 DEF Orphans
      <3>2. \A p \in Objs : inode[p] # NoObject /\ inode[p].onAdd /\ inode[p].inum = n => p = o
        BY <1>1, <1>3 DEF Kept, Refs, Hashed, Unique
      <3>3. \A p \in Objs : inode'[p] # NoObject /\ inode'[p].onAdd
                              <=> inode[p] # NoObject /\ inode[p].onAdd /\ p # o
        BY <1>4, <1>6, <1>9
      <3> QED
        BY <1>3, <1>13, <1>21, <3>1, <3>2, <3>3
    <2>2. orphanDel' = {m \in in!Inums : Deleted(log', m)}
      BY <1>2, <1>3, <1>18, <1>21
    <2>3. Volume(disk')
      BY <1>2, <1>18
    <2> QED
      BY <1>23, <2>1, <2>2, <2>3 DEF Orphans
  <1>25. Counted'
    <2>1. Deferred' = Deferred \ {o} /\ (o \in Deferred <=> i.deferred)
      BY <1>3, <1>4, <1>6, <1>9 DEF Deferred
    <2>2. Cardinality(Deferred') = IF i.deferred THEN Cardinality(Deferred) - 1
                                                 ELSE Cardinality(Deferred)
      BY <2>1, DeferredFinite, FS_RemoveElement
    <2>3. used \in Nat /\ Cardinality(Deferred) \in Nat /\ MaxInum \in Nat
      BY <1>1, DeferredFinite, InodesAssumption DEF ITyped
    <2> QED
      BY <1>1, <1>2, <2>2, <2>3 DEF Counted
  <1>26. ITyped'
    <2>1. inode' \in [Objs -> in!InCore \union {NoObject}]
      BY <1>1, <1>4, <1>5 DEF ITyped
    <2>2. used' \in Nat
      BY <1>2, <1>22
    <2>3. orphanDel' \subseteq in!Inums /\ freeinodes' \in Int
      BY <1>1, <1>2, <1>3 DEF ITyped
    <2> QED
      BY <1>1, <1>2, <1>7, <1>21, <2>1, <2>2, <2>3, Distinct DEF ITyped
  <1> QED
    BY <1>1, <1>2, <1>13, <1>14, <1>15, <1>16, <1>17, <1>24, <1>25, <1>26 DEF InodesInv

(* A commit: the volume on disk becomes that of the core, whose orphans a   *)
(* unify cycle moves from the log to otree.                                 *)
LEMMA CommitStep ==
    ASSUME InodesInv, ifailed = {}, NEW force \in BOOLEAN, in!Commit(force)
    PROVE  InodesInv'
  <1> DEFINE unify == force \/ crudehack' = 0
  <1>1. ITyped /\ Work /\ (\A p \in Objs : Kept(p)) /\ Unique /\ FrontAsleep /\ ViewAsleep
        /\ Orphans /\ Counted /\ ifailed = {}
    BY DEF InodesInv
  <1>2. /\ phase = "flush" /\ ~ Busy /\ todo = {} /\ phase' = "clear"
        /\ crudehack' = (IF force THEN crudehack ELSE (crudehack + 1) % UnifyEvery)
        /\ disk' = [itree |-> itree, otree |-> otree', log |-> log', used |-> used]
        /\ todo' = {o \in Objs : inode[o] # NoObject /\ B \in inode[o].dirty}
        /\ UNCHANGED <<idelta, cur, itree, used, view, freeinodes, nextinum, front, ifailed>>
    BY <1>1, Slots DEF in!Commit, Busy
  <1>3. unify => /\ otree' = in!UnifyOrphans /\ orphanDel' = {} /\ log' = <<>>
                 /\ inode' = [o \in Objs |-> IF inode[o] = NoObject THEN NoObject
                                             ELSE [inode[o] EXCEPT !.onAdd = FALSE]]
    BY DEF in!Commit
  <1>4. ~ unify => UNCHANGED <<otree, orphanDel, log, inode>>
    BY DEF in!Commit
  <1> HIDE DEF unify
  <1>5. \A p \in Objs :
          inode[p] # NoObject =>
            LET i == inode[p]
                j == inode'[p]
            IN  /\ j \in in!InCore /\ j # NoObject
                /\ j.inum = i.inum /\ j.kind = i.kind /\ j.count = i.count /\ j.attr = i.attr
                /\ j.hashed = i.hashed /\ j.dirty = i.dirty /\ j.iattr = i.iattr
                /\ j.dead = i.dead /\ j.gone = i.gone /\ j.orphaned = i.orphaned
                /\ j.deferred = i.deferred /\ j.copy = i.copy /\ (j.onAdd => i.onAdd)
                /\ (j.onAdd <=> i.onAdd /\ ~ unify)
    <2> SUFFICES ASSUME NEW p \in Objs, inode[p] # NoObject
                 PROVE  LET i == inode[p]
                            j == inode'[p]
                        IN  /\ j \in in!InCore /\ j # NoObject
                            /\ j.inum = i.inum /\ j.kind = i.kind /\ j.count = i.count
                            /\ j.attr = i.attr /\ j.hashed = i.hashed /\ j.dirty = i.dirty
                            /\ j.iattr = i.iattr /\ j.dead = i.dead /\ j.gone = i.gone
                            /\ j.orphaned = i.orphaned /\ j.deferred = i.deferred
                            /\ j.copy = i.copy
                            /\ (j.onAdd => i.onAdd) /\ (j.onAdd <=> i.onAdd /\ ~ unify)
      OBVIOUS
    <2>1. inode[p] \in in!InCore
      BY <1>1 DEF ITyped
    <2>2. CASE unify
      <3>1. inode'[p] = [inode[p] EXCEPT !.onAdd = FALSE]
        BY <1>3, <2>2
      <3> QED
        BY <2>1, <2>2, <3>1, InodesAssumption DEF in!InCore
    <2>3. CASE ~ unify
      BY <1>4, <2>1, <2>3
    <2> QED
      BY <2>2, <2>3
  <1>6. \A p \in Objs : inode'[p] # NoObject <=> inode[p] # NoObject
    BY <1>3, <1>4, <1>5
  <1>7. /\ S' = S /\ B' = B
        /\ \A p \in Objs : /\ ~ Pending(p) /\ ~ AtHand(p) /\ ~ Clearing(p) /\ ~ Pending(p)'
                           /\ ~ AtHand(p)' /\ ~ Clearing(p)' /\ (Hashed(p)' <=> Hashed(p))
    BY <1>2, <1>5, <1>6 DEF S, B, Pending, AtHand, Clearing, Hashed, Busy
  <1>8. ASSUME NEW p \in Objs PROVE Kept(p)'
    <2> SUFFICES ASSUME inode[p] # NoObject
                 PROVE  Flags(p)' /\ Refs(p)' /\ (Hashed(p) => Image(p)')
      BY <1>6, <1>7 DEF Kept
    <2>1. Flags(p) /\ Refs(p) /\ (Hashed(p) => Image(p))
      BY <1>1 DEF Kept
    <2>2. phase = "flush" /\ phase' = "clear" /\ (p \in todo' <=> B \in inode[p].dirty)
      BY <1>2
    <2>3. Flags(p)'
      BY <1>5, <1>7, <2>1, <2>2 DEF Flags
    <2>4. Refs(p)'
      BY <1>5, <1>7, <2>1 DEF Refs, Lost
    <2>5. front' = front /\ itree' = itree
      BY <1>2
    <2>6. Hashed(p) => Image(p)'
      BY <1>5, <1>7, <2>1, <2>5 DEF Image, Lost, Unlinked
    <2> QED
      BY <2>3, <2>4, <2>6
  <1>9. /\ log' \in Seq(Records) /\ otree' \subseteq in!Inums /\ orphanDel' \subseteq in!Inums
        /\ inode' \in [Objs -> in!InCore \union {NoObject}]
    <2>1. CASE unify
      <3>1. in!UnifyOrphans \subseteq in!Inums
        BY <1>1 DEF in!UnifyOrphans, ITyped, in!InCore
      <3>2. \A p \in Objs : inode'[p] \in in!InCore \union {NoObject}
        BY <1>5, <1>6
      <3> QED
        BY <1>3, <2>1, <3>1, <3>2
    <2>2. CASE ~ unify
      BY <1>1, <1>4, <2>2 DEF ITyped
    <2> QED
      BY <2>1, <2>2
  <1>10. ITyped'
    <2>1. crudehack' \in 0 .. UnifyEvery - 1
      BY <1>1, <1>2, InodesAssumption DEF ITyped
    <2>2. disk' \in [itree : Tables, otree : SUBSET in!Inums, log : Seq(Records), used : Nat]
      BY <1>1, <1>2, <1>9 DEF ITyped
    <2> QED
      BY <1>1, <1>2, <1>9, <2>1, <2>2 DEF ITyped
  <1>11. Unique'
    BY <1>1, <1>5, <1>7 DEF Unique, Hashed
  <1>12. FrontAsleep'
    BY <1>1, <1>2, <1>5, <1>7 DEF FrontAsleep, Hashed
  <1>13. itree = view
    <2>1. \A n \in in!Inums : itree[n] = view[n]
      BY <1>1, <1>2, <1>7 DEF ViewAsleep
    <2> QED
      BY <1>1, <2>1 DEF ITyped, Tables
  <1>14. ViewAsleep'
    BY <1>2, <1>13 DEF ViewAsleep
  <1>15. Work'
    <2>1. disk'.itree = view
      BY <1>2, <1>13
    <2> QED
      BY <1>2, <1>6, <2>1 DEF Work, Busy
  <1>16. Volume(Core) /\ orphanDel = {m \in in!Inums : Deleted(log, m)}
         /\ \A m \in in!Inums : Added(log, m) <=>
              \E o \in Objs : inode[o] # NoObject /\ inode[o].onAdd /\ inode[o].inum = m
    BY <1>1 DEF Orphans
  <1>17. /\ Volume(Core') /\ orphanDel' = {m \in in!Inums : Deleted(log', m)}
         /\ \A m \in in!Inums : Added(log', m) <=>
              \E o \in Objs : inode'[o] # NoObject /\ inode'[o].onAdd /\ inode'[o].inum = m
    <2>1. CASE unify
      <3>1. \A m \in in!Inums : m \in otree' <=>
              (m \in otree /\ ~ Deleted(log, m)) \/ Added(log, m)
        BY <1>1, <1>3, <1>16, <2>1 DEF in!UnifyOrphans, ITyped
      <3>2. log' = <<>> /\ orphanDel' = {}
        BY <1>3, <2>1
      <3>3. \A m \in in!Inums : Unlinked(itree, m) <=> m \in otree'
        BY <1>16, <3>1 DEF Volume, Core
      <3>4. used = Cardinality({n \in in!Inums : itree[n] # in!NoInode})
        BY <1>16 DEF Volume, Core
      <3>5. Volume(Core')
        BY <1>2, <3>2, <3>3, <3>4, LogEmpty DEF Volume, Core
      <3> QED
        BY <1>5, <1>6, <2>1, <3>2, <3>5, LogEmpty
    <2>2. CASE ~ unify
      <3>1. Core' = Core
        BY <1>2, <1>4, <2>2 DEF Core
      <3> QED
        BY <1>4, <1>16, <2>2, <3>1
    <2> QED
      BY <2>1, <2>2
  <1>18. Orphans'
    <2>1. disk' = Core'
      BY <1>2 DEF Core
    <2>2. Volume(disk')
      BY <1>17, <2>1
    <2> QED
      BY <1>17, <2>2 DEF Orphans
  <1>19. Counted'
    BY <1>1, <1>2, <1>5, <1>6, CountedKept
  <1> QED
    BY <1>1, <1>2, <1>8, <1>10, <1>11, <1>12, <1>14, <1>15, <1>18, <1>19 DEF InodesInv

(* The inodes that a mount loads are those without links, each found once.  *)
LEMMA LoadsOrphans ==
    ASSUME NEW v, Volume(v), v.otree \subseteq in!Inums
    PROVE  /\ in!LoadOrphans(v) = {n \in in!Inums : Unlinked(v.itree, n)}
           /\ in!ReplayOrphans(v).del = {n \in in!Inums : Deleted(v.log, n)}
           /\ in!ReplayOrphans(v).add = {n \in in!Inums : Added(v.log, n)}
           /\ ~ in!ReplayOrphans(v).twice
           /\ in!ReplayOrphans(v).add \intersect (v.otree \ in!ReplayOrphans(v).del) = {}
  <1>1. in!ReplayOrphans(v).add = {n \in in!Inums : Added(v.log, n)}
    BY DEF in!ReplayOrphans, Added
  <1>2. in!ReplayOrphans(v).del = {n \in in!Inums : Deleted(v.log, n)}
    BY DEF in!ReplayOrphans, Deleted
  <1>3. ~ in!ReplayOrphans(v).twice
    BY DEF in!ReplayOrphans, Once, Volume
  <1>4. \A n \in in!Inums :
          /\ Unlinked(v.itree, n) <=> Added(v.log, n) \/ (n \in v.otree /\ ~ Deleted(v.log, n))
          /\ ~ (Added(v.log, n) /\ n \in v.otree /\ ~ Deleted(v.log, n))
    BY DEF Volume
  <1>5. in!LoadOrphans(v) = {n \in in!Inums : Unlinked(v.itree, n)}
    BY <1>1, <1>2, <1>4 DEF in!LoadOrphans
  <1>6. in!ReplayOrphans(v).add \intersect (v.otree \ in!ReplayOrphans(v).del) = {}
    BY <1>1, <1>2, <1>4
  <1> QED
    BY <1>1, <1>2, <1>3, <1>5, <1>6

(* The object that a mount leaves of an orphan: it waits to be deleted.     *)
Mounted(j, n) ==
    /\ j \in in!InCore /\ j # NoObject /\ j.inum = n
    /\ SeenAs(j.attr, j.kind) = disk.itree[n] /\ j.attr.nlink = 0
    /\ j.count = 0 /\ j.hashed /\ j.dirty = {0} /\ j.iattr = in!NONE /\ j.dead = 0
    /\ ~ j.gone /\ j.orphaned /\ ~ j.deferred
    /\ j.copy[0] = in!INVALID /\ j.copy[1] = in!INVALID
    /\ j.onAdd <=> Added(disk.log, n)

LEMMA MountsOrphan ==
    ASSUME ITyped, NEW n \in in!Inums, Unlinked(disk.itree, n), NEW h,
           h = (n \in {m \in in!Inums : Added(disk.log, m)})
    PROVE  Mounted(in!iput([in!NewInode(n, disk.itree[n].kind,
                                        [nlink |-> disk.itree[n].nlink,
                                         val |-> disk.itree[n].val])
                            EXCEPT !.orphaned = TRUE, !.onAdd = h], 0), n)
  <1> DEFINE t == disk.itree[n].kind
             a == [nlink |-> disk.itree[n].nlink, val |-> disk.itree[n].val]
             i == [in!NewInode(n, t, a) EXCEPT !.orphaned = TRUE, !.onAdd = h]
             j == in!iput(i, 0)
  <1>1. disk.itree[n] \in in!Saved
    BY DEF ITyped, Tables, Stored, Unlinked
  <1>2. a \in in!Attrs /\ t \in in!Kinds /\ SeenAs(a, t) = disk.itree[n] /\ a.nlink = 0
    BY <1>1 DEF in!Saved, in!Attrs, SeenAs, Unlinked
  <1> HIDE DEF a, t
  <1>3. h \in BOOLEAN
    OBVIOUS
  <1>4. i = [inum |-> n, kind |-> t, attr |-> a, count |-> 1, hashed |-> TRUE,
             dirty |-> {}, iattr |-> in!NONE, dead |-> in!NONE,
             copy |-> [s \in in!Slots |-> in!INVALID], gone |-> FALSE, orphaned |-> TRUE,
             deferred |-> FALSE, onAdd |-> h]
    <2> SUFFICES ASSUME NEW k \in in!InCore, NEW l, k = in!NewInode(n, t, a),
                        l = [k EXCEPT !.orphaned = TRUE, !.onAdd = h]
                 PROVE  l = [inum |-> n, kind |-> t, attr |-> a, count |-> 1, hashed |-> TRUE,
                             dirty |-> {}, iattr |-> in!NONE, dead |-> in!NONE,
                             copy |-> [s \in in!Slots |-> in!INVALID], gone |-> FALSE,
                             orphaned |-> TRUE, deferred |-> FALSE, onAdd |-> h]
      BY <1>2, NewInodeTyped
    <2>1. l = [inum |-> k.inum, kind |-> k.kind, attr |-> k.attr, count |-> k.count,
               hashed |-> k.hashed, dirty |-> k.dirty, iattr |-> k.iattr, dead |-> k.dead,
               copy |-> k.copy, gone |-> k.gone, orphaned |-> TRUE,
               deferred |-> k.deferred, onAdd |-> h]
      BY DEF in!InCore
    <2> QED
      BY <2>1 DEF in!NewInode
  <1> HIDE DEF i
  <1>5. i \in in!InCore
    BY <1>2, <1>3, <1>4 DEF in!InCore
  <1>6. in!tux3_delta(0) = 0 /\ 0 \in in!Slots /\ i.count >= 1
    BY <1>4 DEF in!tux3_delta, in!Slots
  <1>7. ~ Evicted(i)
    BY <1>2, <1>4 DEF Evicted
  <1>8. Dropped(i, j, 0)
    BY <1>5, <1>6, <1>7, IputDrops
  <1> HIDE DEF j
  <1>9. j.dead = 0 /\ j.dirty = {0} /\ j.count = 0
    BY <1>2, <1>4, <1>8 DEF Dropped
  <1>10. j.onAdd <=> Added(disk.log, n)
    BY <1>4, <1>8 DEF Dropped
  <1>12. j.copy[0] = in!INVALID /\ j.copy[1] = in!INVALID
    BY <1>4, <1>8 DEF Dropped, in!Slots
  <1>11. Mounted(j, n)
    BY <1>2, <1>4, <1>8, <1>9, <1>10, <1>12, InodesAssumption DEF Dropped, Mounted
  <1> QED
    BY <1>11 DEF j, i, a, t

(* A crash, and the mount that follows                                      *)
LEMMA CrashMountStep ==
    ASSUME InodesInv, in!CrashMount
    PROVE  InodesInv'
  <1> DEFINE orphans == in!LoadOrphans(disk)
             r == in!ReplayOrphans(disk)
  <1>1. ITyped /\ Volume(disk)
    BY DEF InodesInv, Orphans
  <1>2. /\ orphans = {n \in in!Inums : Unlinked(disk.itree, n)}
        /\ r.del = {n \in in!Inums : Deleted(disk.log, n)}
        /\ r.add = {n \in in!Inums : Added(disk.log, n)}
        /\ ~ r.twice /\ r.add \intersect (disk.otree \ r.del) = {}
    BY <1>1, LoadsOrphans DEF ITyped
  <1>3. PICK obj \in [orphans -> Objs] :
          /\ \A m, n \in orphans : obj[m] = obj[n] => m = n
          /\ inode' = [o \in Objs |->
                IF \E n \in orphans : obj[n] = o
                THEN LET n == CHOOSE n \in orphans : obj[n] = o
                         i == in!NewInode(n, disk.itree[n].kind,
                                          [nlink |-> disk.itree[n].nlink,
                                           val |-> disk.itree[n].val])
                     IN  in!iput([i EXCEPT !.orphaned = TRUE, !.onAdd = n \in r.add], 0)
                ELSE NoObject]
    BY DEF in!CrashMount
  <1>4. /\ idelta' = 0 /\ phase' = "idle" /\ todo' = {} /\ ~ Busy' /\ cur' = in!NoCur
        /\ itree' = disk.itree /\ otree' = disk.otree /\ log' = disk.log
        /\ used' = disk.used /\ orphanDel' = r.del
        /\ freeinodes' = MaxInum - disk.used /\ nextinum' = 1
        /\ front' = [n \in in!Inums |-> IF n \in orphans THEN in!NoInode ELSE disk.itree[n]]
        /\ UNCHANGED <<crudehack, disk, view>>
    BY DEF in!CrashMount, Busy
  <1>5. ifailed' = {}
    <2>1. ~ \E n \in orphans : disk.itree[n] = in!NoInode \/ disk.itree[n].nlink > 0
      BY <1>2 DEF Unlinked
    <2>2. ifailed' =
            (IF \E n \in orphans : disk.itree[n] = in!NoInode \/ disk.itree[n].nlink > 0
             THEN {"orphan inode"} ELSE {})
            \union (IF r.twice \/ r.add \intersect (disk.otree \ r.del) # {}
                    THEN {"orphan twice"} ELSE {})
      BY DEF in!CrashMount
    <2> QED
      BY <1>1, <1>2, <2>1, <2>2
  <1>6. ASSUME NEW n \in orphans PROVE Mounted(inode'[obj[n]], n)
    <2>1. obj[n] \in Objs /\ n \in in!Inums /\ Unlinked(disk.itree, n)
      BY <1>2, <1>3
    <2>2. (CHOOSE m \in orphans : obj[m] = obj[n]) = n
      BY <1>3
    <2>3. inode'[obj[n]] =
            in!iput([in!NewInode(n, disk.itree[n].kind,
                                 [nlink |-> disk.itree[n].nlink, val |-> disk.itree[n].val])
                     EXCEPT !.orphaned = TRUE, !.onAdd = n \in r.add], 0)
      BY <1>3, <2>1, <2>2
    <2> QED
      BY <1>1, <1>2, <2>1, <2>3, MountsOrphan
  <1>7. ASSUME NEW o \in Objs, \A n \in orphans : obj[n] # o PROVE inode'[o] = NoObject
    BY <1>3, <1>7
  <1>8. \A o \in Objs : inode'[o] # NoObject => /\ inode'[o].inum \in orphans
                                                /\ obj[inode'[o].inum] = o
                                                /\ Mounted(inode'[o], inode'[o].inum)
    BY <1>6, <1>7 DEF Mounted
  <1> HIDE DEF orphans, r
  <1>9. S' = 0 /\ B' = 1
    BY <1>4 DEF S, B
  <1>10. ASSUME NEW o \in Objs PROVE Kept(o)'
    <2> SUFFICES ASSUME inode'[o] # NoObject
                 PROVE  Flags(o)' /\ Refs(o)' /\ Image(o)'
      BY DEF Kept
    <2>1. /\ inode'[o].inum \in orphans /\ Mounted(inode'[o], inode'[o].inum)
          /\ inode'[o].inum \in in!Inums /\ Unlinked(disk.itree, inode'[o].inum)
      BY <1>2, <1>8
    <2>2. ~ Pending(o)' /\ ~ AtHand(o)' /\ ~ Clearing(o)'
      BY <1>4 DEF Pending, AtHand, Clearing
    <2>3. Flags(o)'
      BY <1>4, <1>9, <2>1, <2>2 DEF Flags, Mounted, in!NONE
    <2>4. Refs(o)'
      BY <1>9, <2>1, <2>2 DEF Refs, Mounted, Lost
    <2>5. Lost(inode'[o])
      BY <2>1 DEF Mounted, Lost, in!NONE
    <2>6. Image(o)'
      BY <1>4, <1>9, <2>1, <2>2, <2>5 DEF Image, Mounted, Unlinked
    <2> QED
      BY <2>3, <2>4, <2>6
  <1>11. Unique'
    BY <1>8 DEF Unique, Hashed
  <1>12. FrontAsleep'
    <2> SUFFICES ASSUME NEW n \in in!Inums, \A o \in Objs : Hashed(o)' => inode'[o].inum # n
                 PROVE  front'[n] = itree'[n]
      BY DEF FrontAsleep
    <2>1. n \notin orphans
      <3> SUFFICES ASSUME n \in orphans PROVE FALSE
        OBVIOUS
      <3>1. obj[n] \in Objs
        BY <1>3
      <3>2. Mounted(inode'[obj[n]], n)
        BY <1>6
      <3> QED
        BY <3>1, <3>2 DEF Mounted, Hashed
    <2> QED
      BY <1>4, <2>1
  <1>13. ViewAsleep' /\ Work'
    BY <1>4 DEF ViewAsleep, Work
  <1>14. Orphans'
    <2>1. disk = [itree |-> disk.itree, otree |-> disk.otree, log |-> disk.log,
                  used |-> disk.used]
      BY <1>1 DEF ITyped
    <2>2. Core' = disk
      BY <1>4, <2>1 DEF Core
    <2>3. Volume(disk)' /\ Volume(Core)'
      BY <1>1, <1>4, <2>2
    <2>4. orphanDel' = {n \in in!Inums : Deleted(log, n)}'
      BY <1>2, <1>4
    <2>5. ASSUME NEW n \in in!Inums
          PROVE  Added(log', n) <=> \E o \in Objs : inode'[o] # NoObject /\ inode'[o].onAdd
                                                    /\ inode'[o].inum = n
      <3>1. ASSUME Added(log', n)
            PROVE  \E o \in Objs : inode'[o] # NoObject /\ inode'[o].onAdd /\ inode'[o].inum = n
        <4>1. n \in orphans
          BY <1>1, <1>2, <1>4, <3>1 DEF Volume
        <4>2. obj[n] \in Objs /\ Mounted(inode'[obj[n]], n)
          BY <1>3, <1>6, <4>1
        <4>3. inode'[obj[n]].onAdd
          BY <1>4, <3>1, <4>2 DEF Mounted
        <4> QED
          BY <4>2, <4>3 DEF Mounted
      <3>2. ASSUME NEW o \in Objs, inode'[o] # NoObject, inode'[o].onAdd, inode'[o].inum = n
            PROVE  Added(log', n)
        BY <1>4, <1>8, <3>2 DEF Mounted
      <3> QED
        BY <3>1, <3>2
    <2> QED
      BY <2>3, <2>4, <2>5 DEF Orphans
  <1>15. Counted'
    <2>1. Deferred' = {}
      BY <1>8 DEF Deferred, Mounted
    <2>2. Cardinality(Deferred') = 0
      BY <2>1, FS_EmptySet
    <2>3. disk.used \in Nat /\ MaxInum \in Nat
      BY <1>1, InodesAssumption DEF ITyped
    <2> QED
      BY <1>4, <2>2, <2>3 DEF Counted
  <1>16. ITyped'
    <2>1. inode' \in [Objs -> in!InCore \union {NoObject}]
      <3>1. \A o \in Objs : inode'[o] \in in!InCore \union {NoObject}
        BY <1>8 DEF Mounted
      <3>2. inode' = [o \in Objs |-> inode'[o]]
        BY <1>3
      <3> QED
        BY <3>1, <3>2
    <2>2. front' \in Tables
      BY <1>1, <1>4 DEF ITyped, Tables, Stored
    <2>3. idelta' \in 0 .. Period - 1 /\ nextinum' \in in!Inums /\ freeinodes' \in Int
      BY <1>1, <1>4, InodesAssumption DEF ITyped, in!Inums
    <2>4. orphanDel' \subseteq in!Inums
      BY <1>2, <1>4
    <2> QED
      BY <1>1, <1>4, <2>1, <2>2, <2>3, <2>4, Distinct DEF ITyped
  <1> QED
    BY <1>5, <1>10, <1>11, <1>12, <1>13, <1>14, <1>15, <1>16 DEF InodesInv

(* A volume that was just made, with nothing in core                        *)
LEMMA InitStep ==
    ASSUME in!Init
    PROVE  InodesInv
  <1>1. /\ inode = [o \in Objs |-> NoObject] /\ idelta = 0
        /\ phase = "idle" /\ todo = {} /\ cur = in!NoCur
        /\ itree = [n \in in!Inums |-> in!NoInode] /\ otree = {} /\ orphanDel = {}
        /\ log = <<>> /\ used = 0 /\ crudehack = 0
        /\ freeinodes = MaxInum /\ nextinum = 1
        /\ disk = [itree |-> itree, otree |-> {}, log |-> <<>>, used |-> 0]
        /\ front = itree /\ view = itree /\ ifailed = {}
    BY DEF in!Init
  <1>2. itree \in Tables /\ log \in Seq(Records)
    BY <1>1 DEF Tables, Stored
  <1>3. ITyped
    <2>1. idelta \in 0 .. Period - 1 /\ crudehack \in 0 .. UnifyEvery - 1
      BY <1>1, InodesAssumption
    <2>2. freeinodes \in Int /\ used \in Nat
      BY <1>1, InodesAssumption
    <2>3. inode \in [Objs -> in!InCore \union {NoObject}]
      BY <1>1
    <2>4. disk \in [itree : Tables, otree : SUBSET in!Inums, log : Seq(Records), used : Nat]
      BY <1>1, <1>2
    <2> QED
      BY <1>1, <1>2, <2>1, <2>2, <2>3, <2>4, Distinct DEF ITyped
  <1>4. Work
    BY <1>1 DEF Work, Busy
  <1>5. \A o \in Objs : inode[o] = NoObject
    BY <1>1
  <1>6. (\A o \in Objs : Kept(o)) /\ Unique /\ FrontAsleep /\ ViewAsleep
    BY <1>1, <1>5 DEF Kept, Unique, Hashed, FrontAsleep, ViewAsleep
  <1>7. Volume(disk) /\ Volume(Core) /\ orphanDel = {n \in in!Inums : Deleted(log, n)}
    <2>1. {n \in in!Inums : itree[n] # in!NoInode} = {}
      BY <1>1
    <2>2. disk = Core
      BY <1>1 DEF Core
    <2>3. used = Cardinality({n \in in!Inums : itree[n] # in!NoInode})
      BY <1>1, <2>1, FS_EmptySet
    <2>4. \A n \in in!Inums : ~ Unlinked(itree, n)
      BY <1>1 DEF Unlinked
    <2>5. Volume(Core)
      BY <1>1, <2>3, <2>4, LogEmpty DEF Volume, Core
    <2> QED
      BY <1>1, <2>2, <2>5, LogEmpty
  <1>8. Orphans
    BY <1>1, <1>5, <1>7, LogEmpty DEF Orphans
  <1>9. Counted
    <2>1. Deferred = {}
      BY <1>5 DEF Deferred
    <2> QED
      BY <1>1, <2>1, FS_EmptySet, InodesAssumption DEF Counted
  <1> QED
    BY <1>1, <1>3, <1>4, <1>6, <1>8, <1>9 DEF InodesInv

LEMMA InodesStep ==
    ASSUME InodesInv, in!Next
    PROVE  InodesInv'
  <1>1. CASE ifailed = {} /\ in!Frontend
    BY <1>1, CreateStep, ChangeStep, CloseStep, OpenStep DEF in!Frontend
  <1>2. CASE ifailed = {} /\ in!Transition
    BY <1>2, TransitionStep
  <1>3. CASE ifailed = {} /\ in!BackendStep
    <2>1. ASSUME NEW o \in Objs, in!FlushRead(o) \/ in!FlushFails(o) \/ in!ClearDirty(o)
          PROVE  InodesInv'
      BY <1>3, <2>1, FlushReadStep, FlushFailsStep, ClearDirtyStep
    <2>2. CASE in!SaveInode
      <3>1. cur.obj \in Objs
        BY <2>2, AtHandSound DEF in!SaveInode, Busy
      <3> QED
        BY <1>3, <2>2, <3>1, SaveInodeStep
    <2>3. CASE in!PurgeInode
      <3>1. cur.obj \in Objs
        BY <2>3, AtHandSound DEF in!PurgeInode, Busy
      <3> QED
        BY <1>3, <2>3, <3>1, PurgeInodeStep
    <2>4. CASE in!ClearPut \/ in!FlushDone
      BY <1>3, <2>4, ClearPutStep, FlushDoneStep
    <2>5. ASSUME NEW force \in BOOLEAN, in!Commit(force) PROVE InodesInv'
      BY <1>3, <2>5, CommitStep
    <2> QED
      BY <1>3, <2>1, <2>2, <2>3, <2>4, <2>5 DEF in!BackendStep
  <1>4. CASE in!CrashMount
    BY <1>4, CrashMountStep
  <1> QED
    BY <1>1, <1>2, <1>3, <1>4 DEF in!Next

LEMMA InodesNext ==
    ASSUME InodesInv, [FrontNext]_frontVars
    PROVE  InodesInv'
  <1>1. CASE in!Next
    BY <1>1, InodesStep
  <1>2. CASE UNCHANGED inodesVars
    BY <1>2, StillSound DEF inodesVars, InodesInv
  <1> QED
    BY <1>1, <1>2 DEF FrontNext, frontVars

(* What the invariant says of the properties *)

LEMMA InumSound ==
    ASSUME InodesInv
    PROVE  in!InumExclusive
  <1> SUFFICES ASSUME NEW o \in Objs, Hashed(o)
               PROVE  /\ in!At(inode[o].inum) = {o}
                      /\ (inode[o].deferred <=> itree[inode[o].inum] = in!NoInode)
    BY DEF in!InumExclusive, Hashed
  <1>1. in!At(inode[o].inum) = {o}
    BY DEF in!At, InodesInv, Unique, Hashed
  <1>2. inode[o].deferred <=> itree[inode[o].inum] = in!NoInode
    BY DEF InodesInv, Kept, Hashed, Image
  <1> QED
    BY <1>1, <1>2

(* There is room for what is saved and for what is still to be saved.       *)
LEMMA CountersSound ==
    ASSUME InodesInv
    PROVE  /\ used = Cardinality(SavedIn(itree)) /\ Counted
           /\ used \in 0 .. MaxInum /\ freeinodes \in 0 .. MaxInum
  <1> DEFINE room == in!Inums \ SavedIn(itree)
             at == [o \in Deferred |-> inode[o].inum]
  <1>1. used = Cardinality(SavedIn(itree)) /\ Counted /\ used \in Nat
    BY DEF InodesInv, Orphans, Volume, Core, SavedIn, ITyped
  <1>2. IsFiniteSet(in!Inums) /\ Cardinality(in!Inums) = MaxInum
    BY InodesAssumption, FS_Interval DEF in!Inums
  <1>3. IsFiniteSet(room) /\ Cardinality(room) = MaxInum - used
    <2>1. in!Inums \intersect SavedIn(itree) = SavedIn(itree)
      BY DEF SavedIn
    <2> QED
      BY <1>1, <1>2, <2>1, FS_Difference
  <1>4. \A o \in Deferred : /\ inode[o] \in in!InCore /\ Hashed(o)
                            /\ itree[inode[o].inum] = in!NoInode
    BY DEF Deferred, InodesInv, ITyped, Kept, Refs, Hashed, Image
  <1>5. at \in Injection(Deferred, room)
    <2>1. at \in [Deferred -> room]
      BY <1>4 DEF SavedIn, in!InCore
    <2>2. \A o, p \in Deferred : at[o] = at[p] => o = p
      BY <1>4 DEF Deferred, InodesInv, Unique
    <2> HIDE DEF at, room
    <2> QED
      BY <2>1, <2>2, Fun_IsInj
  <1>6. Cardinality(Deferred) <= Cardinality(room)
    <2> HIDE DEF at, room
    <2> QED
      BY <1>3, <1>5, FS_Injection
  <1> QED
    BY <1>1, <1>3, <1>6, DeferredFinite, InodesAssumption DEF Counted

LEMMA InodesSound ==
    ASSUME InodesInv
    PROVE  InodesConsistent
  <1>1. in!TypeOK
    <2>1. cur = in!NoCur \/ cur.obj \in Objs
      BY DEF InodesInv, Work, Busy
    <2>2. used \in 0 .. MaxInum /\ freeinodes \in 0 .. MaxInum
      BY CountersSound
    <2> QED
      BY <2>1, <2>2 DEF in!TypeOK, InodesInv, ITyped, Tables, Stored
  <1>2. in!AssertionsHold
    BY DEF in!AssertionsHold, InodesInv
  <1>3. in!CountersExact
    <2>1. \A T : in!Cardinality(T) = Cardinality(T)
      BY DEF in!Cardinality, Cardinality, in!IsFiniteSet, IsFiniteSet
    <2> QED
      BY <2>1, CountersSound DEF in!CountersExact, SavedIn, Counted, Deferred
  <1> QED
    BY <1>1, <1>2, <1>3, InumSound DEF InodesConsistent

LEMMA CommitSound ==
    ASSUME InodesInv
    PROVE  CommitExact
  <1> SUFFICES ASSUME phase = "clear"
               PROVE  /\ disk.itree = view
                      /\ in!LoadOrphans(disk) =
                           {n \in in!Inums : view[n] # in!NoInode /\ view[n].nlink = 0}
    BY DEF CommitExact, in!CommitExact
  <1>1. disk.itree = view /\ Volume(disk) /\ disk.otree \subseteq in!Inums
    BY DEF InodesInv, Work, Orphans, ITyped
  <1> QED
    BY <1>1, LoadsOrphans DEF Unlinked

(* Inodes!CommitExact: whatever the frontend did while the backend worked,  *)
(* and after any number of crashes, a commit makes durable the inodes and   *)
(* attributes of the end of its delta (kernel/writeback_iattrfork.c:4-18),  *)
(* and the replay of what it wrote finds exactly the inodes without links   *)
(* as orphans (kernel/orphan.c:13-16).                                      *)
THEOREM CommitsAreExact == FrontSpec => []CommitExact
  <1>1. FrontInit => InodesInv
    BY InitStep DEF FrontInit
  <1>2. InodesInv /\ [FrontNext]_frontVars => InodesInv'
    BY InodesNext
  <1>3. InodesInv => CommitExact
    BY CommitSound
  <1> QED
    BY <1>1, <1>2, <1>3, PTL DEF FrontSpec

(* Inodes!TypeOK, AssertionsHold, InumExclusive and CountersExact: of the   *)
(* assertions of the inode code only that on the stable copy of a directory *)
(* that set_xattr() dirtied can fire (kernel/writeback_iattrfork.c:151); an *)
(* inum names one in-core inode at a time, and freeinodes and usedinodes    *)
(* are exact at every step, across forked attributes, reused inums and      *)
(* crashes, also the one that this assertion makes (kernel/inode.c,         *)
(* kernel/writeback.c, kernel/orphan.c).                                    *)
THEOREM InodesAreConsistent == FrontSpec => []InodesConsistent
  <1>1. FrontInit => InodesInv
    BY InitStep DEF FrontInit
  <1>2. InodesInv /\ [FrontNext]_frontVars => InodesInv'
    BY InodesNext
  <1>3. InodesInv => InodesConsistent
    BY InodesSound
  <1> QED
    BY <1>1, <1>2, <1>3, PTL DEF FrontSpec
=============================================================================
