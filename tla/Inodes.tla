------------------------------- MODULE Inodes -------------------------------
(***************************************************************************)
(* The life of an inode (kernel/inode.c, inode.c, kernel/writeback.c and   *)
(* the fragments it includes, kernel/orphan.c): the frontend creates,      *)
(* changes, unlinks and drops in-core inodes in the current delta while    *)
(* the backend saves or purges those of the delta before it, keeps the     *)
(* record of orphans, and commits; a crash is followed by the replay of    *)
(* the orphans.                                                            *)
(*                                                                         *)
(* The frontend is one task whose operations are atomic to the transition  *)
(* of the delta (Delta has the transition itself).  Btrees are sets and    *)
(* functions here (Backend has their blocks), and an inode's attributes    *)
(* are its link count and the delta of its last change.                    *)
(***************************************************************************)
EXTENDS Naturals, FiniteSets, Sequences, SequencesExt, TLC

CONSTANTS
    Objs,          \* in-core inode objects
    Free,          \* a value outside Objs: the object holds no inode
    MaxInum,       \* inums are 1 .. MaxInum (TUX_NORMAL_INO is 1)
    Period,        \* bound: delta numbers are kept modulo Period, an even number
    MaxNlink,      \* bound: links to an inode
    MaxCount,      \* bound: references of the frontend to an object
    UnifyEvery     \* need_unify() is true for one call in UnifyEvery

Inums == 1 .. MaxInum
Slots == {0, 1}
tux3_delta(d) == d % 2
Marshal(d) == (d + Period - 1) % Period     \* the delta before d
NONE == 2                                   \* no slot

Kinds   == {"reg", "dir"}
Attrs   == [nlink : 0 .. MaxNlink, val : 0 .. Period - 1]
INVALID == [nlink |-> MaxNlink + 1, val |-> 0]   \* TUX3_INVALID_PRESENT

(* struct tux3_inode: count is i_count, dirty the slots whose I_DIRTY bits  *)
(* are set (and on whose dirty_list it is), iattr and dead the slot in      *)
(* tuxnode->flags, copy the idata of each slot, gone TUX3_INODE_DEAD,       *)
(* deferred: on alloc_list, onAdd: on sb->orphan_add.                       *)
InCore == [inum : Inums, kind : Kinds, attr : Attrs, count : Nat,
           hashed : BOOLEAN, dirty : SUBSET Slots, iattr : Slots \union {NONE},
           dead : Slots \union {NONE}, copy : [Slots -> Attrs \union {INVALID}],
           gone : BOOLEAN, orphaned : BOOLEAN, deferred : BOOLEAN,
           onAdd : BOOLEAN]

NoInode == [nlink |-> 0, val |-> 0, kind |-> "none"]
Saved   == [nlink : 0 .. MaxNlink, val : 0 .. Period - 1, kind : Kinds]

VARIABLES
    inode,         \* object -> in-core inode or Free
    delta,         \* current delta of the frontend
    phase,         \* of the backend: "idle", "flush", "clear"
    todo,          \* objects of the delta still to be flushed or cleared
    cur,           \* the object at hand, with what was read from it
    itree, otree, orphanDel, log, used,   \* the backend's memory
    crudehack,     \* static counter of need_unify()
    freeinodes, nextinum,                 \* of struct sb
    disk,          \* what the last commit made durable
    front,         \* history: inodes as the frontend left them
    view,          \* history: front when the delta in the backend closed
    failed         \* assertions and error returns of the mounted program

sbVars   == <<itree, otree, orphanDel, log, used, crudehack>>
backVars == <<phase, todo, cur, sbVars, disk, view>>
vars == <<inode, delta, backVars, freeinodes, nextinum, front, failed>>

NoCur == [obj |-> Free, idata |-> INVALID, orphaned |-> FALSE, deleted |-> FALSE]

TypeOK ==
    /\ inode \in [Objs -> InCore \union {Free}]
    /\ delta \in 0 .. Period - 1 /\ phase \in {"idle", "flush", "clear"}
    /\ todo \subseteq Objs
    /\ cur = NoCur \/ cur.obj \in Objs
    /\ itree \in [Inums -> Saved \union {NoInode}]
    /\ otree \subseteq Inums /\ orphanDel \subseteq Inums
    /\ used \in 0 .. MaxInum /\ freeinodes \in 0 .. MaxInum
    /\ nextinum \in Inums /\ crudehack \in 0 .. UnifyEvery - 1

-----------------------------------------------------------------------------
(* Attributes and dirty flags of one in-core inode *)

(* Mutant: clean attributes are never copied. *)
tux3_iattrdirty_OnlyDirty(i) ==
    LET slot == tux3_delta(delta)
        fork == i.iattr # NONE /\ i.iattr # slot
    IN  [i EXCEPT !.iattr = slot,
                  !.copy = IF fork THEN [@ EXCEPT ![i.iattr] = i.attr] ELSE @]

(* tux3_iattrdirty(): a stable copy for the backend before attributes       *)
(* that an earlier delta may still need are changed.                        *)
tux3_iattrdirty(i) ==
    LET slot == tux3_delta(delta)
        old  == IF i.iattr = NONE THEN 1 - slot ELSE i.iattr
        fork == (i.kind = "reg" \/ i.iattr # NONE) /\ old # slot
    IN  [i EXCEPT !.iattr = slot,
                  !.copy[old] = IF fork THEN i.attr ELSE @]

(* tux3_dirty_inode() *)
tux3_dirty_inode(i) == [i EXCEPT !.dirty = @ \union {tux3_delta(delta)}]

Changed(i, attr) == tux3_dirty_inode([tux3_iattrdirty(i) EXCEPT !.attr = attr])

(* What tux3_iattr_read_and_clear() reads for the slot of delta d. *)
Stable(i, d) ==
    IF i.iattr \in {NONE, tux3_delta(d)} THEN i.attr ELSE i.copy[tux3_delta(d)]

(* tux3_state_read_and_clear() *)
ReadAndClear(i, d) ==
    LET slot == tux3_delta(d)
    IN  [i EXCEPT !.iattr = IF @ = slot THEN NONE ELSE @,
                  !.copy[slot] = INVALID,
                  !.orphaned = @ \/ Stable(i, d).nlink = 0,
                  !.gone = @ \/ i.dead = slot,
                  !.dead = IF @ = slot THEN NONE ELSE @]

(* tux3_drop_inode(), tux3_mark_inode_to_delete(): at the last reference an *)
(* inode without links is marked to be deleted by the delta d.              *)
tux3_drop_inode(i, d) ==
    IF i.attr.nlink = 0 /\ i.dead = NONE /\ ~i.gone
    THEN [i EXCEPT !.dead = tux3_delta(d), !.dirty = @ \union {tux3_delta(d)}]
    ELSE i

(* I_DIRTY, as tux3_clear_dirty_inode_nolock() derives it from the flags. *)
IsDirty(i) == i.dirty # {} \/ i.iattr # NONE \/ i.dead # NONE

(* iput(): a dirty inode stays on its list, a clean one is evicted. *)
iput(i, d) ==
    LET j == [i EXCEPT !.count = @ - 1]
        k == tux3_drop_inode(j, d)
    IN  IF j.count > 0 THEN j ELSE IF IsDirty(k) THEN k ELSE Free

(* tux3_check_destroy_inode(): what an evicted object must have left. *)
DestroyError(i, d) ==
    IF iput(i, d) = Free /\ (i.deferred \/ i.onAdd) THEN {"destroy"} ELSE {}

(* The frontend's view loses an inode when it is marked to be deleted. *)
Forget(i, j) == IF j # Free /\ j.dead # i.dead THEN {i.inum} ELSE {}

-----------------------------------------------------------------------------
(* Frontend *)

At(n) == {o \in Objs : inode[o] # Free /\ inode[o].hashed /\ inode[o].inum = n}
FreeObjs == {o \in Objs : inode[o] = Free}
Held(o) == inode[o] # Free /\ inode[o].count > 0
          /\ (phase = "clear" /\ cur.obj = o => inode[o].count > 1)

(* find_free_inum() and the loop of alloc_inum(): the first inum from       *)
(* nextinum on, wrapped, that is neither in itree nor in the inode hash.    *)
UsedInums == {n \in Inums : itree[n] # NoInode \/ At(n) # {}}

Ahead(n) == (n + MaxInum - nextinum) % MaxInum
find_free_inum == CHOOSE n \in Inums \ UsedInums :
                      \A m \in Inums \ UsedInums : Ahead(n) <= Ahead(m)

(* ialloc_linear_update() *)
ialloc_linear_update(n) == IF n + 1 > MaxInum THEN 1 ELSE n + 1

NewInode(n, kind, attr) ==
    [inum |-> n, kind |-> kind, attr |-> attr, count |-> 1, hashed |-> TRUE,
     dirty |-> {}, iattr |-> NONE, dead |-> NONE,
     copy |-> [s \in Slots |-> INVALID], gone |-> FALSE, orphaned |-> FALSE,
     deferred |-> FALSE, onAdd |-> FALSE]

Seen(i) == [nlink |-> i.attr.nlink, val |-> i.attr.val, kind |-> i.kind]

(* The object o becomes i by an operation of the frontend. *)
Update(o, i) ==
    /\ inode' = [inode EXCEPT ![o] = i]
    /\ front' = [front EXCEPT ![i.inum] = Seen(i)]
    /\ UNCHANGED <<delta, backVars, freeinodes, nextinum, failed>>

(* __tux_create_inode(): a directory starts with two links. *)
Create(o, kind) ==
    /\ o \in FreeObjs /\ UsedInums # Inums
    /\ LET attr == [nlink |-> IF kind = "dir" THEN 2 ELSE 1, val |-> delta]
           n    == find_free_inum
           i    == Changed([NewInode(n, kind, attr) EXCEPT !.deferred = TRUE], attr)
       IN  /\ inode' = [inode EXCEPT ![o] = i]
           /\ front' = [front EXCEPT ![n] = Seen(i)]
           /\ nextinum' = ialloc_linear_update(n)
    /\ freeinodes' = freeinodes - 1
    /\ UNCHANGED <<delta, backVars, failed>>

(* tux3_iget() through a directory entry: the object in the inode hash, or  *)
(* one that open_inode() fills from itree.                                  *)
Open(n) ==
    /\ front[n] # NoInode /\ front[n].nlink > 0
    /\ \/ \E o \in At(n) :
             /\ inode[o].count < MaxCount
             /\ inode' = [inode EXCEPT ![o].count = @ + 1]
             /\ failed' = failed
       \/ /\ At(n) = {}
          /\ \E o \in FreeObjs :
                inode' = [inode EXCEPT ![o] =
                    NewInode(n, front[n].kind,
                             [nlink |-> itree[n].nlink, val |-> itree[n].val])]
          /\ failed' = failed \union
                 (IF itree[n] = NoInode \/ itree[n].kind # front[n].kind
                  THEN {"iget"} ELSE {})
    /\ UNCHANGED <<delta, backVars, freeinodes, nextinum, front>>

(* A change of attributes: tux3_setattr(), a write of a file, an entry      *)
(* made in or removed from a directory.                                     *)
Change(o) ==
    /\ Held(o) /\ inode[o].attr.val # delta
    /\ Update(o, Changed(inode[o], [inode[o].attr EXCEPT !.val = delta]))

(* An inode is dirtied without tux3_iattrdirty(): a regular file when       *)
(* tux3_write_end() runs in a later delta than tux3_file_aio_write(), any   *)
(* inode by set_xattr() (xcache_update(), tux3_mark_inode_dirty()).         *)
DirtyOnly(o) == Held(o) /\ Update(o, tux3_dirty_inode(inode[o]))

(* tux3_link() *)
Link(o) ==
    /\ Held(o) /\ inode[o].kind = "reg" /\ inode[o].attr.nlink \in 1 .. MaxNlink - 1
    /\ Update(o, Changed(inode[o], [nlink |-> inode[o].attr.nlink + 1, val |-> delta]))

(* tux3_unlink() and tux3_rmdir() *)
Unlink(o) ==
    /\ Held(o) /\ inode[o].attr.nlink > 0
    /\ Update(o, Changed(inode[o],
           [nlink |-> IF inode[o].kind = "dir" THEN 0 ELSE inode[o].attr.nlink - 1,
            val |-> delta]))

(* iput() by the frontend *)
Close(o) ==
    /\ Held(o)
    /\ LET i == iput(inode[o], delta)
       IN  /\ inode' = [inode EXCEPT ![o] = i]
           /\ front' = [n \in Inums |-> IF n \in Forget(inode[o], i)
                                        THEN NoInode ELSE front[n]]
    /\ failed' = failed \union DestroyError(inode[o], delta)
    /\ UNCHANGED <<delta, backVars, freeinodes, nextinum>>

(* delta_transition(): the backend takes the inodes dirtied in the delta. *)
Transition ==
    /\ phase = "idle"
    /\ delta' = (delta + 1) % Period
    /\ phase' = "flush"
    /\ todo' = {o \in Objs : inode[o] # Free /\ tux3_delta(delta) \in inode[o].dirty}
    /\ view' = front
    /\ UNCHANGED <<inode, cur, sbVars, freeinodes, nextinum, disk, front, failed>>

-----------------------------------------------------------------------------
(* Backend *)

(* tux3_flush_inodes(): in the order of inode_inum_cmp(). *)
Flushes(o) ==
    /\ phase = "flush" /\ cur = NoCur /\ o \in todo
    /\ \A p \in todo : inode[o].inum <= inode[p].inum

(* The first step of tux3_flush_inode() is tux3_state_read_and_clear(). *)
FlushRead(o) ==
    /\ Flushes(o)
    /\ LET d == Marshal(delta)
           i == inode[o]
           idata == Stable(i, d)
       IN  /\ idata # INVALID
           /\ cur' = [obj |-> o, idata |-> idata,
                      orphaned |-> idata.nlink = 0 /\ ~i.orphaned,
                      deleted |-> i.dead = tux3_delta(d)]
           /\ inode' = [inode EXCEPT ![o] = ReadAndClear(i, d)]
    /\ todo' = todo \ {o}
    /\ UNCHANGED <<delta, phase, sbVars, disk, view, freeinodes, nextinum, front, failed>>

(* Its assertion fires: no stable copy of the attributes was made. *)
FlushFails(o) ==
    /\ Flushes(o)
    /\ Stable(inode[o], Marshal(delta)) = INVALID
    /\ failed' = failed \union {IF inode[o].kind = "dir" THEN "idata of dir" ELSE "idata"}
    /\ UNCHANGED <<inode, delta, backVars, freeinodes, nextinum, front>>

(* tux3_make_orphan_add() and save_inode() *)
SaveInode ==
    /\ phase = "flush" /\ cur # NoCur /\ ~cur.deleted
    /\ LET i == inode[cur.obj]
       IN  /\ inode' = [inode EXCEPT ![cur.obj].deferred = FALSE,
                                     ![cur.obj].onAdd = @ \/ cur.orphaned]
           /\ log' = IF cur.orphaned THEN Append(log, <<"add", i.inum>>) ELSE log
           /\ itree' = [itree EXCEPT ![i.inum] =
                   [nlink |-> cur.idata.nlink, val |-> cur.idata.val, kind |-> i.kind]]
           /\ used' = IF i.deferred THEN used + 1 ELSE used
           /\ failed' = failed
                 \union (IF ~i.deferred /\ itree[i.inum] = NoInode
                         THEN {"ileaf_lookup"} ELSE {})
                 \union (IF cur.orphaned /\ i.onAdd THEN {"orphan_list"} ELSE {})
    /\ cur' = NoCur
    /\ UNCHANGED <<delta, phase, todo, otree, orphanDel, crudehack, disk, view,
                   freeinodes, nextinum, front>>

(* tux3_make_orphan_del() unless the inode was orphaned in this same delta, *)
(* remove_inode_hash() and tux3_purge_inode()                               *)
PurgeInode ==
    /\ phase = "flush" /\ cur # NoCur /\ cur.deleted
    /\ LET i == inode[cur.obj]
       IN  /\ inode' = [inode EXCEPT ![cur.obj].hashed = FALSE,
                                     ![cur.obj].deferred = FALSE,
                                     ![cur.obj].onAdd = FALSE]
           /\ orphanDel' = IF cur.orphaned \/ i.onAdd THEN orphanDel
                           ELSE orphanDel \union {i.inum}
           /\ log' = IF cur.orphaned THEN log ELSE Append(log, <<"del", i.inum>>)
           /\ itree' = [itree EXCEPT ![i.inum] = IF i.deferred THEN @ ELSE NoInode]
           /\ used' = IF i.deferred THEN used ELSE used - 1
    /\ freeinodes' = freeinodes + 1
    /\ cur' = NoCur
    /\ UNCHANGED <<delta, phase, todo, otree, crudehack, disk, view, nextinum,
                   front, failed>>

(* Mutant: new orphans are added before the dead ones are removed. *)
UnifyOrphans_AddFirst ==
    (otree \union {inode[o].inum : o \in {p \in Objs : inode[p] # Free /\ inode[p].onAdd}})
        \ orphanDel

(* tux3_unify_orphan_del(), then tux3_unify_orphan_add(): the orphan btree  *)
(* after a unify cycle.                                                     *)
UnifyOrphans ==
    (otree \ orphanDel)
        \union {inode[o].inum : o \in {p \in Objs : inode[p] # Free /\ inode[p].onAdd}}

(* do_commit() after stage_delta(): unify_log() if it is due or forced, and *)
(* the superblock.                                                          *)
Commit(force) ==
    /\ phase = "flush" /\ cur = NoCur /\ todo = {}
    /\ crudehack' = IF force THEN crudehack ELSE (crudehack + 1) % UnifyEvery
    /\ IF force \/ crudehack' = 0
       THEN /\ otree' = UnifyOrphans
            /\ orphanDel' = {} /\ log' = <<>>
            /\ inode' = [o \in Objs |-> IF inode[o] = Free THEN Free
                                        ELSE [inode[o] EXCEPT !.onAdd = FALSE]]
       ELSE UNCHANGED <<otree, orphanDel, log, inode>>
    /\ disk' = [itree |-> itree, otree |-> otree', log |-> log', used |-> used]
    /\ phase' = "clear"
    /\ todo' = {o \in Objs : inode[o] # Free
                             /\ tux3_delta(Marshal(delta)) \in inode[o].dirty}
    /\ UNCHANGED <<delta, cur, itree, used, view, freeinodes, nextinum, front, failed>>

(* tux3_clear_dirty_inodes(): a reference, and the dirty flags of the delta. *)
ClearDirty(o) ==
    /\ phase = "clear" /\ cur = NoCur /\ o \in todo
    /\ inode' = [inode EXCEPT ![o].count = @ + 1,
                              ![o].dirty = @ \ {tux3_delta(Marshal(delta))}]
    /\ cur' = [NoCur EXCEPT !.obj = o]
    /\ todo' = todo \ {o}
    /\ UNCHANGED <<delta, phase, sbVars, disk, view, freeinodes, nextinum, front, failed>>

(* its iput() *)
ClearPut ==
    /\ phase = "clear" /\ cur # NoCur
    /\ LET o == cur.obj
           i == iput(inode[o], delta)
       IN  /\ inode' = [inode EXCEPT ![o] = i]
           /\ front' = [n \in Inums |-> IF n \in Forget(inode[o], i)
                                        THEN NoInode ELSE front[n]]
           /\ failed' = failed \union DestroyError(inode[o], delta)
    /\ cur' = NoCur
    /\ UNCHANGED <<delta, phase, todo, sbVars, disk, view, freeinodes, nextinum>>

FlushDone ==
    /\ phase = "clear" /\ cur = NoCur /\ todo = {}
    /\ phase' = "idle"
    /\ UNCHANGED <<inode, delta, todo, cur, sbVars, disk, view, freeinodes, nextinum,
                   front, failed>>

-----------------------------------------------------------------------------
(* Replay of the orphans *)

(* replay_orphan_add(), replay_orphan_del(): the inums of log_orphan_add    *)
(* after the first k records of the log are those whose last record is an   *)
(* "add"; a "del" of any other inum goes to sb->orphan_del.                 *)
OrphanAdd(recs, n, k) ==
    \E i \in 1 .. k : recs[i] = <<"add", n>> /\ \A j \in i + 1 .. k : recs[j][2] # n

ReplayOrphans(d) ==
    LET records == 1 .. Len(d.log)
    IN  [add   |-> {n \in Inums : OrphanAdd(d.log, n, Len(d.log))},
         del   |-> {n \in Inums : \E k \in records : /\ d.log[k] = <<"del", n>>
                                                   /\ ~ OrphanAdd(d.log, n, k - 1)},
         twice |-> \E k \in records : /\ d.log[k][1] = "add"
                                      /\ OrphanAdd(d.log, d.log[k][2], k - 1)]

(* replay_load_orphan_inodes(): from the log, then from otree unless the    *)
(* log says that the orphan is gone.                                        *)
LoadOrphans(d) == ReplayOrphans(d).add \union (d.otree \ ReplayOrphans(d).del)

(* A crash, or the end that a failed assertion puts to the program, and the *)
(* mount that follows: every orphan is loaded, and the iput() of            *)
(* replay_iput_orphan_inodes() marks it to be deleted.                      *)
CrashMount ==
    LET orphans == LoadOrphans(disk)
        r == ReplayOrphans(disk)
    IN
    /\ \E obj \in [orphans -> Objs] :
          /\ \A m, n \in orphans : obj[m] = obj[n] => m = n
          /\ inode' = [o \in Objs |->
                IF \E n \in orphans : obj[n] = o
                THEN LET n == CHOOSE n \in orphans : obj[n] = o
                         i == NewInode(n, disk.itree[n].kind,
                                       [nlink |-> disk.itree[n].nlink,
                                        val |-> disk.itree[n].val])
                     IN  iput([i EXCEPT !.orphaned = TRUE, !.onAdd = n \in r.add], 0)
                ELSE Free]
    /\ delta' = 0 /\ phase' = "idle" /\ todo' = {} /\ cur' = NoCur
    /\ itree' = disk.itree /\ otree' = disk.otree /\ log' = disk.log
    /\ used' = disk.used /\ orphanDel' = r.del
    /\ freeinodes' = MaxInum - disk.used /\ nextinum' = 1
    /\ front' = [n \in Inums |-> IF n \in orphans THEN NoInode ELSE disk.itree[n]]
    /\ failed' =
          (IF \E n \in orphans : disk.itree[n] = NoInode \/ disk.itree[n].nlink > 0
           THEN {"orphan inode"} ELSE {})
          \union (IF r.twice \/ r.add \intersect (disk.otree \ r.del) # {}
                  THEN {"orphan twice"} ELSE {})
    /\ UNCHANGED <<crudehack, disk, view>>

-----------------------------------------------------------------------------
Init ==
    /\ inode = [o \in Objs |-> Free] /\ delta = 0
    /\ phase = "idle" /\ todo = {} /\ cur = NoCur
    /\ itree = [n \in Inums |-> NoInode] /\ otree = {} /\ orphanDel = {}
    /\ log = <<>> /\ used = 0 /\ crudehack = 0
    /\ freeinodes = MaxInum /\ nextinum = 1
    /\ disk = [itree |-> itree, otree |-> {}, log |-> <<>>, used |-> 0]
    /\ front = itree /\ view = itree
    /\ failed = {}

Frontend ==
    \/ \E o \in Objs : \/ \E kind \in Kinds : Create(o, kind)
                       \/ Change(o) \/ DirtyOnly(o) \/ Link(o) \/ Unlink(o) \/ Close(o)
    \/ \E n \in Inums : Open(n)

BackendStep ==
    \/ \E o \in Objs : FlushRead(o) \/ FlushFails(o) \/ ClearDirty(o)
    \/ SaveInode \/ PurgeInode \/ ClearPut \/ FlushDone
    \/ \E force \in BOOLEAN : Commit(force)

(* A failed assertion ends the program. *)
Next ==
    \/ failed = {} /\ (Frontend \/ Transition \/ BackendStep)
    \/ CrashMount

Spec == Init /\ [][Next]_vars

-----------------------------------------------------------------------------
(* A commit makes durable exactly the inodes and attributes the frontend    *)
(* had when the delta closed, whatever it did while the backend worked      *)
(* (writeback_iattrfork.c:4-18), and a crash finds exactly those that had   *)
(* no link left as orphans (orphan.c:13-16).                                *)
CommitExact ==
    phase = "clear" =>
        /\ disk.itree = view
        /\ LoadOrphans(disk) = {n \in Inums : view[n] # NoInode /\ view[n].nlink = 0}

(* One assertion alone can fire on the way, that of                         *)
(* writeback_iattrfork.c:151 for a directory (StableCopyValid): the copy of *)
(* a file's attributes is valid, an inode that is saved again is in itree   *)
(* (inode.c:638), an object is on one orphan list at most (orphan.c:213),   *)
(* replay finds every orphan, once and without links (orphan.c:309,         *)
(* 387-393), an entry's inode is found (namei.c:34), and an evicted object  *)
(* is on no list (super.c:349).                                             *)
AssertionsHold == failed \subseteq {"idata of dir"}

(* At any time an inum names one inode: no two hashed objects share it, a   *)
(* hashed object that was saved is in itree, one that was not yet is not,   *)
(* so the reuse of a purged inum never meets what is left of the old inode. *)
InumExclusive ==
    \A o \in Objs : inode[o] # Free /\ inode[o].hashed =>
        /\ At(inode[o].inum) = {o}
        /\ (inode[o].deferred <=> itree[inode[o].inum] = NoInode)

(* The counters of free and used inodes are exact at every step, across     *)
(* deferred allocation, purge and mount (inode.c:396, 663, 767, 782).       *)
CountersExact ==
    LET saved == {n \in Inums : itree[n] # NoInode}
        deferred == {o \in Objs : inode[o] # Free /\ inode[o].deferred}
    IN  /\ used = Cardinality(saved)
        /\ freeinodes = MaxInum - used - Cardinality(deferred)

(* What writeback_iattrfork.c:81-85 says of inodes other than files: their  *)
(* attributes are dirtied with their data, so that the backend finds them   *)
(* in the inode or in a valid copy.  The code breaks it: set_xattr() on a   *)
(* directory dirties the inode alone.                                       *)
StableCopyValid == "idata of dir" \notin failed

ObjSymmetry == Permutations(Objs)
=============================================================================
