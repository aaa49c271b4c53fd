-------------------------------- MODULE Ileaf --------------------------------
(***************************************************************************)
(* The leaf format of the inode table and of the orphan table              *)
(* (kernel/ileaf.c), under the calls btree.c makes: a write that does not  *)
(* fit splits the leaf where the leaf's own hint says and is tried again.  *)
(* A leaf is a table of attributes and a dictionary of where each entry    *)
(* ends, indexed by inum - ibase.                                          *)
(*                                                                         *)
(* The attributes of an inode are as many cells as their size, and a cell  *)
(* holds the inum it was written for: what matters is which cells a lookup *)
(* returns.  Sizes are in units of a dictionary entry.                     *)
(***************************************************************************)
EXTENDS Integers, Sequences, SequencesExt, FiniteSets, FiniteSetsExt

CONSTANTS
    MaxInum,       \* bound: inums are 0 .. MaxInum
    BlockSize,     \* of a block
    Header,        \* sizeof(struct ileaf)
    Sizes,         \* sizes of an inode's attributes
    EntriesPerLeaf \* btree->entries_per_leaf, to which hints are aligned

Inums == 0 .. MaxInum
LIMIT == MaxInum + 1               \* TUXKEY_LIMIT

VARIABLES
    leaves,        \* the leaves from left to right; the parent has the
                   \* ibase of each as its key
    req,           \* the write in btree_write(), or NoReq
    stored,        \* history: inum -> size of its attributes, 0 for none
    broken         \* history: an assertion failed

vars == <<leaves, req, stored, broken>>

NoReq == [inum |-> LIMIT, size |-> 0]

TypeOK ==
    /\ leaves \in Seq([ibase : Nat, dict : Seq(Nat), table : Seq(Inums)])
    /\ req = NoReq \/ (req.inum \in Inums /\ req.size \in Sizes)
    /\ stored \in [Inums -> Sizes \union {0}]
    /\ \A i \in DOMAIN leaves :
        LET d == leaves[i].dict
        IN  /\ Len(leaves[i].table) = (IF d = <<>> THEN 0 ELSE Last(d))
            /\ Len(leaves[i].table) + Len(d) + Header <= BlockSize

-----------------------------------------------------------------------------
(* One leaf *)

icount(l) == Len(l.dict)

(* atdict(): where entry at ends, and 0 before the first *)
atdict(l, at) == IF at = 0 THEN 0 ELSE l.dict[at]

(* ileaf_need(), ileaf_free() *)
ileaf_free(l) == BlockSize - (atdict(l, icount(l)) + icount(l)) - Header

(* ileaf_init(), with the ibase of a first leaf *)
ileaf_init(key) == [ibase |-> key, dict |-> <<>>, table |-> <<>>]

(* ileaf_lookup(): the cells of inum, and none when it is not there *)
ileaf_lookup(l, inum) ==
    LET at == inum - l.ibase
    IN  IF at < icount(l)
        THEN SubSeq(l.table, atdict(l, at) + 1, atdict(l, at + 1))
        ELSE <<>>

(* ileaf_trim(): drop the empty entries at the end *)
ileaf_trim(l) ==
    LET used == {i \in 1 .. icount(l) : atdict(l, i) # atdict(l, i - 1)}
    IN  [l EXCEPT !.dict = SubSeq(@, 1, Max({0} \union used))]

(* ileaf_split(): the leaf and its new right neighbour, whose ibase is the  *)
(* key returned; a hint below ibase wraps around, and takes nothing.        *)
ileaf_split(l, hint0) ==
    LET hint  == IF hint0 = l.ibase THEN hint0 + 1 ELSE hint0
        at    == IF hint < l.ibase THEN icount(l) ELSE Min({hint - l.ibase, icount(l)})
        split == atdict(l, at)
        round == hint - (hint % EntriesPerLeaf)
        base  == IF round > l.ibase + icount(l) THEN round ELSE hint
    IN  <<ileaf_trim([l EXCEPT !.dict = SubSeq(@, 1, at), !.table = SubSeq(@, 1, split)]),
          [ibase |-> base,
           dict |-> [i \in 1 .. icount(l) - at |-> l.dict[at + i] - split],
           table |-> SubSeq(l.table, split + 1, atdict(l, icount(l)))]>>

(* ileaf_split_hint() *)
ileaf_split_hint(l, inum) ==
    IF inum >= l.ibase + icount(l)
    THEN inum - (inum % EntriesPerLeaf)
    ELSE l.ibase + icount(l) \div 2

(* What a call returns when there is no room *)
Overflow == [ibase |-> LIMIT]

(* Mutant: the entries the dictionary grows by take no room. *)
Fits_NoExtend(l, inum, newsize) ==
    ileaf_free(l) >= newsize - Len(ileaf_lookup(l, inum))

(* Is there room to make the attributes of inum newsize large? *)
Fits(l, inum, newsize) ==
    LET at     == inum - l.ibase
        size   == Len(ileaf_lookup(l, inum))
        extend == Max({0, at + 1 - icount(l)})
    IN  /\ at + 1 > icount(l) => at + 1 < BlockSize
        /\ ileaf_free(l) >= newsize - size + extend

(* ileaf_resize() and the attributes that ileaf_write() encodes there *)
ileaf_resize(l, inum, newsize) ==
    LET at    == inum - l.ibase
        total == atdict(l, icount(l))
        count == Max({icount(l), at + 1})
        dict  == [i \in 1 .. count |-> IF i <= icount(l) THEN l.dict[i] ELSE total]
        from  == IF at = 0 THEN 0 ELSE dict[at]
    IN  IF ~ Fits(l, inum, newsize)
        THEN Overflow
        ELSE [l EXCEPT !.dict = [i \in 1 .. count |->
                                   IF i <= at THEN dict[i]
                                   ELSE dict[i] + newsize - (dict[at + 1] - from)],
                       !.table = SubSeq(@, 1, from) \o [i \in 1 .. newsize |-> inum]
                                 \o SubSeq(@, dict[at + 1] + 1, total)]

(* Mutant: the attributes above are not moved down. *)
ileaf_chop_NoMove(l, inum) ==
    LET at  == inum - l.ibase
        cut == Len(ileaf_lookup(l, inum))
    IN  IF cut = 0
        THEN l
        ELSE ileaf_trim([l EXCEPT
                !.dict = [i \in DOMAIN @ |-> IF i <= at THEN @[i] ELSE @[i] - cut],
                !.table = SubSeq(@, 1, Len(@) - cut)])

(* ileaf_chop() of one inum, which is what every caller asks for (of a      *)
(* longer range the code would take too much from the entries inside).      *)
ileaf_chop(l, inum) ==
    LET at  == inum - l.ibase
        cut == Len(ileaf_lookup(l, inum))
    IN  IF cut = 0
        THEN l
        ELSE ileaf_trim([l EXCEPT
                !.dict = [i \in DOMAIN @ |-> IF i <= at THEN @[i] ELSE @[i] - cut],
                !.table = SubSeq(@, 1, atdict(l, at))
                          \o SubSeq(@, atdict(l, at + 1) + 1, Len(@))])

(* ileaf_merge(): the leaf with the entries of its right neighbour, or      *)
(* Overflow.  The hole up to its ibase is counted from ibase + 2 * count,   *)
(* and the ends that are moved up are those of the first entries.           *)
ileaf_merge(l, from) ==
    LET hole  == from.ibase - l.ibase + icount(l)
        need  == hole + atdict(from, icount(from)) + icount(from)
        limit == atdict(l, icount(l))
        own   == [i \in 1 .. icount(l) + hole |->
                    (IF i <= icount(l) THEN l.dict[i] ELSE limit)
                    + (IF i <= icount(from) THEN limit ELSE 0)]
    IN  IF from.dict = <<>> THEN l
        ELSE IF ileaf_free(l) < need THEN Overflow
        ELSE [l EXCEPT !.dict = own \o from.dict, !.table = @ \o from.table]

(* ileaf_find_free(): {the first inum from key on without attributes}, or   *)
(* {} when there is none before limit.                                      *)
ileaf_find_free(l, key, limit) ==
    LET at    == key - l.ibase
        empty == {i \in at + 1 .. icount(l) : atdict(l, i - 1) = atdict(l, i)}
        found == IF empty = {} THEN Max({at, icount(l)}) ELSE Min(empty) - 1
    IN  IF l.ibase + found < limit THEN {l.ibase + found} ELSE {}

(* ileaf_enumerate(): the callback is called with these inums. *)
ileaf_enumerate(l, key, len) ==
    {inum \in key .. Min({key + len, l.ibase + icount(l)}) - 1 :
        ileaf_lookup(l, inum) # <<>>}

-----------------------------------------------------------------------------
(* The leaves under their parent *)

(* bnode_lookup(): the last leaf whose key is not above inum *)
Leaf(inum) == Max({i \in DOMAIN leaves : leaves[i].ibase <= inum})

(* cursor_next_key() *)
NextKey(i) == IF i = Len(leaves) THEN LIMIT ELSE leaves[i + 1].ibase

Init ==
    /\ leaves = <<ileaf_init(0)>>
    /\ req = NoReq
    /\ stored = [i \in Inums |-> 0]
    /\ broken = FALSE

(* store_attrs() calls btree_write(). *)
Write ==
    /\ req = NoReq /\ ~ broken
    /\ \E i \in Inums, s \in Sizes : req' = [inum |-> i, size |-> s]
    /\ UNCHANGED <<leaves, stored, broken>>

(* ileaf_write() that finds the room *)
Store ==
    LET i == Leaf(req.inum)
        l == ileaf_resize(leaves[i], req.inum, req.size)
    IN  /\ req # NoReq /\ l # Overflow
        /\ leaves' = [leaves EXCEPT ![i] = l]
        /\ stored' = [stored EXCEPT ![req.inum] = req.size]
        /\ req' = NoReq
        /\ UNCHANGED broken

(* ileaf_write() that does not, and btree_leaf_split() with its hint *)
Split ==
    LET i   == Leaf(req.inum)
        two == ileaf_split(leaves[i], ileaf_split_hint(leaves[i], req.inum))
        key == two[2].ibase
    IN  /\ req # NoReq /\ ~ Fits(leaves[i], req.inum, req.size)
        /\ IF leaves[i].ibase < key /\ key < NextKey(i)
           THEN /\ leaves' = SubSeq(leaves, 1, i - 1) \o two \o SubSeq(leaves, i + 1, Len(leaves))
                /\ UNCHANGED <<req, broken>>
           ELSE /\ broken' = TRUE /\ req' = NoReq
                /\ UNCHANGED leaves
        /\ UNCHANGED stored

(* tux3_purge_inode() and unify_orphan_del() call btree_chop(). *)
Chop ==
    /\ req = NoReq /\ ~ broken
    /\ \E inum \in Inums :
        LET i == Leaf(inum)
        IN  /\ leaves' = [leaves EXCEPT ![i] = ileaf_chop(@, inum)]
            /\ stored' = [stored EXCEPT ![inum] = 0]
    /\ UNCHANGED <<req, broken>>

(* try_leaf_merge().  No chop of the code reaches a second leaf; the leaf   *)
(* into which a neighbour is merged is empty, as it is in tests/ileaf.c.    *)
Merge ==
    /\ req = NoReq /\ ~ broken
    /\ \E i \in 1 .. Len(leaves) - 1 :
        LET l == ileaf_merge(leaves[i], leaves[i + 1])
        IN  /\ leaves[i].dict = <<>> /\ l # Overflow
            /\ leaves' = RemoveAt([leaves EXCEPT ![i] = l], i + 1)
    /\ UNCHANGED <<req, stored, broken>>

Next == Write \/ Store \/ Split \/ Chop \/ Merge

Spec == Init /\ [][Next]_vars

-----------------------------------------------------------------------------
(* Every inum is found with its own attributes and no others, whatever was  *)
(* written, removed, split and merged before: ileaf_lookup() of the leaf to *)
(* which the parent's keys lead.                                            *)
LookupExact ==
    \A inum \in Inums :
        ileaf_lookup(leaves[Leaf(inum)], inum) = [c \in 1 .. stored[inum] |-> inum]

(* From any start, the search over the leaves that find_free_inum() makes   *)
(* (ileaf_find_free() as callback of btree_traverse()) finds the first inum *)
(* without attributes.                                                      *)
SearchExact ==
    \A goal \in Inums :
        LET free  == {inum \in goal .. MaxInum : stored[inum] = 0}
            found == {i \in Leaf(goal) .. Len(leaves) :
                        ileaf_find_free(leaves[i], Max({goal, leaves[i].ibase}), NextKey(i)) # {}}
        IN  IF free = {} THEN found = {}
            ELSE /\ found # {}
                 /\ ileaf_find_free(leaves[Min(found)], Max({goal, leaves[Min(found)].ibase}),
                                    NextKey(Min(found))) = {Min(free)}

(* load_otree_orphan_inode() is called once for each inode of the table     *)
(* (ileaf_enumerate() under btree_traverse()).                              *)
EnumerateExact ==
    LET Called(i) == ileaf_enumerate(leaves[i], leaves[i].ibase, LIMIT)
    IN  /\ UNION {Called(i) : i \in DOMAIN leaves} = {i \in Inums : stored[i] # 0}
        /\ \A i, j \in DOMAIN leaves : i # j => Called(i) \cap Called(j) = {}

(* btree_leaf_split(): the key of the new leaf lies behind the key of the   *)
(* leaf that is split ("assert(cursor_this_key(cursor) < newkey)"), whatever *)
(* inum the write that found no room is for.                                *)
SplitInside == ~ broken

=============================================================================
