-------------------------------- MODULE Btree --------------------------------
(***************************************************************************)
(* A btree of several levels (kernel/btree.c): probe, redirect, insertion  *)
(* with splits up to a new root, and btree_chop() of a range with its      *)
(* merges from right to left.  A leaf is a set of keys; what a leaf format *)
(* does inside is modelled in Ileaf and Dleaf2.                            *)
(*                                                                         *)
(* Each call is taken in the steps of its loops, and every change of a     *)
(* bnode writes the log record that replay will apply to the bnode as it   *)
(* is on disk (replay_bnode_*()).  Before a call a commit has cleaned all  *)
(* leaves, and the bnodes too if it unified.  Which block numbers a tree   *)
(* has makes no difference: they are given anew between two calls.         *)
(***************************************************************************)
EXTENDS Integers, Sequences, SequencesExt, FiniteSets, FiniteSetsExt, Functions

CONSTANTS
    MaxKey,         \* bound: keys are 0 .. MaxKey
    EntriesPerNode, \* sb->entries_per_node
    KeysPerLeaf,    \* when a leaf is full
    MaxBlocks       \* bound: blocks are 1 .. MaxBlocks

Keys  == 0 .. MaxKey
TUXKEY_LIMIT == MaxKey + 1
Block == 1 .. MaxBlocks
NULL  == 0

VARIABLES
    tree,    \* bnodes, leaves, root, the cursor's path, dirty blocks, log
    op,      \* the call under way and its local variables
    before,  \* history: the bnodes when the call started
    keys     \* history: the keys stored

vars == <<tree, op, before, keys>>

NoOp == [name |-> "none", start |-> 0, limit |-> 0, done |-> FALSE, leafprev |-> NULL,
         prev |-> <<>>, cii |-> <<>>]

(* An index entry, and a level of the path: next counts the entries that    *)
(* were passed, the current one included.                                   *)
Entry(key, block) == [key |-> key, block |-> block]
Level(block, next) == [block |-> block, next |-> next]

TypeOK ==
    /\ DOMAIN tree.bnodes \subseteq Block /\ DOMAIN tree.leaves \subseteq Block
    /\ \A b \in DOMAIN tree.bnodes :
          tree.bnodes[b] \in Seq([key : Keys, block : Block]) /\ Len(tree.bnodes[b]) <= EntriesPerNode
    /\ \A b \in DOMAIN tree.leaves :
          tree.leaves[b] \subseteq Keys /\ Cardinality(tree.leaves[b]) <= KeysPerLeaf
    /\ tree.dirty \subseteq Block /\ keys \subseteq Keys

-----------------------------------------------------------------------------
Put(f, x, v) == [y \in DOMAIN f \union {x} |-> IF y = x THEN v ELSE f[y]]
Drop(f, x)   == Restrict(f, DOMAIN f \ {x})

(* new_block(): not one that replay still needs                             *)
new_block(t) == Min(Block \ (DOMAIN t.bnodes \union DOMAIN t.leaves \union DOMAIN before))

Log(t, r) == [t EXCEPT !.log = Append(@, r)]

-----------------------------------------------------------------------------
(* The cursor *)

(* bnode_lookup() *)
bnode_lookup(node, key) ==
    Min({i \in 2 .. Len(node) : node[i].key > key} \union {Len(node) + 1}) - 1

(* cursor_advance_down() to the leaf: to the next child, then to the one of *)
(* key in each bnode; key 0 leads to the first one.                         *)
Down(t, path, key) ==
    LET p[n \in Len(path) .. t.root.depth + 1] ==
            IF n = Len(path) THEN path
            ELSE LET above == p[n - 1]
                     child == t.bnodes[Last(above).block][Last(above).next].block
                 IN  Append(above, IF n > t.root.depth THEN Level(child, 0)
                                      ELSE Level(child, bnode_lookup(t.bnodes[child], key)))
    IN  p[t.root.depth + 1]

(* btree_probe() *)
btree_probe(t, key) ==
    Down(t, <<Level(t.root.block, bnode_lookup(t.bnodes[t.root.block], key))>>, key)

(* level_finished() *)
level_finished(t, l) == t.path[l].next = Len(t.bnodes[t.path[l].block])

(* cursor_next_key(), cursor_level_next_key(): of the levels from l up *)
next_key(t, l) ==
    LET open == {i \in 1 .. l : ~ level_finished(t, i)}
    IN  IF open = {} THEN TUXKEY_LIMIT
        ELSE t.bnodes[t.path[Max(open)].block][t.path[Max(open)].next + 1].key

(* cursor_this_key(), cursor_level_this_key() *)
this_key(t, l) == t.bnodes[t.path[l].block][t.path[l].next].key

(* One level of cursor_redirect(): a clean block is cloned, its parent is   *)
(* made to point to the clone and both are logged; a leaf's old block is    *)
(* no bnode, and its redirect record only counts for the block allocator.   *)
RedirectLevel(t, l, new) ==
    LET old    == t.path[l].block
        leaf   == l = t.root.depth + 1
        parent == t.path[l - 1]
        moved  == IF leaf THEN t.bnodes ELSE Put(Drop(t.bnodes, old), new, t.bnodes[old])
        clone  == IF leaf THEN <<>> ELSE <<[type |-> "redirect", old |-> old, new |-> new]>>
    IN  IF old \in t.dirty THEN t
        ELSE [t EXCEPT !.bnodes = IF l = 1 THEN moved
                                  ELSE [moved EXCEPT ![parent.block][parent.next].block = new],
                       !.leaves = IF leaf THEN Put(Drop(@, old), new, @[old]) ELSE @,
                       !.root.block = IF l = 1 THEN new ELSE @,
                       !.path[l].block = new,
                       !.dirty = (@ \ {old}) \union {new},
                       !.log = @ \o clone \o
                               IF l = 1 THEN <<>>
                               ELSE <<[type |-> "update", bnode |-> parent.block, child |-> new,
                                       key |-> t.bnodes[parent.block][parent.next].key]>>]

(* cursor_redirect() *)
cursor_redirect(t) ==
    LET r[l \in 0 .. t.root.depth + 1] ==
            IF l = 0 THEN t ELSE RedirectLevel(r[l - 1], l, new_block(r[l - 1]))
    IN  r[t.root.depth + 1]

-----------------------------------------------------------------------------
(* Insertion *)

(* bnode_add_index() at the cursor of level l, which moves on if not kept *)
bnode_add_index(t, l, key, child, keep) ==
    Log([t EXCEPT !.bnodes[t.path[l].block] = InsertAt(@, t.path[l].next + 1, Entry(key, child)),
                  !.path[l].next = IF keep THEN @ ELSE @ + 1],
        [type |-> "add", bnode |-> t.path[l].block, child |-> child, key |-> key])

(* Mutant: the cursor stays in the left bnode. *)
SplitNode_KeepLeft(t, l, new) ==
    LET b    == t.path[l].block
        half == Len(t.bnodes[b]) \div 2
    IN  Log([t EXCEPT !.bnodes = Put([@ EXCEPT ![b] = SubSeq(@, 1, half)], new,
                                     SubSeq(@[b], half + 1, Len(@[b]))),
                      !.path[l].next = Min({@, half}),
                      !.dirty = @ \union {new}],
            [type |-> "split", src |-> b, pos |-> half, dst |-> new])

(* bnode_split() of a full bnode of the path; the cursor goes to the half   *)
(* where it is then.                                                        *)
SplitNode(t, l, new) ==
    LET b    == t.path[l].block
        half == Len(t.bnodes[b]) \div 2
    IN  Log([t EXCEPT !.bnodes = Put([@ EXCEPT ![b] = SubSeq(@, 1, half)], new,
                                     SubSeq(@[b], half + 1, Len(@[b]))),
                      !.path[l] = IF @.next <= half THEN @ ELSE Level(new, @.next - half),
                      !.dirty = @ \union {new}],
            [type |-> "split", src |-> b, pos |-> half, dst |-> new])

(* One level of insert_leaf(), with what is to be added to the next one     *)
InsertLevel(i, l, new) ==
    LET b     == i.t.path[l].block
        node  == i.t.bnodes[b]
        half  == Len(node) \div 2
    IN  IF i.child = NULL THEN i
        ELSE IF Len(node) < EntriesPerNode
        THEN [i EXCEPT !.t = bnode_add_index(@, l, i.key, i.child, i.keep), !.child = NULL]
        ELSE [t     |-> bnode_add_index(SplitNode(i.t, l, new), l, i.key, i.child, i.keep),
              key   |-> node[half + 1].key,
              child |-> new,
              keep  |-> i.t.path[l].next <= half]

(* bnode_init_root() and cursor_root_add() *)
NewRoot(t, new, key, child) ==
    Log([t EXCEPT !.bnodes = Put(@, new, <<Entry(0, t.root.block), Entry(key, child)>>),
                  !.root = [block |-> new, depth |-> @.depth + 1],
                  !.path = <<Level(new, IF t.path[1].block # child THEN 1 ELSE 2)>> \o @,
                  !.dirty = @ \union {new}],
        [type |-> "root", root |-> new, left |-> t.root.block, right |-> child, key |-> key])

(* insert_leaf(): the new leaf is in t already. *)
insert_leaf(t, key, leaf, keep) ==
    LET n == t.root.depth
        first == IF keep THEN t ELSE [t EXCEPT !.path[n + 1] = Level(leaf, 0)]
        i[l \in 1 .. n + 1] ==
            IF l = n + 1 THEN [t |-> first, key |-> key, child |-> leaf, keep |-> keep]
            ELSE InsertLevel(i[l + 1], l, new_block(i[l + 1].t))
    IN  IF i[1].child = NULL THEN i[1].t
        ELSE NewRoot(i[1].t, new_block(i[1].t), i[1].key, i[1].child)

(* btree_leaf_split(): half of the keys go to a new leaf. *)
btree_leaf_split(t, key, new) ==
    LET leaf   == Last(t.path).block
        sorted == SetToSortSeq(t.leaves[leaf], <)
        newkey == sorted[Len(sorted) \div 2 + 1]
    IN  insert_leaf([t EXCEPT !.leaves = Put([@ EXCEPT ![leaf] = {k \in @ : k < newkey}], new,
                                             {k \in @[leaf] : k >= newkey}),
                              !.dirty = @ \union {new}],
                    newkey, new, key < newkey)

-----------------------------------------------------------------------------
(* Deletion *)

(* adjust_parent_sep(): up to the level where the path does not go through  *)
(* the first entry                                                          *)
adjust_parent_sep(t, from, newsep) ==
    LET a[l \in 0 .. from] ==
            IF l = from THEN [t |-> t, stop |-> FALSE]
            ELSE LET p  == a[l + 1]
                     at == t.path[l + 1]
                 IN  IF p.stop THEN p
                     ELSE [t |-> Log([p.t EXCEPT !.bnodes[at.block][at.next].key = newsep],
                                     [type |-> "adjust", bnode |-> at.block,
                                      from |-> t.bnodes[at.block][at.next].key, to |-> newsep]),
                           stop |-> at.next # 1]
    IN  a[0].t

(* remove_index() of the last level of the path: the tree *)
remove_index(t, l) ==
    LET at == t.path[l]
        u  == [t EXCEPT !.bnodes[at.block] = RemoveAt(@, at.next), !.path[l].next = @ - 1]
    IN  IF l = 1 \/ level_finished(u, l) \/ at.next > 1 THEN u
        ELSE adjust_parent_sep(u, l - 1, u.bnodes[at.block][1].key)

(* And what it collects for the del record *)
Chopped(cii, t, l) ==
    [cii EXCEPT ![l] = [start |-> IF @.count = 0 THEN this_key(t, l) ELSE @.start,
                        count |-> @.count + 1]]

NoCii == [start |-> 0, count |-> 0]

(* The del record of a bnode that the cursor leaves *)
LogDel(t, b, cii) ==
    IF cii.count = 0 THEN t
    ELSE Log(t, [type |-> "del", bnode |-> b, key |-> cii.start, count |-> cii.count])

-----------------------------------------------------------------------------
(* The blocks from the root down, level by level *)
Blocks(t) ==
    LET level[n \in 1 .. t.root.depth + 1] ==
            IF n = 1 THEN <<t.root.block>>
            ELSE LET up == level[n - 1]
                 IN  FlattenSeq([j \in DOMAIN up |->
                        [i \in DOMAIN t.bnodes[up[j]] |-> t.bnodes[up[j]][i].block]])
    IN  FlattenSeq(level)

(* The tree with blocks number 1 .. n, in this order *)
Renumber(t, order) ==
    LET New(b) == CHOOSE i \in DOMAIN order : order[i] = b
        Node(node) == [i \in DOMAIN node |-> Entry(node[i].key, New(node[i].block))]
    IN  [t EXCEPT !.root.block = 1,
                  !.bnodes = [i \in {New(b) : b \in DOMAIN @} |-> Node(@[order[i]])],
                  !.leaves = [i \in {New(b) : b \in DOMAIN @} |-> @[order[i]]]]

(* The trees a call may start with, and its probe of key *)
Start(key) ==
    {[t EXCEPT !.dirty = dirty, !.log = <<>>, !.path = btree_probe(t, key)] :
        <<t, dirty>> \in UNION {{<<t, {}>>, <<t, DOMAIN t.bnodes>>} : t \in {Renumber(tree, Blocks(tree))}}}

(* alloc_empty_btree() *)
Init ==
    /\ tree = [bnodes |-> [b \in {1} |-> <<Entry(0, 2)>>], leaves |-> [b \in {2} |-> {}],
               root |-> [block |-> 1, depth |-> 1], path |-> <<>>, dirty |-> {1, 2}, log |-> <<>>]
    /\ op = NoOp
    /\ before = tree.bnodes
    /\ keys = {}

(* btree_probe() before btree_write() of one key *)
Write ==
    /\ op = NoOp
    /\ \E key \in Keys \ keys :
        /\ \E t \in Start(key) : tree' = t /\ before' = t.bnodes
        /\ op' = [NoOp EXCEPT !.name = "write", !.start = key]
    /\ UNCHANGED keys

(* A turn of btree_write(): the key goes in, or the leaf is split.          *)
(* cursor_redirect() of the first turn finds nothing to do in the next one. *)
WriteLeaf ==
    /\ op.name = "write"
    /\ \E t \in {cursor_redirect(tree)} : \E leaf \in {Last(t.path).block} :
        IF Cardinality(t.leaves[leaf]) < KeysPerLeaf
        THEN /\ tree' = [t EXCEPT !.leaves[leaf] = @ \union {op.start}, !.path = <<>>]
             /\ op' = NoOp
             /\ keys' = keys \union {op.start}
        ELSE /\ tree' = btree_leaf_split(t, op.start, new_block(t))
             /\ UNCHANGED <<op, keys>>
    /\ UNCHANGED before

(* btree_chop() up to its loop; its callers take one key, or all to the end. *)
Chop ==
    /\ op = NoOp
    /\ \E start \in Keys : \E limit \in {start + 1, TUXKEY_LIMIT} :
        /\ op' = [NoOp EXCEPT !.name = "chop", !.start = start, !.limit = limit,
                              !.prev = [l \in 1 .. tree.root.depth |-> NULL],
                              !.cii = [l \in 1 .. tree.root.depth |-> NoCii]]
        /\ keys' = keys \ (start .. limit - 1)
        /\ \E t \in Start(start) : tree' = t /\ before' = t.bnodes

AtLeaf == Len(tree.path) = tree.root.depth + 1

(* A leaf of the range: redirected, chopped and merged into the one before *)
ChopLeaf ==
    /\ op.name = "chop" /\ AtLeaf
    /\ LET l == tree.root.depth
       IN  \E t \in {cursor_redirect(tree)} :
           \E leaf \in {Last(t.path).block}, u \in {[t EXCEPT !.path = Front(@)]} :
           \E rest \in {t.leaves[leaf] \ (op.start .. op.limit - 1)} :
            IF op.leafprev # NULL
               /\ Cardinality(u.leaves[op.leafprev] \union rest) <= KeysPerLeaf
            THEN /\ tree' = remove_index([u EXCEPT !.leaves = Drop([@ EXCEPT ![op.leafprev] = @ \union rest], leaf),
                                                   !.dirty = @ \ {leaf}], l)
                 /\ op' = [op EXCEPT !.cii = Chopped(@, u, l),
                                     !.done = next_key(tree', l) >= op.limit]
            ELSE /\ tree' = [u EXCEPT !.leaves[leaf] = rest]
                 /\ op' = [op EXCEPT !.leafprev = leaf, !.done = next_key(u, l) >= op.limit]
    /\ UNCHANGED <<before, keys>>

(* Mutant: what was removed from a bnode is not logged when it is kept. *)
PopNode_NoDel ==
    /\ op.name = "chop" /\ ~ AtLeaf
    /\ LET l    == Len(tree.path)
           buf  == tree.path[l].block
           into == op.prev[l]
       IN  /\ op.done \/ level_finished(tree, l)
           /\ \E t \in {[tree EXCEPT !.path = Front(@)]} :
              IF into # NULL /\ Len(tree.bnodes[into]) + Len(tree.bnodes[buf]) <= EntriesPerNode
              THEN /\ tree' = remove_index(
                                Log([t EXCEPT !.bnodes = Drop([@ EXCEPT ![into] = @ \o tree.bnodes[buf]], buf),
                                              !.dirty = @ \ {buf}],
                                    [type |-> "merge", src |-> buf, dst |-> into]), l - 1)
                   /\ op' = [op EXCEPT !.cii = Chopped([@ EXCEPT ![l] = NoCii], t, l - 1)]
              ELSE /\ tree' = t
                   /\ op' = [op EXCEPT !.prev[l] = buf, !.cii[l] = NoCii,
                                       !.name = IF l = 1 THEN "root" ELSE @]
    /\ UNCHANGED <<before, keys>>

(* The cursor leaves a bnode: what was removed from it is logged and it is  *)
(* merged into the one before on its level.                                 *)
PopNode ==
    /\ op.name = "chop" /\ ~ AtLeaf
    /\ LET l    == Len(tree.path)
           buf  == tree.path[l].block
           into == op.prev[l]
       IN  /\ op.done \/ level_finished(tree, l)
           /\ \E t \in {LogDel([tree EXCEPT !.path = Front(@)], buf, op.cii[l])} :
              IF into # NULL /\ Len(tree.bnodes[into]) + Len(tree.bnodes[buf]) <= EntriesPerNode
              THEN /\ tree' = remove_index(
                                Log([t EXCEPT !.bnodes = Drop([@ EXCEPT ![into] = @ \o tree.bnodes[buf]], buf),
                                              !.dirty = @ \ {buf}],
                                    [type |-> "merge", src |-> buf, dst |-> into]), l - 1)
                   /\ op' = [op EXCEPT !.cii = Chopped([@ EXCEPT ![l] = NoCii], t, l - 1)]
              ELSE /\ tree' = t
                   /\ op' = [op EXCEPT !.prev[l] = buf, !.cii[l] = NoCii,
                                       !.name = IF l = 1 THEN "root" ELSE @]
    /\ UNCHANGED <<before, keys>>

(* "Push back down to leaf level" *)
Descend ==
    LET l == Len(tree.path)
    IN  /\ op.name = "chop" /\ ~ AtLeaf
        /\ ~ op.done /\ ~ level_finished(tree, l)
        /\ tree' = [tree EXCEPT !.path = Down(tree, [@ EXCEPT ![l].next = @ + 1], 0)]
        /\ UNCHANGED <<op, before, keys>>

(* "Remove depth if possible" *)
ChopRoot ==
    LET root == op.prev[1]
    IN  /\ op.name = "root"
        /\ IF tree.root.depth > 1 /\ Len(tree.bnodes[root]) = 1
           THEN /\ tree' = [tree EXCEPT !.root = [block |-> op.prev[2], depth |-> @.depth - 1],
                                        !.bnodes = Drop(@, root),
                                        !.dirty = @ \ {root}]
                /\ op' = [op EXCEPT !.prev = Tail(@)]
           ELSE /\ op' = NoOp
                /\ UNCHANGED tree
        /\ UNCHANGED <<before, keys>>

Next ==
    \/ Write \/ WriteLeaf
    \/ Chop \/ ChopLeaf \/ PopNode \/ Descend \/ ChopRoot

Spec == Init /\ [][Next]_vars

-----------------------------------------------------------------------------
(* Replay *)

(* The assertion of a replay function holds for a record. *)
Replayable(img, r) ==
    LET At(key) == img[r.bnode][bnode_lookup(img[r.bnode], key)].key
    IN  CASE r.type \in {"update", "del"} -> At(r.key) = r.key
          [] r.type = "adjust" -> At(r.from) = r.from
          [] r.type = "merge" -> Len(img[r.dst]) + Len(img[r.src]) <= EntriesPerNode
          [] OTHER -> TRUE

(* replay_bnode_redirect(), _root(), _split(), _add(), _update(), _merge(), *)
(* _del() and _adjust() on the bnodes img                                   *)
Replay(img, r) ==
    LET node == img[r.bnode]
    IN  CASE r.type = "redirect" -> Put(img, r.new, img[r.old])
          [] r.type = "root"   -> Put(img, r.root, <<Entry(0, r.left), Entry(r.key, r.right)>>)
          [] r.type = "split"  -> Put([img EXCEPT ![r.src] = SubSeq(@, 1, r.pos)], r.dst,
                                      SubSeq(img[r.src], r.pos + 1, Len(img[r.src])))
          [] r.type = "add"    -> [img EXCEPT ![r.bnode] =
                                    InsertAt(@, bnode_lookup(node, r.key) + 1, Entry(r.key, r.child))]
          [] r.type = "update" -> [img EXCEPT ![r.bnode][bnode_lookup(node, r.key)].block = r.child]
          [] r.type = "merge"  -> [img EXCEPT ![r.dst] = @ \o img[r.src]]
          [] r.type = "del"    -> [img EXCEPT ![r.bnode] =
                                    SubSeq(@, 1, bnode_lookup(node, r.key) - 1)
                                    \o SubSeq(@, bnode_lookup(node, r.key) + r.count, Len(@))]
          [] r.type = "adjust" -> [img EXCEPT ![r.bnode][bnode_lookup(node, r.from)].key = r.to]

-----------------------------------------------------------------------------
(* Replaying the records of a call on the bnodes from before it yields the  *)
(* bnodes after it, entry for entry, and no assertion of replay fires on    *)
(* the way: what the log says is what btree_write() and btree_chop() did.   *)
ReplayExact ==
    op = NoOp =>
        LET img[n \in 0 .. Len(tree.log)] ==
                IF n = 0 THEN before ELSE Replay(img[n - 1], tree.log[n])
            result == img[Len(tree.log)]
        IN  /\ \A n \in DOMAIN tree.log : Replayable(img[n - 1], tree.log[n])
            /\ \A b \in DOMAIN tree.bnodes : result[b] = tree.bnodes[b]

(* Every key is found where btree_probe() leads, whatever was split, merged *)
(* and adjusted; during btree_write() also those it moves.                  *)
ProbeExact ==
    op.name \in {"none", "write"} =>
        \A key \in Keys :
            key \in keys <=> key \in tree.leaves[Last(btree_probe(tree, key)).block]

(* cursor_check() at a leaf, and "assert(bottom <= key->start &&            *)
(* key->start < limit)" on each turn of btree_write().                      *)
CursorExact ==
    LET d        == tree.root.depth
        Key(l)   == this_key(tree, l)
        Child(l) == tree.bnodes[tree.path[l].block][tree.path[l].next].block
    IN  tree.path # <<>> /\ AtLeaf =>
            /\ tree.path[1].block = tree.root.block
            /\ \A l \in 1 .. d :
                /\ tree.path[l].next \in 1 .. Len(tree.bnodes[tree.path[l].block])
                /\ Child(l) = tree.path[l + 1].block
                /\ IF tree.path[l].next = 1
                   THEN Key(l) = IF l = 1 THEN 0 ELSE Key(l - 1)
                   ELSE Key(l) > IF l = 1 THEN 0 ELSE Key(l - 1)
            /\ op.name = "write" => Key(d) <= op.start /\ op.start < next_key(tree, d)

(* No block is lost and none is freed that is in the tree: after every call *)
(* the blocks allocated are those that can be reached from the root, no     *)
(* bnode is empty, and a root of one entry stands only above a leaf.        *)
BlocksExact ==
    op = NoOp =>
        LET Children(S) == UNION {{tree.bnodes[b][i].block : i \in DOMAIN tree.bnodes[b]} : b \in S}
            level[n \in 1 .. tree.root.depth + 1] ==
                IF n = 1 THEN {tree.root.block} ELSE Children(level[n - 1])
        IN  /\ UNION {level[n] : n \in 1 .. tree.root.depth} = DOMAIN tree.bnodes
            /\ level[tree.root.depth + 1] = DOMAIN tree.leaves
            /\ \A b \in DOMAIN tree.bnodes : tree.bnodes[b] # <<>>
            /\ tree.root.depth > 1 => Len(tree.bnodes[tree.root.block]) > 1

=============================================================================
