-------------------------------- MODULE Xattr --------------------------------
(***************************************************************************)
(* Extended attributes (kernel/xattr.c) and the encoding of an inode's     *)
(* attributes (kernel/iattr.c).  The name of an attribute is an atom: a    *)
(* number that the atom table atable maps to the name, with a reference    *)
(* count and a list of free numbers.  An inode keeps its attributes in     *)
(* memory in an xcache and on disk as a run of items in its ileaf entry.   *)
(*                                                                         *)
(* The mutex of atable covers each call, so a call is one step.  A purge    *)
(* does not take it (xcache_remove_all()); it is one step because the       *)
(* programs that call set_xattr() and del_xattr(), tux3 and tux3fuse, are   *)
(* built with the SYNC flusher (Makefile:35): there a flush, which purges,  *)
(* holds delta_lock against change_begin() .. change_end() (Delta).  With   *)
(* the flush thread it is not: XattrPurge.  The directory that holds        *)
(* the names is modelled in Dir; here its entries all have one size, and an *)
(* entry is freed for the next one that is created.                         *)
(***************************************************************************)
EXTENDS Integers, Sequences, SequencesExt, FiniteSets, FiniteSetsExt, Functions

CONSTANTS
    Inodes,   \* the inodes
    Names,    \* the names of attributes
    Lens,     \* bound: the lengths of values; a value is its length
    Presents, \* the sets of fixed attributes an inode may have, of those in VAR_ATTRS
    MaxAtom,  \* bound: atoms are 1 .. MaxAtom
    RefMod,   \* 2^16: what a half of a reference count holds
    MinAlloc  \* MIN_ALLOC_SIZE of expand_xcache()

Atoms == 1 .. MaxAtom
NoXcache == [entries |-> <<>>, maxsize |-> 0]

VARIABLES
    atable, \* the names, the reverse map, the counts, sb->freeatom, sb->atomgen
    xcache, \* inode -> its entries and the size allocated; NoXcache for NULL
    attrs,  \* history: inode -> what its attributes should be
    failed  \* an assertion or an error that no call may meet

vars == <<atable, xcache, attrs, failed>>

TypeOK ==
    /\ xcache \in [Inodes -> [entries : Seq([atom : Atoms, len : Lens]), maxsize : Nat]]
    /\ atable.freeatom \in {0} \union Atoms /\ atable.atomgen \in 1 .. MaxAtom + 1
    /\ \A atom \in Atoms : atable.low[atom] \in 0 .. RefMod - 1
    /\ failed \in BOOLEAN

-----------------------------------------------------------------------------
(* Atoms *)

NoEntry == [name |-> "", atom |-> 0]
At(where)  == [free |-> FALSE, to |-> where]
Free(next) == [free |-> TRUE, to |-> next]

(* find_atom(): 0 for -ENODATA *)
find_atom(t, name) ==
    IF \E e \in Range(t.dict) : e.name = name
    THEN (CHOOSE e \in Range(t.dict) : e.name = name).atom ELSE 0

(* get_freeatom(): "something horrible happened" if the head is not free    *)
get_freeatom(t) ==
    IF t.freeatom = 0 THEN [t |-> [t EXCEPT !.atomgen = @ + 1], atom |-> t.atomgen, ok |-> TRUE]
    ELSE [t    |-> [t EXCEPT !.freeatom = t.unatom[t.freeatom].to],
          atom |-> t.freeatom,
          ok   |-> t.unatom[t.freeatom].free]

(* Where tux_create_entry() puts a name *)
Slot(t) == Min({i \in DOMAIN t.dict : t.dict[i] = NoEntry} \union {Len(t.dict) + 1})

(* make_atom(): the table and the atom *)
make_atom(t, name) ==
    LET new(g, where) ==
            [g EXCEPT !.t.dict = IF where > Len(@) THEN Append(@, [name |-> name, atom |-> g.atom])
                                 ELSE [@ EXCEPT ![where] = [name |-> name, atom |-> g.atom]],
                      !.t.unatom[g.atom] = At(where)]
    IN  IF find_atom(t, name) # 0 THEN [t |-> t, atom |-> find_atom(t, name), ok |-> TRUE]
        ELSE new(get_freeatom(t), Slot(t))

(* The last reference is gone: the atom is free and its name is deleted.    *)
Kill(t, atom) ==
    [t EXCEPT !.unatom[atom] = Free(t.freeatom),
              !.freeatom = atom,
              !.dict[t.unatom[atom].to] = NoEntry]

(* Mutant: the borrow of the high half is lost. *)
atomref_NoBorrow(t, atom, use) ==
    LET low   == t.low[atom] + use
        carry == low \div RefMod
        u     == [t EXCEPT !.low[atom] = low % RefMod,
                           !.high[atom] = IF low # 0 THEN @ + Max({carry, 0}) ELSE @]
    IN  IF low = 0 /\ u.high[atom] = 0 THEN Kill(u, atom) ELSE u

(* atomref(): the count is kept in two halves.                              *)
atomref(t, atom, use) ==
    LET low   == t.low[atom] + use
        carry == low \div RefMod
        u     == [t EXCEPT !.low[atom] = low % RefMod,
                           !.high[atom] = IF low # 0 THEN @ + carry ELSE @]
    IN  IF low = 0 /\ u.high[atom] = 0 THEN Kill(u, atom) ELSE u

(* The error paths of atomref(): "atom entry not found", "assert(high >= 0)" *)
AtomrefFails(t, atom, use) ==
    LET low  == t.low[atom] + use
        high == t.high[atom]
    IN  \/ low # 0 /\ high + low \div RefMod < 0
        \/ /\ low = 0 /\ high = 0
           /\ \/ t.unatom[atom].free
              \/ t.dict[t.unatom[atom].to].atom # atom

-----------------------------------------------------------------------------
(* The xcache of an inode *)

(* The sums of the first numbers of a sequence, none to all of them *)
Sums(sizes) ==
    LET sum[i \in 0 .. Len(sizes)] == IF i = 0 THEN 0 ELSE sum[i - 1] + sizes[i] IN sum
Total(sizes) == Sums(sizes)[Len(sizes)]

EntrySize(e) == 4 + e.len
SizeOf(entries) == Total([i \in DOMAIN entries |-> EntrySize(entries[i])])

(* xcache_lookup(): the position, 0 for -ENOATTR *)
xcache_lookup(x, atom) == Max({i \in DOMAIN x.entries : x.entries[i].atom = atom} \union {0})

(* remove_old() *)
remove_old(x, i) == IF i = 0 THEN x ELSE [x EXCEPT !.entries = RemoveAt(@, i)]

(* expand_xcache() when size is more than what is allocated *)
expand_xcache(x, size) ==
    IF size <= x.maxsize THEN x
    ELSE [x EXCEPT !.maxsize = IF @ = 0 THEN ((size + MinAlloc - 1) \div MinAlloc) * MinAlloc
                               ELSE Max({2 * @, size})]

(* The end of xcache_update() *)
Insert(x, e) == [expand_xcache(x, SizeOf(x.entries) + EntrySize(e)) EXCEPT !.entries = Append(@, e)]

(* "use": 1 for a new attribute of the inode, nothing for a replaced one    *)
Use(replaced) == IF replaced THEN 0 ELSE 1

-----------------------------------------------------------------------------
(* iattr.c: the items of an inode's ileaf entry *)

atsize == [RDEV |-> 8, MODE_OWNER |-> 12, DATA_BTREE |-> 8, CTIME_SIZE |-> 16,
           LINK_COUNT |-> 4, MTIME |-> 8, XATTR |-> 4]
VAR_ATTRS == <<"RDEV", "MODE_OWNER", "DATA_BTREE", "CTIME_SIZE", "LINK_COUNT", "MTIME">>

(* The bytes of a fixed attribute, if the inode has it, and of an immediate *)
(* xattr: kind+version:16, bytes:16, atom:16, data[bytes - 2]               *)
FixedSizes(present) ==
    [k \in DOMAIN VAR_ATTRS |-> IF VAR_ATTRS[k] \in present THEN 2 + atsize[VAR_ATTRS[k]] ELSE 0]
XattrSizes(entries) == [i \in DOMAIN entries |-> 2 + atsize["XATTR"] + entries[i].len]

(* iattr_encoded_size(): encode_asize() and encode_xsize()                  *)
iattr_encoded_size(present, x) == Total(FixedSizes(present)) + Total(XattrSizes(x.entries))

(* How many items encode_attrs() and encode_xattrs() write into the bytes:  *)
(* they stop at one where fewer than four are left.                         *)
Written(sizes, bytes) ==
    Min({i \in DOMAIN sizes : sizes[i] > 0 /\ Sums(sizes)[i - 1] >= bytes - 3}
        \union {Len(sizes) + 1}) - 1

(* iattr_encode(): the xattrs, and the bytes of all items                   *)
iattr_encode(present, x, size) ==
    LET fixed == Sums(FixedSizes(present))[Written(FixedSizes(present), size)]
        n     == Written(XattrSizes(x.entries), size - fixed)
    IN  [xattrs |-> SubSeq(x.entries, 1, n), bytes |-> fixed + Sums(XattrSizes(x.entries))[n]]

(* iattr_decode(): decode_xsize() for new_xcache(), decode_attrs() with     *)
(* decode_xattr() for each item.                                            *)
iattr_decode(xattrs) ==
    IF SizeOf(xattrs) = 0 THEN NoXcache ELSE [entries |-> xattrs, maxsize |-> SizeOf(xattrs)]

-----------------------------------------------------------------------------
(* A new atom table, inodes without attributes *)
Init ==
    /\ atable = [dict |-> <<>>, unatom |-> [a \in Atoms |-> At(0)], low |-> [a \in Atoms |-> 0],
                 high |-> [a \in Atoms |-> 0], freeatom |-> 0, atomgen |-> 1]
    /\ xcache = [i \in Inodes |-> NoXcache]
    /\ attrs = [i \in Inodes |-> <<>>]
    /\ failed = FALSE

(* set_xattr() with flags 0, XATTR_CREATE or XATTR_REPLACE: make_atom()     *)
(* first, whatever xcache_update() says then                                *)
set_xattr(inode, name, len, flags) ==
    \E g \in {make_atom(atable, name)} :
    \E at \in {xcache_lookup(xcache[inode], g.atom)} :
        /\ g.atom \in Atoms
        /\ IF (at = 0 /\ flags = "REPLACE") \/ (at # 0 /\ flags = "CREATE") \/ ~ g.ok
           THEN atable' = g.t /\ failed' = (failed \/ ~ g.ok) /\ UNCHANGED <<xcache, attrs>>
           ELSE /\ xcache' = [xcache EXCEPT ![inode] =
                                Insert(remove_old(@, at), [atom |-> g.atom, len |-> len])]
                /\ attrs' = [attrs EXCEPT ![inode] =
                                [n \in DOMAIN @ \union {name} |-> IF n = name THEN len ELSE @[n]]]
                /\ IF Use(at # 0) = 0 THEN atable' = g.t /\ UNCHANGED failed
                   ELSE /\ atable' = atomref(g.t, g.atom, Use(at # 0))
                        /\ failed' = (failed \/ AtomrefFails(g.t, g.atom, Use(at # 0)))

SetXattr == \E inode \in Inodes, name \in Names, len \in Lens, flags \in {"", "CREATE", "REPLACE"} :
                set_xattr(inode, name, len, flags)

(* del_xattr() *)
del_xattr(inode, name) ==
    \E atom \in {find_atom(atable, name)} \ {0} :
    \E at \in {xcache_lookup(xcache[inode], atom)} \ {0} :
        /\ xcache' = [xcache EXCEPT ![inode] = remove_old(@, at)]
        /\ attrs' = [attrs EXCEPT ![inode] = Restrict(@, DOMAIN @ \ {name})]
        /\ atable' = atomref(atable, atom, -1)
        /\ failed' = (failed \/ AtomrefFails(atable, atom, -1))

DelXattr == \E inode \in Inodes, name \in Names : del_xattr(inode, name)

(* The table after each atomref() of xcache_remove_all(), from the one before *)
Dropped(t, entries) ==
    LET drop[i \in 0 .. Len(entries)] ==
            IF i = 0 THEN t ELSE atomref(drop[i - 1], entries[i].atom, -1) IN drop

(* xcache_remove_all() of an inode that is purged, by a flush that excludes *)
(* the calls                                                                *)
RemoveAll ==
    \E inode \in Inodes :
        LET entries == xcache[inode].entries
            t       == Dropped(atable, entries)
        IN  /\ entries # <<>>
            /\ atable' = t[Len(entries)]
            /\ failed' = (failed \/ \E i \in DOMAIN entries :
                                        AtomrefFails(t[i - 1], entries[i].atom, -1))
            /\ xcache' = [xcache EXCEPT ![inode] = NoXcache]
            /\ attrs' = [attrs EXCEPT ![inode] = <<>>]

(* The inode is saved, leaves memory and is opened again: "assert(attr ==   *)
(* attrs + size)" of iattr_encode() on the way                              *)
Reopen ==
    \E inode \in Inodes, present \in Presents :
    \E size \in {iattr_encoded_size(present, xcache[inode])} :
    \E saved \in {iattr_encode(present, xcache[inode], size)} :
        /\ xcache' = [xcache EXCEPT ![inode] = iattr_decode(saved.xattrs)]
        /\ failed' = (failed \/ saved.bytes # size)
        /\ UNCHANGED <<atable, attrs>>

Next == SetXattr \/ DelXattr \/ RemoveAll \/ Reopen

Spec == Init /\ [][Next]_vars

-----------------------------------------------------------------------------
(* With the SYNC flusher:                                                   *)
(* An atom's count, put together from its two halves, is the number of      *)
(* inodes that have the attribute, through carries, borrows, replacements   *)
(* and purges (atomref(), xcache_update(), xcache_remove_all()).            *)
RefcountExact ==
    \A atom \in Atoms :
        atable.low[atom] + RefMod * atable.high[atom]
            = Cardinality({i \in Inodes : xcache_lookup(xcache[i], atom) # 0})

(* The atoms of a free list, from sb->freeatom on: get_freeatom() gives     *)
(* them in this order.                                                      *)
FreeList(t, list) ==
    /\ t.freeatom = IF list = <<>> THEN 0 ELSE list[1]
    /\ \A n \in DOMAIN list :
         t.unatom[list[n]] = Free(IF n = Len(list) THEN 0 ELSE list[n + 1])

(* The atoms handed out are those with a name and those on the free list,   *)
(* which ends; each name's atom points back to its entry (unatom()), no     *)
(* name has two atoms, and a free atom has no references.                   *)
AtomsExact ==
    LET live  == {i \in DOMAIN atable.dict : atable.dict[i] # NoEntry}
        named == {atable.dict[i].atom : i \in live}
    IN  /\ \E list \in UNION {[1 .. n -> Atoms] : n \in 0 .. MaxAtom} :
              /\ FreeList(atable, list)
              /\ named \union Range(list) = 1 .. atable.atomgen - 1
              /\ named \intersect Range(list) = {}
              /\ \A atom \in Range(list) : atable.low[atom] = 0 /\ atable.high[atom] = 0
        /\ \A i \in live : atable.unatom[atable.dict[i].atom] = At(i)
        /\ \A i, j \in live : atable.dict[i].name = atable.dict[j].name => i = j

(* get_xattr() of each name and the names of list_xattr() are what was set  *)
(* last, also after the inode was written and read back.                    *)
AttrsExact ==
    \A inode \in Inodes :
        LET x == xcache[inode]
        IN  /\ {atable.dict[atable.unatom[x.entries[i].atom].to].name : i \in DOMAIN x.entries}
                 = DOMAIN attrs[inode]
            /\ \A name \in DOMAIN attrs[inode] :
                LET at == xcache_lookup(x, find_atom(atable, name))
                IN  at # 0 /\ x.entries[at].len = attrs[inode][name]
            /\ Len(x.entries) = Cardinality(DOMAIN attrs[inode])

(* No call meets an assertion or a filesystem error: the size that          *)
(* iattr_encoded_size() reserved is filled exactly, a killed atom has its   *)
(* entry, a free one is marked, no half of a count goes below zero, and the *)
(* entries fit in the memory of the xcache.                                 *)
AssertionsHold ==
    /\ ~ failed
    /\ \A inode \in Inodes : SizeOf(xcache[inode].entries) <= xcache[inode].maxsize

=============================================================================
