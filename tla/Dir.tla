--------------------------------- MODULE Dir ---------------------------------
(***************************************************************************)
(* The blocks of a directory (kernel/dir.c).  An entry has the size of its *)
(* record and of its name; the record of a deleted entry is merged into    *)
(* the one before, what is free behind a name is split off for a new one.  *)
(*                                                                         *)
(* A block maps an offset to the entry that was last written there, or to  *)
(* Data when the bytes are part of a name: tux_readdir() may come back to  *)
(* an offset that is no entry any more.                                    *)
(***************************************************************************)
EXTENDS Integers, Sequences, SequencesExt, FiniteSets, FiniteSetsExt

CONSTANTS
    Names,     \* the names
    RecLen,    \* TUX_REC_LEN() of a name
    HeadLen,   \* TUX_REC_LEN(0)
    BlockSize, \* sb->blocksize
    MaxBlocks  \* bound: blocks of the directory

Offsets == 0 .. BlockSize - 1
Data == [rec |-> 0, name |-> ""]
Hole(rec) == [rec |-> rec, name |-> ""]

VARIABLES
    blocks,  \* the blocks, as many as dir->i_size says
    listing, \* a listing by tux_readdir(): f_pos, what it gave, if it is under
             \* way; history: astray, it went on from an offset in a record
    names,   \* history: the names in the directory
    stayed   \* history: the names that were there since the listing began

vars == <<blocks, listing, names, stayed>>

Pos(block, offset) == [block |-> block, offset |-> offset]
NoListing ==
    [open |-> FALSE, at |-> Pos(1, 0), given |-> <<>>, error |-> FALSE, astray |-> FALSE]

TypeOK ==
    /\ blocks \in Seq([Offsets -> [rec : 0 .. BlockSize, name : Names \union {""}]])
    /\ Len(blocks) <= MaxBlocks
    /\ listing.at \in [block : 1 .. MaxBlocks + 1, offset : Offsets]
    /\ names \subseteq Names /\ stayed \subseteq names

-----------------------------------------------------------------------------
is_deleted(entry) == entry.name = ""

(* The offsets of the entries of a block, from one of them on: next_entry() *)
Entries(b, from) ==
    LET walk[n \in 0 .. BlockSize] ==
            IF n = 0 THEN from
            ELSE LET at == walk[n - 1]
                 IN  IF at < BlockSize /\ b[at].rec > 0 THEN at + b[at].rec ELSE BlockSize
    IN  {walk[n] : n \in 0 .. BlockSize} \ {BlockSize}

(* TUX_REC_LEN() of an entry's name *)
NameLen(entry) == IF is_deleted(entry) THEN HeadLen ELSE RecLen[entry.name]

(* Where tux_create_entry() finds room for a record of reclen               *)
Room(b, reclen) ==
    {o \in Entries(b, 0) :
        /\ o <= BlockSize - reclen
        /\ \/ is_deleted(b[o]) /\ b[o].rec >= reclen
           \/ b[o].rec >= NameLen(b[o]) + reclen}

(* The entry of name at offset o: its bytes are no entries any more.        *)
Written(b, o, name, rec) ==
    [i \in Offsets |-> IF i = o THEN [rec |-> rec, name |-> name]
                       ELSE IF i \in o .. o + RecLen[name] - 1 THEN Data ELSE b[i]]

(* A new entry in the record at o, behind its name if it has one            *)
Create(b, o, name) ==
    LET behind == o + NameLen(b[o])
    IN  IF is_deleted(b[o]) THEN Written(b, o, name, b[o].rec)
        ELSE Written([b EXCEPT ![o].rec = NameLen(b[o])], behind, name, o + b[o].rec - behind)

(* tux_create_entry(): the first entry with room, or a new block            *)
tux_create_entry(bs, name) ==
    LET with == {k \in DOMAIN bs : Room(bs[k], RecLen[name]) # {}}
        k == Min(with)
    IN  IF with # {}
        THEN [bs EXCEPT ![k] = Create(@, Min(Room(@, RecLen[name])), name)]
        ELSE Append(bs, Written([i \in Offsets |-> Data], 0, name, BlockSize))

(* tux_find_entry() *)
Found(bs, name) ==
    {at \in {Pos(k, o) : k \in DOMAIN bs, o \in Offsets} :
        /\ at.offset \in Entries(bs[at.block], 0)
        /\ at.offset <= BlockSize - RecLen[name]
        /\ bs[at.block][at.offset].name = name}

(* tux_delete_entry(): the record goes to the entry before, the bytes of    *)
(* the name are cleared.                                                    *)
tux_delete_entry(b, o) ==
    LET before == {i \in Entries(b, 0) : i < o}
        cleared == [i \in Offsets |-> IF i = o THEN Hole(b[o].rec) ELSE b[i]]
    IN  IF before = {} THEN cleared
        ELSE [cleared EXCEPT ![Max(before)].rec = o + b[o].rec - Max(before)]

(* tux_dir_is_empty() of a directory without "." and ".."                   *)
tux_dir_is_empty(bs) ==
    \A k \in DOMAIN bs : \A o \in Entries(bs[k], 0) : o <= BlockSize - HeadLen => is_deleted(bs[k][o])

-----------------------------------------------------------------------------
(* tux_zero_len_error() stops the program (tux3_fs_error()). *)
Running == ~ listing.error

(* A new directory has no block. *)
Init ==
    /\ blocks = <<>>
    /\ listing = NoListing
    /\ names = {} /\ stayed = {}

(* tux_create_dirent() *)
CreateDirent ==
    \E name \in Names \ names :
        /\ Running
        /\ blocks' = tux_create_entry(blocks, name)
        /\ Len(blocks') <= MaxBlocks
        /\ names' = names \union {name}
        /\ UNCHANGED <<listing, stayed>>

(* tux_find_dirent() and tux_delete_dirent() *)
DeleteDirent ==
    \E name \in Names : \E at \in Found(blocks, name) :
        /\ Running
        /\ blocks' = [blocks EXCEPT ![at.block] = tux_delete_entry(@, at.offset)]
        /\ names' = names \ {name}
        /\ stayed' = stayed \ {name}
        /\ UNCHANGED listing

(* tux3_rename() to a new name of this directory: the old entry, found      *)
(* before, is deleted after the new one may have taken room from it.        *)
Rename ==
    \E old \in Names, new \in Names \ names : \E at \in Found(blocks, old) :
    \E bs \in {tux_create_entry(blocks, new)} :
        /\ Running
        /\ Len(bs) <= MaxBlocks
        /\ blocks' = [bs EXCEPT ![at.block] = tux_delete_entry(@, at.offset)]
        /\ names' = (names \ {old}) \union {new}
        /\ stayed' = stayed \ {old}
        /\ UNCHANGED listing

OpenDir ==
    /\ Running /\ ~ listing.open
    /\ listing' = [NoListing EXCEPT !.open = TRUE]
    /\ stayed' = names
    /\ UNCHANGED <<blocks, names>>

Before(p, q) == p.block < q.block \/ (p.block = q.block /\ p.offset < q.offset)
First(S) == CHOOSE p \in S : \A q \in S : p = q \/ Before(p, q)

(* Mutant: the next entry is taken from the next block. *)
Rest_NextBlock(live) == {p \in live : \E q \in live : q.block < p.block}

(* The entries behind the first one *)
Rest(live) == {p \in live : \E q \in live : Before(q, p)}

(* tux_readdir() with room for one entry: on from f_pos in its block, where *)
(* "revalidate" looks for an entry and takes the same offset in every case, *)
(* then through the blocks behind.  f_pos is left at the next entry with a  *)
(* name, or at the end of the directory.                                    *)
ReadDir ==
    LET at  == listing.at
        all == {Pos(at.block, o) : o \in IF at.block <= Len(blocks)
                                         THEN Entries(blocks[at.block], at.offset) ELSE {}}
               \union UNION {{Pos(k, o) : o \in Entries(blocks[k], 0)} : k \in at.block + 1 .. Len(blocks)}
        inside == at.block <= Len(blocks) /\ at.offset \notin Entries(blocks[at.block], 0)
        live == {p \in all : ~ is_deleted(blocks[p.block][p.offset])}
    IN  /\ listing.open
        /\ IF \E p \in all : p.offset <= BlockSize - HeadLen /\ blocks[p.block][p.offset] = Data
           THEN listing' = [listing EXCEPT !.error = TRUE, !.open = FALSE, !.astray = @ \/ inside]
           ELSE listing' = [listing EXCEPT
                    !.given = IF live = {} THEN @ ELSE Append(@, blocks[First(live).block][First(live).offset].name),
                    !.at = IF Rest(live) = {} THEN Pos(Len(blocks) + 1, 0) ELSE First(Rest(live)),
                    !.open = live # {}, !.astray = @ \/ inside]
        /\ UNCHANGED <<blocks, names, stayed>>

(* closedir(), or rewinddir() after the end *)
CloseDir ==
    /\ Running /\ listing # NoListing /\ ~ listing.open
    /\ listing' = NoListing
    /\ stayed' = {}
    /\ UNCHANGED <<blocks, names>>

Next == CreateDirent \/ DeleteDirent \/ Rename \/ OpenDir \/ ReadDir \/ CloseDir

Spec == Init /\ [][Next]_vars

-----------------------------------------------------------------------------
(* tux_find_entry() finds each name once and no other, and                  *)
(* tux_dir_is_empty() is right, however records were split and merged.      *)
LookupExact ==
    /\ \A name \in Names : Cardinality(Found(blocks, name)) = IF name \in names THEN 1 ELSE 0
    /\ tux_dir_is_empty(blocks) <=> names = {}

(* The records of a block follow each other to its end, each has room for   *)
(* its name, and a free record is the first of its block: no room is lost   *)
(* between two of them.                                                     *)
RecordsTile ==
    \A k \in DOMAIN blocks : \A o \in Entries(blocks[k], 0) :
        LET entry == blocks[k][o]
        IN  /\ entry.rec >= NameLen(entry) /\ o + entry.rec <= BlockSize
            /\ o + entry.rec < BlockSize => blocks[k][o + entry.rec] # Data
            /\ is_deleted(entry) => o = 0

(* A listing that goes on while the directory changes gives each name that  *)
(* stayed once and reports no error, unless an offset it came back to lay   *)
(* inside a record by then (tux_readdir(), kernel/dir.c:355).               *)
ListingExact ==
    listing # NoListing /\ ~ listing.open /\ ~ listing.astray =>
        /\ ~ listing.error
        /\ \A name \in stayed : Cardinality({i \in DOMAIN listing.given : listing.given[i] = name}) = 1

(* tux_readdir() stops the program with "zero length entry"                 *)
(* (tux_zero_len_error()) for no directory whose records are sound,         *)
(* whatever changed between its calls: its "revalidate" looks for an entry. *)
ReaddirSound == listing.error => ~ RecordsTile

=============================================================================
