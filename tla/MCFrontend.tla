----------------------------- MODULE MCFrontend -----------------------------
(***************************************************************************)
(* The objects that system calls work on, each on a small instance: the    *)
(* inodes and their life, the names and link counts, the extended          *)
(* attributes, and the pages of a file.  They share no state in this run:  *)
(* a behaviour chooses one component and takes the steps of its module,    *)
(* and the variables of the others keep their initial values.              *)
(***************************************************************************)
EXTENDS Integers, Sequences, FiniteSets, TLC

CONSTANTS
    Objs,     \* in-core inode objects
    NoObject, \* an object that holds no inode
    Pages,    \* struct page
    NoPage,   \* NULL
    MaxInum, Period, MaxNlink, MaxCount, UnifyEvery, \* Inodes
    DirInums, Root, DirNames, Callers, TUX_LINK_MAX, \* Names
    XInodes, XNames, Lens, Presents, MaxAtom, RefMod, MinAlloc, \* Xattr
    MaxDelta, Starts, Ends, MaxOps \* FilePages

ASSUME NamesAssumption ==
    /\ Root \in DirInums /\ DirInums \subseteq Nat \ {0} /\ IsFiniteSet(DirInums)
    /\ IsFiniteSet(DirNames)
    /\ TUX_LINK_MAX \in Nat /\ TUX_LINK_MAX >= 2

VARIABLES
    component,                                              \* the component that takes steps
    inode, idelta, phase, todo, cur, itree, otree, orphanDel, log, used, crudehack,
    freeinodes, nextinum, disk, front, view, ifailed,       \* Inodes
    inodes, dirs, opened, stopped, moved, surplus,          \* Names
    atable, xcache, attrs, xfailed,                         \* Xattr
    kind, pages, live, forked, psize, holes, pdtree, op, fill, pflush, pdelta, idata,
    file, snap, unpinned, raced, pbroken                           \* FilePages

in == INSTANCE Inodes WITH
        Free <- NoObject, delta <- idelta, failed <- ifailed

ASSUME InodesAssumption ==
    /\ IsFiniteSet(Objs) /\ NoObject \notin Objs /\ NoObject \notin in!InCore
    /\ MaxInum \in Nat \ {0} /\ MaxNlink \in Nat /\ MaxNlink >= 2
    /\ MaxCount \in Nat /\ UnifyEvery \in Nat \ {0}
    /\ Period \in Nat \ {0} /\ Period % 2 = 0

nm == INSTANCE Names WITH Inums <- DirInums

xa == INSTANCE Xattr WITH Inodes <- XInodes, Names <- XNames, failed <- xfailed

ASSUME XattrAssumption ==
    /\ IsFiniteSet(XInodes) /\ "" \notin XNames
    /\ Lens \subseteq Nat /\ MaxAtom \in Nat
    /\ RefMod \in Nat /\ RefMod >= 2 /\ MinAlloc \in Nat \ {0}

fp == INSTANCE FilePages WITH
        Values <- 1 .. MaxDelta,
        size <- psize, dtree <- pdtree, flush <- pflush, delta <- pdelta, broken <- pbroken

ASSUME PagesAssumption ==
    /\ NoPage \notin Pages
    /\ MaxDelta \in Nat \ {0} /\ MaxOps \in Nat
    /\ Starts \subseteq fp!Units /\ Ends \subseteq 0 .. 4

inodesVars == <<inode, idelta, phase, todo, cur, itree, otree, orphanDel, log, used, crudehack,
                freeinodes, nextinum, disk, front, view, ifailed>>
namesVars  == <<inodes, dirs, opened, stopped, moved, surplus>>
xattrVars  == <<atable, xcache, attrs, xfailed>>
pagesVars  == <<kind, pages, live, forked, psize, holes, pdtree, op, fill, pflush, pdelta, idata,
                file, snap, unpinned, raced, pbroken>>

FrontInit ==
    /\ component \in {"inodes", "names", "xattr", "pages"}
    /\ in!Init /\ nm!Init /\ xa!Init /\ fp!Init
    /\ component # "pages" => kind = "dir"

FrontNext ==
    \/ /\ component = "inodes" /\ in!Next
       /\ UNCHANGED <<component, namesVars, xattrVars, pagesVars>>
    \/ /\ component = "names" /\ nm!Next
       /\ UNCHANGED <<component, inodesVars, xattrVars, pagesVars>>
    \/ /\ component = "xattr" /\ xa!Next
       /\ UNCHANGED <<component, inodesVars, namesVars, pagesVars>>
    \/ /\ component = "pages" /\ fp!Next
       /\ UNCHANGED <<component, inodesVars, namesVars, xattrVars>>

frontVars == <<component, inodesVars, namesVars, xattrVars, pagesVars>>

FrontSpec == FrontInit /\ [][FrontNext]_frontVars

(* Inode objects are interchangeable, and so are pages. *)
FrontSymmetry == Permutations(Objs) \union Permutations(Pages)

-----------------------------------------------------------------------------
(* Each component's TypeOK goes with one of its properties.                 *)

(* Inodes!CommitExact: a commit makes durable the inodes and attributes     *)
(* that the frontend had when the delta closed, whatever it changed while   *)
(* the backend worked (kernel/writeback_iattrfork.c:4-18), and a crash then *)
(* finds exactly those without a link as orphans (kernel/orphan.c:13-16).   *)
CommitExact == component = "inodes" => in!CommitExact

(* Inodes!AssertionsHold: but for the one that set_xattr() on a directory   *)
(* can fire (kernel/writeback_iattrfork.c:151) no assertion or error return *)
(* of writeback_iattrfork.c, inode.c, orphan.c, namei.c and super.c on the  *)
(* way does, across forked attributes, reused inums and crashes.            *)
(* Inodes!InumExclusive: an inum names one in-core inode at a time; its     *)
(* reuse meets nothing of the purged one (find_free_inum()).                *)
(* Inodes!CountersExact: freeinodes and usedinodes are exact at each step,  *)
(* across deferred allocation, purge and mount (kernel/inode.c:396, 767).   *)
InodesConsistent ==
    component = "inodes" =>
        in!TypeOK /\ in!AssertionsHold /\ in!InumExclusive /\ in!CountersExact

(* Until a rename cannot delete the old name and stops the program          *)
(* (kernel/namei.c:386):                                                    *)
(* Names!LinksSafe: link counts match the names after every call and every  *)
(* other error path of kernel/namei.c; only that of a directory in which a  *)
(* rename replaced a subdirectory may be too high.                          *)
(* Names!TreeSound: the names make a tree of inodes that exist; a directory *)
(* has one name, and one that was removed is empty.                         *)
(* Names!DeletedExact: an inode without a name, unless it is such a         *)
(* directory, goes with its last file handle, not before (namei.c:288).     *)
NamesSound ==
    component = "names" /\ ~ stopped =>
        nm!TypeOK /\ nm!LinksSafe /\ nm!TreeSound /\ nm!DeletedExact

(* Names!RenameMoves: a rename that succeeded through the kernel puts the   *)
(* inode under the new name of the new directory (tux3_rename()).           *)
NamesRenameMoves ==
    [][component = "names" /\ moved' # moved /\ moved'.caller = "kernel" =>
        /\ moved'.name \in DOMAIN dirs'[moved'.dir]
        /\ dirs'[moved'.dir][moved'.name] = moved'.inum]_frontVars

(* With the SYNC flusher, the one that the programs with calls for xattrs   *)
(* have (Makefile:35), so that no call runs during a purge:                 *)
(* Xattr!RefcountExact: an atom's count, put together from its two halves,  *)
(* is the number of inodes that have it, through carries, borrows and       *)
(* purges (atomref(), kernel/xattr.c).                                      *)
(* Xattr!AtomsExact: each atom below atomgen has a name or is on the free   *)
(* list, never both; names and atoms point at each other (unatom()).        *)
(* Xattr!AttrsExact: get_xattr() and list_xattr() give what was set last,   *)
(* also after the inode was encoded and decoded (kernel/iattr.c).           *)
(* Xattr!AssertionsHold: encode_attrs() fills exactly what                  *)
(* iattr_encoded_size() reserved, and the entries fit in the xcache.        *)
XattrExact ==
    component = "xattr" =>
        xa!TypeOK /\ xa!RefcountExact /\ xa!AtomsExact /\ xa!AttrsExact /\ xa!AssertionsHold

(* FilePages!ReadExact: between system calls a read gives the file as they  *)
(* left it, whatever page was forked, flushed, reclaimed or filled again    *)
(* and whatever hole is in between (kernel/filemap_hole.c:6-13).            *)
PagesReadExact == component = "pages" => fp!ReadExact

(* FilePages!FlushExact: when the flush of a delta is done its blocks are   *)
(* the file at the end of that delta, nothing of the next one, and zero     *)
(* behind its end (kernel/buffer_fork.c:480, buffer_writeback.c:296).       *)
(* FilePages!AssertionsHold: those of kernel/buffer.c:163,                  *)
(* kernel/buffer_fork.c:176, 440, 584, kernel/buffer_writeback.c:256-268.   *)
PagesFlushExact ==
    component = "pages" => fp!TypeOK /\ fp!FlushExact /\ fp!AssertionsHold

(* FilePages!StablePages: the device never reads a block that a call        *)
(* changes meanwhile (kernel/buffer_fork.c:431).                            *)
PagesStable ==
    [][component = "pages" =>
        \A p \in DOMAIN pages \cap DOMAIN pages' : \A u \in 0 .. 3 :
            pages[p].buf[u \div 2].io /\ pages'[p].buf[u \div 2].io
                => pages'[p].data[u] = pages[p].data[u]]_frontVars
=============================================================================
