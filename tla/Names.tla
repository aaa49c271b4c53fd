-------------------------------- MODULE Names --------------------------------
(***************************************************************************)
(* Names and link counts: the operations of kernel/namei.c on directories, *)
(* called by the kernel's VFS or, through namei.c, by the handlers of      *)
(* tux3fuse.c.  A directory is a map from names to inums (its blocks are   *)
(* in Dir); an inode is its type and link count (the rest is in Inodes).   *)
(*                                                                         *)
(* The fuse session runs one handler at a time and the VFS holds the       *)
(* mutexes of the directories, so a call is one step.  What the VFS checks *)
(* before a call is the guard of each action: the name exists, or not, is  *)
(* a directory, or not, and no directory is moved below itself.            *)
(***************************************************************************)
EXTENDS Integers, FiniteSets, Functions

CONSTANTS
    Inums,        \* the inums, Root among them; 0 is none
    Root,         \* TUX_ROOTDIR_INO
    DirNames,     \* the names
    Callers,      \* who calls: "kernel", "fuse"
    TUX_LINK_MAX  \* bound of link counts

VARIABLES
    inodes,  \* inum -> type and i_nlink; NoInode if there is none
    dirs,    \* inum -> its names
    opened,  \* the inodes that a file handle refers to
    stopped, \* tux3_fs_error() has stopped the program
    moved,   \* history: the last rename that succeeded
    surplus  \* history: directories in which one subdirectory replaced another

vars == <<inodes, dirs, opened, stopped, moved, surplus>>

NoInode == [type |-> "none", nlink |-> 0]
NotMoved == [caller |-> "none", dir |-> Root, name |-> "", inum |-> 0]

TypeOK ==
    /\ inodes \in [Inums -> [type : {"none", "dir", "file"}, nlink : 0 .. TUX_LINK_MAX]]
    /\ \A d \in Inums : DOMAIN dirs[d] \subseteq DirNames /\ Range(dirs[d]) \subseteq Inums
    /\ opened \subseteq Inums /\ surplus \subseteq Inums
    /\ stopped \in BOOLEAN

-----------------------------------------------------------------------------
S_ISDIR(i) == inodes[i].type = "dir"

NamesOf(i) ==
    {p \in Inums \X DirNames : p[2] \in DOMAIN dirs[p[1]] /\ dirs[p[1]][p[2]] = i}

(* The inodes that a path leads to *)
Named(i) == i = Root \/ \E d \in Inums : \E n \in DOMAIN dirs[d] : dirs[d][n] = i

AllDirs == {d \in Inums : S_ISDIR(d) /\ Named(d)}

(* tux_find_dirent(): 0 for -ENOENT *)
Lookup(dir, name) == IF name \in DOMAIN dirs[dir] THEN dirs[dir][name] ELSE 0

Add(ds, dir, name, inum) ==
    [ds EXCEPT ![dir] = [n \in DOMAIN @ \union {name} |-> IF n = name THEN inum ELSE @[n]]]

Delete(ds, dir, name) == [ds EXCEPT ![dir] = Restrict(@, DOMAIN @ \ {name})]

(* The references of a call are dropped: iput() of an inode without links,  *)
(* which no file handle has, deletes it.                                    *)
Iput(is, open) ==
    [i \in Inums |-> IF is[i].nlink = 0 /\ i \notin open THEN NoInode ELSE is[i]]

Keep(ds, is) == [i \in Inums |-> IF is[i].type = "dir" THEN ds[i] ELSE <<>>]

(* The end of a call: directories, inodes and open files as they are then,  *)
(* and the directory whose count the call left too high                     *)
Done(ds, is, open, high) ==
    /\ inodes' = Iput(is, open)
    /\ dirs' = Keep(ds, Iput(is, open))
    /\ opened' = open
    /\ surplus' = {i \in surplus \union high : inodes'[i].type = "dir"}
    /\ UNCHANGED stopped

Init ==
    /\ inodes = [i \in Inums |-> IF i = Root THEN [type |-> "dir", nlink |-> 2] ELSE NoInode]
    /\ dirs = [i \in Inums |-> <<>>]
    /\ opened = {}
    /\ stopped = FALSE
    /\ moved = NotMoved
    /\ surplus = {}

(* __tux3_mknod() and __tux3_symlink(): without room for the name the new   *)
(* inode goes again.                                                        *)
tux3_mknod(dir, name, new, type, room, open) ==
    LET made == [inodes EXCEPT ![new] = [type |-> type, nlink |-> IF type = "dir" THEN 2 ELSE 1]]
    IN  /\ type = "dir" => inodes[dir].nlink < TUX_LINK_MAX
        /\ IF room
           THEN Done(Add(dirs, dir, name, new),
                     IF type = "dir" THEN [made EXCEPT ![dir].nlink = @ + 1] ELSE made,
                     open, {})
           ELSE Done(dirs, [made EXCEPT ![new].nlink = 0], open, {})

(* Mutant: the count stays when the name could not be added. *)
tux3_link_NoUndo(i, dir, name, room) ==
    /\ inodes[i].nlink < TUX_LINK_MAX
    /\ Done(IF room THEN Add(dirs, dir, name, i) ELSE dirs, [inodes EXCEPT ![i].nlink = @ + 1], opened, {})

(* tux3_link(): the count goes up before the name is added. *)
tux3_link(i, dir, name, room) ==
    /\ inodes[i].nlink < TUX_LINK_MAX
    /\ IF room THEN Done(Add(dirs, dir, name, i), [inodes EXCEPT ![i].nlink = @ + 1], opened, {})
       ELSE Done(dirs, inodes, opened, {})

(* tux3_unlink(): nothing changes when tux_del_dirent() fails.              *)
tux3_unlink(dir, name, deleted) ==
    IF deleted
    THEN Done(Delete(dirs, dir, name), [inodes EXCEPT ![dirs[dir][name]].nlink = @ - 1], opened, {})
    ELSE Done(dirs, inodes, opened, {})

(* tux3_rmdir() of an empty directory; nor when tux_del_dirent() fails here *)
tux3_rmdir(dir, name, deleted) ==
    /\ dirs[dirs[dir][name]] = <<>>
    /\ IF deleted
       THEN Done(Delete(dirs, dir, name),
                 [inodes EXCEPT ![dirs[dir][name]].nlink = 0, ![dir].nlink = @ - 1], opened, {})
       ELSE Done(dirs, inodes, opened, {})

(* The checks of tuxrename() and of tux3_rename() on what has the new name  *)
MayReplace(old, new) ==
    IF S_ISDIR(old) THEN S_ISDIR(new) /\ dirs[new] = <<>> ELSE ~ S_ISDIR(new)

(* The links of an inode whose name another one takes *)
Replaced(is, old, new) ==
    [is EXCEPT ![new].nlink = @ - (IF S_ISDIR(old) THEN 2 ELSE 1)]

(* The new name takes the link of a ".." when a directory comes from        *)
(* another one: not when it replaces one.                                   *)
MovedIn(is, old, old_dir, new_dir) ==
    IF S_ISDIR(old) /\ new_dir # old_dir THEN [is EXCEPT ![new_dir].nlink = @ + 1] ELSE is

MovedOut(is, old, old_dir, new_dir) ==
    IF S_ISDIR(old) /\ new_dir # old_dir THEN [is EXCEPT ![old_dir].nlink = @ - 1] ELSE is

(* What tux3_rename() checks before it changes anything                     *)
MayRename(old_dir, old_name, new_dir, new_name, room) ==
    LET old == dirs[old_dir][old_name]
        new == Lookup(new_dir, new_name)
    IN  IF new # 0 THEN MayReplace(old, new)
        ELSE room /\ (S_ISDIR(old) /\ new_dir # old_dir => inodes[new_dir].nlink < TUX_LINK_MAX)

(* tux3_rename().  When a directory replaces one, old_dir has lost a        *)
(* subdirectory and keeps the link of its "..".                             *)
tux3_rename(old_dir, old_name, new_dir, new_name, room) ==
    LET old == dirs[old_dir][old_name]
        new == Lookup(new_dir, new_name)
        named == Delete(Add(dirs, new_dir, new_name, old), old_dir, old_name)
    IN  /\ MayRename(old_dir, old_name, new_dir, new_name, room)
        /\ IF new # 0
           THEN Done(named, Replaced(inodes, old, new), opened,
                     IF S_ISDIR(old) THEN {old_dir} ELSE {})
           ELSE Done(named,
                     MovedOut(MovedIn(inodes, old, old_dir, new_dir), old, old_dir, new_dir),
                     opened, {})

(* tux3_rename() when tux_delete_dirent() fails: the inode has both names   *)
(* then, and tux3_fs_error() stops the program before the count of the      *)
(* inode goes up.                                                           *)
tux3_rename_Fails(old_dir, old_name, new_dir, new_name, room) ==
    LET old == dirs[old_dir][old_name]
        new == Lookup(new_dir, new_name)
    IN  /\ MayRename(old_dir, old_name, new_dir, new_name, room)
        /\ dirs' = Add(dirs, new_dir, new_name, old)
        /\ inodes' = IF new # 0 THEN Replaced(inodes, old, new)
                     ELSE MovedIn(inodes, old, old_dir, new_dir)
        /\ stopped' = TRUE
        /\ UNCHANGED <<opened, surplus>>

-----------------------------------------------------------------------------
(* tux3fuse_mknod(), _mkdir(), _symlink() and _create(), which opens the    *)
(* file at once (a symlink is a file here); the lowest inum that is free    *)
Mknod ==
    \E dir \in AllDirs, name \in DirNames, type \in {"dir", "file"}, open, room \in BOOLEAN :
    \E new \in {i \in Inums : inodes[i] = NoInode /\ \A j \in Inums : inodes[j] = NoInode => i <= j} :
        /\ Lookup(dir, name) = 0
        /\ open => type = "file" /\ room
        /\ tux3_mknod(dir, name, new, type, room, IF open THEN opened \union {new} ELSE opened)
        /\ moved' = NotMoved

(* tux3fuse_link() *)
Link ==
    \E dir \in AllDirs, name \in DirNames, i \in Inums, room \in BOOLEAN :
        /\ inodes[i].type = "file" /\ inodes[i].nlink > 0
        /\ Lookup(dir, name) = 0
        /\ tux3_link(i, dir, name, room)
        /\ moved' = NotMoved

(* tux3fuse_unlink() and tux3fuse_rmdir() *)
Unlink ==
    \E dir \in AllDirs, deleted \in BOOLEAN : \E name \in DOMAIN dirs[dir] :
        /\ ~ S_ISDIR(dirs[dir][name])
        /\ tux3_unlink(dir, name, deleted)
        /\ moved' = NotMoved

Rmdir ==
    \E dir \in AllDirs, deleted \in BOOLEAN : \E name \in DOMAIN dirs[dir] :
        /\ S_ISDIR(dirs[dir][name])
        /\ tux3_rmdir(dir, name, deleted)
        /\ moved' = NotMoved

(* d is below inum, or inum itself: it is in every set that has inum and    *)
(* what the directories in the set name.                                    *)
Below(inum, d) ==
    \A s \in SUBSET Inums : (inum \in s /\ \A p \in s : Range(dirs[p]) \subseteq s) => d \in s

(* Mutant: every caller has it looked up as tux3fuse_rename() does. *)
NewDir_Parent(caller, dir, newdir) == dir

(* The new directory: tux3fuse_rename() looks it up by "parent" too.        *)
NewDir(caller, dir, newdir) == IF caller = "fuse" THEN dir ELSE newdir

(* The rename of the VFS *)
Rename ==
    \E dir, newdir \in AllDirs, caller \in Callers, newname \in DirNames, room \in BOOLEAN :
    \E name \in DOMAIN dirs[dir] :
    \E to \in {NewDir(caller, dir, newdir)} :
        LET old == dirs[dir][name]
        IN  /\ Lookup(newdir, newname) # old /\ ~ Below(old, newdir)
            /\ Lookup(newdir, newname) # 0 => ~ Below(Lookup(newdir, newname), dir)
            /\ \/ /\ IF Lookup(to, newname) = old
                     THEN UNCHANGED <<inodes, dirs, opened, stopped, surplus>>
                     ELSE tux3_rename(dir, name, to, newname, room)
                  /\ moved' = [caller |-> caller, dir |-> newdir, name |-> newname, inum |-> old]
               \/ /\ Lookup(to, newname) # old
                  /\ tux3_rename_Fails(dir, name, to, newname, room)
                  /\ moved' = NotMoved

(* tux3fuse_open() and tux3fuse_release() *)
Open ==
    \E i \in Inums \ opened :
        /\ Named(i)
        /\ Done(dirs, inodes, opened \union {i}, {})
        /\ moved' = NotMoved

Release ==
    \E i \in opened :
        /\ Done(dirs, inodes, opened \ {i}, {})
        /\ moved' = NotMoved

(* Nothing runs after tux3_fs_error(): assert(0) ends the fuse server, and  *)
(* BUG() the task with the delta it holds, so that no delta ends any more.  *)
Next ==
    /\ ~ stopped
    /\ Mknod \/ Link \/ Unlink \/ Rmdir \/ Rename \/ Open \/ Release

Spec == Init /\ [][Next]_vars

-----------------------------------------------------------------------------
Subdirs(d) == {n \in DOMAIN dirs[d] : S_ISDIR(dirs[d][n])}

(* Until the program stops, and after every other error path of namei.c,    *)
(* the link count of a file is the number of its names, and that of a       *)
(* directory what its name and its subdirectories need, or 0 without a      *)
(* name.  It may be more once a subdirectory was replaced by a rename.      *)
LinksSafe ==
    \A i \in Inums : inodes[i] # NoInode =>
        IF S_ISDIR(i)
        THEN LET need == IF Named(i) THEN 2 + Cardinality(Subdirs(i)) ELSE 0
             IN  inodes[i].nlink >= need /\ (i \notin surplus => inodes[i].nlink = need)
        ELSE inodes[i].nlink = Cardinality(NamesOf(i))

(* The names lead to inodes that exist and make a tree: a directory has one *)
(* name, can be reached from the root unless it was removed, and one that   *)
(* was removed has no names left in it.                                     *)
TreeSound ==
    /\ \A d \in Inums : \A n \in DOMAIN dirs[d] : inodes[dirs[d][n]].nlink > 0
    /\ \A d \in Inums : d \in AllDirs \ {Root} =>
            Cardinality(NamesOf(d)) = 1 /\ Below(Root, d)
    /\ \A d \in Inums : ~ Named(d) => dirs[d] = <<>>

(* An inode without a name goes when its last file handle does, and not     *)
(* before: nothing is lost of one that is open, nothing stays of one that   *)
(* is not ("This iput() will schedule deletion", namei.c:288), unless it is *)
(* a directory in which a rename replaced a subdirectory.                   *)
DeletedExact ==
    \A i \in Inums :
        /\ i \in opened => inodes[i] # NoInode
        /\ inodes[i] # NoInode => Named(i) \/ i \in opened \cup surplus

(* Without the exception: what has neither a name nor a file handle is      *)
(* deleted (namei.c:288, 319).  A directory is not that lost its name to a  *)
(* rename after one of its subdirectories did (kernel/namei.c:350, 391).    *)
UnnamedGoes ==
    ~ stopped => \A i \in Inums : inodes[i] # NoInode => Named(i) \/ i \in opened

(* A rename that succeeded through the kernel puts the inode under the new  *)
(* name of the new directory, and nowhere else but under its other links.   *)
RenameMoves ==
    [][moved' # moved /\ moved'.caller = "kernel" =>
        /\ moved'.name \in DOMAIN dirs'[moved'.dir]
        /\ dirs'[moved'.dir][moved'.name] = moved'.inum]_vars

(* The same through the fuse handler: tux3fuse_rename() is given newparent  *)
(* and newname (tux3fuse.c:550).                                            *)
FuseRenameMoves ==
    [][moved' # moved /\ moved'.caller = "fuse" =>
        /\ moved'.name \in DOMAIN dirs'[moved'.dir]
        /\ dirs'[moved'.dir][moved'.name] = moved'.inum]_vars

=============================================================================
