----------------------------- MODULE NamesProofs -----------------------------
(* Proofs about Names, for any set of inums and names and any link limit:   *)
(* link counts, the tree of names and deletion are sound after every call   *)
(* of namei.c and on its error paths, until one stops the program, and a    *)
(* rename through the kernel moves the name.                                *)
(*                                                                          *)
(* A call leaves directories ds and inodes is and ends with Done(), which   *)
(* deletes what has no links.  So the proof is about ds and is: each call   *)
(* makes sound ones of sound ones, and Done() changes nothing that matters. *)
EXTENDS MCFrontend, FiniteSetTheorems, TLAPS

Types == {"none", "dir", "file"}
IsDir(is, i) == is[i].type = "dir"

(* The directories as functions from names to inums. *)
Typed(ds, is) ==
    /\ is \in [DirInums -> [type : Types, nlink : 0 .. TUX_LINK_MAX]]
    /\ ds = [d \in DirInums |-> ds[d]]
    /\ \A d \in DirInums : ds[d] \in [DOMAIN ds[d] -> DirInums] /\ DOMAIN ds[d] \subseteq DirNames

(* Names!NamesOf(), Named(), Subdirs() and Below() of directories ds. *)
NamesIn(ds, i)      == {p \in DirInums \X DirNames : p[2] \in DOMAIN ds[p[1]] /\ ds[p[1]][p[2]] = i}
NamedIn(ds, i)      == i = Root \/ \E d \in DirInums : \E n \in DOMAIN ds[d] : ds[d][n] = i
SubdirsIn(ds, is, d) == {n \in DOMAIN ds[d] : IsDir(is, ds[d][n])}
ClosedIn(ds, s)     == \A p \in s : \A n \in DOMAIN ds[p] : ds[p][n] \in s
Reaches(ds, i, d)   == \A s \in SUBSET DirInums : i \in s /\ ClosedIn(ds, s) => d \in s

(* Only directories that have a name have names in them. *)
EmptyOrNamed(ds, is) ==
    /\ \A i \in DirInums : ~ IsDir(is, i) \/ ~ NamedIn(ds, i) => ds[i] = <<>>
    /\ \A d \in DirInums : \A n \in DOMAIN ds[d] : is[ds[d][n]].type # "none"
    /\ \A i \in DirInums : is[i].type = "none" => is[i].nlink = 0

Links(ds, is) ==
    \A i \in DirInums :
        /\ is[i].type = "file" => is[i].nlink = Cardinality(NamesIn(ds, i))
        /\ IsDir(is, i) /\ NamedIn(ds, i) =>
             is[i].nlink >= 2 + Cardinality(SubdirsIn(ds, is, i))

(* The counts of directories are exact where no subdirectory was replaced.  *)
Exact(ds, is, sp) ==
    \A i \in DirInums : IsDir(is, i) /\ i \notin sp =>
        is[i].nlink = IF NamedIn(ds, i) THEN 2 + Cardinality(SubdirsIn(ds, is, i)) ELSE 0

(* The root has no name, any other directory one, and the root leads there. *)
Tree(ds, is) ==
    /\ IsDir(is, Root) /\ \A d \in DirInums : \A n \in DOMAIN ds[d] : ds[d][n] # Root
    /\ \A i \in DirInums : IsDir(is, i) /\ NamedIn(ds, i) =>
         /\ Reaches(ds, Root, i)
         /\ \A p, q \in NamesIn(ds, i) : p = q

Sound(ds, is) == Typed(ds, is) /\ EmptyOrNamed(ds, is) /\ Links(ds, is) /\ Tree(ds, is)

(* What is open exists; what has neither link nor file handle does not.     *)
OpenExact ==
    /\ \A i \in opened : inodes[i].type # "none"
    /\ \A i \in DirInums : inodes[i].type # "none" => inodes[i].nlink > 0 \/ i \in opened

NamesInv ==
    /\ Sound(dirs, inodes) /\ opened \subseteq DirInums /\ OpenExact
    /\ surplus \subseteq DirInums /\ Exact(dirs, inodes, surplus)
    /\ stopped = FALSE

(* Nothing is said of a program that tux3_fs_error() has stopped.           *)
RunInv == stopped \/ NamesInv

-----------------------------------------------------------------------------
(* The names of an inode and the subdirectories of a directory are finitely *)
(* many.                                                                    *)
LEMMA NamesFinite ==
    ASSUME NEW ds, NEW is, Typed(ds, is)
    PROVE  /\ \A i : IsFiniteSet(NamesIn(ds, i)) /\ Cardinality(NamesIn(ds, i)) \in Nat
           /\ \A d \in DirInums : /\ IsFiniteSet(SubdirsIn(ds, is, d))
                                  /\ Cardinality(SubdirsIn(ds, is, d)) \in Nat
  <1>1. IsFiniteSet(DirInums \X DirNames)
    BY NamesAssumption, FS_Product
  <1>2. ASSUME NEW i PROVE IsFiniteSet(NamesIn(ds, i)) /\ Cardinality(NamesIn(ds, i)) \in Nat
    BY <1>1, FS_Subset, FS_CardinalityType DEF NamesIn
  <1>3. ASSUME NEW d \in DirInums
        PROVE IsFiniteSet(SubdirsIn(ds, is, d)) /\ Cardinality(SubdirsIn(ds, is, d)) \in Nat
    <2>1. SubdirsIn(ds, is, d) \subseteq DirNames
      BY DEF SubdirsIn, Typed
    <2> QED
      BY <2>1, NamesAssumption, FS_Subset, FS_CardinalityType
  <1> QED
    BY <1>2, <1>3

(* Of a sound volume, what has a name has a link. *)
LEMMA NamedLinked ==
    ASSUME NEW ds, NEW is, Sound(ds, is), NEW i \in DirInums, NamedIn(ds, i)
    PROVE  is[i].nlink > 0 /\ is[i].type # "none"
  <1>1. is[i].type # "none"
    BY DEF NamedIn, Sound, EmptyOrNamed, Tree, IsDir
  <1>2. is[i].type \in Types /\ is[i].nlink \in Nat
    BY DEF Sound, Typed
  <1>3. CASE is[i].type = "dir"
    BY <1>2, <1>3, NamesFinite DEF Sound, Links, IsDir
  <1>4. CASE is[i].type = "file"
    <2>1. i # Root
      BY <1>4 DEF Sound, Tree, IsDir
    <2>2. PICK d \in DirInums : \E n \in DOMAIN ds[d] : ds[d][n] = i
      BY <2>1 DEF NamedIn
    <2>3. PICK n \in DOMAIN ds[d] : ds[d][n] = i
      BY <2>2
    <2>4. <<d, n>> \in NamesIn(ds, i)
      BY <2>3 DEF NamesIn, Sound, Typed
    <2>5. Cardinality(NamesIn(ds, i)) # 0 /\ Cardinality(NamesIn(ds, i)) \in Nat
      BY <2>4, NamesFinite, FS_EmptySet DEF Sound
    <2> QED
      BY <1>1, <1>4, <2>5 DEF Sound, Links
  <1> QED
    BY <1>1, <1>2, <1>3, <1>4 DEF Types

(* The end of a call deletes inodes and leaves the directories as the call  *)
(* left them.                                                               *)
LEMMA DoneStep ==
    ASSUME NEW ds, NEW is, NEW open, NEW high, Sound(ds, is), open \subseteq DirInums,
           \A i \in open : is[i].type # "none",
           surplus \union high \subseteq DirInums, Exact(ds, is, surplus \union high),
           stopped = FALSE, nm!Done(ds, is, open, high)
    PROVE  NamesInv' /\ dirs' = ds
  <1> DEFINE gone(i) == is[i].nlink = 0 /\ i \notin open
  <1>1. /\ inodes' = [i \in DirInums |-> IF gone(i) THEN nm!NoInode ELSE is[i]]
        /\ opened' = open
    BY DEF nm!Done, nm!Iput
  <1>2. \A i \in DirInums : gone(i) => ~ NamedIn(ds, i)
    BY NamedLinked
  <1>3. \A i \in DirInums : ~ IsDir(inodes', i) => ds[i] = <<>>
    <2> SUFFICES ASSUME NEW i \in DirInums, ~ IsDir(inodes', i) PROVE ds[i] = <<>>
      OBVIOUS
    <2>1. CASE gone(i)
      BY <1>2, <2>1 DEF Sound, EmptyOrNamed
    <2>2. CASE ~ gone(i)
      BY <1>1, <2>2 DEF Sound, EmptyOrNamed, IsDir
    <2> QED
      BY <2>1, <2>2
  <1>4. dirs' = ds
    <2>1. dirs' = [i \in DirInums |-> IF inodes'[i].type = "dir" THEN ds[i] ELSE <<>>]
      BY DEF nm!Done, nm!Keep
    <2>2. dirs' = [i \in DirInums |-> ds[i]]
      BY <1>3, <2>1 DEF IsDir
    <2> QED
      BY <2>2 DEF Sound, Typed
  <1>5. Typed(ds, inodes')
    <2>1. nm!NoInode \in [type : Types, nlink : 0 .. TUX_LINK_MAX]
      BY NamesAssumption DEF nm!NoInode, Types
    <2> QED
      BY <1>1, <2>1 DEF Sound, Typed
  <1>6. \A d \in DirInums : \A n \in DOMAIN ds[d] : inodes'[ds[d][n]] = is[ds[d][n]]
    <2> SUFFICES ASSUME NEW d \in DirInums, NEW n \in DOMAIN ds[d]
                 PROVE  inodes'[ds[d][n]] = is[ds[d][n]]
      OBVIOUS
    <2>1. ds[d][n] \in DirInums
      BY DEF Sound, Typed
    <2>2. NamedIn(ds, ds[d][n])
      BY DEF NamedIn
    <2>3. ~ gone(ds[d][n])
      BY <1>2, <2>1, <2>2
    <2> QED
      BY <1>1, <2>1, <2>3
  <1>7. EmptyOrNamed(ds, inodes')
    <2>1. \A i \in DirInums : ~ IsDir(inodes', i) \/ ~ NamedIn(ds, i) => ds[i] = <<>>
      BY <1>3 DEF Sound, EmptyOrNamed
    <2>2. \A d \in DirInums : \A n \in DOMAIN ds[d] : inodes'[ds[d][n]].type # "none"
      BY <1>6 DEF Sound, EmptyOrNamed
    <2>3. ASSUME NEW i \in DirInums, inodes'[i].type = "none" PROVE inodes'[i].nlink = 0
      <3>1. CASE gone(i)
        BY <1>1, <3>1 DEF nm!NoInode
      <3>2. CASE ~ gone(i)
        BY <1>1, <2>3, <3>2 DEF Sound, EmptyOrNamed
      <3> QED
        BY <3>1, <3>2
    <2> QED
      BY <2>1, <2>2, <2>3 DEF EmptyOrNamed
  <1>8. Links(ds, inodes')
    <2>1. \A i \in DirInums : SubdirsIn(ds, inodes', i) = SubdirsIn(ds, is, i)
      BY <1>6 DEF SubdirsIn, IsDir
    <2> QED
      BY <1>1, <2>1 DEF Sound, Links, IsDir, nm!NoInode
  <1>9. Tree(ds, inodes')
    <2>1. inodes'[Root] = is[Root]
      BY <1>1, <1>2, NamesAssumption DEF NamedIn
    <2> QED
      BY <1>1, <2>1 DEF Sound, Tree, IsDir, nm!NoInode
  <1>10. OpenExact'
    <2>1. \A i \in DirInums : is[i].nlink \in Nat
      BY DEF Sound, Typed
    <2> QED
      BY <1>1, <2>1 DEF OpenExact, nm!NoInode
  <1>11. /\ surplus' = {i \in surplus \union high : IsDir(inodes', i)}
         /\ surplus' \subseteq DirInums /\ stopped' = FALSE
    BY DEF nm!Done, IsDir
  <1>12. Exact(ds, inodes', surplus')
    <2>1. \A i \in DirInums : SubdirsIn(ds, inodes', i) = SubdirsIn(ds, is, i)
      BY <1>6 DEF SubdirsIn, IsDir
    <2>2. ASSUME NEW i \in DirInums, IsDir(inodes', i), i \notin surplus'
          PROVE  /\ inodes'[i] = is[i] /\ IsDir(is, i) /\ i \notin surplus \union high
      BY <1>1, <1>11, <2>2 DEF IsDir, nm!NoInode
    <2> QED
      BY <2>1, <2>2 DEF Exact
  <1> QED
    BY <1>1, <1>4, <1>5, <1>7, <1>8, <1>9, <1>10, <1>11, <1>12 DEF NamesInv, Sound

-----------------------------------------------------------------------------
(* What Add() and Delete() make of a directory. *)
LEMMA AddEffect ==
    ASSUME NEW ds, NEW is, Typed(ds, is), NEW dir \in DirInums, NEW name \in DirNames,
           NEW inum \in DirInums, NEW ds2, ds2 = nm!Add(ds, dir, name, inum)
    PROVE  /\ Typed(ds2, is)
           /\ \A d \in DirInums \ {dir} : ds2[d] = ds[d]
           /\ DOMAIN ds2[dir] = DOMAIN ds[dir] \union {name}
           /\ ds2[dir][name] = inum
           /\ \A n \in DOMAIN ds[dir] \ {name} : ds2[dir][n] = ds[dir][n]
  <1>1. ds2 = [ds EXCEPT ![dir] =
                 [n \in DOMAIN ds[dir] \union {name} |-> IF n = name THEN inum ELSE ds[dir][n]]]
    BY DEF nm!Add
  <1>2. ds2 = [d \in DirInums |-> ds2[d]] /\ \A d \in DirInums \ {dir} : ds2[d] = ds[d]
    BY <1>1 DEF Typed
  <1>3. ds2[dir] = [n \in DOMAIN ds[dir] \union {name} |-> IF n = name THEN inum ELSE ds[dir][n]]
    BY <1>1 DEF Typed
  <1>4. ds2[dir] \in [DOMAIN ds2[dir] -> DirInums] /\ DOMAIN ds2[dir] \subseteq DirNames
    <2>1. ds[dir] \in [DOMAIN ds[dir] -> DirInums] /\ DOMAIN ds[dir] \subseteq DirNames
      BY DEF Typed
    <2> QED
      BY <1>3, <2>1
  <1>5. Typed(ds2, is)
    BY <1>2, <1>4 DEF Typed
  <1> QED
    BY <1>2, <1>3, <1>5

LEMMA DeleteEffect ==
    ASSUME NEW ds, NEW is, Typed(ds, is), NEW dir \in DirInums, NEW name,
           NEW ds2, ds2 = nm!Delete(ds, dir, name)
    PROVE  /\ Typed(ds2, is)
           /\ \A d \in DirInums \ {dir} : ds2[d] = ds[d]
           /\ DOMAIN ds2[dir] = DOMAIN ds[dir] \ {name}
           /\ \A n \in DOMAIN ds2[dir] : ds2[dir][n] = ds[dir][n]
  <1>1. ds2 = [ds EXCEPT ![dir] = [n \in DOMAIN ds[dir] \ {name} |-> ds[dir][n]]]
    BY DEF nm!Delete, nm!Restrict
  <1>2. ds2 = [d \in DirInums |-> ds2[d]] /\ \A d \in DirInums \ {dir} : ds2[d] = ds[d]
    BY <1>1 DEF Typed
  <1>3. ds2[dir] = [n \in DOMAIN ds[dir] \ {name} |-> ds[dir][n]]
    BY <1>1 DEF Typed
  <1>4. ds2[dir] \in [DOMAIN ds2[dir] -> DirInums] /\ DOMAIN ds2[dir] \subseteq DirNames
    <2>1. ds[dir] \in [DOMAIN ds[dir] -> DirInums] /\ DOMAIN ds[dir] \subseteq DirNames
      BY DEF Typed
    <2> QED
      BY <1>3, <2>1
  <1>5. Typed(ds2, is)
    BY <1>2, <1>4 DEF Typed
  <1> QED
    BY <1>2, <1>3, <1>5

(* A directory is one that has a name. *)
LEMMA DirNamed ==
    ASSUME NamesInv
    PROVE  /\ \A i : nm!Named(i) <=> NamedIn(dirs, i)
           /\ \A i : nm!NamesOf(i) = NamesIn(dirs, i)
           /\ \A d \in nm!AllDirs : d \in DirInums /\ IsDir(inodes, d) /\ NamedIn(dirs, d)
           /\ \A d, n : nm!Lookup(d, n) = IF n \in DOMAIN dirs[d] THEN dirs[d][n] ELSE 0
  BY DEF nm!Named, NamedIn, nm!NamesOf, NamesIn, nm!AllDirs, nm!S_ISDIR, IsDir, nm!Lookup

(* A name is one of an inode that exists, in a directory that has a name.   *)
LEMMA NameTarget ==
    ASSUME NEW ds, NEW is, Sound(ds, is), NEW d \in DirInums, NEW n \in DOMAIN ds[d]
    PROVE  /\ ds[d][n] \in DirInums /\ n \in DirNames /\ ds[d][n] # Root
           /\ NamedIn(ds, ds[d][n]) /\ <<d, n>> \in NamesIn(ds, ds[d][n])
           /\ is[ds[d][n]].type \in {"dir", "file"}
           /\ IsDir(is, d) /\ NamedIn(ds, d)
  <1>1. ds[d] # <<>>
    OBVIOUS
  <1> QED
    BY <1>1 DEF Sound, Typed, EmptyOrNamed, Tree, NamedIn, NamesIn, Types

(* __tux3_mknod(): the new inode has its one name, its parent one more.     *)
LEMMA MknodStep ==
    ASSUME NamesInv, nm!Mknod
    PROVE  NamesInv'
  <1>1. PICK dir \in nm!AllDirs, name \in DirNames, type \in {"dir", "file"},
             open \in BOOLEAN, room \in BOOLEAN,
             new \in {i \in DirInums : inodes[i] = nm!NoInode /\
                                    \A j \in DirInums : inodes[j] = nm!NoInode => i <= j} :
          /\ nm!Lookup(dir, name) = 0 /\ (open => type = "file" /\ room)
          /\ nm!tux3_mknod(dir, name, new, type, room,
                           IF open THEN opened \union {new} ELSE opened)
    BY DEF nm!Mknod
  <1> DEFINE made == [inodes EXCEPT ![new] = [type |-> type, nlink |-> IF type = "dir" THEN 2 ELSE 1]]
             ds == nm!Add(dirs, dir, name, new)
             is == IF type = "dir" THEN [made EXCEPT ![dir].nlink = @ + 1] ELSE made
             unmade == [made EXCEPT ![new].nlink = 0]
             open2 == IF open THEN opened \union {new} ELSE opened
  <1>t. /\ Sound(dirs, inodes) /\ Typed(dirs, inodes) /\ EmptyOrNamed(dirs, inodes)
        /\ Links(dirs, inodes) /\ Tree(dirs, inodes)
        /\ opened \subseteq DirInums /\ \A i \in opened : inodes[i].type # "none"
        /\ Exact(dirs, inodes, surplus) /\ surplus \subseteq DirInums /\ stopped = FALSE
        /\ surplus \union {} = surplus
    BY DEF NamesInv, Sound, OpenExact
  <1>d. dir \in DirInums /\ IsDir(inodes, dir) /\ NamedIn(dirs, dir)
    BY <1>1, DirNamed
  <1>n. /\ new \in DirInums /\ inodes[new].type = "none" /\ inodes[new].nlink = 0
        /\ new # dir /\ new # Root /\ ~ NamedIn(dirs, new) /\ dirs[new] = <<>>
        /\ NamesIn(dirs, new) = {}
    <2>1. new \in DirInums /\ inodes[new].type = "none" /\ inodes[new].nlink = 0
      BY DEF nm!NoInode
    <2>2. ~ NamedIn(dirs, new)
      BY <1>t, <2>1, NamedLinked
    <2>3. NamesIn(dirs, new) = {}
      BY <2>2 DEF NamesIn, NamedIn
    <2>4. dirs[new] = <<>>
      BY <1>t, <2>1, <2>2 DEF EmptyOrNamed
    <2> QED
      BY <1>t, <1>d, <2>1, <2>2, <2>3, <2>4 DEF Tree, IsDir
  <1>a. name \notin DOMAIN dirs[dir]
    <2>1. ASSUME name \in DOMAIN dirs[dir] PROVE dirs[dir][name] # 0
      BY <1>t, <1>d, <2>1, NamesAssumption DEF Typed
    <2> QED
      BY <1>1, <2>1, DirNamed
  <1>o. open2 \subseteq DirInums /\ new \notin opened
    BY <1>t, <1>n
  <1>2. CASE room
    <2>1. nm!Done(ds, is, open2, {}) /\ (type = "dir" => inodes[dir].nlink < TUX_LINK_MAX)
      BY <1>1, <1>2 DEF nm!tux3_mknod
    <2>i. /\ \A i \in DirInums : is[i].type = IF i = new THEN type ELSE inodes[i].type
          /\ is[new].nlink = IF type = "dir" THEN 2 ELSE 1
          /\ is[dir].nlink = inodes[dir].nlink + IF type = "dir" THEN 1 ELSE 0
          /\ \A i \in DirInums \ {new, dir} : is[i] = inodes[i]
          /\ is \in [DirInums -> [type : Types, nlink : 0 .. TUX_LINK_MAX]]
      <3>1. inodes \in [DirInums -> [type : Types, nlink : 0 .. TUX_LINK_MAX]]
        BY <1>t DEF Typed
      <3>2. made \in [DirInums -> [type : Types, nlink : 0 .. TUX_LINK_MAX]]
        BY <1>n, <3>1, NamesAssumption DEF Types
      <3>3. CASE type = "dir"
        <4>1. made[dir] = inodes[dir] /\ made[new] = [type |-> "dir", nlink |-> 2]
          BY <1>d, <1>n, <3>1, <3>3
        <4>2. is = [made EXCEPT ![dir] = [made[dir] EXCEPT !.nlink = made[dir].nlink + 1]]
          BY <1>d, <3>2, <3>3
        <4>3. made[dir].type \in Types /\ made[dir].nlink + 1 \in 0 .. TUX_LINK_MAX
          BY <1>d, <2>1, <3>1, <3>3, <4>1, NamesAssumption
        <4>4. is \in [DirInums -> [type : Types, nlink : 0 .. TUX_LINK_MAX]]
          BY <1>d, <3>2, <4>2, <4>3
        <4> HIDE DEF is
        <4>5. /\ is[dir].type = inodes[dir].type /\ is[dir].nlink = inodes[dir].nlink + 1
              /\ \A i \in DirInums \ {dir} : is[i] = made[i]
          BY <1>d, <3>2, <4>1, <4>2
        <4>6. \A i \in DirInums \ {new} : made[i] = inodes[i]
          BY <3>1
        <4> QED
          BY <1>d, <1>n, <3>3, <4>1, <4>4, <4>5, <4>6
      <3>4. CASE type = "file"
        BY <1>d, <1>n, <2>1, <3>1, <3>2, <3>4, NamesAssumption DEF Types
      <3> QED
        BY <3>3, <3>4
    <2>e. /\ Typed(ds, inodes)
          /\ \A d \in DirInums \ {dir} : ds[d] = dirs[d]
          /\ DOMAIN ds[dir] = DOMAIN dirs[dir] \union {name}
          /\ ds[dir][name] = new
          /\ \A n \in DOMAIN dirs[dir] : ds[dir][n] = dirs[dir][n]
      BY <1>t, <1>d, <1>n, <1>a, AddEffect
    <2> HIDE DEF ds, is
    <2>3. Typed(ds, is)
      BY <2>i, <2>e DEF Typed
    <2>4. /\ \A i \in DirInums \ {new} : NamedIn(ds, i) <=> NamedIn(dirs, i)
          /\ \A i \in DirInums \ {new} : NamesIn(ds, i) = NamesIn(dirs, i)
          /\ NamesIn(ds, new) = {<<dir, name>>}
      <3>1. \A i \in DirInums \ {new} : NamedIn(ds, i) <=> NamedIn(dirs, i)
        BY <1>d, <2>e DEF NamedIn
      <3>2. \A p \in DirInums \X DirNames :
              p \in NamesIn(ds, new) <=> p = <<dir, name>>
        <4> SUFFICES ASSUME NEW d \in DirInums, NEW n \in DirNames
                     PROVE  <<d, n>> \in NamesIn(ds, new) <=> <<d, n>> = <<dir, name>>
          OBVIOUS
        <4>1. ~ (n \in DOMAIN dirs[d] /\ dirs[d][n] = new)
          BY <1>n DEF NamedIn
        <4> QED
          BY <1>d, <1>a, <2>e, <4>1 DEF NamesIn
      <3>3. \A i \in DirInums \ {new} : NamesIn(ds, i) = NamesIn(dirs, i)
        BY <1>d, <1>a, <2>e DEF NamesIn
      <3>4. NamesIn(ds, new) \subseteq DirInums \X DirNames /\ <<dir, name>> \in DirInums \X DirNames
        BY <1>d DEF NamesIn
      <3>5. NamesIn(ds, new) = {<<dir, name>>}
        BY <3>2, <3>4
      <3> QED
        BY <3>1, <3>3, <3>5
    <2>5. EmptyOrNamed(ds, is)
      <3>1. ASSUME NEW i \in DirInums, ~ IsDir(is, i) \/ ~ NamedIn(ds, i) PROVE ds[i] = <<>>
        BY <1>t, <1>d, <1>n, <2>i, <2>e, <2>4, <3>1 DEF EmptyOrNamed, IsDir
      <3>2. ASSUME NEW d \in DirInums, NEW n \in DOMAIN ds[d] PROVE is[ds[d][n]].type # "none"
        <4>1. CASE d = dir /\ n = name
          BY <1>n, <2>i, <2>e, <4>1
        <4>2. CASE ~ (d = dir /\ n = name)
          <5>1. n \in DOMAIN dirs[d] /\ ds[d][n] = dirs[d][n]
            BY <2>e, <3>2, <4>2
          <5>2. dirs[d][n] \in DirInums /\ inodes[dirs[d][n]].type # "none"
            BY <1>t, <5>1 DEF EmptyOrNamed, Typed
          <5> QED
            BY <2>i, <5>1, <5>2
        <4> QED
          BY <4>1, <4>2
      <3>3. ASSUME NEW i \in DirInums, is[i].type = "none" PROVE is[i].nlink = 0
        BY <1>t, <1>d, <1>n, <2>i, <3>3 DEF EmptyOrNamed, IsDir
      <3> QED
        BY <3>1, <3>2, <3>3 DEF EmptyOrNamed
    <2>s. /\ \A d \in DirInums \ {dir} : d # new => SubdirsIn(ds, is, d) = SubdirsIn(dirs, inodes, d)
          /\ Cardinality(SubdirsIn(ds, is, dir)) =
               Cardinality(SubdirsIn(dirs, inodes, dir)) + IF type = "dir" THEN 1 ELSE 0
          /\ SubdirsIn(ds, is, new) = {}
      <3>2. \A d \in DirInums : \A n \in DOMAIN dirs[d] : IsDir(is, dirs[d][n]) <=> IsDir(inodes, dirs[d][n])
        <4> SUFFICES ASSUME NEW d \in DirInums, NEW n \in DOMAIN dirs[d]
                     PROVE  IsDir(is, dirs[d][n]) <=> IsDir(inodes, dirs[d][n])
          OBVIOUS
        <4>1. dirs[d][n] \in DirInums /\ dirs[d][n] # new
          BY <1>t, <1>n, NameTarget
        <4> QED
          BY <2>i, <4>1 DEF IsDir
      <3>3. \A d \in DirInums \ {dir} : SubdirsIn(ds, is, d) = SubdirsIn(dirs, inodes, d)
        BY <2>e, <3>2 DEF SubdirsIn
      <3>4. SubdirsIn(ds, is, dir) = SubdirsIn(dirs, inodes, dir) \union
                                       (IF type = "dir" THEN {name} ELSE {})
        <4>1. IsDir(is, new) <=> type = "dir"
          BY <1>n, <2>i DEF IsDir
        <4> QED
          BY <1>d, <2>e, <3>2, <4>1 DEF SubdirsIn
      <3>5. name \notin SubdirsIn(dirs, inodes, dir)
        BY <1>a DEF SubdirsIn
      <3>6. Cardinality(SubdirsIn(ds, is, dir)) =
              Cardinality(SubdirsIn(dirs, inodes, dir)) + IF type = "dir" THEN 1 ELSE 0
        <4>1. /\ IsFiniteSet(SubdirsIn(dirs, inodes, dir))
              /\ Cardinality(SubdirsIn(dirs, inodes, dir)) \in Nat
          BY <1>t, <1>d, NamesFinite
        <4>2. CASE type = "dir"
          BY <3>4, <3>5, <4>1, <4>2, FS_AddElement
        <4>3. CASE type # "dir"
          BY <3>4, <4>1, <4>3
        <4> QED
          BY <4>2, <4>3
      <3>7. SubdirsIn(ds, is, new) = {}
        BY <1>n, <2>e DEF SubdirsIn
      <3> QED
        BY <3>3, <3>6, <3>7
    <2>6. Links(ds, is)
      <3>1. ASSUME NEW i \in DirInums, is[i].type = "file"
            PROVE  is[i].nlink = Cardinality(NamesIn(ds, i))
        <4>1. CASE i = new
          BY <2>i, <2>4, <3>1, <4>1, FS_Singleton
        <4>2. CASE i # new
          BY <1>t, <1>d, <2>i, <2>4, <3>1, <4>2 DEF Links, IsDir
        <4> QED
          BY <4>1, <4>2
      <3>8. ASSUME NEW i \in DirInums, IsDir(is, i), NamedIn(ds, i)
            PROVE  is[i].nlink >= 2 + Cardinality(SubdirsIn(ds, is, i))
        <4>1. CASE i = new
          <5>1. Cardinality(SubdirsIn(ds, is, i)) = 0
            BY <2>s, <4>1, FS_EmptySet
          <5>2. is[i].nlink = 2
            BY <1>n, <2>i, <3>8, <4>1 DEF IsDir
          <5> QED
            BY <5>1, <5>2
        <4>2. CASE i = dir
          <5>1. inodes[dir].nlink >= 2 + Cardinality(SubdirsIn(dirs, inodes, dir))
            BY <1>t, <1>d DEF Links
          <5>2. inodes[dir].nlink \in Nat /\ Cardinality(SubdirsIn(dirs, inodes, dir)) \in Nat
            BY <1>t, <1>d, NamesFinite DEF Typed
          <5>3. type \in {"dir", "file"}
            OBVIOUS
          <5> QED
            BY <2>i, <2>s, <4>2, <5>1, <5>2, <5>3
        <4>3. CASE i \notin {new, dir}
          BY <1>t, <2>i, <2>4, <2>s, <3>8, <4>3 DEF Links, IsDir
        <4> QED
          BY <4>1, <4>2, <4>3
      <3> QED
        BY <3>1, <3>8 DEF Links
    <2>7. Tree(ds, is)
      <3>1. \A s \in SUBSET DirInums : ClosedIn(ds, s) => ClosedIn(dirs, s) /\ (dir \in s => new \in s)
        BY <2>e, <1>d, <1>a DEF ClosedIn
      <3>2. \A i \in DirInums : Reaches(dirs, Root, i) => Reaches(ds, Root, i)
        BY <3>1 DEF Reaches
      <3>3. Reaches(dirs, Root, dir)
        BY <1>t, <1>d DEF Tree
      <3>4. Reaches(ds, Root, new)
        BY <3>1, <3>3 DEF Reaches
      <3>5. ASSUME NEW i \in DirInums, IsDir(is, i), NamedIn(ds, i)
            PROVE  Reaches(ds, Root, i) /\ \A p, q \in NamesIn(ds, i) : p = q
        BY <1>t, <2>i, <2>4, <3>2, <3>4, <3>5 DEF Tree, IsDir
      <3>6. \A d \in DirInums : \A n \in DOMAIN ds[d] : ds[d][n] # Root
        BY <1>t, <1>d, <1>n, <2>e DEF Tree
      <3>7. IsDir(is, Root)
        BY <1>t, <1>n, <2>i, NamesAssumption DEF Tree, IsDir
      <3> QED
        BY <3>5, <3>6, <3>7 DEF Tree
    <2>8. \A i \in open2 : is[i].type # "none"
      BY <1>t, <1>n, <2>i
    <2>9. Exact(ds, is, surplus)
      <3>1. ASSUME NEW i \in DirInums, IsDir(is, i), i \notin surplus
            PROVE  is[i].nlink = IF NamedIn(ds, i) THEN 2 + Cardinality(SubdirsIn(ds, is, i)) ELSE 0
        <4>1. CASE i = new
          <5>1. Cardinality(SubdirsIn(ds, is, i)) = 0
            BY <2>s, <4>1, FS_EmptySet
          <5>2. is[i].nlink = 2 /\ NamedIn(ds, i)
            BY <1>d, <1>n, <2>i, <2>e, <3>1, <4>1 DEF IsDir, NamedIn
          <5> QED
            BY <5>1, <5>2
        <4>2. CASE i = dir
          <5>1. inodes[dir].nlink = 2 + Cardinality(SubdirsIn(dirs, inodes, dir))
            BY <1>t, <1>d, <3>1, <4>2 DEF Exact
          <5>2. inodes[dir].nlink \in Nat /\ Cardinality(SubdirsIn(dirs, inodes, dir)) \in Nat
            BY <1>t, <1>d, NamesFinite DEF Typed
          <5>3. type \in {"dir", "file"} /\ NamedIn(ds, dir)
            BY <1>d, <1>n, <2>4
          <5> QED
            BY <2>i, <2>s, <4>2, <5>1, <5>2, <5>3
        <4>3. CASE i \notin {new, dir}
          BY <1>t, <2>i, <2>4, <2>s, <3>1, <4>3 DEF Exact, IsDir
        <4> QED
          BY <4>1, <4>2, <4>3
      <3> QED
        BY <3>1 DEF Exact
    <2> QED
      BY <1>o, <1>t, <2>1, <2>3, <2>5, <2>6, <2>7, <2>8, <2>9, DoneStep DEF Sound
  <1>3. CASE ~ room
    <2>1. nm!Done(dirs, unmade, opened, {})
      BY <1>1, <1>3 DEF nm!tux3_mknod
    <2>2. /\ \A i \in DirInums : unmade[i].type = IF i = new THEN type ELSE inodes[i].type
          /\ unmade[new].nlink = 0
          /\ \A i \in DirInums \ {new} : unmade[i] = inodes[i]
          /\ unmade \in [DirInums -> [type : Types, nlink : 0 .. TUX_LINK_MAX]]
      <3>1. inodes \in [DirInums -> [type : Types, nlink : 0 .. TUX_LINK_MAX]]
        BY <1>t DEF Typed
      <3> QED
        BY <1>n, <3>1, NamesAssumption DEF Types
    <2> HIDE DEF unmade
    <2>3. Typed(dirs, unmade) /\ EmptyOrNamed(dirs, unmade)
      BY <1>t, <1>n, <2>2 DEF Typed, EmptyOrNamed, IsDir
    <2>s. \A d \in DirInums : SubdirsIn(dirs, unmade, d) = SubdirsIn(dirs, inodes, d)
      <3> SUFFICES ASSUME NEW d \in DirInums, NEW n \in DOMAIN dirs[d]
                   PROVE  IsDir(unmade, dirs[d][n]) <=> IsDir(inodes, dirs[d][n])
        BY DEF SubdirsIn
      <3>1. dirs[d][n] \in DirInums /\ dirs[d][n] # new
        BY <1>t, <1>n, NameTarget
      <3> QED
        BY <2>2, <3>1 DEF IsDir
    <2>4. Links(dirs, unmade)
      BY <1>t, <1>n, <2>2, <2>s, FS_EmptySet DEF Links, IsDir
    <2>5. Tree(dirs, unmade)
      BY <1>t, <1>n, <2>2, NamesAssumption DEF Tree, IsDir
    <2>6. \A i \in opened : unmade[i].type # "none"
      BY <1>t, <1>n, <2>2
    <2>7. Exact(dirs, unmade, surplus)
      BY <1>t, <1>n, <2>2, <2>s DEF Exact, IsDir
    <2> QED
      BY <1>t, <2>1, <2>3, <2>4, <2>5, <2>6, <2>7, DoneStep DEF Sound
  <1> QED
    BY <1>2, <1>3

(* tux3_link(): the file has one more name and one more link, or neither.   *)
LEMMA LinkStep ==
    ASSUME NamesInv, nm!Link
    PROVE  NamesInv'
  <1>1. PICK dir \in nm!AllDirs, name \in DirNames, x \in DirInums, room \in BOOLEAN :
          /\ inodes[x].type = "file" /\ nm!Lookup(dir, name) = 0
          /\ nm!tux3_link(x, dir, name, room)
    BY DEF nm!Link
  <1> DEFINE ds == nm!Add(dirs, dir, name, x)
             is == [inodes EXCEPT ![x].nlink = @ + 1]
  <1>t. /\ Sound(dirs, inodes) /\ Typed(dirs, inodes) /\ EmptyOrNamed(dirs, inodes)
        /\ Links(dirs, inodes) /\ Tree(dirs, inodes)
        /\ opened \subseteq DirInums /\ \A i \in opened : inodes[i].type # "none"
        /\ Exact(dirs, inodes, surplus) /\ surplus \subseteq DirInums /\ stopped = FALSE
        /\ surplus \union {} = surplus
    BY DEF NamesInv, Sound, OpenExact
  <1>d. dir \in DirInums /\ IsDir(inodes, dir) /\ NamedIn(dirs, dir) /\ x # dir /\ x # Root
    BY <1>1, <1>t, DirNamed DEF IsDir, Tree
  <1>a. name \notin DOMAIN dirs[dir]
    <2>1. ASSUME name \in DOMAIN dirs[dir] PROVE dirs[dir][name] # 0
      BY <1>t, <1>d, <2>1, NamesAssumption DEF Typed
    <2> QED
      BY <1>1, <2>1, DirNamed
  <1>2. CASE ~ room
    BY <1>1, <1>2, <1>t, DoneStep DEF nm!tux3_link
  <1>3. CASE room
    <2>1. nm!Done(ds, is, opened, {}) /\ inodes[x].nlink < TUX_LINK_MAX
      BY <1>1, <1>3 DEF nm!tux3_link
    <2>i. /\ \A i \in DirInums : is[i].type = inodes[i].type
          /\ is[x].nlink = inodes[x].nlink + 1
          /\ \A i \in DirInums \ {x} : is[i] = inodes[i]
          /\ is \in [DirInums -> [type : Types, nlink : 0 .. TUX_LINK_MAX]]
      BY <1>t, <2>1, NamesAssumption DEF Typed
    <2>e. /\ Typed(ds, inodes)
          /\ \A d \in DirInums \ {dir} : ds[d] = dirs[d]
          /\ DOMAIN ds[dir] = DOMAIN dirs[dir] \union {name}
          /\ ds[dir][name] = x
          /\ \A n \in DOMAIN dirs[dir] : ds[dir][n] = dirs[dir][n]
      BY <1>t, <1>d, <1>a, AddEffect
    <2> HIDE DEF ds, is
    <2>3. Typed(ds, is)
      BY <2>i, <2>e DEF Typed
    <2>4. /\ \A i \in DirInums \ {x} : NamedIn(ds, i) <=> NamedIn(dirs, i)
          /\ \A i \in DirInums \ {x} : NamesIn(ds, i) = NamesIn(dirs, i)
          /\ NamesIn(ds, x) = NamesIn(dirs, x) \union {<<dir, name>>}
          /\ <<dir, name>> \notin NamesIn(dirs, x)
      <3>1. \A i \in DirInums \ {x} : NamedIn(ds, i) <=> NamedIn(dirs, i)
        BY <1>d, <2>e DEF NamedIn
      <3>2. \A i \in DirInums \ {x} : NamesIn(ds, i) = NamesIn(dirs, i)
        BY <1>d, <1>a, <2>e DEF NamesIn
      <3>3. NamesIn(ds, x) = NamesIn(dirs, x) \union {<<dir, name>>}
        BY <1>d, <1>a, <2>e DEF NamesIn
      <3>4. <<dir, name>> \notin NamesIn(dirs, x)
        BY <1>a DEF NamesIn
      <3> QED
        BY <3>1, <3>2, <3>3, <3>4
    <2>s. \A d \in DirInums : SubdirsIn(ds, is, d) = SubdirsIn(dirs, inodes, d)
      <3>1. \A d \in DirInums : \A n \in DOMAIN dirs[d] : dirs[d][n] \in DirInums
        BY <1>t DEF Typed
      <3>2. ~ IsDir(is, x) /\ \A i \in DirInums : IsDir(is, i) <=> IsDir(inodes, i)
        BY <1>1, <2>i DEF IsDir
      <3> QED
        BY <1>d, <2>e, <3>1, <3>2 DEF SubdirsIn
    <2>5. EmptyOrNamed(ds, is)
      <3>1. ASSUME NEW i \in DirInums, ~ IsDir(is, i) \/ ~ NamedIn(ds, i) PROVE ds[i] = <<>>
        BY <1>1, <1>t, <1>d, <2>i, <2>e, <2>4, <3>1 DEF EmptyOrNamed, IsDir
      <3>2. ASSUME NEW d \in DirInums, NEW n \in DOMAIN ds[d] PROVE is[ds[d][n]].type # "none"
        <4>1. CASE d = dir /\ n = name
          BY <1>1, <2>i, <2>e, <4>1
        <4>2. CASE ~ (d = dir /\ n = name)
          <5>1. n \in DOMAIN dirs[d] /\ ds[d][n] = dirs[d][n]
            BY <2>e, <3>2, <4>2
          <5>2. dirs[d][n] \in DirInums /\ inodes[dirs[d][n]].type # "none"
            BY <1>t, <5>1 DEF EmptyOrNamed, Typed
          <5> QED
            BY <2>i, <5>1, <5>2
        <4> QED
          BY <4>1, <4>2
      <3>3. ASSUME NEW i \in DirInums, is[i].type = "none" PROVE is[i].nlink = 0
        BY <1>1, <1>t, <2>i, <3>3 DEF EmptyOrNamed
      <3> QED
        BY <3>1, <3>2, <3>3 DEF EmptyOrNamed
    <2>6. Links(ds, is)
      <3>1. is[x].nlink = Cardinality(NamesIn(ds, x))
        <4>1. Cardinality(NamesIn(ds, x)) = Cardinality(NamesIn(dirs, x)) + 1
          BY <1>t, <2>4, NamesFinite, FS_AddElement
        <4> QED
          BY <1>1, <1>t, <2>i, <4>1 DEF Links
      <3>2. ~ IsDir(is, x)
        BY <1>1, <2>i DEF IsDir
      <3> QED
        BY <1>t, <2>i, <2>4, <2>s, <3>1, <3>2 DEF Links, IsDir
    <2>7. Tree(ds, is)
      <3>1. \A s \in SUBSET DirInums : ClosedIn(ds, s) => ClosedIn(dirs, s)
        BY <2>e, <1>d, <1>a DEF ClosedIn
      <3>2. \A i \in DirInums : Reaches(dirs, Root, i) => Reaches(ds, Root, i)
        BY <3>1 DEF Reaches
      <3>3. ASSUME NEW i \in DirInums, IsDir(is, i), NamedIn(ds, i)
            PROVE  Reaches(ds, Root, i) /\ \A p, q \in NamesIn(ds, i) : p = q
        BY <1>1, <1>t, <2>i, <2>4, <3>2, <3>3 DEF Tree, IsDir
      <3>4. \A d \in DirInums : \A n \in DOMAIN ds[d] : ds[d][n] # Root
        BY <1>t, <1>d, <2>e DEF Tree
      <3>5. IsDir(is, Root)
        BY <1>t, <2>i, NamesAssumption DEF Tree, IsDir
      <3> QED
        BY <3>3, <3>4, <3>5 DEF Tree
    <2>8. \A i \in opened : is[i].type # "none"
      BY <1>t, <2>i
    <2>9. Exact(ds, is, surplus)
      <3>1. ~ IsDir(is, x)
        BY <1>1, <2>i DEF IsDir
      <3> QED
        BY <1>t, <2>i, <2>4, <2>s, <3>1 DEF Exact, IsDir
    <2> QED
      BY <1>t, <2>1, <2>3, <2>5, <2>6, <2>7, <2>8, <2>9, DoneStep DEF Sound
  <1> QED
    BY <1>2, <1>3

(* What leads to a directory once a name of a childless inode is gone.      *)
LEMMA PruneReaches ==
    ASSUME NEW ds, NEW ds2, NEW x \in DirInums, ds[x] = <<>>,
           \A d \in DirInums : \A n \in DOMAIN ds[d] :
               ds[d][n] = x \/ (n \in DOMAIN ds2[d] /\ ds2[d][n] = ds[d][n]),
           NEW i \in DirInums \ {x}, Reaches(ds, Root, i)
    PROVE  Reaches(ds2, Root, i)
  <1> SUFFICES ASSUME NEW s \in SUBSET DirInums, Root \in s, ClosedIn(ds2, s) PROVE i \in s
    BY DEF Reaches
  <1>1. s \union {x} \in SUBSET DirInums
    OBVIOUS
  <1>2. ClosedIn(ds, s \union {x})
    BY DEF ClosedIn
  <1> QED
    BY <1>1, <1>2 DEF Reaches

(* tux3_unlink(): a file has one name and one link less.                    *)
LEMMA UnlinkStep ==
    ASSUME NamesInv, nm!Unlink
    PROVE  NamesInv'
  <1>p. PICK dir \in nm!AllDirs, deleted \in BOOLEAN : \E name \in DOMAIN dirs[dir] :
          ~ nm!S_ISDIR(dirs[dir][name]) /\ nm!tux3_unlink(dir, name, deleted)
    BY DEF nm!Unlink
  <1>1. PICK name \in DOMAIN dirs[dir] :
          ~ nm!S_ISDIR(dirs[dir][name]) /\ nm!tux3_unlink(dir, name, deleted)
    BY <1>p
  <1> DEFINE x == dirs[dir][name]
             ds == nm!Delete(dirs, dir, name)
             is == [inodes EXCEPT ![x].nlink = @ - 1]
  <1>t. /\ Sound(dirs, inodes) /\ Typed(dirs, inodes) /\ EmptyOrNamed(dirs, inodes)
        /\ Links(dirs, inodes) /\ Tree(dirs, inodes)
        /\ opened \subseteq DirInums /\ \A i \in opened : inodes[i].type # "none"
        /\ Exact(dirs, inodes, surplus) /\ surplus \subseteq DirInums /\ stopped = FALSE
        /\ surplus \union {} = surplus
    BY DEF NamesInv, Sound, OpenExact
  <1> SUFFICES ASSUME deleted PROVE NamesInv'
    <2>1. CASE ~ deleted
      BY <1>1, <1>t, <2>1, DoneStep DEF nm!tux3_unlink
    <2> QED
      BY <2>1
  <1>d. dir \in DirInums /\ IsDir(inodes, dir) /\ NamedIn(dirs, dir)
    BY <1>1, DirNamed
  <1>x. /\ x \in DirInums /\ inodes[x].type = "file" /\ x # Root /\ x # dir
        /\ <<dir, name>> \in NamesIn(dirs, x) /\ NamedIn(dirs, x) /\ name \in DirNames
        /\ dirs[x] = <<>> /\ inodes[x].nlink > 0
    <2>1. /\ x \in DirInums /\ inodes[x].type = "file" /\ x # Root
          /\ <<dir, name>> \in NamesIn(dirs, x) /\ NamedIn(dirs, x) /\ name \in DirNames
      BY <1>1, <1>t, <1>d, NameTarget DEF nm!S_ISDIR
    <2> QED
      BY <1>t, <1>d, <2>1, NamedLinked DEF EmptyOrNamed, IsDir
  <1>2. nm!Done(ds, is, opened, {})
    BY <1>1 DEF nm!tux3_unlink
  <1>i. /\ \A i \in DirInums : is[i].type = inodes[i].type
        /\ is[x].nlink = inodes[x].nlink - 1
        /\ \A i \in DirInums \ {x} : is[i] = inodes[i]
        /\ is \in [DirInums -> [type : Types, nlink : 0 .. TUX_LINK_MAX]]
    <2>1. inodes \in [DirInums -> [type : Types, nlink : 0 .. TUX_LINK_MAX]]
      BY <1>t DEF Typed
    <2>2. inodes[x].nlink - 1 \in 0 .. TUX_LINK_MAX
      <3>1. inodes[x].nlink \in 0 .. TUX_LINK_MAX /\ inodes[x].nlink > 0
        BY <1>x, <2>1
      <3> QED
        BY <3>1, NamesAssumption
    <2>3. is[x] = [type |-> inodes[x].type, nlink |-> inodes[x].nlink - 1]
      BY <1>x, <2>1
    <2>4. is = [i \in DirInums |-> IF i = x THEN is[x] ELSE inodes[i]]
      BY <1>x, <2>1
    <2> HIDE DEF is
    <2>5. is[x] \in [type : Types, nlink : 0 .. TUX_LINK_MAX]
      BY <1>x, <2>1, <2>2, <2>3
    <2> QED
      BY <1>x, <2>1, <2>3, <2>4, <2>5
  <1>e. /\ Typed(ds, inodes)
        /\ \A d \in DirInums \ {dir} : ds[d] = dirs[d]
        /\ DOMAIN ds[dir] = DOMAIN dirs[dir] \ {name}
        /\ \A n \in DOMAIN ds[dir] : ds[dir][n] = dirs[dir][n]
    BY <1>t, <1>d, DeleteEffect
  <1> HIDE DEF ds, is, x
  <1>y. dirs[dir][name] = x /\ name \in DOMAIN dirs[dir]
    BY DEF x
  <1>3. Typed(ds, is)
    BY <1>i, <1>e DEF Typed
  <1>4. /\ \A i \in DirInums \ {x} : NamedIn(ds, i) <=> NamedIn(dirs, i)
        /\ \A i \in DirInums \ {x} : NamesIn(ds, i) = NamesIn(dirs, i)
        /\ NamesIn(ds, x) = NamesIn(dirs, x) \ {<<dir, name>>}
    <2>1. \A i \in DirInums \ {x} : NamedIn(ds, i) <=> NamedIn(dirs, i)
      BY <1>d, <1>e, <1>y DEF NamedIn
    <2>2. \A i \in DirInums \ {x} : NamesIn(ds, i) = NamesIn(dirs, i)
      BY <1>d, <1>e, <1>y DEF NamesIn
    <2>3. NamesIn(ds, x) = NamesIn(dirs, x) \ {<<dir, name>>}
      BY <1>d, <1>e, <1>y DEF NamesIn
    <2> QED
      BY <2>1, <2>2, <2>3
  <1>s. \A d \in DirInums : SubdirsIn(ds, is, d) = SubdirsIn(dirs, inodes, d)
    <2>1. \A d \in DirInums : \A n \in DOMAIN dirs[d] : dirs[d][n] \in DirInums
      BY <1>t DEF Typed
    <2>2. ~ IsDir(inodes, x) /\ \A i \in DirInums : IsDir(is, i) <=> IsDir(inodes, i)
      BY <1>x, <1>i DEF IsDir
    <2> QED
      BY <1>d, <1>e, <1>y, <2>1, <2>2 DEF SubdirsIn
  <1>5. EmptyOrNamed(ds, is)
    <2>1. ASSUME NEW i \in DirInums, ~ IsDir(is, i) \/ ~ NamedIn(ds, i) PROVE ds[i] = <<>>
      BY <1>t, <1>d, <1>x, <1>i, <1>e, <1>4, <2>1 DEF EmptyOrNamed, IsDir
    <2>2. ASSUME NEW d \in DirInums, NEW n \in DOMAIN ds[d] PROVE is[ds[d][n]].type # "none"
      <3>1. n \in DOMAIN dirs[d] /\ ds[d][n] = dirs[d][n]
        BY <1>e, <2>2
      <3>2. dirs[d][n] \in DirInums /\ inodes[dirs[d][n]].type # "none"
        BY <1>t, <3>1 DEF EmptyOrNamed, Typed
      <3> QED
        BY <1>i, <3>1, <3>2
    <2>3. ASSUME NEW i \in DirInums, is[i].type = "none" PROVE is[i].nlink = 0
      BY <1>t, <1>x, <1>i, <2>3 DEF EmptyOrNamed
    <2> QED
      BY <2>1, <2>2, <2>3 DEF EmptyOrNamed
  <1>6. Links(ds, is)
    <2>1. is[x].nlink = Cardinality(NamesIn(ds, x))
      <3>1. Cardinality(NamesIn(ds, x)) = Cardinality(NamesIn(dirs, x)) - 1
        <4>1. IsFiniteSet(NamesIn(dirs, x)) /\ Cardinality(NamesIn(dirs, x)) \in Nat
          BY <1>t, NamesFinite
        <4>2. <<dir, name>> \in NamesIn(dirs, x)
          BY <1>x
        <4>3. Cardinality(NamesIn(dirs, x) \ {<<dir, name>>}) = Cardinality(NamesIn(dirs, x)) - 1
          BY <4>1, <4>2, FS_RemoveElement
        <4> QED
          BY <1>4, <4>3
      <3> QED
        BY <1>x, <1>t, <1>i, <3>1 DEF Links
    <2>2. ~ IsDir(is, x)
      BY <1>x, <1>i DEF IsDir
    <2> QED
      BY <1>t, <1>i, <1>4, <1>s, <2>1, <2>2 DEF Links, IsDir
  <1>7. Tree(ds, is)
    <2>1. \A i \in DirInums \ {x} : Reaches(dirs, Root, i) => Reaches(ds, Root, i)
      <3>1. \A d \in DirInums : \A n \in DOMAIN dirs[d] :
              dirs[d][n] = x \/ (n \in DOMAIN ds[d] /\ ds[d][n] = dirs[d][n])
        BY <1>e, <1>y
      <3> QED
        BY <1>x, <3>1, PruneReaches
    <2>2. ASSUME NEW i \in DirInums, IsDir(is, i), NamedIn(ds, i)
          PROVE  Reaches(ds, Root, i) /\ \A p, q \in NamesIn(ds, i) : p = q
      BY <1>x, <1>t, <1>i, <1>4, <2>1, <2>2 DEF Tree, IsDir
    <2>3. \A d \in DirInums : \A n \in DOMAIN ds[d] : ds[d][n] # Root
      BY <1>t, <1>d, <1>e DEF Tree
    <2>4. IsDir(is, Root)
      BY <1>t, <1>i, NamesAssumption DEF Tree, IsDir
    <2> QED
      BY <2>2, <2>3, <2>4 DEF Tree
  <1>8. \A i \in opened : is[i].type # "none"
    BY <1>t, <1>i
  <1>9. Exact(ds, is, surplus)
    <2>1. ~ IsDir(is, x)
      BY <1>x, <1>i DEF IsDir
    <2> QED
      BY <1>t, <1>i, <1>4, <1>s, <2>1 DEF Exact, IsDir
  <1> QED
    BY <1>t, <1>2, <1>3, <1>5, <1>6, <1>7, <1>8, <1>9, DoneStep DEF Sound

(* tux3_rmdir(): the directory loses its only name and its links, and its   *)
(* parent the link of its "..".                                             *)
LEMMA RmdirStep ==
    ASSUME NamesInv, nm!Rmdir
    PROVE  NamesInv'
  <1>p. PICK dir \in nm!AllDirs, deleted \in BOOLEAN : \E name \in DOMAIN dirs[dir] :
          nm!S_ISDIR(dirs[dir][name]) /\ nm!tux3_rmdir(dir, name, deleted)
    BY DEF nm!Rmdir
  <1>1. PICK name \in DOMAIN dirs[dir] :
          nm!S_ISDIR(dirs[dir][name]) /\ nm!tux3_rmdir(dir, name, deleted)
    BY <1>p
  <1> DEFINE x == dirs[dir][name]
             ds == nm!Delete(dirs, dir, name)
             is == [inodes EXCEPT ![x].nlink = 0, ![dir].nlink = @ - 1]
  <1>t. /\ Sound(dirs, inodes) /\ Typed(dirs, inodes) /\ EmptyOrNamed(dirs, inodes)
        /\ Links(dirs, inodes) /\ Tree(dirs, inodes)
        /\ opened \subseteq DirInums /\ \A i \in opened : inodes[i].type # "none"
        /\ Exact(dirs, inodes, surplus) /\ surplus \subseteq DirInums /\ stopped = FALSE
        /\ surplus \union {} = surplus
    BY DEF NamesInv, Sound, OpenExact
  <1> SUFFICES ASSUME deleted PROVE NamesInv'
    <2>1. CASE ~ deleted
      BY <1>1, <1>t, <2>1, DoneStep DEF nm!tux3_rmdir
    <2> QED
      BY <2>1
  <1>d. dir \in DirInums /\ IsDir(inodes, dir) /\ NamedIn(dirs, dir)
    BY <1>1, DirNamed
  <1>2. nm!Done(ds, is, opened, {}) /\ dirs[x] = <<>>
    BY <1>1 DEF nm!tux3_rmdir
  <1>x. /\ x \in DirInums /\ IsDir(inodes, x) /\ x # Root /\ x # dir
        /\ <<dir, name>> \in NamesIn(dirs, x) /\ NamedIn(dirs, x) /\ name \in DirNames
    <2>1. /\ x \in DirInums /\ x # Root
          /\ <<dir, name>> \in NamesIn(dirs, x) /\ NamedIn(dirs, x) /\ name \in DirNames
      BY <1>t, <1>d, NameTarget
    <2>2. DOMAIN dirs[x] = {}
      BY <1>2
    <2> QED
      BY <1>1, <2>1, <2>2 DEF nm!S_ISDIR, IsDir
  <1>c. /\ SubdirsIn(dirs, inodes, dir) # {} /\ name \in SubdirsIn(dirs, inodes, dir)
        /\ IsFiniteSet(SubdirsIn(dirs, inodes, dir))
        /\ Cardinality(SubdirsIn(dirs, inodes, dir)) \in Nat \ {0}
        /\ inodes[dir].nlink >= 2 + Cardinality(SubdirsIn(dirs, inodes, dir))
    <2>1. name \in SubdirsIn(dirs, inodes, dir)
      BY <1>x DEF SubdirsIn
    <2>2. /\ IsFiniteSet(SubdirsIn(dirs, inodes, dir))
          /\ Cardinality(SubdirsIn(dirs, inodes, dir)) \in Nat
      BY <1>t, <1>d, NamesFinite
    <2>3. Cardinality(SubdirsIn(dirs, inodes, dir)) # 0
      BY <2>1, <2>2, FS_EmptySet
    <2> QED
      BY <1>t, <1>d, <2>1, <2>2, <2>3 DEF Links
  <1>i. /\ \A i \in DirInums : is[i].type = inodes[i].type
        /\ is[x].nlink = 0 /\ is[dir].nlink = inodes[dir].nlink - 1
        /\ \A i \in DirInums \ {x, dir} : is[i] = inodes[i]
        /\ is \in [DirInums -> [type : Types, nlink : 0 .. TUX_LINK_MAX]]
    <2>1. inodes \in [DirInums -> [type : Types, nlink : 0 .. TUX_LINK_MAX]]
      BY <1>t DEF Typed
    <2>2. inodes[dir].nlink - 1 \in 0 .. TUX_LINK_MAX
      BY <1>c, <1>d, <2>1, NamesAssumption
    <2> QED
      BY <1>d, <1>x, <2>1, <2>2, NamesAssumption
  <1>e. /\ Typed(ds, inodes)
        /\ \A d \in DirInums \ {dir} : ds[d] = dirs[d]
        /\ DOMAIN ds[dir] = DOMAIN dirs[dir] \ {name}
        /\ \A n \in DOMAIN ds[dir] : ds[dir][n] = dirs[dir][n]
    BY <1>t, <1>d, DeleteEffect
  <1> HIDE DEF ds, is, x
  <1>y. dirs[dir][name] = x /\ name \in DOMAIN dirs[dir]
    BY DEF x
  <1>u. \A d \in DirInums : \A n \in DOMAIN dirs[d] : dirs[d][n] = x => d = dir /\ n = name
    <2> SUFFICES ASSUME NEW d \in DirInums, NEW n \in DOMAIN dirs[d], dirs[d][n] = x
                 PROVE  d = dir /\ n = name
      OBVIOUS
    <2>1. <<d, n>> \in NamesIn(dirs, x)
      BY <1>t, NameTarget
    <2>2. <<d, n>> = <<dir, name>>
      BY <1>t, <1>x, <2>1 DEF Tree
    <2> QED
      BY <2>2
  <1>3. Typed(ds, is)
    BY <1>i, <1>e DEF Typed
  <1>4. /\ \A i \in DirInums \ {x} : NamedIn(ds, i) <=> NamedIn(dirs, i)
        /\ \A i \in DirInums \ {x} : NamesIn(ds, i) = NamesIn(dirs, i)
        /\ ~ NamedIn(ds, x)
    <2>1. \A i \in DirInums \ {x} : NamedIn(ds, i) <=> NamedIn(dirs, i)
      BY <1>d, <1>e, <1>y DEF NamedIn
    <2>2. \A i \in DirInums \ {x} : NamesIn(ds, i) = NamesIn(dirs, i)
      BY <1>d, <1>e, <1>y DEF NamesIn
    <2>3. ~ NamedIn(ds, x)
      BY <1>d, <1>e, <1>x, <1>u DEF NamedIn
    <2> QED
      BY <2>1, <2>2, <2>3
  <1>s. /\ \A d \in DirInums \ {dir} : SubdirsIn(ds, is, d) = SubdirsIn(dirs, inodes, d)
        /\ SubdirsIn(ds, is, dir) = SubdirsIn(dirs, inodes, dir) \ {name}
    <2>1. \A d \in DirInums : \A n \in DOMAIN dirs[d] : dirs[d][n] \in DirInums
      BY <1>t DEF Typed
    <2>2. \A i \in DirInums : IsDir(is, i) <=> IsDir(inodes, i)
      BY <1>i DEF IsDir
    <2> QED
      BY <1>d, <1>e, <2>1, <2>2 DEF SubdirsIn
  <1>5. EmptyOrNamed(ds, is)
    <2>1. ASSUME NEW i \in DirInums, ~ IsDir(is, i) \/ ~ NamedIn(ds, i) PROVE ds[i] = <<>>
      BY <1>t, <1>d, <1>x, <1>2, <1>i, <1>e, <1>4, <2>1 DEF EmptyOrNamed, IsDir
    <2>2. ASSUME NEW d \in DirInums, NEW n \in DOMAIN ds[d] PROVE is[ds[d][n]].type # "none"
      <3>1. n \in DOMAIN dirs[d] /\ ds[d][n] = dirs[d][n]
        BY <1>e, <2>2
      <3>2. dirs[d][n] \in DirInums /\ inodes[dirs[d][n]].type # "none"
        BY <1>t, <3>1 DEF EmptyOrNamed, Typed
      <3> QED
        BY <1>i, <3>1, <3>2
    <2>3. ASSUME NEW i \in DirInums, is[i].type = "none" PROVE is[i].nlink = 0
      BY <1>t, <1>d, <1>x, <1>i, <2>3 DEF EmptyOrNamed, IsDir
    <2> QED
      BY <2>1, <2>2, <2>3 DEF EmptyOrNamed
  <1>6. Links(ds, is)
    <2>1. Cardinality(SubdirsIn(ds, is, dir)) = Cardinality(SubdirsIn(dirs, inodes, dir)) - 1
      <3>1. name \in SubdirsIn(dirs, inodes, dir) /\ IsFiniteSet(SubdirsIn(dirs, inodes, dir))
        BY <1>c
      <3> QED
        BY <1>s, <3>1, FS_RemoveElement
    <2>2. inodes[dir].nlink \in Nat
      BY <1>t, <1>d DEF Typed
    <2>3. is[dir].nlink >= 2 + Cardinality(SubdirsIn(ds, is, dir))
      BY <1>c, <1>i, <2>1, <2>2
    <2>4. ASSUME NEW i \in DirInums, is[i].type = "file"
          PROVE  is[i].nlink = Cardinality(NamesIn(ds, i))
      BY <1>t, <1>d, <1>x, <1>i, <1>4, <2>4 DEF Links, IsDir
    <2>5. ASSUME NEW i \in DirInums, IsDir(is, i), NamedIn(ds, i)
          PROVE  is[i].nlink >= 2 + Cardinality(SubdirsIn(ds, is, i))
      <3>1. CASE i = dir
        BY <2>3, <3>1
      <3>2. CASE i # dir
        BY <1>t, <1>i, <1>4, <1>s, <2>5, <3>2 DEF Links, IsDir
      <3> QED
        BY <3>1, <3>2
    <2> QED
      BY <2>4, <2>5 DEF Links
  <1>7. Tree(ds, is)
    <2>1. \A i \in DirInums \ {x} : Reaches(dirs, Root, i) => Reaches(ds, Root, i)
      <3>1. \A d \in DirInums : \A n \in DOMAIN dirs[d] :
              dirs[d][n] = x \/ (n \in DOMAIN ds[d] /\ ds[d][n] = dirs[d][n])
        BY <1>e, <1>y
      <3> QED
        BY <1>x, <1>2, <3>1, PruneReaches
    <2>2. ASSUME NEW i \in DirInums, IsDir(is, i), NamedIn(ds, i)
          PROVE  Reaches(ds, Root, i) /\ \A p, q \in NamesIn(ds, i) : p = q
      BY <1>t, <1>i, <1>4, <2>1, <2>2 DEF Tree, IsDir
    <2>3. \A d \in DirInums : \A n \in DOMAIN ds[d] : ds[d][n] # Root
      BY <1>t, <1>d, <1>e DEF Tree
    <2>4. IsDir(is, Root)
      BY <1>t, <1>i, NamesAssumption DEF Tree, IsDir
    <2> QED
      BY <2>2, <2>3, <2>4 DEF Tree
  <1>8. \A i \in opened : is[i].type # "none"
    BY <1>t, <1>i
  <1>9. Exact(ds, is, surplus)
    <2>1. ASSUME NEW i \in DirInums, IsDir(is, i), i \notin surplus
          PROVE  is[i].nlink = IF NamedIn(ds, i) THEN 2 + Cardinality(SubdirsIn(ds, is, i)) ELSE 0
      <3>1. CASE i = dir
        <4>1. Cardinality(SubdirsIn(ds, is, dir)) = Cardinality(SubdirsIn(dirs, inodes, dir)) - 1
          <5>1. name \in SubdirsIn(dirs, inodes, dir) /\ IsFiniteSet(SubdirsIn(dirs, inodes, dir))
            BY <1>c
          <5> QED
            BY <1>s, <5>1, FS_RemoveElement
        <4>2. inodes[dir].nlink = 2 + Cardinality(SubdirsIn(dirs, inodes, dir))
          BY <1>t, <1>d, <2>1, <3>1 DEF Exact
        <4>3. NamedIn(ds, dir)
          BY <1>d, <1>x, <1>4
        <4> QED
          BY <1>c, <1>i, <3>1, <4>1, <4>2, <4>3
      <3>2. CASE i = x
        BY <1>i, <1>4, <3>2
      <3>3. CASE i \notin {x, dir}
        BY <1>t, <1>i, <1>4, <1>s, <2>1, <3>3 DEF Exact, IsDir
      <3> QED
        BY <3>1, <3>2, <3>3
    <2> QED
      BY <2>1 DEF Exact
  <1> QED
    BY <1>t, <1>2, <1>3, <1>5, <1>6, <1>7, <1>8, <1>9, DoneStep DEF Sound

-----------------------------------------------------------------------------
(* nm!Below(), which the VFS checks, is what names lead to.                 *)
LEMMA BelowReaches ==
    ASSUME NEW i \in DirInums, NEW d PROVE nm!Below(i, d) <=> Reaches(dirs, i, d)
  BY DEF nm!Below, nm!Range, Reaches, ClosedIn

(* No directory is below one that it names: its parents up to the root are  *)
(* those that it does not lead to.                                          *)
LEMMA Acyclic ==
    ASSUME NEW ds, NEW is, Sound(ds, is), NEW d \in DirInums, NEW n \in DOMAIN ds[d],
           IsDir(is, ds[d][n])
    PROVE  ~ Reaches(ds, ds[d][n], d)
  <1> DEFINE x == ds[d][n]
             s == {i \in DirInums : ~ Reaches(ds, x, i) \/ ~ IsDir(is, i)}
  <1> SUFFICES ASSUME Reaches(ds, x, d) PROVE FALSE
    OBVIOUS
  <1>1. x \in DirInums /\ x # Root /\ IsDir(is, d) /\ NamedIn(ds, d)
    BY NameTarget
  <1>2. \A q \in DirInums : \A m \in DOMAIN ds[q] : ds[q][m] \in DirInums /\ ds[q][m] # Root /\ IsDir(is, q)
    BY NameTarget
  <1>u. \A i, p, q \in DirInums : \A m \in DOMAIN ds[p] : \A k \in DOMAIN ds[q] :
          IsDir(is, i) /\ ds[p][m] = i /\ ds[q][k] = i => p = q
    <2> SUFFICES ASSUME NEW i \in DirInums, NEW p \in DirInums, NEW q \in DirInums,
                        NEW m \in DOMAIN ds[p], NEW k \in DOMAIN ds[q],
                        IsDir(is, i), ds[p][m] = i, ds[q][k] = i
                 PROVE  p = q
      OBVIOUS
    <2>1. <<p, m>> \in NamesIn(ds, i) /\ <<q, k>> \in NamesIn(ds, i) /\ NamedIn(ds, i)
      BY NameTarget
    <2>2. <<p, m>> = <<q, k>>
      BY <2>1 DEF Sound, Tree
    <2> QED
      BY <2>2
  <1> HIDE DEF x
  <1>x. ds[d][n] = x
    BY DEF x
  <1>3. Root \in s
    <2>1. DirInums \ {Root} \in SUBSET DirInums /\ x \in DirInums \ {Root} /\ ClosedIn(ds, DirInums \ {Root})
      BY <1>1, <1>2 DEF ClosedIn
    <2>2. ~ Reaches(ds, x, Root)
      BY <2>1 DEF Reaches
    <2> QED
      BY <2>2, NamesAssumption
  <1>4. ClosedIn(ds, s)
    <2> SUFFICES ASSUME NEW p \in s, NEW m \in DOMAIN ds[p], IsDir(is, ds[p][m]),
                        Reaches(ds, x, ds[p][m])
                 PROVE  FALSE
      BY <1>2 DEF ClosedIn
    <2>1. p \in DirInums /\ ~ Reaches(ds, x, p) /\ ds[p][m] \in DirInums
      BY <1>2
    <2>2. CASE ds[p][m] = x
      BY <1>u, <1>x, <2>1, <2>2
    <2>3. CASE ds[p][m] # x
      <3>1. PICK c \in SUBSET DirInums : x \in c /\ ClosedIn(ds, c) /\ p \notin c
        BY <2>1 DEF Reaches
      <3>2. c \ {ds[p][m]} \in SUBSET DirInums /\ x \in c \ {ds[p][m]}
        BY <2>3, <3>1
      <3>3. ClosedIn(ds, c \ {ds[p][m]})
        BY <1>u, <2>1, <3>1 DEF ClosedIn
      <3> QED
        BY <3>2, <3>3 DEF Reaches
    <2> QED
      BY <2>2, <2>3
  <1>5. Reaches(ds, Root, d)
    BY <1>1 DEF Sound, Tree
  <1>6. d \in s
    <2> HIDE DEF s
    <2>1. s \in SUBSET DirInums
      BY DEF s
    <2> QED
      BY <1>3, <1>4, <1>5, <2>1 DEF Reaches
  <1> QED
    BY <1>1, <1>6

(* A rename in sound directories ds, of x = ds[dir][name] to newname in     *)
(* directory to, where y is now, if anything; ds2 is what comes of it.      *)
RenameOf(ds, is, dir, name, to, newname, x, y, ds2) ==
    /\ Sound(ds, is)
    /\ dir \in DirInums /\ name \in DOMAIN ds[dir] /\ x = ds[dir][name]
    /\ to \in DirInums /\ IsDir(is, to) /\ NamedIn(ds, to) /\ newname \in DirNames
    /\ y = IF newname \in DOMAIN ds[to] THEN ds[to][newname] ELSE 0
    /\ x # y
    /\ IsDir(is, x) => ~ Reaches(ds, x, to)
    /\ y # 0 => (IsDir(is, x) <=> IsDir(is, y)) /\ ds[y] = <<>>
    /\ ds2 = nm!Delete(nm!Add(ds, to, newname, x), dir, name)

(* It moves the one name: x has as many as before, y has one less.          *)
LEMMA RenameEffect ==
    ASSUME NEW ds, NEW is, NEW dir, NEW name, NEW to, NEW newname, NEW x, NEW y, NEW ds2,
           RenameOf(ds, is, dir, name, to, newname, x, y, ds2)
    PROVE  /\ Typed(ds2, is)
           /\ \A d \in DirInums \ {dir, to} : ds2[d] = ds[d]
           /\ \A d \in DirInums : \A n :
                n \in DOMAIN ds2[d] <=>
                    (n \in DOMAIN ds[d] \/ (d = to /\ n = newname)) /\ ~ (d = dir /\ n = name)
           /\ newname \in DOMAIN ds2[to] /\ ds2[to][newname] = x
           /\ \A d \in DirInums : \A n \in DOMAIN ds2[d] : (d = to /\ n = newname) \/ ds2[d][n] = ds[d][n]
           /\ <<dir, name>> # <<to, newname>>
  <1> DEFINE mid == nm!Add(ds, to, newname, x)
  <1>1. /\ Typed(ds, is) /\ dir \in DirInums /\ to \in DirInums /\ newname \in DirNames
        /\ x \in DirInums /\ name \in DOMAIN ds[dir] /\ x = ds[dir][name]
        /\ ds2 = nm!Delete(mid, dir, name)
    BY DEF RenameOf, Sound, Typed
  <1>2. ~ (dir = to /\ name = newname)
    BY DEF RenameOf
  <1>3. /\ Typed(mid, is)
        /\ \A d \in DirInums \ {to} : mid[d] = ds[d]
        /\ DOMAIN mid[to] = DOMAIN ds[to] \union {newname}
        /\ mid[to][newname] = x
        /\ \A n \in DOMAIN ds[to] \ {newname} : mid[to][n] = ds[to][n]
    BY <1>1, AddEffect
  <1> HIDE DEF mid
  <1>4. /\ Typed(ds2, is)
        /\ \A d \in DirInums \ {dir} : ds2[d] = mid[d]
        /\ DOMAIN ds2[dir] = DOMAIN mid[dir] \ {name}
        /\ \A n \in DOMAIN ds2[dir] : ds2[dir][n] = mid[dir][n]
    BY <1>1, <1>3, DeleteEffect
  <1>5. \A d \in DirInums \ {dir, to} : ds2[d] = ds[d]
    BY <1>3, <1>4
  <1>6. ASSUME NEW d \in DirInums, NEW n
        PROVE  n \in DOMAIN ds2[d] <=>
                 (n \in DOMAIN ds[d] \/ (d = to /\ n = newname)) /\ ~ (d = dir /\ n = name)
    BY <1>1, <1>3, <1>4
  <1>7. newname \in DOMAIN ds2[to] /\ ds2[to][newname] = x
    <2>1. newname \in DOMAIN ds2[to]
      BY <1>1, <1>2, <1>6
    <2> QED
      BY <1>1, <1>2, <1>3, <1>4, <2>1
  <1>8. ASSUME NEW d \in DirInums, NEW n \in DOMAIN ds2[d]
        PROVE  (d = to /\ n = newname) \/ ds2[d][n] = ds[d][n]
    BY <1>1, <1>3, <1>4, <1>6
  <1> QED
    BY <1>2, <1>4, <1>5, <1>6, <1>7, <1>8

Renamed(ds, is, dir, name, to, newname, x, y, ds2) ==
    /\ \A i \in DirInums \ {y} : NamedIn(ds2, i) <=> NamedIn(ds, i)
    /\ \A i \in DirInums \ {x, y} : NamesIn(ds2, i) = NamesIn(ds, i)
    /\ <<dir, name>> \in NamesIn(ds, x) /\ <<to, newname>> \notin NamesIn(ds, x)
    /\ NamesIn(ds2, x) = (NamesIn(ds, x) \ {<<dir, name>>}) \union {<<to, newname>>}
    /\ y # 0 => /\ <<to, newname>> \in NamesIn(ds, y)
                /\ NamesIn(ds2, y) = NamesIn(ds, y) \ {<<to, newname>>}
    /\ y # 0 /\ IsDir(is, y) => ~ NamedIn(ds2, y)

LEMMA RenameNames ==
    ASSUME NEW ds, NEW is, NEW dir, NEW name, NEW to, NEW newname, NEW x, NEW y, NEW ds2,
           RenameOf(ds, is, dir, name, to, newname, x, y, ds2)
    PROVE  Renamed(ds, is, dir, name, to, newname, x, y, ds2)
  <1>t. /\ Sound(ds, is) /\ dir \in DirInums /\ name \in DOMAIN ds[dir] /\ x = ds[dir][name]
        /\ to \in DirInums /\ newname \in DirNames /\ x # y
        /\ y = IF newname \in DOMAIN ds[to] THEN ds[to][newname] ELSE 0
    BY DEF RenameOf
  <1>e. /\ \A d \in DirInums : \A n :
             n \in DOMAIN ds2[d] <=>
                 (n \in DOMAIN ds[d] \/ (d = to /\ n = newname)) /\ ~ (d = dir /\ n = name)
        /\ newname \in DOMAIN ds2[to] /\ ds2[to][newname] = x
        /\ \A d \in DirInums : \A n \in DOMAIN ds2[d] : (d = to /\ n = newname) \/ ds2[d][n] = ds[d][n]
        /\ ~ (dir = to /\ name = newname)
    BY RenameEffect
  <1>x. x \in DirInums /\ name \in DirNames /\ <<dir, name>> \in NamesIn(ds, x)
    BY <1>t, NameTarget
  <1>y. y # 0 <=> newname \in DOMAIN ds[to]
    <2>1. newname \in DOMAIN ds[to] => ds[to][newname] # 0
      BY <1>t, NameTarget, NamesAssumption
    <2> QED
      BY <1>t, <2>1
  (* A name other than the two is one of the same inode before and after.   *)
  <1>o. \A d \in DirInums : \A n : ~ (d = to /\ n = newname) /\ ~ (d = dir /\ n = name) =>
          /\ n \in DOMAIN ds2[d] <=> n \in DOMAIN ds[d]
          /\ n \in DOMAIN ds2[d] => ds2[d][n] = ds[d][n]
    BY <1>e
  <1>1. ASSUME NEW i \in DirInums, i # x, i # y PROVE NamedIn(ds2, i) <=> NamedIn(ds, i)
    <2>1. ASSUME NEW d \in DirInums, NEW n \in DOMAIN ds2[d], ds2[d][n] = i PROVE NamedIn(ds, i)
      BY <1>1, <1>e, <2>1 DEF NamedIn
    <2>2. ASSUME NEW d \in DirInums, NEW n \in DOMAIN ds[d], ds[d][n] = i PROVE NamedIn(ds2, i)
      <3>1. ~ (d = to /\ n = newname) /\ ~ (d = dir /\ n = name)
        BY <1>1, <1>t, <2>2
      <3> QED
        BY <1>o, <2>2, <3>1 DEF NamedIn
    <2> QED
      BY <2>1, <2>2 DEF NamedIn
  <1>2. NamedIn(ds, x) /\ NamedIn(ds2, x)
    BY <1>t, <1>e DEF NamedIn
  <1>3. ASSUME NEW i \in DirInums, i # x, i # y PROVE NamesIn(ds2, i) = NamesIn(ds, i)
    <2> SUFFICES ASSUME NEW d \in DirInums, NEW n \in DirNames
                 PROVE  <<d, n>> \in NamesIn(ds2, i) <=> <<d, n>> \in NamesIn(ds, i)
      BY DEF NamesIn
    <2>1. CASE ~ (d = to /\ n = newname) /\ ~ (d = dir /\ n = name)
      BY <1>o, <2>1 DEF NamesIn
    <2>2. CASE (d = to /\ n = newname) \/ (d = dir /\ n = name)
      BY <1>3, <1>t, <1>e, <2>2 DEF NamesIn
    <2> QED
      BY <2>1, <2>2
  <1>4. <<to, newname>> \notin NamesIn(ds, x)
    BY <1>t DEF NamesIn
  <1>5. NamesIn(ds2, x) = (NamesIn(ds, x) \ {<<dir, name>>}) \union {<<to, newname>>}
    <2>1. ASSUME NEW d \in DirInums, NEW n \in DirNames
          PROVE  <<d, n>> \in NamesIn(ds2, x) <=>
                   (<<d, n>> \in NamesIn(ds, x) /\ <<d, n>> # <<dir, name>>) \/ <<d, n>> = <<to, newname>>
      <3>1. CASE ~ (d = to /\ n = newname) /\ ~ (d = dir /\ n = name)
        BY <1>o, <3>1 DEF NamesIn
      <3>2. CASE (d = to /\ n = newname) \/ (d = dir /\ n = name)
        BY <1>t, <1>e, <3>2 DEF NamesIn
      <3> QED
        BY <3>1, <3>2
    <2>2. NamesIn(ds2, x) \subseteq DirInums \X DirNames /\ NamesIn(ds, x) \subseteq DirInums \X DirNames
      BY DEF NamesIn
    <2>3. <<to, newname>> \in DirInums \X DirNames
      BY <1>t
    <2>4. \A p \in DirInums \X DirNames :
            p \in NamesIn(ds2, x) <=>
              p \in (NamesIn(ds, x) \ {<<dir, name>>}) \union {<<to, newname>>}
      BY <2>1
    <2> QED
      BY <2>2, <2>3, <2>4
  <1>6. ASSUME y # 0
        PROVE  /\ <<to, newname>> \in NamesIn(ds, y)
               /\ NamesIn(ds2, y) = NamesIn(ds, y) \ {<<to, newname>>}
    <2>1. newname \in DOMAIN ds[to] /\ ds[to][newname] = y
      BY <1>t, <1>y, <1>6
    <2>2. ASSUME NEW d \in DirInums, NEW n \in DirNames
          PROVE  <<d, n>> \in NamesIn(ds2, y) <=> <<d, n>> \in NamesIn(ds, y) /\ <<d, n>> # <<to, newname>>
      <3>1. CASE ~ (d = to /\ n = newname) /\ ~ (d = dir /\ n = name)
        BY <1>o, <3>1 DEF NamesIn
      <3>2. CASE (d = to /\ n = newname) \/ (d = dir /\ n = name)
        BY <1>t, <1>e, <3>2 DEF NamesIn
      <3> QED
        BY <3>1, <3>2
    <2>3. NamesIn(ds2, y) \subseteq DirInums \X DirNames /\ NamesIn(ds, y) \subseteq DirInums \X DirNames
      BY DEF NamesIn
    <2>4. \A p \in DirInums \X DirNames :
            p \in NamesIn(ds2, y) <=> p \in NamesIn(ds, y) \ {<<to, newname>>}
      BY <2>2
    <2>5. <<to, newname>> \in NamesIn(ds, y)
      BY <1>t, <2>1 DEF NamesIn
    <2> QED
      BY <2>3, <2>4, <2>5
  <1>7. ASSUME y # 0, IsDir(is, y) PROVE ~ NamedIn(ds2, y)
    <2>1. newname \in DOMAIN ds[to] /\ ds[to][newname] = y
      BY <1>t, <1>y, <1>7
    <2>2. y \in DirInums /\ y # Root /\ NamedIn(ds, y)
      BY <1>t, <2>1, NameTarget
    <2>3. ASSUME NEW d \in DirInums, NEW n \in DOMAIN ds2[d], ds2[d][n] = y PROVE FALSE
      <3>1. ~ (d = to /\ n = newname) /\ n \in DOMAIN ds[d] /\ ds[d][n] = y
        BY <1>t, <1>e, <2>3
      <3>2. <<d, n>> \in NamesIn(ds, y)
        BY <1>t, <3>1, NameTarget
      <3>3. <<d, n>> = <<to, newname>>
        BY <1>t, <1>6, <1>7, <2>2, <3>2 DEF Sound, Tree
      <3> QED
        BY <3>1, <3>3
    <2> QED
      BY <2>2, <2>3 DEF NamedIn
  <1> QED
    BY <1>1, <1>2, <1>3, <1>4, <1>5, <1>6, <1>7, <1>x DEF Renamed

SameTypes(is, is2) ==
    /\ is2 \in [DirInums -> [type : Types, nlink : 0 .. TUX_LINK_MAX]]
    /\ \A i \in DirInums : /\ is2[i].type = is[i].type
                           /\ is[i].type = "none" => is2[i].nlink = is[i].nlink

(* What the root led to it still leads to, but for the childless inodes e:  *)
(* no path to directory to goes through x, so to is still there, names x,   *)
(* and x leads on.                                                          *)
Detours(ds, ds2, e, to, newname, x) ==
    /\ e \in SUBSET DirInums /\ \A i \in e : ds[i] = <<>>
    /\ \A d \in DirInums : \A n \in DOMAIN ds[d] :
         ds[d][n] \in e \/ ds[d][n] = x \/ (n \in DOMAIN ds2[d] /\ ds2[d][n] = ds[d][n])
    /\ to \in DirInums \ e /\ newname \in DOMAIN ds2[to] /\ ds2[to][newname] = x
    /\ Reaches(ds, Root, to)
    /\ x \in DirInums /\ (x \in e \/ ~ Reaches(ds, x, to))

LEMMA RenameReaches ==
    ASSUME NEW ds, NEW ds2, NEW e, NEW to, NEW newname, NEW x, Detours(ds, ds2, e, to, newname, x),
           NEW i \in DirInums \ e, Reaches(ds, Root, i)
    PROVE  Reaches(ds2, Root, i)
  <1> SUFFICES ASSUME NEW s \in SUBSET DirInums, Root \in s, ClosedIn(ds2, s) PROVE i \in s
    BY DEF Reaches
  <1>d. /\ e \in SUBSET DirInums
        /\ \A d \in DirInums : \A n \in DOMAIN ds[d] :
             ds[d][n] \in e \/ ds[d][n] = x \/ (n \in DOMAIN ds2[d] /\ ds2[d][n] = ds[d][n])
        /\ to \in DirInums \ e /\ newname \in DOMAIN ds2[to] /\ ds2[to][newname] = x
        /\ Reaches(ds, Root, to)
        /\ x \in DirInums /\ (x \in e \/ ~ Reaches(ds, x, to))
    BY DEF Detours
  <1>0. \A j \in e : DOMAIN ds[j] = {}
    BY DEF Detours
  <1>1. x \in s \union e
    <2>1. CASE x \in e
      BY <2>1
    <2>2. CASE ~ Reaches(ds, x, to)
      <3>1. PICK c \in SUBSET DirInums : x \in c /\ ClosedIn(ds, c) /\ to \notin c
        BY <1>d, <2>2 DEF Reaches
      <3>2. ClosedIn(ds, s \union e \union c)
        BY <1>0, <1>d, <3>1 DEF ClosedIn
      <3>3. s \union e \union c \in SUBSET DirInums /\ Root \in s \union e \union c
        BY <1>d
      <3>4. to \in s
        BY <1>d, <3>1, <3>2, <3>3 DEF Reaches
      <3> QED
        BY <1>d, <3>4 DEF ClosedIn
    <2> QED
      BY <1>d, <2>1, <2>2
  <1>2. ClosedIn(ds, s \union e)
    BY <1>0, <1>1, <1>d DEF ClosedIn
  <1>3. s \union e \in SUBSET DirInums /\ Root \in s \union e
    BY <1>d
  <1> QED
    BY <1>2, <1>3 DEF Reaches

(* Types, directories and tree after a rename that changes no type.         *)
LEMMA RenameTree ==
    ASSUME NEW ds, NEW is, NEW dir, NEW name, NEW to, NEW newname, NEW x, NEW y, NEW ds2,
           RenameOf(ds, is, dir, name, to, newname, x, y, ds2),
           NEW is2, SameTypes(is, is2)
    PROVE  Typed(ds2, is2) /\ EmptyOrNamed(ds2, is2) /\ Tree(ds2, is2)
  <1>t. /\ Sound(ds, is) /\ EmptyOrNamed(ds, is) /\ Tree(ds, is) /\ Typed(ds, is)
        /\ dir \in DirInums /\ name \in DOMAIN ds[dir] /\ x = ds[dir][name]
        /\ to \in DirInums /\ IsDir(is, to) /\ NamedIn(ds, to) /\ newname \in DirNames /\ x # y
        /\ y = IF newname \in DOMAIN ds[to] THEN ds[to][newname] ELSE 0
        /\ IsDir(is, x) => ~ Reaches(ds, x, to)
        /\ y # 0 => ds[y] = <<>>
    BY DEF RenameOf, Sound
  <1>e. /\ Typed(ds2, is)
        /\ \A d \in DirInums \ {dir, to} : ds2[d] = ds[d]
        /\ \A d \in DirInums : \A n :
             n \in DOMAIN ds2[d] <=>
                 (n \in DOMAIN ds[d] \/ (d = to /\ n = newname)) /\ ~ (d = dir /\ n = name)
        /\ newname \in DOMAIN ds2[to] /\ ds2[to][newname] = x
        /\ \A d \in DirInums : \A n \in DOMAIN ds2[d] : (d = to /\ n = newname) \/ ds2[d][n] = ds[d][n]
    BY RenameEffect
  <1>n. /\ \A i \in DirInums \ {y} : NamedIn(ds2, i) <=> NamedIn(ds, i)
        /\ \A i \in DirInums \ {x, y} : NamesIn(ds2, i) = NamesIn(ds, i)
        /\ <<dir, name>> \in NamesIn(ds, x) /\ <<to, newname>> \notin NamesIn(ds, x)
        /\ NamesIn(ds2, x) = (NamesIn(ds, x) \ {<<dir, name>>}) \union {<<to, newname>>}
        /\ y # 0 => /\ <<to, newname>> \in NamesIn(ds, y)
                    /\ NamesIn(ds2, y) = NamesIn(ds, y) \ {<<to, newname>>}
        /\ y # 0 /\ IsDir(is, y) => ~ NamedIn(ds2, y)
    <2>1. Renamed(ds, is, dir, name, to, newname, x, y, ds2)
      BY RenameNames
    <2> QED
      BY <2>1 DEF Renamed
  <1>x. /\ x \in DirInums /\ x # Root /\ NamedIn(ds, x) /\ is[x].type # "none"
        /\ IsDir(is, dir) /\ NamedIn(ds, dir) /\ \A i \in DirInums : IsDir(is2, i) <=> IsDir(is, i)
    <2>1. /\ ds[dir][name] \in DirInums /\ ds[dir][name] # Root /\ NamedIn(ds, ds[dir][name])
          /\ is[ds[dir][name]].type \in {"dir", "file"}
          /\ IsDir(is, dir) /\ NamedIn(ds, dir)
      BY <1>t, NameTarget
    <2>2. \A i \in DirInums : IsDir(is2, i) <=> IsDir(is, i)
      BY DEF IsDir, SameTypes
    <2> QED
      BY <1>t, <2>1, <2>2
  <1>y. y # 0 => y \in DirInums /\ y # to /\ y # dir
    <2> SUFFICES ASSUME y # 0 PROVE y \in DirInums /\ y # to /\ y # dir
      OBVIOUS
    <2>1. newname \in DOMAIN ds[to] /\ y = ds[to][newname]
      BY <1>t
    <2>2. DOMAIN ds[to] # {} /\ DOMAIN ds[dir] # {} /\ DOMAIN ds[y] = {}
      BY <1>t, <2>1
    <2>3. y \in DirInums
      BY <1>t, <2>1, NameTarget
    <2> QED
      BY <2>2, <2>3
  <1>z. \A i \in DirInums : i # 0
    BY NamesAssumption
  <1>i. /\ is2 \in [DirInums -> [type : Types, nlink : 0 .. TUX_LINK_MAX]]
        /\ \A i \in DirInums : /\ is2[i].type = is[i].type
                               /\ is[i].type = "none" => is2[i].nlink = is[i].nlink
    BY DEF SameTypes
  <1>1. Typed(ds2, is2)
    BY <1>e, <1>i DEF Typed
  <1>2. EmptyOrNamed(ds2, is2)
    <2>1. ASSUME NEW i \in DirInums, ~ IsDir(is2, i) \/ ~ NamedIn(ds2, i) PROVE ds2[i] = <<>>
      <3>1. CASE i = y
        BY <1>t, <1>e, <1>y, <1>z, <3>1
      <3>2. CASE i # y
        <4>1. ~ IsDir(is, i) \/ ~ NamedIn(ds, i)
          BY <1>n, <1>x, <2>1, <3>2
        <4>2. i # to /\ i # dir /\ ds[i] = <<>>
          BY <1>t, <1>x, <4>1 DEF EmptyOrNamed
        <4> QED
          BY <1>e, <4>2
      <3> QED
        BY <3>1, <3>2
    <2>2. ASSUME NEW d \in DirInums, NEW n \in DOMAIN ds2[d] PROVE is2[ds2[d][n]].type # "none"
      <3>1. CASE d = to /\ n = newname
        BY <1>e, <1>i, <1>x, <3>1
      <3>2. CASE ~ (d = to /\ n = newname)
        <4>1. n \in DOMAIN ds[d] /\ ds2[d][n] = ds[d][n]
          BY <1>e, <2>2, <3>2
        <4>2. ds[d][n] \in DirInums /\ is[ds[d][n]].type # "none"
          BY <1>t, <4>1, NameTarget
        <4> QED
          BY <1>i, <4>1, <4>2
      <3> QED
        BY <3>1, <3>2
    <2>3. ASSUME NEW i \in DirInums, is2[i].type = "none" PROVE is2[i].nlink = 0
      BY <1>i, <1>t, <2>3 DEF EmptyOrNamed
    <2> QED
      BY <2>1, <2>2, <2>3 DEF EmptyOrNamed
  <1>3. Tree(ds2, is2)
    <2>1. ASSUME NEW d \in DirInums, NEW n \in DOMAIN ds2[d] PROVE ds2[d][n] # Root
      <3>1. CASE d = to /\ n = newname
        BY <1>e, <1>x, <3>1
      <3>2. CASE ~ (d = to /\ n = newname)
        BY <1>t, <1>e, <2>1, <3>2 DEF Tree
      <3> QED
        BY <3>1, <3>2
    <2>2. IsDir(is2, Root)
      BY <1>t, <1>x, NamesAssumption DEF Tree
    <2>3. ASSUME NEW i \in DirInums, IsDir(is2, i), NamedIn(ds2, i)
          PROVE  /\ i # y /\ IsDir(is, i) /\ NamedIn(ds, i)
                 /\ \A p, q \in NamesIn(ds, i) : p = q
                 /\ Reaches(ds, Root, i)
      BY <1>t, <1>n, <1>x, <1>z, <2>3 DEF Tree
    <2>4. ASSUME NEW i \in DirInums, IsDir(is2, i), NamedIn(ds2, i), NEW p \in NamesIn(ds2, i), NEW q \in NamesIn(ds2, i)
          PROVE  p = q
      <3>1. CASE i = x
        BY <1>n, <2>3, <2>4, <3>1
      <3>2. CASE i # x
        <4>1. NamesIn(ds2, i) = NamesIn(ds, i)
          BY <1>n, <2>3, <2>4, <3>2
        <4> QED
          BY <2>3, <2>4, <4>1
      <3> QED
        BY <3>1, <3>2
    <2>5. ASSUME NEW i \in DirInums, IsDir(is2, i), NamedIn(ds2, i)
          PROVE  Reaches(ds2, Root, i)
      <3> DEFINE e == {z \in DirInums : ~ IsDir(is, z) \/ z = y}
      <3>1. \A z \in e : ds[z] = <<>>
        BY <1>t, <1>z DEF EmptyOrNamed
      <3>2. /\ e \in SUBSET DirInums /\ to \in DirInums \ e /\ i \in DirInums \ e
            /\ x \in e \/ ~ Reaches(ds, x, to)
        BY <1>t, <1>x, <1>y, <1>z, <2>3, <2>5
      <3>3. ASSUME NEW d \in DirInums, NEW n \in DOMAIN ds[d]
            PROVE  ds[d][n] \in e \/ ds[d][n] = x \/ (n \in DOMAIN ds2[d] /\ ds2[d][n] = ds[d][n])
        <4>1. CASE d = to /\ n = newname
          <5>1. y = ds[d][n] /\ ds[d][n] \in DirInums
            BY <1>t, <3>3, <4>1, NameTarget
          <5> QED
            BY <1>y, <5>1
        <4>2. CASE ~ (d = to /\ n = newname)
          BY <1>t, <1>e, <3>3, <4>2
        <4> QED
          BY <4>1, <4>2
      <3>4. Reaches(ds, Root, to) /\ Reaches(ds, Root, i)
        BY <1>t, <2>3, <2>5 DEF Tree
      <3> HIDE DEF e
      <3>5. newname \in DOMAIN ds2[to] /\ ds2[to][newname] = x /\ x \in DirInums
        BY <1>e, <1>x
      <3>6. \A d \in DirInums : \A n \in DOMAIN ds[d] :
              ds[d][n] \in e \/ ds[d][n] = x \/ (n \in DOMAIN ds2[d] /\ ds2[d][n] = ds[d][n])
        BY <3>3
      <3>7. Detours(ds, ds2, e, to, newname, x)
        BY <3>1, <3>2, <3>4, <3>5, <3>6 DEF Detours
      <3> QED
        BY <3>2, <3>4, <3>7, RenameReaches
    <2> QED
      BY <2>1, <2>2, <2>4, <2>5 DEF Tree
  <1> QED
    BY <1>1, <1>2, <1>3

(* The new name is that of another inode, which loses its links.            *)
LEMMA RenameReplaces ==
    ASSUME NEW ds, NEW is, NEW dir, NEW name, NEW to, NEW newname, NEW x, NEW y, NEW ds2,
           RenameOf(ds, is, dir, name, to, newname, x, y, ds2), y # 0,
           NEW is2, is2 = [is EXCEPT ![y].nlink = @ - (IF IsDir(is, x) THEN 2 ELSE 1)],
           NEW sp, Exact(ds, is, sp)
    PROVE  /\ Sound(ds2, is2) /\ \A i \in DirInums : is2[i].type = is[i].type
           /\ Exact(ds2, is2, sp \union (IF IsDir(is, x) THEN {dir} ELSE {}))
  <1>t. /\ Sound(ds, is) /\ Links(ds, is) /\ Typed(ds, is)
        /\ to \in DirInums /\ newname \in DOMAIN ds[to] /\ y = ds[to][newname]
        /\ IsDir(is, x) <=> IsDir(is, y)
    <2>1. /\ Sound(ds, is) /\ Links(ds, is) /\ Typed(ds, is)
          /\ to \in DirInums
          /\ IsDir(is, x) <=> IsDir(is, y)
      BY DEF RenameOf, Sound
    <2>2. newname \in DOMAIN ds[to] /\ y = ds[to][newname]
      BY DEF RenameOf
    <2> QED
      BY <2>1, <2>2
  <1>x. x \in DirInums /\ x # y /\ is[x].type # "none"
    BY NameTarget DEF RenameOf
  <1>y. y \in DirInums /\ NamedIn(ds, y) /\ is[y].type \in {"dir", "file"}
    BY <1>t, NameTarget
  <1>e. /\ Typed(ds2, is)
        /\ \A d \in DirInums : \A n :
             n \in DOMAIN ds2[d] <=>
                 (n \in DOMAIN ds[d] \/ (d = to /\ n = newname)) /\ ~ (d = dir /\ n = name)
        /\ ds2[to][newname] = x
        /\ \A d \in DirInums : \A n \in DOMAIN ds2[d] : (d = to /\ n = newname) \/ ds2[d][n] = ds[d][n]
    BY RenameEffect
  <1>n. /\ \A i \in DirInums \ {y} : NamedIn(ds2, i) <=> NamedIn(ds, i)
        /\ \A i \in DirInums \ {x, y} : NamesIn(ds2, i) = NamesIn(ds, i)
        /\ <<dir, name>> \in NamesIn(ds, x) /\ <<to, newname>> \notin NamesIn(ds, x)
        /\ NamesIn(ds2, x) = (NamesIn(ds, x) \ {<<dir, name>>}) \union {<<to, newname>>}
        /\ y # 0 => /\ <<to, newname>> \in NamesIn(ds, y)
                    /\ NamesIn(ds2, y) = NamesIn(ds, y) \ {<<to, newname>>}
        /\ y # 0 /\ IsDir(is, y) => ~ NamedIn(ds2, y)
    <2>1. Renamed(ds, is, dir, name, to, newname, x, y, ds2)
      BY RenameNames
    <2> QED
      BY <2>1 DEF Renamed
  <1>k. PICK k \in {1, 2} : k = IF IsDir(is, x) THEN 2 ELSE 1
    OBVIOUS
  <1>1. is[y].nlink \in 0 .. TUX_LINK_MAX /\ is[y].nlink >= k
    <2>1. is[y].nlink \in 0 .. TUX_LINK_MAX
      BY <1>t, <1>y DEF Typed
    <2>2. CASE IsDir(is, y)
      <3>1. Cardinality(SubdirsIn(ds, is, y)) \in Nat
        BY <1>t, <1>y, NamesFinite
      <3>2. is[y].nlink >= 2 + Cardinality(SubdirsIn(ds, is, y))
        BY <1>t, <1>y, <2>2 DEF Links
      <3> QED
        BY <1>t, <1>k, <2>1, <2>2, <3>1, <3>2, NamesAssumption
    <2>3. CASE ~ IsDir(is, y)
      <3>1. is[y].nlink > 0
        BY <1>t, <1>y, NamedLinked
      <3> QED
        BY <1>t, <1>k, <2>1, <2>3, <3>1, NamesAssumption
    <2> QED
      BY <2>1, <2>2, <2>3
  <1>2. /\ is2[y] = [type |-> is[y].type, nlink |-> is[y].nlink - k]
        /\ \A i \in DirInums \ {y} : is2[i] = is[i]
        /\ is2 = [i \in DirInums |-> is2[i]]
    <2>1. is \in [DirInums -> [type : Types, nlink : 0 .. TUX_LINK_MAX]]
      BY <1>t DEF Typed
    <2>2. is2 = [is EXCEPT ![y].nlink = @ - k]
      BY <1>k
    <2>3. is2 = [is EXCEPT ![y] = [is[y] EXCEPT !.nlink = is[y].nlink - k]]
      BY <2>2
    <2>4. is[y] = [type |-> is[y].type, nlink |-> is[y].nlink]
      BY <1>y, <2>1
    <2>5. [is[y] EXCEPT !.nlink = is[y].nlink - k] = [type |-> is[y].type, nlink |-> is[y].nlink - k]
      BY <2>4
    <2> QED
      BY <1>y, <2>1, <2>3, <2>5
  <1>3. is2 \in [DirInums -> [type : Types, nlink : 0 .. TUX_LINK_MAX]]
    <2>1. is \in [DirInums -> [type : Types, nlink : 0 .. TUX_LINK_MAX]]
      BY <1>t DEF Typed
    <2>2. is[y].nlink - k \in 0 .. TUX_LINK_MAX
      BY <1>1, NamesAssumption
    <2>3. is2[y] \in [type : Types, nlink : 0 .. TUX_LINK_MAX]
      BY <1>2, <1>y, <2>2 DEF Types
    <2> QED
      BY <1>2, <2>1, <2>3
  <1>4. \A i \in DirInums : /\ is2[i].type = is[i].type
                            /\ is[i].type = "none" => is2[i].nlink = is[i].nlink
    <2>1. is2[y].type = is[y].type /\ is[y].type # "none"
      BY <1>2, <1>y
    <2> QED
      BY <1>2, <2>1
  <1>5. Typed(ds2, is2) /\ EmptyOrNamed(ds2, is2) /\ Tree(ds2, is2)
    <2>1. SameTypes(is, is2)
      BY <1>3, <1>4 DEF SameTypes
    <2> QED
      BY <2>1, RenameTree
  <1>6. Links(ds2, is2)
    <2>1. ASSUME NEW i \in DirInums, is2[i].type = "file"
          PROVE  is2[i].nlink = Cardinality(NamesIn(ds2, i))
      <3>1. IsFiniteSet(NamesIn(ds, i)) /\ Cardinality(NamesIn(ds, i)) \in Nat
        BY <1>t, NamesFinite
      <3>2. is[i].nlink = Cardinality(NamesIn(ds, i))
        BY <1>t, <1>4, <2>1 DEF Links
      <3>3. CASE i = y
        <4>1. Cardinality(NamesIn(ds2, y)) = Cardinality(NamesIn(ds, y)) - 1
          BY <1>n, <3>1, <3>3, FS_RemoveElement
        <4>2. k = 1
          BY <1>t, <1>k, <1>4, <2>1, <3>3 DEF IsDir
        <4> QED
          BY <1>2, <3>2, <3>3, <4>1, <4>2
      <3>4. CASE i = x
        <4>1. Cardinality(NamesIn(ds, x) \ {<<dir, name>>}) = Cardinality(NamesIn(ds, x)) - 1
          BY <1>n, <3>1, <3>4, FS_RemoveElement
        <4>2. /\ IsFiniteSet(NamesIn(ds, x) \ {<<dir, name>>})
              /\ <<to, newname>> \notin NamesIn(ds, x) \ {<<dir, name>>}
          BY <1>n, <3>1, <3>4, FS_RemoveElement
        <4>3. Cardinality(NamesIn(ds2, x)) = Cardinality(NamesIn(ds, x)) - 1 + 1
          BY <1>n, <4>1, <4>2, FS_AddElement
        <4> QED
          BY <1>2, <1>x, <3>1, <3>2, <3>4, <4>3
      <3>5. CASE i # x /\ i # y
        BY <1>2, <1>n, <3>2, <3>5
      <3> QED
        BY <3>3, <3>4, <3>5
    <2>2. ASSUME NEW i \in DirInums, IsDir(is2, i), NamedIn(ds2, i)
          PROVE  is2[i].nlink >= 2 + Cardinality(SubdirsIn(ds2, is2, i))
      <3>1. i # y /\ IsDir(is, i) /\ NamedIn(ds, i) /\ is2[i] = is[i]
        BY <1>2, <1>4, <1>n, <1>y, <2>2 DEF IsDir
      <3>2. SubdirsIn(ds2, is2, i) \subseteq SubdirsIn(ds, is, i)
        <4> SUFFICES ASSUME NEW n \in DOMAIN ds2[i], IsDir(is2, ds2[i][n])
                     PROVE  n \in DOMAIN ds[i] /\ IsDir(is, ds[i][n])
          BY DEF SubdirsIn
        <4>1. CASE i = to /\ n = newname
          BY <1>t, <1>e, <1>x, <1>4, <4>1 DEF IsDir
        <4>2. CASE ~ (i = to /\ n = newname)
          <5>1. n \in DOMAIN ds[i] /\ ds2[i][n] = ds[i][n]
            BY <1>e, <4>2
          <5>2. ds[i][n] \in DirInums
            BY <1>t, <5>1, NameTarget
          <5> QED
            BY <1>4, <5>1, <5>2 DEF IsDir
        <4> QED
          BY <4>1, <4>2
      <3>3. /\ IsFiniteSet(SubdirsIn(ds, is, i)) /\ Cardinality(SubdirsIn(ds, is, i)) \in Nat
        BY <1>t, NamesFinite
      <3>4. /\ Cardinality(SubdirsIn(ds2, is2, i)) <= Cardinality(SubdirsIn(ds, is, i))
            /\ Cardinality(SubdirsIn(ds2, is2, i)) \in Nat
        BY <3>2, <3>3, FS_Subset, FS_CardinalityType
      <3>5. is[i].nlink >= 2 + Cardinality(SubdirsIn(ds, is, i)) /\ is[i].nlink \in Nat
        BY <1>t, <3>1 DEF Links, Typed
      <3> QED
        BY <3>1, <3>3, <3>4, <3>5
    <2> QED
      BY <2>1, <2>2 DEF Links
  <1>7. ASSUME NEW i \in DirInums, IsDir(is2, i), i \notin sp, ~ (IsDir(is, x) /\ i = dir)
        PROVE  is2[i].nlink = IF NamedIn(ds2, i) THEN 2 + Cardinality(SubdirsIn(ds2, is2, i)) ELSE 0
    <2>0. IsDir(is, i)
      BY <1>4, <1>7 DEF IsDir
    <2>1. CASE i = y
      <3>1. ds[y] = <<>> /\ IsDir(is, x)
        BY <1>t, <2>0, <2>1 DEF RenameOf
      <3>2. SubdirsIn(ds, is, y) = {}
        BY <3>1 DEF SubdirsIn
      <3>3. is[y].nlink = 2
        <4>1. is[y].nlink = 2 + Cardinality(SubdirsIn(ds, is, y))
          BY <1>y, <1>7, <2>0, <2>1 DEF Exact
        <4>2. Cardinality(SubdirsIn(ds, is, y)) = 0
          BY <3>2, FS_EmptySet
        <4> QED
          BY <4>1, <4>2
      <3>4. ~ NamedIn(ds2, y)
        BY <1>n, <2>0, <2>1
      <3> QED
        BY <1>k, <1>2, <2>1, <3>1, <3>3, <3>4
    <2>2. CASE i # y
      <3>1. SubdirsIn(ds2, is2, i) = SubdirsIn(ds, is, i)
        <4>1. ASSUME NEW n \in SubdirsIn(ds2, is2, i) PROVE n \in SubdirsIn(ds, is, i)
          <5>0. n \in DOMAIN ds2[i] /\ IsDir(is2, ds2[i][n])
            BY DEF SubdirsIn
          <5>1. CASE i = to /\ n = newname
            BY <1>t, <1>e, <1>x, <1>4, <5>0, <5>1 DEF IsDir, SubdirsIn
          <5>2. CASE ~ (i = to /\ n = newname)
            <6>1. n \in DOMAIN ds[i] /\ ds2[i][n] = ds[i][n]
              BY <1>e, <5>0, <5>2
            <6>2. ds[i][n] \in DirInums
              BY <1>t, <6>1, NameTarget
            <6> QED
              BY <1>4, <5>0, <6>1, <6>2 DEF IsDir, SubdirsIn
          <5> QED
            BY <5>1, <5>2
        <4>2. ASSUME NEW n \in SubdirsIn(ds, is, i) PROVE n \in SubdirsIn(ds2, is2, i)
          <5>0. n \in DOMAIN ds[i] /\ IsDir(is, ds[i][n]) /\ ds[i][n] \in DirInums
            BY <1>t, NameTarget DEF SubdirsIn
          <5>1. ~ (i = dir /\ n = name)
            BY <1>7, <5>0 DEF RenameOf
          <5>2. n \in DOMAIN ds2[i]
            BY <1>e, <5>0, <5>1
          <5>3. CASE i = to /\ n = newname
            BY <1>t, <1>e, <1>x, <1>4, <5>0, <5>2, <5>3 DEF IsDir, SubdirsIn
          <5>4. CASE ~ (i = to /\ n = newname)
            <6>1. ds2[i][n] = ds[i][n]
              BY <1>e, <5>2, <5>4
            <6> QED
              BY <1>4, <5>0, <5>2, <6>1 DEF IsDir, SubdirsIn
          <5> QED
            BY <5>3, <5>4
        <4> QED
          BY <4>1, <4>2
      <3> QED
        BY <1>2, <1>n, <1>7, <2>0, <2>2, <3>1 DEF Exact
    <2> QED
      BY <2>1, <2>2
  <1> QED
    BY <1>4, <1>5, <1>6, <1>7 DEF Sound, Exact

(* The new name is free: a directory that goes to another one takes the     *)
(* link of its ".." along.                                                  *)
MovedLinks(is, x, to, dir) ==
    IF IsDir(is, x) /\ to # dir
    THEN [is EXCEPT ![to].nlink = @ + 1, ![dir].nlink = @ - 1] ELSE is

LEMMA RenameMovesInto ==
    ASSUME NEW ds, NEW is, NEW dir, NEW name, NEW to, NEW newname, NEW x, NEW ds2,
           RenameOf(ds, is, dir, name, to, newname, x, 0, ds2),
           NEW is2, is2 = MovedLinks(is, x, to, dir),
           IsDir(is, x) /\ to # dir => is[to].nlink < TUX_LINK_MAX,
           NEW sp, Exact(ds, is, sp)
    PROVE  /\ Sound(ds2, is2) /\ \A i \in DirInums : is2[i].type = is[i].type
           /\ Exact(ds2, is2, sp)
  <1>t. /\ Sound(ds, is) /\ Links(ds, is) /\ Typed(ds, is)
        /\ dir \in DirInums /\ name \in DOMAIN ds[dir] /\ x = ds[dir][name]
        /\ to \in DirInums /\ NamedIn(ds, to) /\ IsDir(is, to) /\ newname \in DirNames
    BY DEF RenameOf, Sound
  <1>f. newname \notin DOMAIN ds[to]
    <2>1. newname \in DOMAIN ds[to] => ds[to][newname] # 0
      BY <1>t, NameTarget, NamesAssumption
    <2> QED
      BY <2>1 DEF RenameOf
  <1>x. x \in DirInums /\ NamedIn(ds, x) /\ IsDir(is, dir) /\ NamedIn(ds, dir)
    BY <1>t, NameTarget
  <1>e. /\ Typed(ds2, is)
        /\ \A d \in DirInums \ {dir, to} : ds2[d] = ds[d]
        /\ \A d \in DirInums : \A n :
             n \in DOMAIN ds2[d] <=>
                 (n \in DOMAIN ds[d] \/ (d = to /\ n = newname)) /\ ~ (d = dir /\ n = name)
        /\ newname \in DOMAIN ds2[to] /\ ds2[to][newname] = x
        /\ \A d \in DirInums : \A n \in DOMAIN ds2[d] : (d = to /\ n = newname) \/ ds2[d][n] = ds[d][n]
        /\ <<dir, name>> # <<to, newname>>
    BY RenameEffect
  <1>n. /\ \A i \in DirInums : NamedIn(ds2, i) <=> NamedIn(ds, i)
        /\ \A i \in DirInums \ {x} : NamesIn(ds2, i) = NamesIn(ds, i)
        /\ <<dir, name>> \in NamesIn(ds, x) /\ <<to, newname>> \notin NamesIn(ds, x)
        /\ NamesIn(ds2, x) = (NamesIn(ds, x) \ {<<dir, name>>}) \union {<<to, newname>>}
    <2>1. Renamed(ds, is, dir, name, to, newname, x, 0, ds2)
      BY RenameNames
    <2>2. 0 \notin DirInums
      BY NamesAssumption
    <2> QED
      BY <2>1, <2>2 DEF Renamed
  <1>l. /\ is \in [DirInums -> [type : Types, nlink : 0 .. TUX_LINK_MAX]]
        /\ \A i \in DirInums : is[i].nlink \in 0 .. TUX_LINK_MAX /\ is[i].type \in Types
    BY <1>t DEF Typed
  (* The subdirectories                                                     *)
  <1>c. \A i \in DirInums : /\ IsFiniteSet(SubdirsIn(ds, is, i))
                            /\ Cardinality(SubdirsIn(ds, is, i)) \in Nat
    BY <1>t, NamesFinite
  <1>s. /\ \A d \in DirInums \ {dir, to} : SubdirsIn(ds2, is, d) = SubdirsIn(ds, is, d)
        /\ ~ IsDir(is, x) => \A d \in DirInums : SubdirsIn(ds2, is, d) = SubdirsIn(ds, is, d)
        /\ IsDir(is, x) => /\ name \in SubdirsIn(ds, is, dir)
                           /\ newname \notin SubdirsIn(ds, is, to)
        /\ IsDir(is, x) /\ to # dir =>
             /\ SubdirsIn(ds2, is, to) = SubdirsIn(ds, is, to) \union {newname}
             /\ SubdirsIn(ds2, is, dir) = SubdirsIn(ds, is, dir) \ {name}
        /\ IsDir(is, x) /\ to = dir =>
             /\ SubdirsIn(ds2, is, dir) = (SubdirsIn(ds, is, dir) \ {name}) \union {newname}
    <2>1. \A d \in DirInums \ {dir, to} : SubdirsIn(ds2, is, d) = SubdirsIn(ds, is, d)
      BY <1>e DEF SubdirsIn
    <2>2. ASSUME ~ IsDir(is, x), NEW d \in DirInums PROVE SubdirsIn(ds2, is, d) = SubdirsIn(ds, is, d)
      <3>1. ASSUME NEW n \in SubdirsIn(ds2, is, d) PROVE n \in SubdirsIn(ds, is, d)
        BY <1>e, <2>2 DEF SubdirsIn
      <3>2. ASSUME NEW n \in SubdirsIn(ds, is, d) PROVE n \in SubdirsIn(ds2, is, d)
        BY <1>t, <1>e, <1>f, <2>2 DEF SubdirsIn
      <3> QED
        BY <3>1, <3>2
    <2>3. ASSUME IsDir(is, x) PROVE name \in SubdirsIn(ds, is, dir) /\ newname \notin SubdirsIn(ds, is, to)
      BY <1>t, <1>f, <2>3 DEF SubdirsIn
    <2>4. ASSUME IsDir(is, x), to # dir
          PROVE  /\ SubdirsIn(ds2, is, to) = SubdirsIn(ds, is, to) \union {newname}
                 /\ SubdirsIn(ds2, is, dir) = SubdirsIn(ds, is, dir) \ {name}
      <3>1. SubdirsIn(ds2, is, to) = SubdirsIn(ds, is, to) \union {newname}
        BY <1>t, <1>e, <1>f, <2>4 DEF SubdirsIn
      <3>2. SubdirsIn(ds2, is, dir) = SubdirsIn(ds, is, dir) \ {name}
        BY <1>t, <1>e, <2>4 DEF SubdirsIn
      <3> QED
        BY <3>1, <3>2
    <2>5. ASSUME IsDir(is, x), to = dir
          PROVE  SubdirsIn(ds2, is, dir) = (SubdirsIn(ds, is, dir) \ {name}) \union {newname}
      BY <1>t, <1>e, <1>f, <2>5 DEF SubdirsIn
    <2> QED
      BY <2>1, <2>2, <2>3, <2>4, <2>5
  <1>m. IsDir(is, x) => is[dir].nlink >= 3
    <2> SUFFICES ASSUME IsDir(is, x) PROVE is[dir].nlink >= 3
      OBVIOUS
    <2>1. Cardinality(SubdirsIn(ds, is, dir)) # 0 /\ Cardinality(SubdirsIn(ds, is, dir)) \in Nat
      <3>1. SubdirsIn(ds, is, dir) # {}
        BY <1>s
      <3> QED
        BY <1>t, <1>c, <3>1, FS_EmptySet
    <2>2. is[dir].nlink >= 2 + Cardinality(SubdirsIn(ds, is, dir))
      BY <1>t, <1>x DEF Links
    <2>3. is[dir].nlink \in 0 .. TUX_LINK_MAX
      BY <1>t, <1>l
    <2> QED
      BY <2>1, <2>2, <2>3, NamesAssumption
  <1>i. /\ is2 \in [DirInums -> [type : Types, nlink : 0 .. TUX_LINK_MAX]]
        /\ \A i \in DirInums : is2[i].type = is[i].type
        /\ \A i \in DirInums \ {dir, to} : is2[i] = is[i]
        /\ ~ (IsDir(is, x) /\ to # dir) => is2 = is
        /\ IsDir(is, x) /\ to # dir => /\ is2[to].nlink = is[to].nlink + 1
                                       /\ is2[dir].nlink = is[dir].nlink - 1
    <2>1. CASE ~ (IsDir(is, x) /\ to # dir)
      BY <1>l, <2>1 DEF MovedLinks
    <2>2. CASE IsDir(is, x) /\ to # dir
      <3> DEFINE up == [type |-> is[to].type, nlink |-> is[to].nlink + 1]
                 down == [type |-> is[dir].type, nlink |-> is[dir].nlink - 1]
      <3>1. is[to].nlink + 1 \in 0 .. TUX_LINK_MAX /\ is[dir].nlink - 1 \in 0 .. TUX_LINK_MAX
        <4>1. is[to].nlink \in 0 .. TUX_LINK_MAX /\ is[dir].nlink \in 0 .. TUX_LINK_MAX
          BY <1>t, <1>l
        <4>2. is[to].nlink < TUX_LINK_MAX /\ is[dir].nlink >= 3
          BY <1>m, <2>2
        <4> QED
          BY <4>1, <4>2, NamesAssumption
      <3>2. is[to] = [type |-> is[to].type, nlink |-> is[to].nlink]
        BY <1>t, <1>l
      <3>3. is[dir] = [type |-> is[dir].type, nlink |-> is[dir].nlink]
        BY <1>t, <1>l
      <3>4. is2 = [is EXCEPT ![to] = [is[to] EXCEPT !.nlink = is[to].nlink + 1],
                             ![dir] = [is[dir] EXCEPT !.nlink = is[dir].nlink - 1]]
        BY <1>t, <1>l, <2>2 DEF MovedLinks
      <3>5. /\ [is[to] EXCEPT !.nlink = is[to].nlink + 1] = up
            /\ [is[dir] EXCEPT !.nlink = is[dir].nlink - 1] = down
        BY <3>2, <3>3
      <3>6. is2 = [is EXCEPT ![to] = up, ![dir] = down]
        BY <3>4, <3>5
      <3>7. /\ up \in [type : Types, nlink : 0 .. TUX_LINK_MAX]
            /\ down \in [type : Types, nlink : 0 .. TUX_LINK_MAX]
            /\ up.type = is[to].type /\ up.nlink = is[to].nlink + 1
            /\ down.type = is[dir].type /\ down.nlink = is[dir].nlink - 1
        BY <1>t, <1>l, <3>1
      <3> HIDE DEF up, down
      <3>8. is2[to] = up /\ is2[dir] = down /\ \A i \in DirInums \ {dir, to} : is2[i] = is[i]
        BY <1>t, <1>l, <2>2, <3>6
      <3>9. is2 \in [DirInums -> [type : Types, nlink : 0 .. TUX_LINK_MAX]]
        BY <1>l, <3>6, <3>7
      <3> QED
        BY <2>2, <3>7, <3>8, <3>9
    <2> QED
      BY <2>1, <2>2
  <1>4. SameTypes(is, is2)
    <2>1. is[to].type # "none" /\ is[dir].type # "none"
      BY <1>t, <1>x DEF IsDir
    <2> QED
      BY <1>i, <2>1 DEF SameTypes
  <1>5. Typed(ds2, is2) /\ EmptyOrNamed(ds2, is2) /\ Tree(ds2, is2)
    BY <1>4, RenameTree
  (* A directory's count goes with the number of its subdirectories.        *)
  <1>q. ASSUME NEW i \in DirInums
        PROVE  /\ is2[i].nlink = is[i].nlink + Cardinality(SubdirsIn(ds2, is2, i))
                                             - Cardinality(SubdirsIn(ds, is, i))
               /\ is[i].nlink \in Nat
               /\ Cardinality(SubdirsIn(ds2, is2, i)) \in Nat
               /\ Cardinality(SubdirsIn(ds, is, i)) \in Nat
    <2>1. SubdirsIn(ds2, is2, i) = SubdirsIn(ds2, is, i)
      <3>1. \A n \in DOMAIN ds2[i] : ds2[i][n] \in DirInums
        BY <1>e DEF Typed
      <3> QED
        BY <1>i, <3>1 DEF SubdirsIn, IsDir
    <2>2. /\ is[i].nlink \in Nat
          /\ IsFiniteSet(SubdirsIn(ds, is, i)) /\ Cardinality(SubdirsIn(ds, is, i)) \in Nat
          /\ Cardinality(SubdirsIn(ds2, is2, i)) \in Nat
      BY <1>c, <1>l, <2>1, <1>e, NamesFinite, NamesAssumption
    <2>3. CASE i \notin {dir, to} \/ ~ IsDir(is, x)
      <3>1. is2[i] = is[i] /\ SubdirsIn(ds2, is, i) = SubdirsIn(ds, is, i)
        BY <1>i, <1>s, <2>3
      <3> QED
        BY <2>1, <2>2, <3>1
    <2>4. CASE IsDir(is, x) /\ to # dir /\ i = to
      <3>1. Cardinality(SubdirsIn(ds2, is, i)) = Cardinality(SubdirsIn(ds, is, i)) + 1
        BY <1>s, <2>2, <2>4, FS_AddElement
      <3> QED
        BY <1>i, <2>1, <2>2, <2>4, <3>1
    <2>5. CASE IsDir(is, x) /\ to # dir /\ i = dir
      <3>1. Cardinality(SubdirsIn(ds2, is, i)) = Cardinality(SubdirsIn(ds, is, i)) - 1
        BY <1>s, <2>2, <2>5, FS_RemoveElement
      <3> QED
        BY <1>i, <2>1, <2>2, <2>5, <3>1
    <2>6. CASE IsDir(is, x) /\ to = dir /\ i = dir
      <3>1. /\ Cardinality(SubdirsIn(ds, is, i) \ {name}) = Cardinality(SubdirsIn(ds, is, i)) - 1
            /\ IsFiniteSet(SubdirsIn(ds, is, i) \ {name})
        BY <1>s, <2>2, <2>6, FS_RemoveElement
      <3>2. newname \notin SubdirsIn(ds, is, i) \ {name}
        BY <1>s, <2>6
      <3>3. Cardinality(SubdirsIn(ds2, is, i)) = Cardinality(SubdirsIn(ds, is, i)) - 1 + 1
        BY <1>s, <2>6, <3>1, <3>2, FS_AddElement
      <3>4. is2[i] = is[i]
        BY <1>i, <2>6
      <3> QED
        BY <2>1, <2>2, <3>3, <3>4
    <2> QED
      BY <2>3, <2>4, <2>5, <2>6
  <1>6. Links(ds2, is2)
    <2>1. ASSUME NEW i \in DirInums, is2[i].type = "file"
          PROVE  is2[i].nlink = Cardinality(NamesIn(ds2, i))
      <3>1. IsFiniteSet(NamesIn(ds, i)) /\ Cardinality(NamesIn(ds, i)) \in Nat
        BY <1>t, NamesFinite
      <3>2. is[i].nlink = Cardinality(NamesIn(ds, i)) /\ is2[i] = is[i]
        BY <1>t, <1>i, <1>x, <2>1 DEF Links, IsDir
      <3>3. CASE i = x
        <4>1. Cardinality(NamesIn(ds, x) \ {<<dir, name>>}) = Cardinality(NamesIn(ds, x)) - 1
          BY <1>n, <3>1, <3>3, FS_RemoveElement
        <4>2. /\ IsFiniteSet(NamesIn(ds, x) \ {<<dir, name>>})
              /\ <<to, newname>> \notin NamesIn(ds, x) \ {<<dir, name>>}
          BY <1>n, <3>1, <3>3, FS_RemoveElement
        <4>3. Cardinality(NamesIn(ds2, x)) = Cardinality(NamesIn(ds, x)) - 1 + 1
          BY <1>n, <4>1, <4>2, FS_AddElement
        <4>4. Cardinality(NamesIn(ds2, x)) = Cardinality(NamesIn(ds, x))
          BY <3>1, <3>3, <4>3
        <4> QED
          BY <3>2, <3>3, <4>4
      <3>4. CASE i # x
        BY <1>n, <3>2, <3>4
      <3> QED
        BY <3>3, <3>4
    <2>2. ASSUME NEW i \in DirInums, IsDir(is2, i), NamedIn(ds2, i)
          PROVE  is2[i].nlink >= 2 + Cardinality(SubdirsIn(ds2, is2, i))
      <3>1. is[i].nlink >= 2 + Cardinality(SubdirsIn(ds, is, i))
        BY <1>t, <1>i, <1>n, <2>2 DEF Links, IsDir
      <3> QED
        BY <1>q, <3>1
    <2> QED
      BY <2>1, <2>2 DEF Links
  <1>7. ASSUME NEW i \in DirInums, IsDir(is2, i), i \notin sp
        PROVE  is2[i].nlink = IF NamedIn(ds2, i) THEN 2 + Cardinality(SubdirsIn(ds2, is2, i)) ELSE 0
    <2>1. IsDir(is, i) /\ (NamedIn(ds2, i) <=> NamedIn(ds, i))
      BY <1>i, <1>n, <1>7 DEF IsDir
    <2>2. CASE NamedIn(ds, i)
      <3>1. is[i].nlink = 2 + Cardinality(SubdirsIn(ds, is, i))
        BY <1>7, <2>1, <2>2 DEF Exact
      <3> QED
        BY <1>q, <2>1, <2>2, <3>1
    <2>3. CASE ~ NamedIn(ds, i)
      <3>1. i \notin {dir, to}
        BY <1>t, <1>x, <2>3
      <3> QED
        BY <1>i, <1>7, <2>1, <2>3, <3>1 DEF Exact
    <2> QED
      BY <2>2, <2>3
  <1> QED
    BY <1>i, <1>5, <1>6, <1>7 DEF Sound, Exact

(* tux3_rename(), called with the directory that the caller looked up       *)
LEMMA RenameStep ==
    ASSUME NamesInv, nm!Rename
    PROVE  /\ RunInv'
           /\ moved'.caller = "kernel" =>
                /\ moved'.name \in DOMAIN dirs'[moved'.dir]
                /\ dirs'[moved'.dir][moved'.name] = moved'.inum
  <1>p. PICK dir \in nm!AllDirs, newdir \in nm!AllDirs, caller \in Callers,
             newname \in DirNames, room \in BOOLEAN :
          \E name \in DOMAIN dirs[dir] : \E to \in {nm!NewDir(caller, dir, newdir)} :
            LET old == dirs[dir][name]
            IN  /\ nm!Lookup(newdir, newname) # old /\ ~ nm!Below(old, newdir)
                /\ nm!Lookup(newdir, newname) # 0 => ~ nm!Below(nm!Lookup(newdir, newname), dir)
                /\ \/ /\ IF nm!Lookup(to, newname) = old
                         THEN UNCHANGED <<inodes, dirs, opened, stopped, surplus>>
                         ELSE nm!tux3_rename(dir, name, to, newname, room)
                      /\ moved' = [caller |-> caller, dir |-> newdir, name |-> newname, inum |-> old]
                   \/ /\ nm!Lookup(to, newname) # old
                      /\ nm!tux3_rename_Fails(dir, name, to, newname, room)
                      /\ moved' = nm!NotMoved
    BY DEF nm!Rename
  <1> DEFINE to == nm!NewDir(caller, dir, newdir)
  <1>0. PICK name \in DOMAIN dirs[dir] :
          LET old == dirs[dir][name]
          IN  /\ nm!Lookup(newdir, newname) # old /\ ~ nm!Below(old, newdir)
              /\ \/ /\ IF nm!Lookup(to, newname) = old
                       THEN UNCHANGED <<inodes, dirs, opened, stopped, surplus>>
                       ELSE nm!tux3_rename(dir, name, to, newname, room)
                    /\ moved' = [caller |-> caller, dir |-> newdir, name |-> newname, inum |-> old]
                 \/ /\ nm!tux3_rename_Fails(dir, name, to, newname, room)
                    /\ moved' = nm!NotMoved
    BY <1>p
  <1>1. SUFFICES ASSUME
            LET old == dirs[dir][name]
            IN  /\ nm!Lookup(newdir, newname) # old /\ ~ nm!Below(old, newdir)
                /\ IF nm!Lookup(to, newname) = old
                   THEN UNCHANGED <<inodes, dirs, opened, stopped, surplus>>
                   ELSE nm!tux3_rename(dir, name, to, newname, room)
                /\ moved' = [caller |-> caller, dir |-> newdir, name |-> newname, inum |-> old]
        PROVE  /\ NamesInv'
               /\ moved'.caller = "kernel" =>
                    /\ moved'.name \in DOMAIN dirs'[moved'.dir]
                    /\ dirs'[moved'.dir][moved'.name] = moved'.inum
    <2>1. ASSUME nm!tux3_rename_Fails(dir, name, to, newname, room), moved' = nm!NotMoved
          PROVE  RunInv' /\ moved'.caller # "kernel"
      BY <2>1 DEF nm!tux3_rename_Fails, RunInv, nm!NotMoved
    <2> QED
      BY <1>0, <2>1 DEF RunInv
  <1> DEFINE x == dirs[dir][name]
             y == nm!Lookup(to, newname)
             ds == nm!Delete(nm!Add(dirs, to, newname, x), dir, name)
  <1>t. /\ Sound(dirs, inodes) /\ Typed(dirs, inodes) /\ EmptyOrNamed(dirs, inodes)
        /\ opened \subseteq DirInums /\ \A i \in opened : inodes[i].type # "none"
        /\ Exact(dirs, inodes, surplus) /\ surplus \subseteq DirInums /\ stopped = FALSE
        /\ surplus \union {} = surplus
    BY DEF NamesInv, Sound, OpenExact
  <1>d. /\ dir \in DirInums /\ IsDir(inodes, dir) /\ NamedIn(dirs, dir)
        /\ to \in DirInums /\ IsDir(inodes, to) /\ NamedIn(dirs, to)
        /\ newdir \in DirInums
        /\ to = newdir \/ to = dir
        /\ caller = "kernel" => to = newdir
    <2>1. to = newdir \/ to = dir
      BY DEF nm!NewDir
    <2>2. caller = "kernel" => to = newdir
      BY DEF nm!NewDir
    <2> HIDE DEF to
    <2> QED
      BY <2>1, <2>2, DirNamed
  <1>x. x \in DirInums /\ inodes[x].type \in {"dir", "file"}
    BY <1>t, <1>d, NameTarget
  <1>y. y = IF newname \in DOMAIN dirs[to] THEN dirs[to][newname] ELSE 0
    BY DirNamed
  <1>m. /\ moved' = [caller |-> caller, dir |-> newdir, name |-> newname, inum |-> x]
        /\ nm!Lookup(newdir, newname) # x
        /\ ~ nm!Below(x, newdir)
        /\ y = x => UNCHANGED <<inodes, dirs, opened, stopped, surplus>>
        /\ y # x => nm!tux3_rename(dir, name, to, newname, room)
    BY <1>1
  <1> HIDE DEF to
  <1>r. IsDir(inodes, x) => ~ Reaches(dirs, x, to)
    <2>1. ~ Reaches(dirs, x, newdir)
      BY <1>x, <1>m, BelowReaches
    <2>2. IsDir(inodes, x) => ~ Reaches(dirs, x, dir)
      BY <1>t, <1>d, Acyclic
    <2> QED
      BY <1>d, <2>1, <2>2
  <1>2. CASE y = x
    <2>1. /\ inodes' = inodes /\ dirs' = dirs /\ opened' = opened
          /\ stopped' = stopped /\ surplus' = surplus
      BY <1>m, <1>2
    <2>2. NamesInv'
      BY <2>1 DEF NamesInv, OpenExact
    <2>3. moved'.caller # "kernel"
      BY <1>d, <1>m, <1>2
    <2> QED
      BY <2>2, <2>3
  <1>3. CASE y # x
    <2>1. nm!tux3_rename(dir, name, to, newname, room)
      BY <1>m, <1>3
    <2>2. ASSUME y # 0
          PROVE  /\ nm!MayReplace(x, y)
                 /\ nm!Done(ds, [inodes EXCEPT ![y].nlink = @ - (IF IsDir(inodes, x) THEN 2 ELSE 1)],
                            opened, IF IsDir(inodes, x) THEN {dir} ELSE {})
      BY <2>1, <2>2 DEF nm!tux3_rename, nm!MayRename, nm!Replaced, nm!S_ISDIR, IsDir
    <2>3. ASSUME y = 0
          PROVE  /\ IsDir(inodes, x) /\ to # dir => inodes[to].nlink < TUX_LINK_MAX
                 /\ nm!Done(ds, MovedLinks(inodes, x, to, dir), opened, {})
      <3>1. nm!MovedOut(nm!MovedIn(inodes, x, dir, to), x, dir, to) = MovedLinks(inodes, x, to, dir)
        BY DEF nm!MovedOut, nm!MovedIn, nm!S_ISDIR, IsDir, MovedLinks
      <3> QED
        BY <2>1, <2>3, <3>1 DEF nm!tux3_rename, nm!MayRename, nm!S_ISDIR, IsDir
    <2>4. RenameOf(dirs, inodes, dir, name, to, newname, x, y, ds)
      <3>1. ASSUME y # 0 PROVE (IsDir(inodes, x) <=> IsDir(inodes, y)) /\ dirs[y] = <<>>
        <4>1. y \in DirInums
          BY <1>t, <1>d, <1>y, <3>1, NameTarget
        <4> QED
          BY <1>t, <2>2, <3>1, <4>1 DEF nm!MayReplace, nm!S_ISDIR, IsDir, EmptyOrNamed
      <3> QED
        BY <1>t, <1>d, <1>y, <1>r, <1>3, <3>1 DEF RenameOf
    <2> HIDE DEF ds, x, y
    <2>5. NamesInv' /\ dirs' = ds
      <3>1. CASE y # 0
        <4> DEFINE is == [inodes EXCEPT ![y].nlink = @ - (IF IsDir(inodes, x) THEN 2 ELSE 1)]
                   high == IF IsDir(inodes, x) THEN {dir} ELSE {}
        <4>1. /\ Sound(ds, is) /\ \A i \in DirInums : is[i].type = inodes[i].type
              /\ Exact(ds, is, surplus \union high)
          BY <1>t, <2>4, <3>1, RenameReplaces
        <4>2. nm!Done(ds, is, opened, high)
          BY <2>2, <3>1
        <4>3. surplus \union high \subseteq DirInums
          BY <1>t, <1>d
        <4> HIDE DEF is, high
        <4> QED
          BY <1>t, <4>1, <4>2, <4>3, DoneStep
      <3>2. CASE y = 0
        <4> DEFINE is == MovedLinks(inodes, x, to, dir)
        <4>0. RenameOf(dirs, inodes, dir, name, to, newname, x, 0, ds)
          BY <2>4, <3>2
        <4>2. nm!Done(ds, is, opened, {})
          BY <2>3, <3>2
        <4>3. is = MovedLinks(inodes, x, to, dir)
          OBVIOUS
        <4>4. IsDir(inodes, x) /\ to # dir => inodes[to].nlink < TUX_LINK_MAX
          BY <2>3, <3>2
        <4> HIDE DEF is
        <4>1. /\ Sound(ds, is) /\ \A i \in DirInums : is[i].type = inodes[i].type
              /\ Exact(ds, is, surplus \union {})
          BY <1>t, <4>0, <4>3, <4>4, RenameMovesInto
        <4> QED
          BY <1>t, <4>1, <4>2, DoneStep
      <3> QED
        BY <3>1, <3>2
    <2>6. newname \in DOMAIN ds[to] /\ ds[to][newname] = x
      BY <2>4, RenameEffect
    <2> QED
      BY <1>d, <1>m, <2>5, <2>6
  <1> QED
    BY <1>2, <1>3

LEMMA OpenStep ==
    ASSUME NamesInv, nm!Open \/ nm!Release
    PROVE  NamesInv'
  <1>t. /\ Sound(dirs, inodes) /\ opened \subseteq DirInums
        /\ \A i \in opened : inodes[i].type # "none"
        /\ Exact(dirs, inodes, surplus) /\ surplus \subseteq DirInums /\ stopped = FALSE
        /\ surplus \union {} = surplus
    BY DEF NamesInv, OpenExact
  <1>1. CASE nm!Open
    <2>1. PICK i \in DirInums : nm!Named(i) /\ nm!Done(dirs, inodes, opened \union {i}, {})
      BY <1>1 DEF nm!Open
    <2>2. inodes[i].type # "none"
      BY <1>t, <2>1, DirNamed, NamedLinked
    <2>3. opened \union {i} \subseteq DirInums /\ \A j \in opened \union {i} : inodes[j].type # "none"
      BY <1>t, <2>2
    <2> QED
      BY <1>t, <2>1, <2>3, DoneStep
  <1>2. CASE nm!Release
    <2>1. PICK i \in opened : nm!Done(dirs, inodes, opened \ {i}, {})
      BY <1>2 DEF nm!Release
    <2>2. opened \ {i} \subseteq DirInums /\ \A j \in opened \ {i} : inodes[j].type # "none"
      BY <1>t
    <2> QED
      BY <1>t, <2>1, <2>2, DoneStep
  <1> QED
    BY <1>1, <1>2

LEMMA NamesInit == FrontInit => NamesInv
  <1> SUFFICES ASSUME nm!Init PROVE NamesInv
    BY DEF FrontInit
  <1>1. /\ inodes = [i \in DirInums |-> IF i = Root THEN [type |-> "dir", nlink |-> 2] ELSE nm!NoInode]
        /\ dirs = [i \in DirInums |-> <<>>] /\ opened = {} /\ Root \in DirInums
        /\ surplus = {} /\ stopped = FALSE
    BY NamesAssumption DEF nm!Init
  <1>2. \A d \in DirInums : dirs[d] = <<>> /\ DOMAIN dirs[d] = {}
    BY <1>1
  <1>3. \A i \in DirInums \ {Root} : inodes[i].type = "none" /\ inodes[i].nlink = 0
    BY <1>1 DEF nm!NoInode
  <1>4. inodes[Root].type = "dir" /\ inodes[Root].nlink = 2
    BY <1>1
  <1>5. Typed(dirs, inodes)
    <2>1. inodes \in [DirInums -> [type : Types, nlink : 0 .. TUX_LINK_MAX]]
      BY <1>1, NamesAssumption DEF nm!NoInode, Types
    <2>2. dirs = [d \in DirInums |-> dirs[d]]
      BY <1>1
    <2>3. \A d \in DirInums : dirs[d] \in [DOMAIN dirs[d] -> DirInums] /\ DOMAIN dirs[d] \subseteq DirNames
      <3>1. DOMAIN <<>> = {} /\ <<>> \in [{} -> DirInums]
        OBVIOUS
      <3> QED
        BY <1>2, <3>1
    <2> QED
      BY <2>1, <2>2, <2>3 DEF Typed
  <1>6. EmptyOrNamed(dirs, inodes)
    BY <1>2, <1>3, <1>4 DEF EmptyOrNamed
  <1>7. Links(dirs, inodes)
    <2>1. SubdirsIn(dirs, inodes, Root) = {}
      BY <1>1, <1>2 DEF SubdirsIn
    <2>2. Cardinality(SubdirsIn(dirs, inodes, Root)) = 0
      BY <2>1, FS_EmptySet
    <2>3. 2 >= 2 + Cardinality(SubdirsIn(dirs, inodes, Root))
      BY <2>2
    <2> QED
      BY <1>3, <1>4, <2>3 DEF Links, IsDir
  <1>8. Tree(dirs, inodes)
    <2>1. Reaches(dirs, Root, Root)
      BY DEF Reaches
    <2>2. NamesIn(dirs, Root) = {}
      BY <1>2 DEF NamesIn
    <2> QED
      BY <1>2, <1>3, <1>4, <2>1, <2>2 DEF Tree, IsDir
  <1>9. Exact(dirs, inodes, surplus)
    <2>1. SubdirsIn(dirs, inodes, Root) = {}
      BY <1>1, <1>2 DEF SubdirsIn
    <2>2. Cardinality(SubdirsIn(dirs, inodes, Root)) = 0
      BY <2>1, FS_EmptySet
    <2>3. NamedIn(dirs, Root) /\ 2 = 2 + Cardinality(SubdirsIn(dirs, inodes, Root))
      BY <2>2 DEF NamedIn
    <2> QED
      BY <1>3, <1>4, <2>3 DEF Exact, IsDir
  <1> QED
    BY <1>1, <1>3, <1>4, <1>5, <1>6, <1>7, <1>8, <1>9 DEF NamesInv, Sound, OpenExact

(* Every call preserves the invariant, and a rename moves what it says.     *)
LEMMA NamesStep ==
    ASSUME RunInv, [FrontNext]_frontVars
    PROVE  /\ RunInv'
           /\ component = "names" /\ moved' # moved /\ moved'.caller = "kernel" =>
                /\ moved'.name \in DOMAIN dirs'[moved'.dir]
                /\ dirs'[moved'.dir][moved'.name] = moved'.inum
  <1>1. CASE nm!Next
    <2>0. NamesInv
      BY <1>1 DEF RunInv, nm!Next
    <2>1. CASE nm!Rename
      BY <2>0, <2>1, RenameStep
    <2>2. CASE nm!Mknod \/ nm!Link \/ nm!Unlink \/ nm!Rmdir \/ nm!Open \/ nm!Release
      <3>1. NamesInv'
        BY <2>0, <2>2, MknodStep, LinkStep, UnlinkStep, RmdirStep, OpenStep
      <3>2. moved' = nm!NotMoved
        BY <2>2 DEF nm!Mknod, nm!Link, nm!Unlink, nm!Rmdir, nm!Open, nm!Release
      <3> QED
        BY <3>1, <3>2 DEF nm!NotMoved, RunInv
    <2> QED
      BY <1>1, <2>1, <2>2 DEF nm!Next
  <1>2. CASE UNCHANGED namesVars
    <2>1. /\ inodes' = inodes /\ dirs' = dirs /\ opened' = opened /\ moved' = moved
          /\ stopped' = stopped /\ surplus' = surplus
      BY <1>2 DEF namesVars
    <2>2. NamesInv => NamesInv'
      BY <2>1 DEF NamesInv, OpenExact
    <2> QED
      BY <2>1, <2>2 DEF RunInv
  <1> QED
    BY <1>1, <1>2 DEF FrontNext, frontVars

(* The Cardinality of FiniteSets that Names extends is the one used here.   *)
LEMMA NamesCardinality == ASSUME NEW s PROVE nm!Cardinality(s) = Cardinality(s)
  BY DEF nm!Cardinality, Cardinality, nm!IsFiniteSet, IsFiniteSet

(* What the run checks of a state follows from the invariant.               *)
LEMMA NamesInvSound == RunInv => NamesSound
  <1> SUFFICES ASSUME NamesInv
               PROVE  nm!TypeOK /\ nm!LinksSafe /\ nm!TreeSound /\ nm!DeletedExact
    BY DEF RunInv, NamesSound
  <1>t. /\ Sound(dirs, inodes) /\ Typed(dirs, inodes) /\ EmptyOrNamed(dirs, inodes)
        /\ Links(dirs, inodes) /\ Tree(dirs, inodes) /\ opened \subseteq DirInums /\ OpenExact
        /\ Exact(dirs, inodes, surplus) /\ surplus \subseteq DirInums /\ stopped = FALSE
    BY DEF NamesInv, Sound
  <1>n. \A i \in DirInums : /\ IsFiniteSet(NamesIn(dirs, i))
                            /\ Cardinality(NamesIn(dirs, i)) \in Nat
    BY <1>t, NamesFinite
  <1>1. nm!TypeOK
    BY <1>t DEF Typed, Types, nm!TypeOK, nm!Range
  <1>2. nm!LinksSafe
    <2> SUFFICES ASSUME NEW i \in DirInums, inodes[i] # nm!NoInode
                 PROVE  /\ IsDir(inodes, i) =>
                             LET need == IF NamedIn(dirs, i)
                                         THEN 2 + Cardinality(nm!Subdirs(i)) ELSE 0
                             IN  /\ inodes[i].nlink >= need
                                 /\ i \notin surplus => inodes[i].nlink = need
                        /\ ~ IsDir(inodes, i) => inodes[i].nlink = Cardinality(NamesIn(dirs, i))
      <3>1. /\ \A i : nm!Named(i) <=> NamedIn(dirs, i)
            /\ \A i : nm!NamesOf(i) = NamesIn(dirs, i)
            /\ \A i : nm!S_ISDIR(i) <=> IsDir(inodes, i)
        BY DirNamed DEF nm!S_ISDIR, IsDir
      <3>2. ASSUME NEW i \in DirInums, inodes[i] # nm!NoInode
            PROVE  IF nm!S_ISDIR(i)
                   THEN LET need == IF nm!Named(i)
                                    THEN 2 + nm!Cardinality(nm!Subdirs(i)) ELSE 0
                        IN  /\ inodes[i].nlink >= need
                            /\ i \notin surplus => inodes[i].nlink = need
                   ELSE inodes[i].nlink = nm!Cardinality(nm!NamesOf(i))
        BY <3>1, <3>2, NamesCardinality
      <3> QED
        BY <3>2 DEF nm!LinksSafe
    <2>1. nm!Subdirs(i) = SubdirsIn(dirs, inodes, i)
      BY DEF nm!Subdirs, SubdirsIn, nm!S_ISDIR, IsDir
    <2>2. inodes[i].type # "none"
      <3>1. inodes[i] = [type |-> inodes[i].type, nlink |-> inodes[i].nlink]
        BY <1>t DEF Typed
      <3> QED
        BY <1>t, <3>1 DEF EmptyOrNamed, nm!NoInode
    <2>3. inodes[i].type \in Types /\ inodes[i].nlink \in 0 .. TUX_LINK_MAX
      BY <1>t DEF Typed
    <2>4. ASSUME IsDir(inodes, i)
          PROVE  LET need == IF NamedIn(dirs, i) THEN 2 + Cardinality(SubdirsIn(dirs, inodes, i)) ELSE 0
                 IN  /\ inodes[i].nlink >= need
                     /\ i \notin surplus => inodes[i].nlink = need
      BY <1>t, <2>3, <2>4, NamesAssumption DEF Links, Exact
    <2>5. ASSUME ~ IsDir(inodes, i) PROVE inodes[i].nlink = Cardinality(NamesIn(dirs, i))
      BY <1>t, <2>2, <2>3, <2>5 DEF Links, Types, IsDir
    <2> QED
      BY <2>1, <2>4, <2>5
  <1>3. nm!TreeSound
    <2>1. ASSUME NEW d \in DirInums, NEW n \in DOMAIN dirs[d] PROVE inodes[dirs[d][n]].nlink > 0
      BY <1>t, <2>1, NameTarget, NamedLinked
    <2>2. ASSUME NEW d \in DirInums, d \in nm!AllDirs \ {Root}
          PROVE  nm!Cardinality(nm!NamesOf(d)) = 1 /\ nm!Below(Root, d)
      <3>1. d \in DirInums /\ IsDir(inodes, d) /\ NamedIn(dirs, d) /\ d # Root
        BY <2>2, DirNamed
      <3>2. Reaches(dirs, Root, d) /\ \A p, q \in NamesIn(dirs, d) : p = q
        BY <1>t, <3>1 DEF Tree
      <3>3. PICK p \in DirInums : \E n \in DOMAIN dirs[p] : dirs[p][n] = d
        BY <3>1 DEF NamedIn
      <3>4. PICK n \in DOMAIN dirs[p] : dirs[p][n] = d
        BY <3>3
      <3>5. <<p, n>> \in NamesIn(dirs, d)
        BY <1>t, <3>4, NameTarget
      <3>6. NamesIn(dirs, d) = {<<p, n>>}
        BY <3>2, <3>5
      <3>7. Cardinality(NamesIn(dirs, d)) = 1
        BY <3>6, FS_Singleton
      <3> QED
        BY <3>2, <3>7, DirNamed, BelowReaches, NamesCardinality, NamesAssumption
    <2>3. ASSUME NEW d \in DirInums, ~ nm!Named(d) PROVE dirs[d] = <<>>
      BY <1>t, <2>3, DirNamed DEF EmptyOrNamed
    <2> QED
      BY <2>1, <2>2, <2>3 DEF nm!TreeSound
  <1>4. nm!DeletedExact
    <2> SUFFICES ASSUME NEW i \in DirInums
                 PROVE  /\ i \in opened => inodes[i] # nm!NoInode
                        /\ inodes[i] # nm!NoInode => NamedIn(dirs, i) \/ i \in opened \union surplus
      BY DirNamed DEF nm!DeletedExact
    <2>1. i \in opened => inodes[i] # nm!NoInode
      BY <1>t DEF OpenExact, nm!NoInode
    <2>2. ASSUME inodes[i] # nm!NoInode, i \notin opened, i \notin surplus PROVE NamedIn(dirs, i)
      <3>0. inodes[i].type # "none"
        <4>1. inodes[i] = [type |-> inodes[i].type, nlink |-> inodes[i].nlink]
          BY <1>t DEF Typed
        <4> QED
          BY <1>t, <2>2, <4>1 DEF EmptyOrNamed, nm!NoInode
      <3>1. inodes[i].nlink > 0
        BY <1>t, <2>2, <3>0 DEF OpenExact
      <3>2. CASE IsDir(inodes, i)
        BY <1>t, <2>2, <3>1, <3>2 DEF Exact
      <3>3. CASE inodes[i].type = "file"
        <4>1. Cardinality(NamesIn(dirs, i)) # 0
          BY <1>t, <3>1, <3>3 DEF Links
        <4>2. NamesIn(dirs, i) # {}
          BY <4>1, FS_EmptySet
        <4> QED
          BY <4>2 DEF NamesIn, NamedIn
      <3> QED
        BY <1>t, <3>0, <3>2, <3>3 DEF Typed, Types, IsDir
    <2> QED
      BY <2>1, <2>2
  <1> QED
    BY <1>1, <1>2, <1>3, <1>4

(* Names!LinksSafe, TreeSound and DeletedExact until tux3_fs_error() stops  *)
(* a rename (kernel/namei.c:386): whatever calls come in whatever order,    *)
(* and fail for lack of room or at a delete, link counts match the names,   *)
(* the names make a tree, no inode goes that has a name or a file handle;   *)
(* and only a directory in which a rename replaced a subdirectory has a     *)
(* count that is too high or stays without a name.                          *)
THEOREM NamesAreSound == FrontSpec => []NamesSound
  <1>1. FrontInit => RunInv
    BY NamesInit DEF RunInv
  <1>2. RunInv /\ [FrontNext]_frontVars => RunInv'
    BY NamesStep
  <1>3. RunInv => NamesSound
    BY NamesInvSound
  <1> QED
    BY <1>1, <1>2, <1>3, PTL DEF FrontSpec

(* tux3_rename() through the kernel: what had the old name has the new one  *)
(* of the new directory when the call returns.                              *)
THEOREM KernelRenameMoves == FrontSpec => NamesRenameMoves
  <1>1. FrontInit => RunInv
    BY NamesInit DEF RunInv
  <1>2. RunInv /\ [FrontNext]_frontVars => RunInv'
    BY NamesStep
  <1>3. RunInv /\ [FrontNext]_frontVars =>
          [component = "names" /\ moved' # moved /\ moved'.caller = "kernel" =>
             /\ moved'.name \in DOMAIN dirs'[moved'.dir]
             /\ dirs'[moved'.dir][moved'.name] = moved'.inum]_frontVars
    BY NamesStep
  <1> QED
    BY <1>1, <1>2, <1>3, PTL DEF FrontSpec, NamesRenameMoves
=============================================================================
