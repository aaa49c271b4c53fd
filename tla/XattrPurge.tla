----------------------------- MODULE XattrPurge -----------------------------
(***************************************************************************)
(* The purge of an inode's extended attributes by a flush thread.          *)
(* xcache_remove_all() does not take the mutex of atable, so that calls on *)
(* other inodes come between the two halves of its atomref(): the count is *)
(* read, and later written from what was read.  (A purge may also come     *)
(* between the halves of a call's atomref(), with the same effect the      *)
(* other way round: that side is not here.)                                *)
(* kernel/Makefile builds a flush thread but its calls for xattrs are      *)
(* commented out (kernel/inode.c:1066), so nothing runs this way today.    *)
(***************************************************************************)
EXTENDS Xattr

VARIABLES
    purge,   \* inodes: the one that is purged, if any; its attributes that
             \* are done; low: half of the count of the next one as read
    crossed  \* auxiliary: a purge wrote back half a count that was stale

Idle == [inodes |-> {}, done |-> 0, low |-> -1]
Entries(inode)  == xcache[inode].entries
NextAtom(inode) == Entries(inode)[purge.done + 1].atom

PurgeInit == Init /\ purge = Idle /\ crossed = FALSE

(* A call on an inode that is in use *)
Call ==
    /\ \E inode \in Inodes \ purge.inodes, name \in Names :
          \/ \E len \in Lens : set_xattr(inode, name, len, "")
          \/ del_xattr(inode, name)
    /\ UNCHANGED <<purge, crossed>>

(* atomref() up to "low = ..." for the next attribute *)
AtomrefRead(inode) ==
    /\ purge.inodes \subseteq {inode} /\ purge.low < 0 /\ Entries(inode) # <<>>
    /\ purge' = [purge EXCEPT !.inodes = {inode}, !.low = atable.low[NextAtom(inode)]]
    /\ UNCHANGED <<vars, crossed>>

(* Mutant: the count that was read is written back as it is now. *)
AtomrefWrite_Twice(inode) ==
    /\ inode \in purge.inodes /\ purge.low >= 0
    /\ LET asRead == [atable EXCEPT !.low[NextAtom(inode)] = purge.low]
       IN  atable' = atomref(asRead, NextAtom(inode), -1)
    /\ purge' = [purge EXCEPT !.low = -1]
    /\ UNCHANGED <<xcache, attrs, failed, crossed>>

(* The rest of it, and free_xcache() after the last one *)
AtomrefWrite(inode) ==
    /\ inode \in purge.inodes /\ purge.low >= 0
    /\ LET asRead == [atable EXCEPT !.low[NextAtom(inode)] = purge.low]
           last   == purge.done + 1 = Len(Entries(inode))
       IN  /\ atable' = atomref(asRead, NextAtom(inode), -1)
           /\ failed' = (failed \/ AtomrefFails(asRead, NextAtom(inode), -1))
           /\ crossed' = (crossed \/ atable.low[NextAtom(inode)] # purge.low)
           /\ purge' = IF last THEN Idle ELSE [purge EXCEPT !.done = @ + 1, !.low = -1]
           /\ xcache' = IF last THEN [xcache EXCEPT ![inode] = NoXcache] ELSE xcache
           /\ attrs' = IF last THEN [attrs EXCEPT ![inode] = <<>>] ELSE attrs

(* Nothing is asked of what follows a count that was written back stale.    *)
PurgeNext ==
    /\ ~ failed /\ ~ crossed
    /\ Call \/ \E inode \in Inodes : AtomrefRead(inode) \/ AtomrefWrite(inode)

PurgeSpec == PurgeInit /\ [][PurgeNext]_<<vars, purge, crossed>>

(* While no purge is under way, the count of an atom is the number of       *)
(* inodes that have it, whatever calls ran during the purges so far (over   *)
(* carries, deleted atoms and atoms that are used again), unless a purge    *)
(* wrote back a count that a call had changed (kernel/xattr.c:372, 759).    *)
PurgeExact == ~ crossed => ~ failed /\ (purge = Idle => RefcountExact)

(* What kernel/xattr.c:140 and 324 say, "The atable is protected by         *)
(* i_mutex", promises this without the exception.  The code breaks it.      *)
PurgedRefcount == purge = Idle => RefcountExact
=============================================================================
