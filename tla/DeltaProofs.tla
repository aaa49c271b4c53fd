----------------------------- MODULE DeltaProofs -----------------------------
(* Proofs about Delta, for any number of tasks and operations: references,  *)
(* slots, the exclusive backend, commits in sequence, atomic operations,    *)
(* and the syncs, for any interleaving of them with the backend.            *)
EXTENDS Delta, FiniteSetTheorems, TLAPS

(* A transition or commit in progress belongs to one thread, except while   *)
(* PENDING is set and while the previous delta is drained of references.    *)
WritePCs == {"fl_commit", "fl_post", "fl_done", "fl_unlock"}
ZeroPCs  == {"dt_pend", "pend", "fl_start"}
SetupPCs == {"recheck", "dt_set", "dt_num", "dt_marshal"}
OwnPCs   == SetupPCs \union {"dt_put"} \union ZeroPCs \union WritePCs
Owned    == \E t \in Threads : pc[t] \in OwnPCs

RefPCs == HoldPCs \union {"inc", "dt_num", "dt_marshal", "dt_put"}

(* A thread that uses its slot has one. *)
RefsSet == \A t \in Tasks : pc[t] \in RefPCs => ref[t] \in Slots

(* The threads of TransitionPCs are tasks. *)
FlushTaskIdle == pc[FlushTask] \in FlushPCs \union FlushTaskPCs

OneOwner ==
    /\ \A t, u \in Threads : (pc[t] \in OwnPCs /\ pc[u] \in OwnPCs) => t = u
    /\ pending => ~Owned
    /\ (Owned \/ pending) => running
    /\ (running /\ ~Owned /\ ~pending) => pending_delta # NULL

(* pending_delta is the slot before the current one, from the transition    *)
(* to the start of the commit; its references are gone when PENDING is set. *)
PendingSlot ==
    /\ pending_delta # current_delta
    /\ ~running => pending_delta = NULL
    /\ pending => (pending_delta # NULL /\ refcount[pending_delta] = 0)
    /\ pending_delta # NULL => tux3_delta(marshal_delta) = pending_delta
    /\ (~Owned /\ ~pending /\ pending_delta # NULL) => refcount[pending_delta] # 0
    /\ \A t \in Threads :
         /\ pc[t] \in SetupPCs \union WritePCs => pending_delta = NULL
         /\ pc[t] = "dt_put" => pending_delta = ref[t]
         /\ pc[t] \in ZeroPCs => (pending_delta # NULL /\ refcount[pending_delta] = 0)

(* The slot after the current one is free unless a transition or the        *)
(* draining of the previous delta is under way.                             *)
FreeSlot ==
    /\ ~running => refcount[NextSlot(current_delta)] = 0
    /\ \A t \in Threads : pc[t] \in {"recheck", "dt_set"} \union WritePCs =>
           refcount[NextSlot(current_delta)] = 0

(* The slot a transition comes from. *)
PreviousSlot ==
    \A t \in Tasks :
        /\ pc[t] = "dt_num" => ref[t] = current_delta
        /\ pc[t] \in {"dt_marshal", "dt_put"} => current_delta = NextSlot(ref[t])

(* A delta's number selects its slot. *)
Numbering ==
    /\ next_delta = delta_of[current_delta] + 1
    /\ tux3_delta(delta_of[current_delta]) = current_delta
    /\ \A t \in Tasks : pc[t] = "dt_marshal" => tux3_delta(delta_of[ref[t]]) = ref[t]
    /\ \A t \in Threads : pc[t] \in {"fl_commit", "fl_post"} =>
           tux3_delta(cdelta[t]) = NextSlot(current_delta)

IInv == /\ TypeOK /\ RefsSet /\ FlushTaskIdle /\ RefcountAccounts
        /\ OneOwner /\ PendingSlot /\ FreeSlot /\ PreviousSlot /\ Numbering

-----------------------------------------------------------------------------
(* tux3_delta() selects one of the slots. *)
LEMMA DeltaSlot == \A d \in Int : tux3_delta(d) \in Slots
  BY DEF tux3_delta, Slots, TUX3_MAX_DELTA

(* The successor of a slot is the other slot. *)
LEMMA OtherSlot ==
    \A s \in Slots : /\ NextSlot(s) \in Slots /\ NextSlot(s) # s /\ NextSlot(NextSlot(s)) = s
                    /\ \A r \in Slots : r # s => r = NextSlot(s)
  BY DEF NextSlot, Slots, TUX3_MAX_DELTA

(* Consecutive deltas have different slots. *)
LEMMA Parity == \A d \in Nat : tux3_delta(d + 1) = NextSlot(tux3_delta(d))
  BY DEF tux3_delta, NextSlot, TUX3_MAX_DELTA

(* The tasks inside a change of a slot are a finite set. *)
LEMMA HoldersFinite ==
    \A s : IsFiniteSet(Holders(s)) /\ Cardinality(Holders(s)) \in Nat
  <1>1. \A s : Holders(s) \subseteq Tasks
    BY DEF Holders
  <1> QED
    BY <1>1, FS_Subset, FS_CardinalityType, TasksAssumption

(* Whoever has a reference to put finds the refcount positive. *)
LEMMA RefcountPositive ==
    ASSUME RefcountAccounts, RefsSet, NEW t \in Tasks,
           pc[t] \in HoldPCs \union {"dt_put"}
    PROVE  ref[t] \in Slots /\ refcount[ref[t]] \in Nat \ {0}
  <1>1. ref[t] \in Slots
    BY DEF RefsSet, RefPCs
  <1>2. CASE pc[t] \in HoldPCs
    <2>1. t \in Holders(ref[t])
      BY <1>2 DEF Holders
    <2>2. Cardinality(Holders(ref[t])) # 0
      BY <2>1, HoldersFinite, FS_EmptySet
    <2> QED
      BY <1>1, <2>2, HoldersFinite DEF RefcountAccounts
  <1>3. CASE pc[t] = "dt_put"
    <2>1. Initial(ref[t])
      BY <1>3 DEF Initial
    <2> QED
      BY <1>1, <2>1, HoldersFinite DEF RefcountAccounts
  <1> QED
    BY <1>2, <1>3

-----------------------------------------------------------------------------
PCs == TaskPCs \union FlushPCs \union FlushTaskPCs

(* A step keeps the types. *)
LEMMA TypeStep ==
    ASSUME TypeOK, RefsSet, RefcountAccounts, [Next]_vars
    PROVE  TypeOK'
  <1> USE TasksAssumption, FlusherAssumption, KindsAssumption, NULLAssumption
  <1> USE DEF TypeOK, Goto, refVars, stateVars, wakeVars, lockVars, dataVars, opVars, Threads
  <1>pc. /\ {"idle", "lock", "get", "inc", "body", "mark", "put", "pend", "kick", "unlock_read",
             "lock_write", "need", "flush_pending", "unlock", "done", "trans", "tas", "recheck",
             "trans_ret", "trans_sleep", "commit", "commit_sleep"} \subseteq PCs
         /\ TransitionPCs \subseteq PCs /\ FlushPCs \subseteq PCs /\ FlushTaskPCs \subseteq PCs
    BY DEF PCs, TaskPCs, SyncPCs, ChangePCs
  <1>tp. pc \in [Threads -> PCs]
    BY DEF PCs
  <1>1. ASSUME NEW t \in Tasks, Invoke(t) PROVE TypeOK'
    BY <1>1, <1>pc, <1>tp DEF Invoke, PCs, AllKinds, Ops
  <1>2. ASSUME NEW t \in Tasks, Change(t) PROVE TypeOK'
    <2>1. <<t, ops[t]>> \in Ops
      BY DEF Ops
    <2>2. dirty' \in [Slots -> SUBSET Ops]
      BY <1>2, <2>1 DEF Change
    <2> QED
      BY <1>2, <2>2 DEF Change
  <1>3. ASSUME NEW t \in Tasks, Killed(t) PROVE TypeOK'
    BY <1>3, <1>pc, <1>tp DEF Killed, PCs
  <1>4. ASSUME NEW t \in Tasks, LockDelta(t) PROVE TypeOK'
    BY <1>4, <1>pc, <1>tp DEF LockDelta, PCs
  <1>5. ASSUME NEW t \in Tasks, LockWrite(t) PROVE TypeOK'
    BY <1>5, <1>pc, <1>tp DEF LockWrite, PCs
  <1>6. ASSUME NEW t \in Tasks, DeltaRead(t) PROVE TypeOK'
    BY <1>6, <1>pc, <1>tp DEF DeltaRead, PCs
  <1>7. ASSUME NEW t \in Tasks, DeltaInc(t) PROVE TypeOK'
    BY <1>7, <1>pc, <1>tp DEF DeltaInc, PCs, Ops, RefsSet, RefPCs
  <1>8. ASSUME NEW t \in Tasks, DeltaRetry(t) PROVE TypeOK'
    BY <1>8, <1>pc, <1>tp DEF DeltaRetry, PCs
  <1>9. ASSUME NEW t \in Tasks, DeltaPut(t) PROVE TypeOK'
    <2>1. ref[t] \in Slots /\ refcount[ref[t]] \in Nat \ {0}
      BY <1>9, RefcountPositive DEF DeltaPut, HoldPCs
    <2>2. refcount' \in [Slots -> Nat]
      BY <1>9, <2>1 DEF DeltaPut
    <2>3. pc' \in [Threads -> PCs]
      BY <1>9, <1>pc, <1>tp DEF DeltaPut, AfterPut
    <2> QED
      BY <1>9, <2>2, <2>3 DEF DeltaPut, PCs
  <1>10. ASSUME NEW t \in Tasks, SetPending(t) PROVE TypeOK'
    BY <1>10, <1>pc, <1>tp DEF SetPending, PCs
  <1>11. ASSUME NEW t \in Tasks, DeltaKick(t) PROVE TypeOK'
    BY <1>11, <1>pc, <1>tp DEF DeltaKick, PCs, AfterPut, schedule_flush_delta
  <1>12. ASSUME NEW t \in Tasks, UnlockRead(t) PROVE TypeOK'
    BY <1>12, <1>pc, <1>tp DEF UnlockRead, PCs
  <1>13. ASSUME NEW t \in Tasks, NoTransition(t) PROVE TypeOK'
    BY <1>13, <1>pc, <1>tp DEF NoTransition, PCs, AfterTry
  <1>14. ASSUME NEW t \in Tasks, TryTransition(t) PROVE TypeOK'
    BY <1>14, <1>pc, <1>tp DEF TryTransition, PCs, TransitionPCs
  <1>15. ASSUME NEW t \in Tasks, FlushPending(t) PROVE TypeOK'
    BY <1>15, <1>pc, <1>tp DEF FlushPending, PCs, FlushPCs
  <1>16. ASSUME NEW t \in Tasks, UnlockWrite(t) PROVE TypeOK'
    BY <1>16, <1>pc, <1>tp DEF UnlockWrite, PCs
  <1>17. ASSUME NEW t \in Tasks, DtSet(t) PROVE TypeOK'
    BY <1>17, <1>pc, <1>tp, OtherSlot DEF DtSet, PCs, TransitionPCs
  <1>18. ASSUME NEW t \in Tasks, DtNum(t) PROVE TypeOK'
    <2>1. ref[t] \in Slots
      BY <1>18 DEF DtNum, RefsSet, RefPCs
    <2>2. NextSlot(ref[t]) \in Slots
      BY <2>1, OtherSlot
    <2>3. pc' \in [Threads -> PCs]
      BY <1>18, <1>pc, <1>tp DEF DtNum, TransitionPCs
    <2> QED
      BY <1>18, <2>2, <2>3 DEF DtNum, PCs, UnifyFlags
  <1>19. ASSUME NEW t \in Tasks, DtMarshal(t) PROVE TypeOK'
    BY <1>19, <1>pc, <1>tp DEF DtMarshal, PCs, TransitionPCs, RefsSet, RefPCs, Deltas
  <1>20. ASSUME NEW t \in Tasks, DtPut(t) PROVE TypeOK'
    BY <1>20, <1>pc, <1>tp, RefcountPositive DEF DtPut, PCs, TransitionPCs
  <1>21. ASSUME NEW t \in Tasks, DtPending(t) PROVE TypeOK'
    BY <1>21, <1>pc, <1>tp DEF DtPending, PCs, TransitionPCs
  <1>22. ASSUME NEW t \in Tasks, DtKick(t) PROVE TypeOK'
    BY <1>22, <1>pc, <1>tp DEF DtKick, PCs, TransitionPCs, schedule_flush_delta
  <1>23. ASSUME NEW t \in Tasks, DtWake(t) PROVE TypeOK'
    BY <1>23, <1>pc, <1>tp DEF DtWake, PCs, TransitionPCs, AfterTransition, AfterTry
  <1>24. ASSUME NEW t \in Tasks, DtWait(t) PROVE TypeOK'
    BY <1>24, <1>pc, <1>tp DEF DtWait, PCs, TransitionPCs, AfterTransition, AfterTry, WaitEvent
  <1>25. ASSUME NEW t \in Tasks, MarkSync(t) PROVE TypeOK'
    BY <1>25, <1>pc, <1>tp DEF MarkSync, PCs, UnifyFlags, RefsSet, RefPCs, HoldPCs
  <1>26. ASSUME NEW t \in Tasks, Transition(t) PROVE TypeOK'
    BY <1>26, <1>pc, <1>tp DEF Transition, PCs, WaitEvent
  <1>27. ASSUME NEW t \in Tasks, TestAndSetRunning(t) PROVE TypeOK'
    BY <1>27, <1>pc, <1>tp DEF TestAndSetRunning, PCs
  <1>28. ASSUME NEW t \in Tasks, Recheck(t) PROVE TypeOK'
    <2>1. pc' \in [Threads -> PCs]
      BY <1>28, <1>pc, <1>tp DEF Recheck, TransitionPCs
    <2>2. CASE delta_after_eq(marshal_delta, want[t])
      BY <1>28, <2>1, <2>2 DEF Recheck, PCs
    <2>3. CASE ~delta_after_eq(marshal_delta, want[t])
      BY <1>28, <2>1, <2>3 DEF Recheck, PCs
    <2> QED
      BY <2>2, <2>3
  <1>29. ASSUME NEW t \in Tasks, TransitionReturn(t) PROVE TypeOK'
    BY <1>29, <1>pc, <1>tp DEF TransitionReturn, PCs
  <1>30. ASSUME NEW t \in Tasks, CommitWait(t) PROVE TypeOK'
    BY <1>30, <1>pc, <1>tp DEF CommitWait, PCs, WaitEvent
  <1>31. ASSUME NEW t \in Tasks, CommitFlush(t) PROVE TypeOK'
    BY <1>31, <1>pc, <1>tp DEF CommitFlush, PCs, FlushPCs
  <1>32. ASSUME NEW t \in Tasks, Resume(t) PROVE TypeOK'
    BY <1>32, <1>pc, <1>tp DEF Resume, PCs, TransitionPCs
  <1>33. ASSUME NEW t \in Threads, FlushStart(t) PROVE TypeOK'
    BY <1>33, <1>pc, <1>tp DEF FlushStart, PCs, FlushPCs
  <1>34. ASSUME NEW t \in Threads, Commit(t) PROVE TypeOK'
    <2>1. tux3_delta(cdelta[t]) \in Slots
      BY DeltaSlot DEF Deltas, TUX3_INIT_DELTA
    <2>2. durable' \subseteq Ops
      BY <1>34, <2>1 DEF Commit
    <2>3. pc' \in [Threads -> PCs]
      BY <1>34, <1>pc, <1>tp DEF Commit, FlushPCs
    <2> QED
      BY <1>34, <2>2, <2>3 DEF Commit, PCs
  <1>35. ASSUME NEW t \in Threads, CommitError(t) PROVE TypeOK'
    <2>1. tux3_delta(cdelta[t]) \in Slots
      BY DeltaSlot DEF Deltas, TUX3_INIT_DELTA
    <2>2. failed' \subseteq Ops
      BY <1>35, <2>1 DEF CommitError
    <2> QED
      BY <1>35, <2>2, <1>pc, <1>tp DEF CommitError, PCs, FlushPCs
  <1>super. ASSUME NEW t \in Threads, SuperError(t) PROVE TypeOK'
    <2>1. tux3_delta(cdelta[t]) \in Slots
      BY DeltaSlot DEF Deltas, TUX3_INIT_DELTA
    <2>2. failed' \subseteq Ops
      BY <1>super, <2>1 DEF SuperError
    <2> QED
      BY <1>super, <2>2, <1>pc, <1>tp DEF SuperError, PCs, FlushPCs
  <1>36. ASSUME NEW t \in Threads, PostCommit(t) PROVE TypeOK'
    BY <1>36, <1>pc, <1>tp, DeltaSlot DEF PostCommit, PCs, FlushPCs, Deltas
  <1>37. ASSUME NEW t \in Threads, FlushDone(t) PROVE TypeOK'
    BY <1>37, <1>pc, <1>tp DEF FlushDone, PCs, FlushPCs
  <1>38. ASSUME NEW t \in Threads, ClearRunning(t) PROVE TypeOK'
    BY <1>38, <1>pc, <1>tp DEF ClearRunning, PCs, FlushPCs
  <1>39. ASSUME NEW t \in Threads, FlushWake(t) PROVE TypeOK'
    BY <1>39, <1>pc, <1>tp DEF FlushWake, PCs, FlushPCs, AfterFlush, FlushTaskPCs
  <1>40. ASSUME WorkCheck PROVE TypeOK'
    BY <1>40, <1>pc, <1>tp DEF WorkCheck, PCs, FlushPCs, FlushTaskPCs
  <1>41. ASSUME WorkState PROVE TypeOK'
    BY <1>41, <1>pc, <1>tp DEF WorkState, PCs, FlushTaskPCs
  <1>42. ASSUME WorkTest PROVE TypeOK'
    BY <1>42, <1>pc, <1>tp DEF WorkTest, PCs, FlushTaskPCs
  <1>43. ASSUME WorkWoken PROVE TypeOK'
    BY <1>43, <1>pc, <1>tp DEF WorkWoken, PCs, FlushTaskPCs
  <1>44. CASE UNCHANGED vars
    BY <1>44 DEF vars
  <1> HIDE DEF TypeOK
  <1> QED
    BY <1>1, <1>2, <1>3, <1>4, <1>5, <1>6, <1>7, <1>8, <1>9, <1>10, <1>11, <1>12, <1>13, <1>14, <1>15, <1>16, <1>17, <1>18, <1>19, <1>20, <1>21, <1>22, <1>23, <1>24, <1>25, <1>26, <1>27, <1>28, <1>29, <1>30, <1>31, <1>32, <1>33, <1>34, <1>35, <1>super, <1>36, <1>37, <1>38, <1>39, <1>40, <1>41, <1>42, <1>43, <1>44 DEF Next, LockStep, GetStep, PutStep, EndStep, TransStep, SyncStep, FlushStep,
       FlushWork

-----------------------------------------------------------------------------
(* What a step must keep besides the types. *)
Core == /\ RefsSet /\ FlushTaskIdle /\ RefcountAccounts
        /\ OneOwner /\ PendingSlot /\ FreeSlot /\ PreviousSlot /\ Numbering

(* A step of a thread that neither owns the transition nor holds a          *)
(* reference, before and after.                                             *)
Quiet(t) ==
    /\ pc' = [pc EXCEPT ![t] = pc'[t]]
    /\ pc[t] \notin OwnPCs \union HoldPCs /\ pc'[t] \notin OwnPCs \union RefPCs
    /\ t = FlushTask => pc'[t] \in FlushPCs \union FlushTaskPCs
    /\ UNCHANGED <<current_delta, refcount, delta_of, next_delta, stateVars, ref, cdelta>>

(* Such a step keeps the invariant. *)
LEMMA QuietStep ==
    ASSUME IInv, NEW t \in Threads, Quiet(t)
    PROVE  Core'
  <1> USE DEF IInv, Threads, Quiet
  <1>1. pc \in [Threads -> PCs]
    BY DEF TypeOK, PCs
  <1>2. /\ \A u \in Threads : pc'[u] \in OwnPCs <=> pc[u] \in OwnPCs
        /\ \A u \in Threads : pc'[u] \in HoldPCs <=> pc[u] \in HoldPCs
        /\ \A u \in Threads : pc'[u] \in RefPCs \union OwnPCs => pc'[u] = pc[u]
    BY <1>1 DEF RefPCs
  <1>3. Owned' <=> Owned
    BY <1>2 DEF Owned
  <1>4. RefcountAccounts'
    <2>1. \A s \in Slots : Holders(s)' = Holders(s)
      BY <1>2 DEF Holders
    <2>2. \A s \in Slots : Initial(s)' <=> Initial(s)
      BY <1>1 DEF Initial, OwnPCs, RefPCs, SetupPCs
    <2> QED
      BY <2>1, <2>2 DEF RefcountAccounts
  <1>5. RefsSet' /\ FlushTaskIdle'
    BY <1>1, <1>2 DEF RefsSet, FlushTaskIdle
  <1>6. OneOwner'
    BY <1>2, <1>3 DEF OneOwner, stateVars
  <1>7. PendingSlot'
    BY <1>2, <1>3 DEF PendingSlot, stateVars, OwnPCs
  <1>8. FreeSlot'
    BY <1>2 DEF FreeSlot, stateVars, OwnPCs, SetupPCs
  <1>9. PreviousSlot'
    BY <1>2 DEF PreviousSlot, RefPCs
  <1>10. Numbering'
    BY <1>2 DEF Numbering, OwnPCs, SetupPCs, WritePCs
  <1> QED
    BY <1>4, <1>5, <1>6, <1>7, <1>8, <1>9, <1>10 DEF Core

(* An action that changes neither a program counter nor what Core depends on. *)
LEMMA StutterStep ==
    ASSUME IInv,
           UNCHANGED <<current_delta, refcount, delta_of, next_delta, stateVars, pc, ref, cdelta>>
    PROVE  Core'
  BY DEF IInv, Core, RefsSet, FlushTaskIdle, RefcountAccounts, OneOwner, PendingSlot, FreeSlot,
         PreviousSlot, Numbering, Owned, Holders, Initial, stateVars

(* The steps outside the transition and the commit that are quiet. *)
LEMMA QuietActions ==
    ASSUME IInv, NEW t \in Tasks,
           \/ Invoke(t) \/ Change(t) \/ Killed(t) \/ LockDelta(t) \/ LockWrite(t)
           \/ DeltaRetry(t) \/ DeltaKick(t) \/ UnlockRead(t) \/ NoTransition(t)
           \/ UnlockWrite(t) \/ DtKick(t) \/ DtWake(t) \/ DtWait(t) \/ Transition(t)
           \/ TransitionReturn(t) \/ CommitWait(t) \/ Resume(t)
    PROVE  Core'
  <1> USE TasksAssumption
  <1> USE DEF Goto, refVars, stateVars, Threads
  <1> USE DEF OwnPCs, SetupPCs, ZeroPCs, WritePCs, RefPCs, HoldPCs
  <1>t. t \in Threads /\ t # FlushTask /\ pc \in [Threads -> PCs]
    BY DEF IInv, TypeOK, PCs
  <1>1. CASE Invoke(t)
    <2> Quiet(t)
      BY <1>1, <1>t DEF Quiet, Invoke
    <2> QED
      BY <1>t, QuietStep
  <1>2. CASE Killed(t)
    <2> Quiet(t)
      BY <1>2, <1>t DEF Quiet, Killed
    <2> QED
      BY <1>t, QuietStep
  <1>3. CASE LockDelta(t)
    <2> Quiet(t)
      BY <1>3, <1>t DEF Quiet, LockDelta
    <2> QED
      BY <1>t, QuietStep
  <1>4. CASE LockWrite(t)
    <2> Quiet(t)
      BY <1>4, <1>t DEF Quiet, LockWrite
    <2> QED
      BY <1>t, QuietStep
  <1>5. CASE DeltaRetry(t)
    <2> Quiet(t)
      BY <1>5, <1>t DEF Quiet, DeltaRetry
    <2> QED
      BY <1>t, QuietStep
  <1>6. CASE DeltaKick(t)
    <2> Quiet(t)
      BY <1>6, <1>t DEF Quiet, DeltaKick, AfterPut
    <2> QED
      BY <1>t, QuietStep
  <1>7. CASE UnlockRead(t)
    <2> Quiet(t)
      BY <1>7, <1>t DEF Quiet, UnlockRead
    <2> QED
      BY <1>t, QuietStep
  <1>8. CASE NoTransition(t)
    <2> Quiet(t)
      BY <1>8, <1>t DEF Quiet, NoTransition, AfterTry
    <2> QED
      BY <1>t, QuietStep
  <1>9. CASE UnlockWrite(t)
    <2> Quiet(t)
      BY <1>9, <1>t DEF Quiet, UnlockWrite
    <2> QED
      BY <1>t, QuietStep
  <1>10. CASE DtKick(t)
    <2> Quiet(t)
      BY <1>10, <1>t DEF Quiet, DtKick
    <2> QED
      BY <1>t, QuietStep
  <1>11. CASE DtWake(t)
    <2> Quiet(t)
      BY <1>11, <1>t DEF Quiet, DtWake, AfterTransition, AfterTry
    <2> QED
      BY <1>t, QuietStep
  <1>12. CASE DtWait(t)
    <2> Quiet(t)
      BY <1>12, <1>t DEF Quiet, DtWait, WaitEvent, AfterTransition, AfterTry
    <2> QED
      BY <1>t, QuietStep
  <1>13. CASE Transition(t)
    <2> Quiet(t)
      BY <1>13, <1>t DEF Quiet, Transition, WaitEvent
    <2> QED
      BY <1>t, QuietStep
  <1>14. CASE TransitionReturn(t)
    <2> Quiet(t)
      BY <1>14, <1>t DEF Quiet, TransitionReturn
    <2> QED
      BY <1>t, QuietStep
  <1>15. CASE CommitWait(t)
    <2> Quiet(t)
      BY <1>15, <1>t DEF Quiet, CommitWait, WaitEvent
    <2> QED
      BY <1>t, QuietStep
  <1>16. CASE Resume(t)
    <2> Quiet(t)
      BY <1>16, <1>t DEF Quiet, Resume
    <2> QED
      BY <1>t, QuietStep
  <1>17. CASE Change(t)
    BY <1>17, StutterStep DEF Change
  <1> QED
    BY <1>1, <1>2, <1>3, <1>4, <1>5, <1>6, <1>7, <1>8, <1>9, <1>10, <1>11, <1>12, <1>13, <1>14, <1>15, <1>16, <1>17

-----------------------------------------------------------------------------
(* The steps that take and put references, and the transition. *)
LEMMA OwnerActions ==
    ASSUME IInv, TypeOK', NEW t \in Tasks
    PROVE  /\ (DeltaRead(t) \/ DeltaInc(t) \/ MarkSync(t) \/ DeltaPut(t) \/ SetPending(t)) => Core'
           /\ (TryTransition(t) \/ TestAndSetRunning(t) \/ Recheck(t)) => Core'
           /\ (DtSet(t) \/ DtNum(t) \/ DtMarshal(t) \/ DtPut(t) \/ DtPending(t)) => Core'
           /\ (FlushPending(t) \/ CommitFlush(t)) => Core'
  <1> USE TasksAssumption, NULLAssumption, OtherSlot, HoldersFinite
  <1> USE DEF Goto, refVars, stateVars, Threads
  <1> USE DEF OwnPCs, SetupPCs, ZeroPCs, WritePCs, RefPCs, HoldPCs
  <1>t. /\ t \in Threads /\ t # FlushTask /\ pc \in [Threads -> PCs]
        /\ refcount \in [Slots -> Nat] /\ current_delta \in Slots
        /\ ref \in [Threads -> Slots \union {NULL}] /\ delta_of \in [Slots -> Nat]
        /\ pending_delta \in Slots \union {NULL} /\ NULL \notin Slots
        /\ running \in BOOLEAN /\ pending \in BOOLEAN /\ marshal_delta \in Int
        /\ next_delta \in Nat
    BY DEF IInv, TypeOK, PCs, Slots, TUX3_MAX_DELTA, Deltas, TUX3_INIT_DELTA
  <1>i. /\ RefsSet /\ FlushTaskIdle /\ RefcountAccounts
        /\ OneOwner /\ PendingSlot /\ FreeSlot /\ PreviousSlot /\ Numbering
    BY DEF IInv
  <1>1. ASSUME DeltaRead(t) PROVE Core'
    <2>1. RefsSet' /\ FlushTaskIdle'
      BY <1>1, <1>t, <1>i DEF DeltaRead, RefsSet, FlushTaskIdle
    <2>2. OneOwner'
      BY <1>1, <1>t, <1>i DEF DeltaRead, OneOwner, Owned
    <2>3. PendingSlot'
      BY <1>1, <1>t, <1>i DEF DeltaRead, PendingSlot, Owned
    <2>4. FreeSlot'
      BY <1>1, <1>t, <1>i DEF DeltaRead, FreeSlot
    <2>5. PreviousSlot'
      BY <1>1, <1>t, <1>i DEF DeltaRead, PreviousSlot
    <2>6. Numbering'
      BY <1>1, <1>t, <1>i DEF DeltaRead, Numbering
    <2>7. RefcountAccounts'
      <3>1. \A s \in Slots : Holders(s)' = Holders(s)
        BY <1>1, <1>t, <1>i DEF Holders, DeltaRead
      <3>2. \A s \in Slots : Initial(s)' <=> Initial(s)
        BY <1>1, <1>t, <1>i DEF Initial, DeltaRead
      <3> QED
        BY <1>1, <3>1, <3>2, <1>i DEF RefcountAccounts, DeltaRead
    <2> QED
      BY <2>1, <2>2, <2>3, <2>4, <2>5, <2>6, <2>7 DEF Core
  <1>2. ASSUME DeltaInc(t) PROVE Core'
    <2>1. RefsSet' /\ FlushTaskIdle'
      BY <1>2, <1>t, <1>i DEF DeltaInc, RefsSet, FlushTaskIdle
    <2>2. OneOwner'
      BY <1>2, <1>t, <1>i DEF DeltaInc, OneOwner, Owned
    <2>3. PendingSlot'
      BY <1>2, <1>t, <1>i DEF DeltaInc, PendingSlot, Owned
    <2>4. FreeSlot'
      BY <1>2, <1>t, <1>i DEF DeltaInc, FreeSlot
    <2>5. PreviousSlot'
      BY <1>2, <1>t, <1>i DEF DeltaInc, PreviousSlot
    <2>6. Numbering'
      BY <1>2, <1>t, <1>i DEF DeltaInc, Numbering
    <2>7. RefcountAccounts'
      <3>r. PICK r \in Slots : r = ref[t]
        BY <1>2, <1>i DEF DeltaInc, RefsSet
      <3>1. /\ Holders(r)' = Holders(r) \union {t} /\ t \notin Holders(r)
            /\ \A s \in Slots \ {r} : Holders(s)' = Holders(s)
        BY <1>2, <1>t, <3>r DEF Holders, DeltaInc
      <3>2. Cardinality(Holders(r)') = Cardinality(Holders(r)) + 1
        BY <3>1, FS_AddElement
      <3>3. \A s \in Slots : Initial(s)' <=> Initial(s)
        BY <1>2, <1>t, <1>i DEF Initial, DeltaInc
      <3>4. \A s \in Slots : refcount'[s] = IF s = r THEN refcount[s] + 1 ELSE refcount[s]
        BY <1>2, <1>t, <3>r DEF DeltaInc
      <3>5. ASSUME NEW s \in Slots
            PROVE  refcount'[s] = Cardinality(Holders(s)') + IF Initial(s)' THEN 1 ELSE 0
        <4>1. CASE s = r
          BY <4>1, <3>2, <3>3, <3>4, <1>i DEF RefcountAccounts
        <4>2. CASE s # r
          BY <4>2, <3>1, <3>3, <3>4, <1>i DEF RefcountAccounts
        <4> QED
          BY <4>1, <4>2
      <3> QED
        BY <3>5 DEF RefcountAccounts
    <2> QED
      BY <2>1, <2>2, <2>3, <2>4, <2>5, <2>6, <2>7 DEF Core
  <1>3. ASSUME MarkSync(t) PROVE Core'
    <2>1. RefsSet' /\ FlushTaskIdle'
      BY <1>3, <1>t, <1>i DEF MarkSync, RefsSet, FlushTaskIdle
    <2>2. OneOwner'
      BY <1>3, <1>t, <1>i DEF MarkSync, OneOwner, Owned
    <2>3. PendingSlot'
      BY <1>3, <1>t, <1>i DEF MarkSync, PendingSlot, Owned
    <2>4. FreeSlot'
      BY <1>3, <1>t, <1>i DEF MarkSync, FreeSlot
    <2>5. PreviousSlot'
      BY <1>3, <1>t, <1>i DEF MarkSync, PreviousSlot
    <2>6. Numbering'
      BY <1>3, <1>t, <1>i DEF MarkSync, Numbering
    <2>7. RefcountAccounts'
      <3>1. \A s \in Slots : Holders(s)' = Holders(s)
        BY <1>3, <1>t, <1>i DEF Holders, MarkSync
      <3>2. \A s \in Slots : Initial(s)' <=> Initial(s)
        BY <1>3, <1>t, <1>i DEF Initial, MarkSync
      <3> QED
        BY <1>3, <3>1, <3>2, <1>i DEF RefcountAccounts, MarkSync
    <2> QED
      BY <2>1, <2>2, <2>3, <2>4, <2>5, <2>6, <2>7 DEF Core
  <1>4. ASSUME DeltaPut(t) PROVE Core'
    <2>r. ref[t] \in Slots /\ refcount[ref[t]] \in Nat \ {0}
      BY <1>4, <1>i, RefcountPositive DEF DeltaPut
    <2>p. /\ pc' = [pc EXCEPT ![t] = pc'[t]]
          /\ pc'[t] \in {"pend", "trans", "idle", "unlock_read", "need"}
          /\ pc'[t] = "pend" <=> refcount[ref[t]] = 1
      BY <1>4, <1>t DEF DeltaPut, AfterPut
    <2>c. \A s \in Slots : refcount'[s] = IF s = ref[t] THEN refcount[s] - 1 ELSE refcount[s]
      BY <1>4, <1>t DEF DeltaPut
    <2>o. /\ UNCHANGED <<current_delta, delta_of, next_delta, stateVars, cdelta>>
          /\ ref' = [ref EXCEPT ![t] = NULL]
          /\ pc[t] \in {"body", "put"}
      BY <1>4 DEF DeltaPut
    <2>l. ASSUME refcount[ref[t]] = 1
          PROVE  running /\ ~pending /\ ~Owned /\ pending_delta = ref[t]
      <3>1. t \in Holders(ref[t])
        BY <2>o DEF Holders
      <3>2. Cardinality(Holders(ref[t])) # 0
        BY <3>1, FS_EmptySet
      <3>3. ~Initial(ref[t])
        BY <2>l, <2>r, <3>2, <1>i DEF RefcountAccounts
      <3>4. ref[t] = NextSlot(current_delta)
        BY <3>3, <2>r, <1>t DEF Initial
      <3>5. running /\ ~pending
        BY <3>4, <2>l, <1>t, <1>i DEF FreeSlot, PendingSlot
      <3>6. ASSUME NEW u \in Threads, pc[u] \in OwnPCs PROVE FALSE
        <4>1. CASE pc[u] \in {"recheck", "dt_set"} \union WritePCs
          BY <4>1, <3>4, <2>l, <1>i DEF FreeSlot
        <4>2. CASE pc[u] \in ZeroPCs
          BY <4>2, <3>4, <2>l, <1>t, <1>i DEF PendingSlot
        <4>3. CASE pc[u] \in {"dt_num", "dt_marshal", "dt_put"}
          <5>1. u \in Tasks
            BY <4>3, <1>i DEF FlushTaskIdle, FlushPCs, FlushTaskPCs
          <5>2. ref[u] \in Slots
            BY <4>3, <5>1, <1>i DEF RefsSet
          <5>3. CASE pc[u] = "dt_num"
            BY <5>1, <5>3, <3>3, <3>4, <1>i DEF PreviousSlot, Initial
          <5>4. CASE pc[u] \in {"dt_marshal", "dt_put"}
            BY <5>1, <5>2, <5>4, <3>3, <3>4, <1>i, <1>t DEF PreviousSlot, Initial
          <5> QED
            BY <4>3, <5>3, <5>4
        <4> QED
          BY <3>6, <4>1, <4>2, <4>3
      <3>7. ~Owned
        BY <3>6 DEF Owned
      <3> QED
        BY <3>4, <3>5, <3>7, <1>t, <1>i DEF OneOwner, PendingSlot
    <2>1. RefsSet' /\ FlushTaskIdle'
      BY <1>t, <1>i, <2>r, <2>p, <2>c, <2>o, <2>l DEF RefsSet, FlushTaskIdle
    <2>2. OneOwner'
      BY <1>t, <1>i, <2>r, <2>p, <2>c, <2>o, <2>l DEF OneOwner, Owned
    <2>3. PendingSlot'
      BY <1>t, <1>i, <2>r, <2>p, <2>c, <2>o, <2>l DEF PendingSlot, Owned
    <2>4. FreeSlot'
      BY <1>t, <1>i, <2>r, <2>p, <2>c, <2>o, <2>l DEF FreeSlot
    <2>5. PreviousSlot'
      BY <1>t, <1>i, <2>r, <2>p, <2>c, <2>o, <2>l DEF PreviousSlot
    <2>6. Numbering'
      BY <1>t, <1>i, <2>r, <2>p, <2>c, <2>o, <2>l DEF Numbering
    <2>7. RefcountAccounts'
      <3>r. PICK r \in Slots : r = ref[t]
        BY <2>r
      <3>1. /\ Holders(r)' = Holders(r) \ {t} /\ t \in Holders(r)
            /\ \A s \in Slots \ {r} : Holders(s)' = Holders(s)
        BY <1>t, <3>r, <2>p, <2>o DEF Holders
      <3>2. Cardinality(Holders(r)') = Cardinality(Holders(r)) - 1
        BY <3>1, FS_RemoveElement
      <3>3. \A s \in Slots : Initial(s)' <=> Initial(s)
        BY <1>t, <2>p, <2>o, <1>4 DEF Initial, DeltaPut
      <3>5. ASSUME NEW s \in Slots
            PROVE  refcount'[s] = Cardinality(Holders(s)') + IF Initial(s)' THEN 1 ELSE 0
        <4>1. CASE s = r
          BY <4>1, <3>r, <3>2, <3>3, <2>c, <1>i DEF RefcountAccounts
        <4>2. CASE s # r
          BY <4>2, <3>r, <3>1, <3>3, <2>c, <1>i DEF RefcountAccounts
        <4> QED
          BY <4>1, <4>2
      <3> QED
        BY <3>5 DEF RefcountAccounts
    <2> QED
      BY <2>1, <2>2, <2>3, <2>4, <2>5, <2>6, <2>7 DEF Core
  <1>5. ASSUME SetPending(t) PROVE Core'
    <2>1. RefsSet' /\ FlushTaskIdle'
      BY <1>5, <1>t, <1>i DEF SetPending, RefsSet, FlushTaskIdle
    <2>2. OneOwner'
      BY <1>5, <1>t, <1>i DEF SetPending, OneOwner, Owned
    <2>3. PendingSlot'
      BY <1>5, <1>t, <1>i DEF SetPending, PendingSlot, Owned
    <2>4. FreeSlot'
      BY <1>5, <1>t, <1>i DEF SetPending, FreeSlot
    <2>5. PreviousSlot'
      BY <1>5, <1>t, <1>i DEF SetPending, PreviousSlot
    <2>6. Numbering'
      BY <1>5, <1>t, <1>i DEF SetPending, Numbering
    <2>7. RefcountAccounts'
      <3>1. \A s \in Slots : Holders(s)' = Holders(s)
        BY <1>5, <1>t, <1>i DEF Holders, SetPending
      <3>2. \A s \in Slots : Initial(s)' <=> Initial(s)
        BY <1>5, <1>t, <1>i DEF Initial, SetPending
      <3> QED
        BY <1>5, <3>1, <3>2, <1>i DEF RefcountAccounts, SetPending
    <2> QED
      BY <2>1, <2>2, <2>3, <2>4, <2>5, <2>6, <2>7 DEF Core
  <1>6. ASSUME TryTransition(t) PROVE Core'
    <2>1. RefsSet' /\ FlushTaskIdle'
      BY <1>6, <1>t, <1>i DEF TryTransition, RefsSet, FlushTaskIdle
    <2>2. OneOwner'
      BY <1>6, <1>t, <1>i DEF TryTransition, OneOwner, Owned
    <2>3. PendingSlot'
      BY <1>6, <1>t, <1>i DEF TryTransition, PendingSlot, Owned
    <2>4. FreeSlot'
      BY <1>6, <1>t, <1>i DEF TryTransition, FreeSlot
    <2>5. PreviousSlot'
      BY <1>6, <1>t, <1>i DEF TryTransition, PreviousSlot
    <2>6. Numbering'
      BY <1>6, <1>t, <1>i DEF TryTransition, Numbering
    <2>7. RefcountAccounts'
      <3>1. \A s \in Slots : Holders(s)' = Holders(s)
        BY <1>6, <1>t, <1>i DEF Holders, TryTransition
      <3>2. \A s \in Slots : Initial(s)' <=> Initial(s)
        BY <1>6, <1>t, <1>i DEF Initial, TryTransition
      <3> QED
        BY <1>6, <3>1, <3>2, <1>i DEF RefcountAccounts, TryTransition
    <2> QED
      BY <2>1, <2>2, <2>3, <2>4, <2>5, <2>6, <2>7 DEF Core
  <1>7. ASSUME TestAndSetRunning(t) PROVE Core'
    <2>1. RefsSet' /\ FlushTaskIdle'
      BY <1>7, <1>t, <1>i DEF TestAndSetRunning, RefsSet, FlushTaskIdle
    <2>2. OneOwner'
      BY <1>7, <1>t, <1>i DEF TestAndSetRunning, OneOwner, Owned
    <2>3. PendingSlot'
      BY <1>7, <1>t, <1>i DEF TestAndSetRunning, PendingSlot, Owned
    <2>4. FreeSlot'
      BY <1>7, <1>t, <1>i DEF TestAndSetRunning, FreeSlot
    <2>5. PreviousSlot'
      BY <1>7, <1>t, <1>i DEF TestAndSetRunning, PreviousSlot
    <2>6. Numbering'
      BY <1>7, <1>t, <1>i DEF TestAndSetRunning, Numbering
    <2>7. RefcountAccounts'
      <3>1. \A s \in Slots : Holders(s)' = Holders(s)
        BY <1>7, <1>t, <1>i DEF Holders, TestAndSetRunning
      <3>2. \A s \in Slots : Initial(s)' <=> Initial(s)
        BY <1>7, <1>t, <1>i DEF Initial, TestAndSetRunning
      <3> QED
        BY <1>7, <3>1, <3>2, <1>i DEF RefcountAccounts, TestAndSetRunning
    <2> QED
      BY <2>1, <2>2, <2>3, <2>4, <2>5, <2>6, <2>7 DEF Core
  <1>8. ASSUME Recheck(t) PROVE Core'
    <2>1. RefsSet' /\ FlushTaskIdle'
      BY <1>8, <1>t, <1>i DEF Recheck, RefsSet, FlushTaskIdle
    <2>2. OneOwner'
      BY <1>8, <1>t, <1>i DEF Recheck, OneOwner, Owned
    <2>3. PendingSlot'
      BY <1>8, <1>t, <1>i DEF Recheck, PendingSlot, Owned
    <2>4. FreeSlot'
      BY <1>8, <1>t, <1>i DEF Recheck, FreeSlot
    <2>5. PreviousSlot'
      BY <1>8, <1>t, <1>i DEF Recheck, PreviousSlot
    <2>6. Numbering'
      BY <1>8, <1>t, <1>i DEF Recheck, Numbering
    <2>7. RefcountAccounts'
      <3>1. \A s \in Slots : Holders(s)' = Holders(s)
        BY <1>8, <1>t, <1>i DEF Holders, Recheck
      <3>2. \A s \in Slots : Initial(s)' <=> Initial(s)
        BY <1>8, <1>t, <1>i DEF Initial, Recheck
      <3> QED
        BY <1>8, <3>1, <3>2, <1>i DEF RefcountAccounts, Recheck
    <2> QED
      BY <2>1, <2>2, <2>3, <2>4, <2>5, <2>6, <2>7 DEF Core
  <1>9. ASSUME DtSet(t) PROVE Core'
    <2>u. /\ \A u \in Threads : u # t => pc[u] \notin OwnPCs /\ pc'[u] = pc[u]
          /\ running /\ ~pending /\ t \in Threads
      BY <1>9, <1>t, <1>i DEF DtSet, OneOwner, Owned
    <2>o. /\ pc[t] = "dt_set" /\ pc'[t] = "dt_num" /\ ref'[t] = current_delta
          /\ \A u \in Threads \ {t} : ref'[u] = ref[u]
          /\ UNCHANGED <<current_delta, delta_of, next_delta, stateVars, cdelta>>
          /\ \A s \in Slots : refcount'[s] = IF s = NextSlot(current_delta) THEN 1 ELSE refcount[s]
      BY <1>9, <1>t DEF DtSet
    <2>1. RefsSet' /\ FlushTaskIdle'
      BY <1>t, <1>i, <2>u, <2>o DEF RefsSet, FlushTaskIdle
    <2>2. OneOwner'
      BY <1>t, <1>i, <2>u, <2>o DEF OneOwner, Owned
    <2>3. PendingSlot'
      BY <1>t, <1>i, <2>u, <2>o DEF PendingSlot, Owned
    <2>4. FreeSlot'
      BY <1>t, <1>i, <2>u, <2>o DEF FreeSlot
    <2>5. PreviousSlot'
      BY <1>t, <1>i, <2>u, <2>o DEF PreviousSlot
    <2>6. Numbering'
      BY <1>t, <1>i, <2>u, <2>o DEF Numbering
    <2>7. RefcountAccounts'
      <3>1. \A s \in Slots : Holders(s)' = Holders(s)
        BY <2>u, <2>o, <1>t DEF Holders
      <3>2. \A s \in Slots : Initial(s) <=> s = current_delta
        BY <2>u, <2>o DEF Initial
      <3>3. \A s \in Slots : Initial(s)'
        BY <2>u, <2>o, <1>t DEF Initial
      <3>4. refcount[NextSlot(current_delta)] = 0
        BY <2>o, <1>i, <2>u DEF FreeSlot
      <3>5. ASSUME NEW s \in Slots
            PROVE  refcount'[s] = Cardinality(Holders(s)') + IF Initial(s)' THEN 1 ELSE 0
        <4>1. CASE s = current_delta
          BY <4>1, <3>1, <3>2, <3>3, <2>o, <1>t, <1>i DEF RefcountAccounts
        <4>2. CASE s = NextSlot(current_delta)
          BY <4>2, <3>1, <3>2, <3>3, <3>4, <2>o, <1>t, <1>i DEF RefcountAccounts
        <4> QED
          BY <4>1, <4>2, <1>t
      <3> QED
        BY <3>5 DEF RefcountAccounts
    <2> QED
      BY <2>1, <2>2, <2>3, <2>4, <2>5, <2>6, <2>7 DEF Core
  <1>10. ASSUME DtNum(t) PROVE Core'
    <2>u. /\ \A u \in Threads : u # t => pc[u] \notin OwnPCs /\ pc'[u] = pc[u]
          /\ running /\ ~pending /\ t \in Threads
      BY <1>10, <1>t, <1>i DEF DtNum, OneOwner, Owned
    <2>o. /\ pc[t] = "dt_num" /\ pc'[t] = "dt_marshal"
          /\ ref[t] = current_delta /\ current_delta' = NextSlot(current_delta)
          /\ next_delta' = next_delta + 1
          /\ \A s \in Slots :
                delta_of'[s] = IF s = NextSlot(current_delta) THEN next_delta ELSE delta_of[s]
          /\ UNCHANGED <<refcount, stateVars, ref, cdelta>>
      BY <1>10, <1>t, <1>i DEF DtNum, PreviousSlot
    <2>n. tux3_delta(next_delta) = NextSlot(current_delta)
      BY <1>t, <1>i, Parity DEF Numbering
    <2>1. RefsSet' /\ FlushTaskIdle'
      BY <1>t, <1>i, <2>u, <2>o, <2>n DEF RefsSet, FlushTaskIdle
    <2>2. OneOwner'
      BY <1>t, <1>i, <2>u, <2>o, <2>n DEF OneOwner, Owned
    <2>3. PendingSlot'
      BY <1>t, <1>i, <2>u, <2>o, <2>n DEF PendingSlot, Owned
    <2>4. FreeSlot'
      BY <1>t, <1>i, <2>u, <2>o, <2>n DEF FreeSlot
    <2>5. PreviousSlot'
      BY <1>t, <1>i, <2>u, <2>o, <2>n DEF PreviousSlot
    <2>6. Numbering'
      BY <1>t, <1>i, <2>u, <2>o, <2>n DEF Numbering
    <2>7. RefcountAccounts'
      <3>1. \A s \in Slots : Holders(s)' = Holders(s)
        BY <2>u, <2>o, <1>t DEF Holders
      <3>2. \A s \in Slots : Initial(s)
        BY <2>o, <1>t DEF Initial
      <3>3. \A s \in Slots : Initial(s)'
        BY <2>o, <1>t DEF Initial
      <3> QED
        BY <2>o, <3>1, <3>2, <3>3, <1>i DEF RefcountAccounts
    <2> QED
      BY <2>1, <2>2, <2>3, <2>4, <2>5, <2>6, <2>7 DEF Core
  <1>11. ASSUME DtMarshal(t) PROVE Core'
    <2>u. /\ \A u \in Threads : u # t => pc[u] \notin OwnPCs /\ pc'[u] = pc[u]
          /\ running /\ ~pending /\ t \in Threads
      BY <1>11, <1>t, <1>i DEF DtMarshal, OneOwner, Owned
    <2>o. /\ pc[t] = "dt_marshal" /\ pc'[t] = "dt_put"
          /\ ref[t] \in Slots /\ ref[t] # current_delta
          /\ marshal_delta' = delta_of[ref[t]] /\ pending_delta' = ref[t]
          /\ UNCHANGED <<current_delta, refcount, delta_of, next_delta, running, pending, ref, cdelta>>
      BY <1>11, <1>t, <1>i DEF DtMarshal, RefsSet, PreviousSlot
    <2>1. RefsSet' /\ FlushTaskIdle'
      BY <1>t, <1>i, <2>u, <2>o DEF RefsSet, FlushTaskIdle
    <2>2. OneOwner'
      BY <1>t, <1>i, <2>u, <2>o DEF OneOwner, Owned
    <2>3. PendingSlot'
      BY <1>t, <1>i, <2>u, <2>o DEF PendingSlot, Owned, Numbering
    <2>4. FreeSlot'
      BY <1>t, <1>i, <2>u, <2>o DEF FreeSlot
    <2>5. PreviousSlot'
      BY <1>t, <1>i, <2>u, <2>o DEF PreviousSlot
    <2>6. Numbering'
      BY <1>t, <1>i, <2>u, <2>o DEF Numbering
    <2>7. RefcountAccounts'
      <3>1. \A s \in Slots : Holders(s)' = Holders(s)
        BY <2>u, <2>o, <1>t DEF Holders
      <3>2. \A s \in Slots : Initial(s)' <=> Initial(s)
        BY <2>u, <2>o, <1>t DEF Initial
      <3> QED
        BY <2>o, <3>1, <3>2, <1>i DEF RefcountAccounts
    <2> QED
      BY <2>1, <2>2, <2>3, <2>4, <2>5, <2>6, <2>7 DEF Core
  <1>12. ASSUME DtPut(t) PROVE Core'
    <2>u. /\ \A u \in Threads : u # t => pc[u] \notin OwnPCs /\ pc'[u] = pc[u]
          /\ running /\ ~pending /\ t \in Threads
      BY <1>12, <1>t, <1>i DEF DtPut, OneOwner, Owned
    <2>r. PICK r \in Slots : r = ref[t] /\ refcount[r] \in Nat \ {0}
      BY <1>12, <1>i, RefcountPositive DEF DtPut
    <2>o. /\ pc[t] = "dt_put"
          /\ pc'[t] = IF refcount[r] = 1 THEN "dt_pend" ELSE "dt_wake"
          /\ pending_delta = r /\ r # current_delta
          /\ \A s \in Slots : refcount'[s] = IF s = r THEN refcount[s] - 1 ELSE refcount[s]
          /\ UNCHANGED <<current_delta, delta_of, next_delta, stateVars, cdelta>>
          /\ \A u \in Threads \ {t} : ref'[u] = ref[u]
      BY <1>12, <1>t, <1>i, <2>r DEF DtPut, PendingSlot
    <2>1. RefsSet' /\ FlushTaskIdle'
      BY <1>t, <1>i, <2>u, <2>r, <2>o DEF RefsSet, FlushTaskIdle
    <2>2. OneOwner'
      BY <1>t, <1>i, <2>u, <2>r, <2>o DEF OneOwner, Owned
    <2>3. PendingSlot'
      BY <1>t, <1>i, <2>u, <2>r, <2>o DEF PendingSlot, Owned
    <2>4. FreeSlot'
      BY <1>t, <1>i, <2>u, <2>r, <2>o DEF FreeSlot
    <2>5. PreviousSlot'
      BY <1>t, <1>i, <2>u, <2>r, <2>o DEF PreviousSlot
    <2>6. Numbering'
      BY <1>t, <1>i, <2>u, <2>r, <2>o DEF Numbering
    <2>7. RefcountAccounts'
      <3>1. \A s \in Slots : Holders(s)' = Holders(s)
        BY <2>u, <2>o, <1>t DEF Holders
      <3>2. \A s \in Slots : Initial(s)
        BY <2>o, <2>r, <1>t DEF Initial
      <3>3. \A s \in Slots : Initial(s)' <=> s # r
        BY <2>u, <2>o, <1>t DEF Initial
      <3>5. ASSUME NEW s \in Slots
            PROVE  refcount'[s] = Cardinality(Holders(s)') + IF Initial(s)' THEN 1 ELSE 0
        <4>1. CASE s = r
          BY <4>1, <3>1, <3>2, <3>3, <2>o, <1>i DEF RefcountAccounts
        <4>2. CASE s # r
          BY <4>2, <3>1, <3>2, <3>3, <2>o, <1>i DEF RefcountAccounts
        <4> QED
          BY <4>1, <4>2
      <3> QED
        BY <3>5 DEF RefcountAccounts
    <2> QED
      BY <2>1, <2>2, <2>3, <2>4, <2>5, <2>6, <2>7 DEF Core
  <1>13. ASSUME DtPending(t) PROVE Core'
    <2>1. RefsSet' /\ FlushTaskIdle'
      BY <1>13, <1>t, <1>i DEF DtPending, RefsSet, FlushTaskIdle
    <2>2. OneOwner'
      BY <1>13, <1>t, <1>i DEF DtPending, OneOwner, Owned
    <2>3. PendingSlot'
      BY <1>13, <1>t, <1>i DEF DtPending, PendingSlot, Owned
    <2>4. FreeSlot'
      BY <1>13, <1>t, <1>i DEF DtPending, FreeSlot
    <2>5. PreviousSlot'
      BY <1>13, <1>t, <1>i DEF DtPending, PreviousSlot
    <2>6. Numbering'
      BY <1>13, <1>t, <1>i DEF DtPending, Numbering
    <2>7. RefcountAccounts'
      <3>1. \A s \in Slots : Holders(s)' = Holders(s)
        BY <1>13, <1>t, <1>i DEF Holders, DtPending
      <3>2. \A s \in Slots : Initial(s)' <=> Initial(s)
        BY <1>13, <1>t, <1>i DEF Initial, DtPending
      <3> QED
        BY <1>13, <3>1, <3>2, <1>i DEF RefcountAccounts, DtPending
    <2> QED
      BY <2>1, <2>2, <2>3, <2>4, <2>5, <2>6, <2>7 DEF Core
  <1>14. ASSUME FlushPending(t) PROVE Core'
    <2>1. RefsSet' /\ FlushTaskIdle'
      BY <1>14, <1>t, <1>i DEF FlushPending, RefsSet, FlushTaskIdle
    <2>2. OneOwner'
      BY <1>14, <1>t, <1>i DEF FlushPending, OneOwner, Owned
    <2>3. PendingSlot'
      BY <1>14, <1>t, <1>i DEF FlushPending, PendingSlot, Owned
    <2>4. FreeSlot'
      BY <1>14, <1>t, <1>i DEF FlushPending, FreeSlot
    <2>5. PreviousSlot'
      BY <1>14, <1>t, <1>i DEF FlushPending, PreviousSlot
    <2>6. Numbering'
      BY <1>14, <1>t, <1>i DEF FlushPending, Numbering
    <2>7. RefcountAccounts'
      <3>1. \A s \in Slots : Holders(s)' = Holders(s)
        BY <1>14, <1>t, <1>i DEF Holders, FlushPending
      <3>2. \A s \in Slots : Initial(s)' <=> Initial(s)
        BY <1>14, <1>t, <1>i DEF Initial, FlushPending
      <3> QED
        BY <1>14, <3>1, <3>2, <1>i DEF RefcountAccounts, FlushPending
    <2> QED
      BY <2>1, <2>2, <2>3, <2>4, <2>5, <2>6, <2>7 DEF Core
  <1>15. ASSUME CommitFlush(t) PROVE Core'
    <2>1. RefsSet' /\ FlushTaskIdle'
      BY <1>15, <1>t, <1>i DEF CommitFlush, RefsSet, FlushTaskIdle
    <2>2. OneOwner'
      BY <1>15, <1>t, <1>i DEF CommitFlush, OneOwner, Owned
    <2>3. PendingSlot'
      BY <1>15, <1>t, <1>i DEF CommitFlush, PendingSlot, Owned
    <2>4. FreeSlot'
      BY <1>15, <1>t, <1>i DEF CommitFlush, FreeSlot
    <2>5. PreviousSlot'
      BY <1>15, <1>t, <1>i DEF CommitFlush, PreviousSlot
    <2>6. Numbering'
      BY <1>15, <1>t, <1>i DEF CommitFlush, Numbering
    <2>7. RefcountAccounts'
      <3>1. \A s \in Slots : Holders(s)' = Holders(s)
        BY <1>15, <1>t, <1>i DEF Holders, CommitFlush
      <3>2. \A s \in Slots : Initial(s)' <=> Initial(s)
        BY <1>15, <1>t, <1>i DEF Initial, CommitFlush
      <3> QED
        BY <1>15, <3>1, <3>2, <1>i DEF RefcountAccounts, CommitFlush
    <2> QED
      BY <2>1, <2>2, <2>3, <2>4, <2>5, <2>6, <2>7 DEF Core
  <1> QED
    BY <1>1, <1>2, <1>3, <1>4, <1>5, <1>6, <1>7, <1>8, <1>9, <1>10, <1>11, <1>12, <1>13, <1>14, <1>15

-----------------------------------------------------------------------------
(* The steps of flush_delta(), and the flush task's. *)
LEMMA BackendActions ==
    ASSUME IInv, TypeOK', NEW t \in Threads
    PROVE  /\ FlushStep(t) => Core'
           /\ FlushWork => Core'
  <1> USE TasksAssumption, NULLAssumption, OtherSlot
  <1> USE DEF Goto, refVars, stateVars, Threads
  <1> USE DEF OwnPCs, SetupPCs, ZeroPCs, WritePCs, RefPCs, HoldPCs
  <1>t. /\ FlushTask \in Threads /\ pc \in [Threads -> PCs]
        /\ refcount \in [Slots -> Nat] /\ current_delta \in Slots
        /\ ref \in [Threads -> Slots \union {NULL}] /\ delta_of \in [Slots -> Nat]
        /\ pending_delta \in Slots \union {NULL} /\ NULL \notin Slots
        /\ running \in BOOLEAN /\ pending \in BOOLEAN /\ cdelta \in [Threads -> Deltas]
    BY DEF IInv, TypeOK, PCs, Slots, TUX3_MAX_DELTA
  <1>i. /\ RefsSet /\ FlushTaskIdle /\ RefcountAccounts
        /\ OneOwner /\ PendingSlot /\ FreeSlot /\ PreviousSlot /\ Numbering
    BY DEF IInv
  <1>1. ASSUME FlushStart(t) PROVE Core'
    <2>1. RefsSet' /\ FlushTaskIdle'
      BY <1>1, <1>t, <1>i DEF FlushStart, RefsSet, FlushTaskIdle, FlushPCs, FlushTaskPCs
    <2>2. OneOwner'
      BY <1>1, <1>t, <1>i DEF FlushStart, OneOwner, Owned
    <2>3. PendingSlot'
      <3>1. \A u \in Threads : u # t => pc[u] \notin OwnPCs /\ pc'[u] = pc[u]
        BY <1>1, <1>t, <1>i DEF FlushStart, OneOwner
      <3>2. running /\ ~pending
        BY <1>1, <1>t, <1>i DEF FlushStart, OneOwner, Owned
      <3> QED
        BY <1>1, <1>t, <3>1, <3>2 DEF FlushStart, PendingSlot
    <2>4. FreeSlot'
      BY <1>1, <1>t, <1>i DEF FlushStart, FreeSlot, PendingSlot
    <2>5. PreviousSlot'
      BY <1>1, <1>t, <1>i DEF FlushStart, PreviousSlot
    <2>6. Numbering'
      BY <1>1, <1>t, <1>i DEF FlushStart, Numbering, PendingSlot
    <2>7. RefcountAccounts'
      <3>1. \A s \in Slots : Holders(s)' = Holders(s)
        BY <1>1, <1>t DEF Holders, FlushStart
      <3>2. \A s \in Slots : Initial(s)' <=> Initial(s)
        BY <1>1, <1>t DEF Initial, FlushStart
      <3> QED
        BY <1>1, <3>1, <3>2, <1>i DEF RefcountAccounts, FlushStart
    <2> QED
      BY <2>1, <2>2, <2>3, <2>4, <2>5, <2>6, <2>7 DEF Core
  <1>2. ASSUME Commit(t) PROVE Core'
    <2>1. RefsSet' /\ FlushTaskIdle'
      BY <1>2, <1>t, <1>i DEF Commit, RefsSet, FlushTaskIdle, FlushPCs, FlushTaskPCs
    <2>2. OneOwner'
      BY <1>2, <1>t, <1>i DEF Commit, OneOwner, Owned
    <2>3. PendingSlot'
      BY <1>2, <1>t, <1>i DEF Commit, PendingSlot, Owned
    <2>4. FreeSlot'
      BY <1>2, <1>t, <1>i DEF Commit, FreeSlot
    <2>5. PreviousSlot'
      BY <1>2, <1>t, <1>i DEF Commit, PreviousSlot
    <2>6. Numbering'
      BY <1>2, <1>t, <1>i DEF Commit, Numbering
    <2>7. RefcountAccounts'
      <3>1. \A s \in Slots : Holders(s)' = Holders(s)
        BY <1>2, <1>t DEF Holders, Commit
      <3>2. \A s \in Slots : Initial(s)' <=> Initial(s)
        BY <1>2, <1>t DEF Initial, Commit
      <3> QED
        BY <1>2, <3>1, <3>2, <1>i DEF RefcountAccounts, Commit
    <2> QED
      BY <2>1, <2>2, <2>3, <2>4, <2>5, <2>6, <2>7 DEF Core
  <1>3. ASSUME CommitError(t) PROVE Core'
    <2>1. RefsSet' /\ FlushTaskIdle'
      BY <1>3, <1>t, <1>i DEF CommitError, RefsSet, FlushTaskIdle, FlushPCs, FlushTaskPCs
    <2>2. OneOwner'
      BY <1>3, <1>t, <1>i DEF CommitError, OneOwner, Owned
    <2>3. PendingSlot'
      BY <1>3, <1>t, <1>i DEF CommitError, PendingSlot, Owned
    <2>4. FreeSlot'
      BY <1>3, <1>t, <1>i DEF CommitError, FreeSlot
    <2>5. PreviousSlot'
      BY <1>3, <1>t, <1>i DEF CommitError, PreviousSlot
    <2>6. Numbering'
      BY <1>3, <1>t, <1>i DEF CommitError, Numbering
    <2>7. RefcountAccounts'
      <3>1. \A s \in Slots : Holders(s)' = Holders(s)
        BY <1>3, <1>t DEF Holders, CommitError
      <3>2. \A s \in Slots : Initial(s)' <=> Initial(s)
        BY <1>3, <1>t DEF Initial, CommitError
      <3> QED
        BY <1>3, <3>1, <3>2, <1>i DEF RefcountAccounts, CommitError
    <2> QED
      BY <2>1, <2>2, <2>3, <2>4, <2>5, <2>6, <2>7 DEF Core
  <1>super. ASSUME SuperError(t) PROVE Core'
    <2>1. RefsSet' /\ FlushTaskIdle'
      BY <1>super, <1>t, <1>i DEF SuperError, RefsSet, FlushTaskIdle, FlushPCs, FlushTaskPCs
    <2>2. OneOwner'
      BY <1>super, <1>t, <1>i DEF SuperError, OneOwner, Owned
    <2>3. PendingSlot'
      BY <1>super, <1>t, <1>i DEF SuperError, PendingSlot, Owned
    <2>4. FreeSlot'
      BY <1>super, <1>t, <1>i DEF SuperError, FreeSlot
    <2>5. PreviousSlot'
      BY <1>super, <1>t, <1>i DEF SuperError, PreviousSlot
    <2>6. Numbering'
      BY <1>super, <1>t, <1>i DEF SuperError, Numbering
    <2>7. RefcountAccounts'
      <3>1. \A s \in Slots : Holders(s)' = Holders(s)
        BY <1>super, <1>t DEF Holders, SuperError
      <3>2. \A s \in Slots : Initial(s)' <=> Initial(s)
        BY <1>super, <1>t DEF Initial, SuperError
      <3> QED
        BY <1>super, <3>1, <3>2, <1>i DEF RefcountAccounts, SuperError
    <2> QED
      BY <2>1, <2>2, <2>3, <2>4, <2>5, <2>6, <2>7 DEF Core
  <1>4. ASSUME PostCommit(t) PROVE Core'
    <2>1. RefsSet' /\ FlushTaskIdle'
      BY <1>4, <1>t, <1>i DEF PostCommit, RefsSet, FlushTaskIdle, FlushPCs, FlushTaskPCs
    <2>2. OneOwner'
      BY <1>4, <1>t, <1>i DEF PostCommit, OneOwner, Owned
    <2>3. PendingSlot'
      BY <1>4, <1>t, <1>i DEF PostCommit, PendingSlot, Owned
    <2>4. FreeSlot'
      BY <1>4, <1>t, <1>i DEF PostCommit, FreeSlot
    <2>5. PreviousSlot'
      BY <1>4, <1>t, <1>i DEF PostCommit, PreviousSlot
    <2>6. Numbering'
      BY <1>4, <1>t, <1>i DEF PostCommit, Numbering
    <2>7. RefcountAccounts'
      <3>1. \A s \in Slots : Holders(s)' = Holders(s)
        BY <1>4, <1>t DEF Holders, PostCommit
      <3>2. \A s \in Slots : Initial(s)' <=> Initial(s)
        BY <1>4, <1>t DEF Initial, PostCommit
      <3> QED
        BY <1>4, <3>1, <3>2, <1>i DEF RefcountAccounts, PostCommit
    <2> QED
      BY <2>1, <2>2, <2>3, <2>4, <2>5, <2>6, <2>7 DEF Core
  <1>5. ASSUME FlushDone(t) PROVE Core'
    <2>1. RefsSet' /\ FlushTaskIdle'
      BY <1>5, <1>t, <1>i DEF FlushDone, RefsSet, FlushTaskIdle, FlushPCs, FlushTaskPCs
    <2>2. OneOwner'
      BY <1>5, <1>t, <1>i DEF FlushDone, OneOwner, Owned
    <2>3. PendingSlot'
      BY <1>5, <1>t, <1>i DEF FlushDone, PendingSlot, Owned
    <2>4. FreeSlot'
      BY <1>5, <1>t, <1>i DEF FlushDone, FreeSlot
    <2>5. PreviousSlot'
      BY <1>5, <1>t, <1>i DEF FlushDone, PreviousSlot
    <2>6. Numbering'
      BY <1>5, <1>t, <1>i DEF FlushDone, Numbering
    <2>7. RefcountAccounts'
      <3>1. \A s \in Slots : Holders(s)' = Holders(s)
        BY <1>5, <1>t DEF Holders, FlushDone
      <3>2. \A s \in Slots : Initial(s)' <=> Initial(s)
        BY <1>5, <1>t DEF Initial, FlushDone
      <3> QED
        BY <1>5, <3>1, <3>2, <1>i DEF RefcountAccounts, FlushDone
    <2> QED
      BY <2>1, <2>2, <2>3, <2>4, <2>5, <2>6, <2>7 DEF Core
  <1>6. ASSUME ClearRunning(t) PROVE Core'
    <2>1. RefsSet' /\ FlushTaskIdle'
      BY <1>6, <1>t, <1>i DEF ClearRunning, RefsSet, FlushTaskIdle, FlushPCs, FlushTaskPCs
    <2>2. OneOwner'
      BY <1>6, <1>t, <1>i DEF ClearRunning, OneOwner, Owned
    <2>3. PendingSlot'
      BY <1>6, <1>t, <1>i DEF ClearRunning, PendingSlot, Owned
    <2>4. FreeSlot'
      BY <1>6, <1>t, <1>i DEF ClearRunning, FreeSlot
    <2>5. PreviousSlot'
      BY <1>6, <1>t, <1>i DEF ClearRunning, PreviousSlot
    <2>6. Numbering'
      BY <1>6, <1>t, <1>i DEF ClearRunning, Numbering
    <2>7. RefcountAccounts'
      <3>1. \A s \in Slots : Holders(s)' = Holders(s)
        BY <1>6, <1>t DEF Holders, ClearRunning
      <3>2. \A s \in Slots : Initial(s)' <=> Initial(s)
        BY <1>6, <1>t DEF Initial, ClearRunning
      <3> QED
        BY <1>6, <3>1, <3>2, <1>i DEF RefcountAccounts, ClearRunning
    <2> QED
      BY <2>1, <2>2, <2>3, <2>4, <2>5, <2>6, <2>7 DEF Core
  <1>7. ASSUME WorkCheck PROVE Core'
    <2>1. RefsSet' /\ FlushTaskIdle'
      BY <1>7, <1>t, <1>i DEF WorkCheck, RefsSet, FlushTaskIdle, FlushPCs, FlushTaskPCs
    <2>2. OneOwner'
      BY <1>7, <1>t, <1>i DEF WorkCheck, OneOwner, Owned
    <2>3. PendingSlot'
      BY <1>7, <1>t, <1>i DEF WorkCheck, PendingSlot, Owned
    <2>4. FreeSlot'
      BY <1>7, <1>t, <1>i DEF WorkCheck, FreeSlot
    <2>5. PreviousSlot'
      BY <1>7, <1>t, <1>i DEF WorkCheck, PreviousSlot
    <2>6. Numbering'
      BY <1>7, <1>t, <1>i DEF WorkCheck, Numbering
    <2>7. RefcountAccounts'
      <3>1. \A s \in Slots : Holders(s)' = Holders(s)
        BY <1>7, <1>t DEF Holders, WorkCheck
      <3>2. \A s \in Slots : Initial(s)' <=> Initial(s)
        BY <1>7, <1>t DEF Initial, WorkCheck
      <3> QED
        BY <1>7, <3>1, <3>2, <1>i DEF RefcountAccounts, WorkCheck
    <2> QED
      BY <2>1, <2>2, <2>3, <2>4, <2>5, <2>6, <2>7 DEF Core
  <1>8. ASSUME FlushWake(t) PROVE Core'
    <2> Quiet(t)
      BY <1>8, <1>t DEF Quiet, FlushWake, AfterFlush, FlushPCs, FlushTaskPCs
    <2> QED
      BY <1>t, QuietStep
  <1>9. ASSUME WorkState PROVE Core'
    <2> Quiet(FlushTask)
      BY <1>9, <1>t DEF Quiet, WorkState, FlushPCs, FlushTaskPCs
    <2> QED
      BY <1>t, QuietStep
  <1>10. ASSUME WorkTest PROVE Core'
    <2> Quiet(FlushTask)
      BY <1>10, <1>t DEF Quiet, WorkTest, FlushPCs, FlushTaskPCs
    <2> QED
      BY <1>t, QuietStep
  <1>11. ASSUME WorkWoken PROVE Core'
    <2> Quiet(FlushTask)
      BY <1>11, <1>t DEF Quiet, WorkWoken, FlushPCs, FlushTaskPCs
    <2> QED
      BY <1>t, QuietStep
  <1> QED
    BY <1>1, <1>2, <1>3, <1>super, <1>4, <1>5, <1>6, <1>7, <1>8, <1>9, <1>10, <1>11 DEF FlushStep, FlushWork

-----------------------------------------------------------------------------
(* The initial state satisfies the invariant. *)
LEMMA InitIInv == Init => IInv
  <1> SUFFICES ASSUME Init PROVE IInv
    OBVIOUS
  <1> USE TasksAssumption, NULLAssumption
  <1> USE DEF Init, Threads, Slots, TUX3_MAX_DELTA, TUX3_INIT_DELTA
  <1>1. TypeOK
    <2>1. pc \in [Threads -> TaskPCs \union FlushPCs \union FlushTaskPCs]
      BY DEF TaskPCs, FlushTaskPCs
    <2>2. /\ kind \in [Tasks -> AllKinds] /\ unify_flag \in [Slots -> UnifyFlags]
          /\ cdelta \in [Threads -> Deltas] /\ marshal_delta \in Deltas
      BY DEF AllKinds, ChangeKinds, UnifyFlags, Deltas
    <2>3. refcount \in [Slots -> Nat] /\ delta_of \in [Slots -> Nat]
      OBVIOUS
    <2>4. /\ dirty \in [Slots -> SUBSET Ops] /\ must \in [Tasks -> SUBSET Ops]
          /\ ref \in [Threads -> Slots \union {NULL}]
      OBVIOUS
    <2>5. /\ committed_delta \in Deltas /\ ops \in [Tasks -> Nat] /\ want \in [Tasks -> Nat]
          /\ current_delta \in Slots /\ next_delta \in Nat
      BY DEF Deltas
    <2> HIDE DEF Slots
    <2> QED
      BY <2>1, <2>2, <2>3, <2>4, <2>5 DEF TypeOK
  <1>2. RefsSet /\ FlushTaskIdle /\ PreviousSlot
    BY DEF RefsSet, FlushTaskIdle, PreviousSlot, RefPCs, HoldPCs, FlushTaskPCs
  <1>3. ~Owned
    BY DEF Owned, OwnPCs, SetupPCs, ZeroPCs, WritePCs
  <1>4. /\ \A t \in Threads : pc[t] \notin OwnPCs
        /\ NULL \notin Slots /\ NextSlot(0) = 1 /\ tux3_delta(0) = 0
    BY DEF OwnPCs, SetupPCs, ZeroPCs, WritePCs, NextSlot, tux3_delta
  <1>o. OneOwner
    BY <1>3, <1>4 DEF OneOwner
  <1>p. PendingSlot
    <2>1. pending_delta = NULL /\ current_delta # NULL /\ ~pending /\ ~running
      OBVIOUS
    <2> HIDE DEF Init
    <2> QED
      BY <1>4, <2>1 DEF PendingSlot, OwnPCs
  <1>f. FreeSlot
    BY <1>4 DEF FreeSlot, OwnPCs, SetupPCs
  <1>n. Numbering
    BY <1>4 DEF Numbering, OwnPCs, SetupPCs, WritePCs
  <1>5. RefcountAccounts
    <2>1. \A s : Holders(s) = {}
      BY DEF Holders, HoldPCs
    <2>2. \A s \in Slots : Initial(s) <=> s = 0
      BY DEF Initial
    <2>3. Cardinality({}) = 0
      BY FS_EmptySet
    <2>4. \A s \in Slots : Cardinality(Holders(s)) = 0
      BY <2>1, <2>3
    <2> QED
      BY <2>2, <2>4 DEF RefcountAccounts
  <1> QED
    BY <1>1, <1>2, <1>5, <1>o, <1>p, <1>f, <1>n DEF IInv

(* Every step keeps it. *)
LEMMA NextIInv == IInv /\ [Next]_vars => IInv'
  <1> SUFFICES ASSUME IInv, [Next]_vars PROVE IInv'
    OBVIOUS
  <1>1. TypeOK'
    BY TypeStep DEF IInv
  <1>2. CASE UNCHANGED vars
    <2>1. Core'
      BY <1>2, StutterStep DEF vars, refVars
    <2> QED
      BY <1>1, <2>1 DEF IInv, Core
  <1>3. ASSUME NEW t \in Tasks,
               \/ Invoke(t) \/ Change(t) \/ Killed(t) \/ LockStep(t) \/ GetStep(t)
               \/ PutStep(t) \/ EndStep(t) \/ TransStep(t) \/ SyncStep(t)
        PROVE  Core'
    BY <1>1, <1>3, QuietActions, OwnerActions DEF LockStep, GetStep, PutStep, EndStep, TransStep,
       SyncStep
  <1>4. ASSUME NEW t \in Threads, FlushStep(t) PROVE Core'
    BY <1>1, <1>4, BackendActions
  <1>5. ASSUME FlushWork PROVE Core'
    <2>1. FlushTask \in Threads
      BY DEF Threads
    <2> QED
      BY <1>1, <1>5, <2>1, BackendActions
  <1>6. ASSUME Next PROVE Core'
    BY <1>3, <1>4, <1>5, <1>6 DEF Next
  <1> QED
    BY <1>1, <1>2, <1>6 DEF IInv, Core

(* The inductive invariant holds in every reachable state. *)
THEOREM Invariance == Spec => []IInv
  BY InitIInv, NextIInv, PTL DEF Spec

(* Every variable keeps its type; above all no refcount is ever dropped     *)
(* below zero.                                                              *)
THEOREM TypeCorrect == Spec => []TypeOK
  <1>1. IInv => TypeOK
    BY DEF IInv
  <1> QED
    BY <1>1, Invariance, PTL

(* References are neither lost nor duplicated, for any number of tasks. *)
THEOREM RefcountCorrect == Spec => []RefcountAccounts
  <1>1. IInv => RefcountAccounts
    BY DEF IInv
  <1> QED
    BY <1>1, Invariance, PTL

(* The assertion of __delta_transition() never fails. *)
THEOREM NextSlotIsFree == Spec => []NextSlotFree
  <1>1. IInv => NextSlotFree
    BY DEF IInv, FreeSlot, NextSlotFree, Threads
  <1> QED
    BY <1>1, Invariance, PTL

(* The backend's exclusiveness follows from the invariant. *)
LEMMA ExclusiveBackend == IInv => BackendExclusive
  <1> SUFFICES ASSUME IInv, NEW t \in Threads, pc[t] \in {"fl_commit", "fl_post"}
               PROVE  /\ \A u \in Tasks : pc[u] \in HoldPCs =>
                             tux3_delta(delta_of[ref[u]]) # tux3_delta(cdelta[t])
                      /\ \A u \in Threads \ {t} : pc[u] \notin FlushPCs \ {"fl_wake"}
    BY DEF BackendExclusive
  <1>1. ASSUME NEW u \in Tasks, pc[u] \in HoldPCs
        PROVE  tux3_delta(delta_of[ref[u]]) # tux3_delta(cdelta[t])
    <2>1. ref[u] \in Slots /\ refcount[ref[u]] # 0
      BY <1>1, RefcountPositive DEF IInv
    <2>2. refcount[NextSlot(current_delta)] = 0
      BY DEF IInv, FreeSlot, WritePCs
    <2>3. ref[u] = current_delta /\ current_delta \in Slots
      BY <2>1, <2>2, OtherSlot DEF IInv, TypeOK
    <2> QED
      BY <2>3, OtherSlot DEF IInv, Numbering
  <1>2. ASSUME NEW u \in Threads \ {t} PROVE pc[u] \notin FlushPCs \ {"fl_wake"}
    BY DEF IInv, OneOwner, OwnPCs, ZeroPCs, WritePCs, FlushPCs
  <1> QED
    BY <1>1, <1>2

(* The backend commits a delta alone: no task can change it any more, and   *)
(* no other thread commits.                                                 *)
THEOREM BackendIsExclusive == Spec => []BackendExclusive
  BY ExclusiveBackend, Invariance, PTL

------------------------------------------------------------------------------
(* The order of the deltas and the atomicity of an operation.               *)

(* flush_delta() has read marshal_delta and not yet set committed_delta.    *)
CommitPCs == {"fl_commit", "fl_post", "fl_done"}

(* The current delta comes after the marshalled one, and the marshalled one *)
(* is the next to be committed until it is committed.                       *)
Sequence ==
    /\ (\A t \in Tasks : pc[t] # "dt_marshal") => delta_of[current_delta] = marshal_delta + 1
    /\ \A t \in Tasks : pc[t] = "dt_marshal" =>
           delta_of[ref[t]] = marshal_delta + 1 /\ delta_of[current_delta] = marshal_delta + 2
    /\ pending_delta # NULL => marshal_delta = committed_delta + 1
    /\ \A t \in Threads : pc[t] \in CommitPCs =>
           cdelta[t] = marshal_delta /\ marshal_delta = committed_delta + 1
    /\ (pending_delta = NULL /\ \A t \in Threads : pc[t] \notin CommitPCs) =>
           committed_delta = marshal_delta

(* An operation that has not made its first change. *)
StartPCs == {"lock", "get", "inc"}

(* A slot a task has read from current_delta has a number of its own.       *)
RefNumbered ==
    \A t \in Tasks : pc[t] \in HoldPCs \union {"inc"} => tux3_delta(delta_of[ref[t]]) = ref[t]

(* The changes of an operation are in the slot it holds, and only there;    *)
(* what has not started has made none.                                      *)
Whole ==
    /\ RefNumbered
    /\ \A t \in Tasks :
         /\ pc[t] \in StartPCs => \A s \in Slots : <<t, ops[t]>> \notin dirty[s]
         /\ pc[t] \in StartPCs \union {"body"} => <<t, ops[t]>> \notin durable
         /\ pc[t] = "body" => \A s \in Slots : <<t, ops[t]>> \in dirty[s] => s = ref[t]
         /\ \A r, s \in Slots : <<t, ops[t]>> \in dirty[r] \intersect dirty[s] => r = s
         /\ \A n \in Nat : n > ops[t] =>
              /\ <<t, n>> \notin durable
              /\ \A s \in Slots : <<t, n>> \notin dirty[s]

-----------------------------------------------------------------------------
(* A step that neither numbers, marshals nor commits a delta. *)
Between(t) ==
    /\ pc' = [pc EXCEPT ![t] = pc'[t]]
    /\ ref' = [ref EXCEPT ![t] = ref'[t]]
    /\ pc[t] \notin CommitPCs \union {"dt_marshal"}
    /\ pc'[t] \notin CommitPCs \union {"dt_marshal"}
    /\ UNCHANGED <<current_delta, delta_of, marshal_delta, committed_delta, pending_delta, cdelta>>

(* The steps that leave the deltas as they are. *)
LEMMA BetweenTasks ==
    ASSUME IInv, NEW t \in Tasks,
           \/ Invoke(t) \/ LockDelta(t) \/ LockWrite(t) \/ Killed(t) \/ DeltaRead(t)
           \/ DeltaInc(t) \/ DeltaRetry(t) \/ Change(t) \/ DeltaPut(t)
           \/ SetPending(t) \/ DeltaKick(t) \/ UnlockRead(t) \/ NoTransition(t)
           \/ TryTransition(t) \/ FlushPending(t) \/ UnlockWrite(t) \/ DtSet(t)
           \/ DtPut(t) \/ DtPending(t) \/ DtKick(t) \/ DtWake(t) \/ DtWait(t)
           \/ MarkSync(t) \/ Transition(t) \/ TestAndSetRunning(t) \/ Recheck(t)
           \/ TransitionReturn(t) \/ CommitWait(t) \/ CommitFlush(t) \/ Resume(t)
    PROVE  Between(t)
  <1> USE TasksAssumption DEF Goto, refVars, stateVars, dataVars, opVars, Threads, HoldPCs,
     CommitPCs
  <1>t. t \in Threads /\ t # FlushTask /\ pc \in [Threads -> PCs] /\ ref \in [Threads -> Slots \union {NULL}]
    BY DEF IInv, TypeOK, PCs
  <1>1. ASSUME Invoke(t) PROVE Between(t)
    BY <1>1, <1>t DEF Between, Invoke
  <1>2. ASSUME LockDelta(t) PROVE Between(t)
    BY <1>2, <1>t DEF Between, LockDelta
  <1>3. ASSUME LockWrite(t) PROVE Between(t)
    BY <1>3, <1>t DEF Between, LockWrite
  <1>4. ASSUME Killed(t) PROVE Between(t)
    BY <1>4, <1>t DEF Between, Killed
  <1>5. ASSUME DeltaRead(t) PROVE Between(t)
    BY <1>5, <1>t DEF Between, DeltaRead
  <1>6. ASSUME DeltaInc(t) PROVE Between(t)
    BY <1>6, <1>t DEF Between, DeltaInc
  <1>7. ASSUME DeltaRetry(t) PROVE Between(t)
    BY <1>7, <1>t DEF Between, DeltaRetry
  <1>8. ASSUME Change(t) PROVE Between(t)
    BY <1>8, <1>t DEF Between, Change
  <1>9. ASSUME DeltaPut(t) PROVE Between(t)
    BY <1>9, <1>t DEF Between, DeltaPut, AfterPut
  <1>10. ASSUME SetPending(t) PROVE Between(t)
    BY <1>10, <1>t DEF Between, SetPending
  <1>11. ASSUME DeltaKick(t) PROVE Between(t)
    BY <1>11, <1>t DEF Between, DeltaKick, AfterPut, schedule_flush_delta
  <1>12. ASSUME UnlockRead(t) PROVE Between(t)
    BY <1>12, <1>t DEF Between, UnlockRead
  <1>13. ASSUME NoTransition(t) PROVE Between(t)
    BY <1>13, <1>t DEF Between, NoTransition, AfterTry
  <1>14. ASSUME TryTransition(t) PROVE Between(t)
    BY <1>14, <1>t DEF Between, TryTransition
  <1>15. ASSUME FlushPending(t) PROVE Between(t)
    BY <1>15, <1>t DEF Between, FlushPending
  <1>16. ASSUME UnlockWrite(t) PROVE Between(t)
    BY <1>16, <1>t DEF Between, UnlockWrite
  <1>17. ASSUME DtSet(t) PROVE Between(t)
    BY <1>17, <1>t DEF Between, DtSet
  <1>18. ASSUME DtPut(t) PROVE Between(t)
    BY <1>18, <1>t DEF Between, DtPut
  <1>19. ASSUME DtPending(t) PROVE Between(t)
    BY <1>19, <1>t DEF Between, DtPending
  <1>20. ASSUME DtKick(t) PROVE Between(t)
    BY <1>20, <1>t DEF Between, DtKick, schedule_flush_delta
  <1>21. ASSUME DtWake(t) PROVE Between(t)
    BY <1>21, <1>t DEF Between, DtWake, AfterTransition, AfterTry
  <1>22. ASSUME DtWait(t) PROVE Between(t)
    BY <1>22, <1>t DEF Between, DtWait, WaitEvent, AfterTransition, AfterTry
  <1>23. ASSUME MarkSync(t) PROVE Between(t)
    BY <1>23, <1>t DEF Between, MarkSync
  <1>24. ASSUME Transition(t) PROVE Between(t)
    BY <1>24, <1>t DEF Between, Transition, WaitEvent
  <1>25. ASSUME TestAndSetRunning(t) PROVE Between(t)
    BY <1>25, <1>t DEF Between, TestAndSetRunning
  <1>26. ASSUME Recheck(t) PROVE Between(t)
    BY <1>26, <1>t DEF Between, Recheck
  <1>27. ASSUME TransitionReturn(t) PROVE Between(t)
    BY <1>27, <1>t DEF Between, TransitionReturn
  <1>28. ASSUME CommitWait(t) PROVE Between(t)
    BY <1>28, <1>t DEF Between, CommitWait, WaitEvent
  <1>29. ASSUME CommitFlush(t) PROVE Between(t)
    BY <1>29, <1>t DEF Between, CommitFlush
  <1>30. ASSUME Resume(t) PROVE Between(t)
    BY <1>30, <1>t DEF Between, Resume
  <1> QED
    BY <1>1, <1>2, <1>3, <1>4, <1>5, <1>6, <1>7, <1>8, <1>9, <1>10, <1>11, <1>12, <1>13,
       <1>14, <1>15, <1>16, <1>17, <1>18, <1>19, <1>20, <1>21, <1>22, <1>23, <1>24, <1>25,
       <1>26, <1>27, <1>28, <1>29, <1>30

(* The same for the backend's steps. *)
LEMMA BetweenBackend ==
    ASSUME IInv, NEW t \in Threads
    PROVE  /\ (ClearRunning(t) \/ FlushWake(t)) => Between(t)
           /\ FlushWork => Between(FlushTask)
  <1> USE TasksAssumption DEF Goto, refVars, stateVars, dataVars, opVars, Threads, HoldPCs,
     CommitPCs
  <1>t. /\ FlushTask \in Threads /\ pc \in [Threads -> PCs]
        /\ ref \in [Threads -> Slots \union {NULL}]
    BY DEF IInv, TypeOK, PCs
  <1>1. ASSUME ClearRunning(t) PROVE Between(t)
    BY <1>1, <1>t DEF Between, ClearRunning
  <1>2. ASSUME FlushWake(t) PROVE Between(t)
    BY <1>2, <1>t DEF Between, FlushWake, AfterFlush
  <1>3. ASSUME WorkCheck PROVE Between(FlushTask)
    BY <1>3, <1>t DEF Between, WorkCheck
  <1>4. ASSUME WorkState PROVE Between(FlushTask)
    BY <1>4, <1>t DEF Between, WorkState
  <1>5. ASSUME WorkTest PROVE Between(FlushTask)
    BY <1>5, <1>t DEF Between, WorkTest
  <1>6. ASSUME WorkWoken PROVE Between(FlushTask)
    BY <1>6, <1>t DEF Between, WorkWoken
  <1> QED
    BY <1>1, <1>2, <1>3, <1>4, <1>5, <1>6 DEF FlushWork

(* Such a step keeps the order. *)
LEMMA BetweenSequence ==
    ASSUME IInv, Sequence, NEW t \in Threads, Between(t)
    PROVE  Sequence' /\ committed_delta' = committed_delta
  <1>t. pc \in [Threads -> PCs] /\ Tasks \subseteq Threads /\ ref \in [Threads -> Slots \union {NULL}]
    BY DEF IInv, TypeOK, PCs, Threads
  <1>1. \A u \in Threads : /\ pc'[u] = "dt_marshal" <=> pc[u] = "dt_marshal"
                           /\ pc'[u] \in CommitPCs <=> pc[u] \in CommitPCs
                           /\ pc[u] = "dt_marshal" => ref'[u] = ref[u]
    BY <1>t DEF Between
  <1> QED
    BY <1>t, <1>1 DEF Between, Sequence

(* The transition and the commit keep it, and the commit moves on by one.   *)
LEMMA SequenceStep ==
    ASSUME IInv, Sequence, [Next]_vars
    PROVE  /\ Sequence'
           /\ committed_delta' # committed_delta => committed_delta' = committed_delta + 1
  <1> USE TasksAssumption DEF Goto, refVars, stateVars, Threads
  <1>t. /\ FlushTask \in Threads /\ Tasks \subseteq Threads /\ pc \in [Threads -> PCs]
        /\ ref \in [Threads -> Slots \union {NULL}] /\ current_delta \in Slots
        /\ delta_of \in [Slots -> Nat] /\ cdelta \in [Threads -> Deltas]
        /\ marshal_delta \in Int /\ committed_delta \in Int /\ NULL \notin Slots
    BY NULLAssumption DEF IInv, TypeOK, PCs, Deltas, TUX3_INIT_DELTA, Slots, TUX3_MAX_DELTA
  <1>o. ASSUME NEW t \in Threads, NEW u \in Threads, pc[t] \in OwnPCs, pc[u] \in OwnPCs
        PROVE  t = u
    BY <1>o DEF IInv, OneOwner
  <1>1. CASE UNCHANGED vars
    BY <1>1 DEF vars, Sequence
  <1>2. ASSUME NEW t \in Tasks, DtNum(t)
        PROVE  Sequence' /\ committed_delta' = committed_delta
    <2>1. /\ ref[t] = current_delta /\ next_delta = delta_of[current_delta] + 1
          /\ NextSlot(current_delta) \in Slots /\ NextSlot(current_delta) # current_delta
      BY <1>2, <1>t, OtherSlot DEF DtNum, IInv, PreviousSlot, Numbering
    <2>2. \A u \in Threads \ {t} : pc[u] \notin OwnPCs /\ pc'[u] = pc[u]
      BY <1>2, <1>t, <1>o DEF DtNum, OwnPCs, SetupPCs
    <2>3. \A u \in Threads : pc[u] # "dt_marshal" /\ pc[u] \notin CommitPCs
      BY <1>2, <2>2 DEF DtNum, OwnPCs, SetupPCs, WritePCs, CommitPCs
    <2>4. /\ delta_of'[ref[t]] = marshal_delta + 1 /\ delta_of'[current_delta'] = marshal_delta + 2
          /\ ref' = ref
      BY <1>2, <1>t, <2>1, <2>3 DEF DtNum, Sequence
    <2>5. /\ pc'[t] = "dt_marshal" /\ \A u \in Threads : pc'[u] \notin CommitPCs
          /\ \A u \in Tasks : pc'[u] = "dt_marshal" => u = t
      BY <1>2, <1>t, <2>2, <2>3 DEF DtNum, OwnPCs, SetupPCs, CommitPCs
    <2> QED
      BY <1>2, <1>t, <2>3, <2>4, <2>5 DEF DtNum, Sequence
  <1>3. ASSUME NEW t \in Tasks, DtMarshal(t)
        PROVE  Sequence' /\ committed_delta' = committed_delta
    <2>1. pending_delta = NULL /\ ref[t] \in Slots
      BY <1>3, <1>t DEF DtMarshal, IInv, PendingSlot, SetupPCs, RefsSet, RefPCs
    <2>2. \A u \in Threads \ {t} : pc[u] \notin OwnPCs /\ pc'[u] = pc[u]
      BY <1>3, <1>t, <1>o DEF DtMarshal, OwnPCs, SetupPCs
    <2>3. \A u \in Threads : /\ pc[u] \notin CommitPCs /\ pc'[u] \notin CommitPCs
                             /\ pc'[u] # "dt_marshal"
      BY <1>3, <1>t, <2>2 DEF DtMarshal, OwnPCs, SetupPCs, WritePCs, CommitPCs
    <2>4. /\ committed_delta = marshal_delta /\ marshal_delta' = marshal_delta + 1
          /\ delta_of[current_delta] = marshal_delta' + 1
      BY <1>3, <1>t, <2>1, <2>3 DEF DtMarshal, Sequence
    <2> QED
      BY <1>3, <1>t, <2>1, <2>3, <2>4 DEF DtMarshal, Sequence
  <1>4. ASSUME NEW t \in Threads, FlushStart(t)
        PROVE  Sequence' /\ committed_delta' = committed_delta
    <2>1. pending_delta # NULL
      BY <1>4 DEF FlushStart, IInv, PendingSlot, ZeroPCs
    <2>2. \A u \in Threads \ {t} : pc'[u] = pc[u] /\ cdelta'[u] = cdelta[u]
      BY <1>4, <1>t DEF FlushStart
    <2>3. pc'[t] = "fl_commit" /\ cdelta'[t] = marshal_delta /\ pc[t] = "fl_start"
      BY <1>4, <1>t DEF FlushStart
    <2> QED
      BY <1>4, <1>t, <2>1, <2>2, <2>3 DEF FlushStart, Sequence, CommitPCs
  <1>5. ASSUME NEW t \in Threads, Commit(t) \/ CommitError(t) \/ SuperError(t) \/ PostCommit(t)
        PROVE  Sequence' /\ committed_delta' = committed_delta
    <2>1. /\ pc[t] \in CommitPCs /\ pc'[t] \in CommitPCs
          /\ \A u \in Threads \ {t} : pc'[u] = pc[u]
          /\ UNCHANGED <<current_delta, delta_of, marshal_delta, committed_delta, pending_delta,
                         cdelta, ref>>
      BY <1>5, <1>t DEF Commit, CommitError, SuperError, PostCommit, CommitPCs
    <2> QED
      BY <1>t, <2>1 DEF Sequence, CommitPCs
  <1>6. ASSUME NEW t \in Threads, FlushDone(t)
        PROVE  Sequence' /\ committed_delta' = committed_delta + 1
    <2>1. pending_delta = NULL
      BY <1>6 DEF FlushDone, IInv, PendingSlot, WritePCs
    <2>2. \A u \in Threads \ {t} : pc[u] \notin OwnPCs /\ pc'[u] = pc[u]
      BY <1>6, <1>t, <1>o DEF FlushDone, OwnPCs, WritePCs
    <2>3. \A u \in Threads : /\ pc'[u] \notin CommitPCs
                             /\ pc'[u] = "dt_marshal" <=> pc[u] = "dt_marshal"
      BY <1>6, <1>t, <2>2 DEF FlushDone, OwnPCs, SetupPCs, WritePCs, CommitPCs
    <2>4. committed_delta' = marshal_delta /\ marshal_delta = committed_delta + 1
      BY <1>6 DEF FlushDone, Sequence, CommitPCs
    <2> QED
      BY <1>6, <1>t, <2>1, <2>3, <2>4 DEF FlushDone, Sequence
  <1>7. ASSUME NEW t \in Tasks, Change(t)
        PROVE  Sequence' /\ committed_delta' = committed_delta
    BY <1>7 DEF Change, Sequence
  <1>8. ASSUME NEW t \in Threads, Between(t)
        PROVE  Sequence' /\ committed_delta' = committed_delta
    BY <1>8, BetweenSequence
  <1>9. ASSUME NEW t \in Tasks,
               \/ Invoke(t) \/ Change(t) \/ Killed(t) \/ LockStep(t) \/ GetStep(t)
               \/ PutStep(t) \/ EndStep(t) \/ TransStep(t) \/ SyncStep(t)
        PROVE  Sequence' /\ committed_delta' = committed_delta
    BY <1>9, <1>t, <1>2, <1>3, <1>7, <1>8, BetweenTasks
       DEF LockStep, GetStep, PutStep, EndStep, TransStep, SyncStep
  <1>10. ASSUME NEW t \in Threads, FlushStep(t)
         PROVE  /\ Sequence'
                /\ committed_delta' # committed_delta => committed_delta' = committed_delta + 1
    BY <1>10, <1>4, <1>5, <1>6, <1>8, BetweenBackend DEF FlushStep
  <1>11. ASSUME FlushWork PROVE Sequence' /\ committed_delta' = committed_delta
    BY <1>11, <1>t, <1>8, BetweenBackend
  <1>12. CASE Next
    BY <1>9, <1>10, <1>11, <1>12 DEF Next
  <1> QED
    BY <1>1, <1>12 DEF vars, stateVars

(* The first delta follows the one before it. *)
LEMMA InitSequence == Init => Sequence
  <1> SUFFICES ASSUME Init PROVE Sequence
    OBVIOUS
  <1>1. \A t \in Threads : pc[t] # "dt_marshal" /\ pc[t] \notin CommitPCs
    BY DEF Init, CommitPCs
  <1>2. /\ delta_of[current_delta] = TUX3_INIT_DELTA /\ pending_delta = NULL
        /\ marshal_delta = TUX3_INIT_DELTA - 1 /\ committed_delta = TUX3_INIT_DELTA - 1
    BY DEF Init, Slots, TUX3_MAX_DELTA
  <1> QED
    BY <1>1, <1>2 DEF Sequence, TUX3_INIT_DELTA, Threads

(* No delta is skipped and none is committed twice, however the steps of    *)
(* tasks and backend interleave: flush_delta() sets committed_delta to the  *)
(* number after the one it had.                                             *)
THEOREM CommittedOneByOne == Spec => CommittedInSequence
  <1>1. IInv /\ Sequence /\ [Next]_vars => Sequence'
    BY SequenceStep
  <1>2. IInv /\ Sequence /\ [Next]_vars =>
            [committed_delta' # committed_delta => committed_delta' = committed_delta + 1]_vars
    BY SequenceStep
  <1> QED
    BY <1>1, <1>2, InitSequence, Invariance, PTL DEF Spec, CommittedInSequence

-----------------------------------------------------------------------------
(* A step after which the task is in no operation's changes, and which      *)
(* touches no changes itself.                                               *)
Outside(t) ==
    /\ pc' = [pc EXCEPT ![t] = pc'[t]]
    /\ ref' = [ref EXCEPT ![t] = ref'[t]]
    /\ pc'[t] \notin StartPCs \union HoldPCs
    /\ UNCHANGED <<delta_of, ops, dirty, durable>>

(* The steps that change no operation. *)
LEMMA OutsideTasks ==
    ASSUME IInv, NEW t \in Tasks,
           \/ LockWrite(t) \/ Killed(t) \/ DeltaPut(t) \/ SetPending(t)
           \/ DeltaKick(t) \/ UnlockRead(t) \/ NoTransition(t) \/ TryTransition(t)
           \/ FlushPending(t) \/ UnlockWrite(t) \/ DtSet(t) \/ DtMarshal(t)
           \/ DtPut(t) \/ DtPending(t) \/ DtKick(t) \/ DtWake(t) \/ DtWait(t)
           \/ Transition(t) \/ TestAndSetRunning(t) \/ Recheck(t)
           \/ TransitionReturn(t) \/ CommitWait(t) \/ CommitFlush(t) \/ Resume(t)
    PROVE  Outside(t)
  <1> USE TasksAssumption DEF Goto, refVars, stateVars, dataVars, opVars, Threads, HoldPCs, StartPCs
  <1>t. t \in Threads /\ t # FlushTask /\ pc \in [Threads -> PCs] /\ ref \in [Threads -> Slots \union {NULL}]
    BY DEF IInv, TypeOK, PCs
  <1>1. ASSUME LockWrite(t) PROVE Outside(t)
    BY <1>1, <1>t DEF Outside, LockWrite
  <1>2. ASSUME Killed(t) PROVE Outside(t)
    BY <1>2, <1>t DEF Outside, Killed
  <1>3. ASSUME DeltaPut(t) PROVE Outside(t)
    BY <1>3, <1>t DEF Outside, DeltaPut, AfterPut
  <1>4. ASSUME SetPending(t) PROVE Outside(t)
    BY <1>4, <1>t DEF Outside, SetPending
  <1>5. ASSUME DeltaKick(t) PROVE Outside(t)
    BY <1>5, <1>t DEF Outside, DeltaKick, AfterPut, schedule_flush_delta
  <1>6. ASSUME UnlockRead(t) PROVE Outside(t)
    BY <1>6, <1>t DEF Outside, UnlockRead
  <1>7. ASSUME NoTransition(t) PROVE Outside(t)
    BY <1>7, <1>t DEF Outside, NoTransition, AfterTry
  <1>8. ASSUME TryTransition(t) PROVE Outside(t)
    BY <1>8, <1>t DEF Outside, TryTransition
  <1>9. ASSUME FlushPending(t) PROVE Outside(t)
    BY <1>9, <1>t DEF Outside, FlushPending
  <1>10. ASSUME UnlockWrite(t) PROVE Outside(t)
    BY <1>10, <1>t DEF Outside, UnlockWrite
  <1>11. ASSUME DtSet(t) PROVE Outside(t)
    BY <1>11, <1>t DEF Outside, DtSet
  <1>12. ASSUME DtMarshal(t) PROVE Outside(t)
    BY <1>12, <1>t DEF Outside, DtMarshal
  <1>13. ASSUME DtPut(t) PROVE Outside(t)
    BY <1>13, <1>t DEF Outside, DtPut
  <1>14. ASSUME DtPending(t) PROVE Outside(t)
    BY <1>14, <1>t DEF Outside, DtPending
  <1>15. ASSUME DtKick(t) PROVE Outside(t)
    BY <1>15, <1>t DEF Outside, DtKick, schedule_flush_delta
  <1>16. ASSUME DtWake(t) PROVE Outside(t)
    BY <1>16, <1>t DEF Outside, DtWake, AfterTransition, AfterTry
  <1>17. ASSUME DtWait(t) PROVE Outside(t)
    BY <1>17, <1>t DEF Outside, DtWait, WaitEvent, AfterTransition, AfterTry
  <1>18. ASSUME Transition(t) PROVE Outside(t)
    BY <1>18, <1>t DEF Outside, Transition, WaitEvent
  <1>19. ASSUME TestAndSetRunning(t) PROVE Outside(t)
    BY <1>19, <1>t DEF Outside, TestAndSetRunning
  <1>20. ASSUME Recheck(t) PROVE Outside(t)
    BY <1>20, <1>t DEF Outside, Recheck
  <1>21. ASSUME TransitionReturn(t) PROVE Outside(t)
    BY <1>21, <1>t DEF Outside, TransitionReturn
  <1>22. ASSUME CommitWait(t) PROVE Outside(t)
    BY <1>22, <1>t DEF Outside, CommitWait, WaitEvent
  <1>23. ASSUME CommitFlush(t) PROVE Outside(t)
    BY <1>23, <1>t DEF Outside, CommitFlush
  <1>24. ASSUME Resume(t) PROVE Outside(t)
    BY <1>24, <1>t DEF Outside, Resume
  <1> QED
    BY <1>1, <1>2, <1>3, <1>4, <1>5, <1>6, <1>7, <1>8, <1>9, <1>10, <1>11, <1>12, <1>13,
       <1>14, <1>15, <1>16, <1>17, <1>18, <1>19, <1>20, <1>21, <1>22, <1>23, <1>24

(* The same for the backend's steps. *)
LEMMA OutsideBackend ==
    ASSUME IInv, NEW t \in Threads
    PROVE  /\ (FlushStart(t) \/ CommitError(t) \/ SuperError(t) \/ FlushDone(t) \/ ClearRunning(t) \/ FlushWake(t)) => Outside(t)
           /\ FlushWork => Outside(FlushTask)
  <1> USE TasksAssumption DEF Goto, refVars, stateVars, dataVars, opVars, Threads, HoldPCs, StartPCs
  <1>t. /\ FlushTask \in Threads /\ pc \in [Threads -> PCs]
        /\ ref \in [Threads -> Slots \union {NULL}]
    BY DEF IInv, TypeOK, PCs
  <1>1. ASSUME FlushStart(t) PROVE Outside(t)
    BY <1>1, <1>t DEF Outside, FlushStart
  <1>2. ASSUME CommitError(t) PROVE Outside(t)
    BY <1>2, <1>t DEF Outside, CommitError
  <1>3. ASSUME SuperError(t) PROVE Outside(t)
    BY <1>3, <1>t DEF Outside, SuperError
  <1>4. ASSUME FlushDone(t) PROVE Outside(t)
    BY <1>4, <1>t DEF Outside, FlushDone
  <1>5. ASSUME ClearRunning(t) PROVE Outside(t)
    BY <1>5, <1>t DEF Outside, ClearRunning
  <1>6. ASSUME FlushWake(t) PROVE Outside(t)
    BY <1>6, <1>t DEF Outside, FlushWake, AfterFlush
  <1>7. ASSUME WorkCheck PROVE Outside(FlushTask)
    BY <1>7, <1>t DEF Outside, WorkCheck
  <1>8. ASSUME WorkState PROVE Outside(FlushTask)
    BY <1>8, <1>t DEF Outside, WorkState
  <1>9. ASSUME WorkTest PROVE Outside(FlushTask)
    BY <1>9, <1>t DEF Outside, WorkTest
  <1>10. ASSUME WorkWoken PROVE Outside(FlushTask)
    BY <1>10, <1>t DEF Outside, WorkWoken
  <1> QED
    BY <1>1, <1>2, <1>3, <1>4, <1>5, <1>6, <1>7, <1>8, <1>9, <1>10 DEF FlushWork

(* Such a step keeps the operations whole. *)
LEMMA OutsideWhole ==
    ASSUME IInv, Whole, NEW t \in Threads, Outside(t)
    PROVE  Whole'
  <1>t. pc \in [Threads -> PCs] /\ Tasks \subseteq Threads /\ ref \in [Threads -> Slots \union {NULL}]
    BY DEF IInv, TypeOK, PCs, Threads
  <1>1. \A u \in Tasks : pc'[u] \in StartPCs \union HoldPCs => pc'[u] = pc[u] /\ ref'[u] = ref[u]
    BY <1>t DEF Outside
  <1>2. RefNumbered'
    BY <1>1 DEF Outside, Whole, RefNumbered, StartPCs
  <1> QED
    BY <1>1, <1>2 DEF Outside, Whole, StartPCs, HoldPCs

(* Every step does. *)
LEMMA WholeStep == IInv /\ Whole /\ [Next]_vars => Whole'
  <1> SUFFICES ASSUME IInv, Whole, [Next]_vars PROVE Whole'
    OBVIOUS
  <1> USE TasksAssumption DEF Goto, refVars, stateVars, dataVars, opVars, Threads
  <1>t. /\ FlushTask \in Threads /\ Tasks \subseteq Threads /\ pc \in [Threads -> PCs]
        /\ ref \in [Threads -> Slots \union {NULL}] /\ current_delta \in Slots
        /\ delta_of \in [Slots -> Nat] /\ cdelta \in [Threads -> Deltas]
        /\ ops \in [Tasks -> Nat] /\ dirty \in [Slots -> SUBSET Ops]
    BY DEF IInv, TypeOK, PCs
  <1>1. CASE UNCHANGED vars
    BY <1>1 DEF vars, Whole, RefNumbered
  <1>2. ASSUME NEW t \in Tasks, Invoke(t) PROVE Whole'
    <2>1. /\ ops' = [ops EXCEPT ![t] = ops[t] + 1] /\ pc' = [pc EXCEPT ![t] = "lock"]
          /\ UNCHANGED <<dirty, durable, ref, delta_of>>
      BY <1>2 DEF Invoke
    <2>2. RefNumbered'
      BY <1>t, <2>1 DEF Whole, RefNumbered, HoldPCs
    <2>3. ASSUME NEW u \in Tasks, u # t
          PROVE  pc'[u] = pc[u] /\ ops'[u] = ops[u]
      BY <1>t, <2>1, <2>3
    <2>4. pc'[t] = "lock" /\ ops'[t] = ops[t] + 1 /\ ops[t] \in Nat
      BY <1>t, <2>1
    <2>5. /\ <<t, ops'[t]>> \notin durable /\ \A s \in Slots : <<t, ops'[t]>> \notin dirty[s]
          /\ \A n \in Nat : n > ops'[t] =>
               <<t, n>> \notin durable /\ \A s \in Slots : <<t, n>> \notin dirty[s]
      <3>1. \A n \in Nat : n > ops[t] =>
              <<t, n>> \notin durable /\ \A s \in Slots : <<t, n>> \notin dirty[s]
        BY DEF Whole
      <3>2. ops'[t] \in Nat /\ ops'[t] > ops[t]
        BY <2>4
      <3>3. \A n \in Nat : n > ops'[t] => n > ops[t]
        BY <2>4
      <3> QED
        BY <3>1, <3>2, <3>3
    <2> QED
      BY <2>1, <2>2, <2>3, <2>4, <2>5 DEF Whole, StartPCs
  <1>3. ASSUME NEW t \in Tasks, LockDelta(t) \/ DeltaRetry(t) \/ DeltaRead(t) PROVE Whole'
    <2>1. /\ pc[t] \in StartPCs /\ pc'[t] \in StartPCs /\ UNCHANGED <<dirty, durable, ops, delta_of>>
          /\ \A u \in Tasks \ {t} : pc'[u] = pc[u] /\ ref'[u] = ref[u]
      BY <1>3, <1>t DEF LockDelta, DeltaRetry, DeltaRead, StartPCs
    <2>2. pc'[t] = "inc" => ref'[t] = current_delta
      BY <1>3, <1>t DEF LockDelta, DeltaRetry, DeltaRead
    <2>3. tux3_delta(delta_of[current_delta]) = current_delta
      BY DEF IInv, Numbering
    <2>4. RefNumbered'
      BY <2>1, <2>2, <2>3 DEF Whole, RefNumbered, StartPCs, HoldPCs
    <2> QED
      BY <2>1, <2>4 DEF Whole, StartPCs
  <1>4. ASSUME NEW t \in Tasks, DeltaInc(t) PROVE Whole'
    <2>1. /\ pc[t] = "inc" /\ pc'[t] \in {"mark", "body"}
          /\ UNCHANGED <<dirty, durable, ops, delta_of, ref>>
          /\ \A u \in Tasks \ {t} : pc'[u] = pc[u]
      BY <1>4, <1>t DEF DeltaInc
    <2>2. RefNumbered'
      BY <2>1 DEF Whole, RefNumbered, HoldPCs
    <2> QED
      BY <2>1, <2>2 DEF Whole, StartPCs
  <1>5. ASSUME NEW t \in Tasks, Change(t) PROVE Whole'
    <2>1. /\ pc[t] = "body" /\ ref[t] \in Slots /\ tux3_delta(delta_of[ref[t]]) = ref[t]
          /\ UNCHANGED <<pc, ref, ops, durable, delta_of>>
          /\ dirty' = [dirty EXCEPT ![ref[t]] = @ \union {<<t, ops[t]>>}]
      BY <1>5, <1>t DEF Change, Whole, RefNumbered, HoldPCs, IInv, RefsSet, RefPCs
    <2>2. RefNumbered'
      BY <2>1 DEF Whole, RefNumbered
    <2>3. ASSUME NEW u \in Tasks, NEW n \in Nat, NEW s \in Slots, <<u, n>> \in dirty'[s]
          PROVE  <<u, n>> \in dirty[s] \/ (u = t /\ n = ops[t] /\ s = ref[t])
      BY <1>t, <2>1, <2>3
    <2>4. \A s \in Slots : <<t, ops[t]>> \in dirty[s] => s = ref[t]
      BY <2>1 DEF Whole
    <2>5. \A u \in Tasks : ops[u] \in Nat /\ ~(ops[u] > ops[u])
      BY <1>t
    <2>6. \A u \in Tasks : pc[u] \in StartPCs => u # t
      BY <2>1 DEF StartPCs
    <2>7. \A u \in Tasks :
            /\ pc[u] \in StartPCs => \A s \in Slots : <<u, ops[u]>> \notin dirty'[s]
            /\ pc[u] \in StartPCs \union {"body"} => <<u, ops[u]>> \notin durable
            /\ pc[u] = "body" => \A s \in Slots : <<u, ops[u]>> \in dirty'[s] => s = ref[u]
      BY <2>3, <2>5, <2>6 DEF Whole
    <2>8. \A u \in Tasks : \A r, s \in Slots :
            <<u, ops[u]>> \in dirty'[r] \intersect dirty'[s] => r = s
      BY <2>3, <2>4, <2>5 DEF Whole
    <2>9. \A u \in Tasks : \A n \in Nat : n > ops[u] =>
            /\ <<u, n>> \notin durable
            /\ \A s \in Slots : <<u, n>> \notin dirty'[s]
      BY <2>3, <2>5 DEF Whole
    <2> QED
      BY <2>1, <2>2, <2>7, <2>8, <2>9 DEF Whole
  <1>6. ASSUME NEW t \in Tasks, MarkSync(t) PROVE Whole'
    <2>1. /\ pc[t] = "mark" /\ pc'[t] = "put"
          /\ UNCHANGED <<dirty, durable, ops, delta_of, ref>>
          /\ \A u \in Tasks \ {t} : pc'[u] = pc[u]
      BY <1>6, <1>t DEF MarkSync
    <2>2. RefNumbered'
      BY <2>1 DEF Whole, RefNumbered, HoldPCs
    <2> QED
      BY <2>1, <2>2 DEF Whole, StartPCs
  <1>7. ASSUME NEW t \in Tasks, DtNum(t) PROVE Whole'
    <2>1. /\ UNCHANGED <<dirty, durable, ops, ref>>
          /\ \A u \in Tasks : pc'[u] \in StartPCs \union HoldPCs => pc'[u] = pc[u]
          /\ \A s \in Slots \ {NextSlot(ref[t])} : delta_of'[s] = delta_of[s]
          /\ current_delta' = NextSlot(ref[t])
      BY <1>7, <1>t DEF DtNum, StartPCs, HoldPCs
    <2>2. tux3_delta(delta_of'[current_delta']) = current_delta'
      BY NextIInv DEF IInv, Numbering
    <2>3. \A u \in Tasks : pc[u] \in HoldPCs \union {"inc"} => ref[u] \in Slots
      BY DEF IInv, RefsSet, RefPCs
    <2>4. RefNumbered'
      BY <2>1, <2>2, <2>3 DEF Whole, RefNumbered, StartPCs
    <2> QED
      BY <2>1, <2>4 DEF Whole, StartPCs, HoldPCs
  <1>8. ASSUME NEW t \in Threads, Commit(t) PROVE Whole'
    <2>1. /\ UNCHANGED <<dirty, ops, ref, delta_of>> /\ pc[t] = "fl_commit"
          /\ durable' = durable \union dirty[tux3_delta(cdelta[t])]
          /\ \A u \in Tasks : pc'[u] \in StartPCs \union HoldPCs => pc'[u] = pc[u]
      BY <1>8, <1>t DEF Commit, StartPCs, HoldPCs
    <2>2. tux3_delta(cdelta[t]) \in Slots
      BY <1>t, DeltaSlot DEF Deltas, TUX3_INIT_DELTA
    <2>3. RefNumbered'
      BY <2>1 DEF Whole, RefNumbered, StartPCs
    <2>4. ASSUME NEW u \in Tasks, pc[u] = "body" PROVE <<u, ops[u]>> \notin durable'
      <3>1. ref[u] = tux3_delta(delta_of[ref[u]]) /\ ref[u] # tux3_delta(cdelta[t])
        BY <2>1, <2>4, ExclusiveBackend DEF BackendExclusive, Whole, RefNumbered, HoldPCs
      <3> QED
        BY <2>1, <2>2, <2>4, <3>1 DEF Whole
    <2>5. ASSUME NEW u \in Tasks, pc[u] \in StartPCs PROVE <<u, ops[u]>> \notin durable'
      BY <2>1, <2>2, <2>5 DEF Whole
    <2>6. ASSUME NEW u \in Tasks, NEW n \in Nat, n > ops[u] PROVE <<u, n>> \notin durable'
      BY <2>1, <2>2, <2>6 DEF Whole
    <2> QED
      BY <2>1, <2>3, <2>4, <2>5, <2>6 DEF Whole, StartPCs, HoldPCs
  <1>9. ASSUME NEW t \in Threads, PostCommit(t) PROVE Whole'
    <2>1. /\ UNCHANGED <<durable, ops, ref, delta_of>>
          /\ \A s \in Slots : dirty'[s] \subseteq dirty[s]
          /\ \A u \in Tasks : pc'[u] \in StartPCs \union HoldPCs => pc'[u] = pc[u]
      BY <1>9, <1>t DEF PostCommit, StartPCs, HoldPCs
    <2>2. RefNumbered'
      BY <2>1 DEF Whole, RefNumbered, StartPCs
    <2> QED
      BY <2>1, <2>2 DEF Whole, StartPCs, HoldPCs
  <1>10. ASSUME NEW t \in Threads, Outside(t) PROVE Whole'
    BY <1>10, OutsideWhole
  <1>11. ASSUME NEW t \in Tasks,
                \/ Invoke(t) \/ Change(t) \/ Killed(t) \/ LockStep(t) \/ GetStep(t)
                \/ PutStep(t) \/ EndStep(t) \/ TransStep(t) \/ SyncStep(t)
         PROVE  Whole'
    BY <1>11, <1>t, <1>2, <1>3, <1>4, <1>5, <1>6, <1>7, <1>10, OutsideTasks
       DEF LockStep, GetStep, PutStep, EndStep, TransStep, SyncStep
  <1>12. ASSUME NEW t \in Threads, FlushStep(t) PROVE Whole'
    BY <1>12, <1>8, <1>9, <1>10, OutsideBackend DEF FlushStep
  <1>13. ASSUME FlushWork PROVE Whole'
    BY <1>13, <1>t, <1>10, OutsideBackend
  <1>14. CASE Next
    BY <1>11, <1>12, <1>13, <1>14 DEF Next
  <1> QED
    BY <1>1, <1>14

(* Nothing has been changed yet. *)
LEMMA InitWhole == Init => Whole
  BY DEF Init, Whole, RefNumbered, StartPCs, HoldPCs, Threads

(* change_begin() .. change_end() is atomic, for any number of tasks: the   *)
(* changes of an operation are all in one delta, and no part of them is     *)
(* durable before change_end().                                             *)
THEOREM OperationsAtomic == Spec => []OperationAtomic
  <1>1. Whole => OperationAtomic
    <2> SUFFICES ASSUME Whole, NEW t \in Tasks
                 PROVE  /\ ~ \A s \in Slots : <<t, ops[t]>> \in dirty[s]
                        /\ pc[t] = "body" => <<t, ops[t]>> \notin durable
      BY DEF OperationAtomic
    <2>1. 0 \in Slots /\ 1 \in Slots
      BY DEF Slots, TUX3_MAX_DELTA
    <2>2. \A r, s \in Slots : <<t, ops[t]>> \in dirty[r] \intersect dirty[s] => r = s
      BY DEF Whole
    <2>3. ~ \A s \in Slots : <<t, ops[t]>> \in dirty[s]
      BY <2>1, <2>2
    <2> QED
      BY <2>3 DEF Whole
  <1> QED
    BY <1>1, InitWhole, WholeStep, Invariance, PTL DEF Spec

------------------------------------------------------------------------------
(* The syncs: what was changed before a sync is durable after it,           *)
(* operations become durable in order, and what sb->delta_lock adds to that *)
(* in the SYNC flusher.                                                     *)

(* The operations whose changes in a slot are still to be written. *)
Live(s) == dirty[s] \ (durable \union failed \union early)

(* A slot's number is at most the current one; the slot to be committed has *)
(* the marshalled number.                                                   *)
NumberOrder ==
    /\ \A s \in Slots : delta_of[s] <= delta_of[current_delta]
    /\ pending_delta # NULL => delta_of[pending_delta] = marshal_delta
    /\ \A t \in Threads : pc[t] = "fl_commit" => delta_of[NextSlot(current_delta)] = cdelta[t]

(* Who changes the next slot before it is current is noted in "early". *)
EarlyKnown ==
    \A t, u \in Tasks : (pc[u] = "dt_num" /\ pc[t] = "body" /\ ref[t] = NextSlot(ref[u])) =>
        <<t, ops[t]>> \in early

(* Nothing is to be written in the other slot before a transition and after *)
(* a commit.                                                                *)
DrainedPCs == {"recheck", "dt_set", "dt_num", "fl_post", "fl_done", "fl_unlock"}
Drained ==
    (~running \/ \E t \in Threads : pc[t] \in DrainedPCs) => Live(NextSlot(current_delta)) = {}

(* Only a sync waits for transition and commit. *)
SyncKind == \A t \in Tasks : pc[t] \in SyncPCs => kind[t] \in SyncKinds

(* What was changed before an operation began is written or still in a slot. *)
MustKept ==
    \A t \in Tasks :
        must[t] \subseteq durable \union failed \union early \union UNION {dirty[s] : s \in Slots}

(* For a sync, that slot's number is at most the one it waits for ... *)
TakePCs == {"idle", "lock", "get", "inc", "mark"}
InSync(t) == t \in Tasks /\ kind[t] \in SyncKinds /\ pc[t] # "idle"
MustBounded ==
    \A t \in Tasks : InSync(t) =>
        /\ \A s \in Slots : must[t] \intersect Live(s) # {} =>
             /\ pc[t] \in {"inc", "mark"} => delta_of[s] <= delta_of[ref[t]]
             /\ pc[t] \notin TakePCs => delta_of[s] <= want[t]
        /\ pc[t] = "done" => want[t] <= committed_delta

(* ... and for any operation at most the one of the slot it changes.        *)
OrderBounded ==
    \A t \in Tasks : \A r \in Slots : must[t] \intersect Live(r) # {} =>
        /\ pc[t] \in {"inc", "body"} => delta_of[r] <= delta_of[ref[t]]
        /\ \A s \in Slots : <<t, ops[t]>> \in dirty[s] => delta_of[r] <= delta_of[s]

SInv == /\ NumberOrder /\ EarlyKnown /\ Drained /\ SyncKind
        /\ MustKept /\ MustBounded /\ OrderBounded

(* All that is known of a state. *)
AllInv == IInv /\ Sequence /\ Whole /\ SInv

-----------------------------------------------------------------------------
(* A step that leaves the changes, the numbers and the waits as they are.   *)
Aside(t) ==
    /\ pc' = [pc EXCEPT ![t] = pc'[t]]
    /\ ref' = [ref EXCEPT ![t] = ref'[t]]
    /\ UNCHANGED <<current_delta, delta_of, marshal_delta, committed_delta, pending_delta, cdelta,
                   dirty, durable, failed, early, kind, ops, must, want>>
    /\ pc[t] # "idle"
    /\ pc'[t] \notin {"dt_num", "body", "inc", "mark", "fl_commit", "done"}
    /\ t \in Tasks => /\ pc'[t] \in SyncPCs => kind[t] \in SyncKinds
                      /\ pc'[t] \notin TakePCs => pc[t] \notin TakePCs
    /\ pc'[t] \in DrainedPCs => (pc[t] \in DrainedPCs \/ ~running)
    /\ ~running' => (pc[t] \in DrainedPCs \/ ~running)

(* The steps that neither take a reference, change, number nor commit. *)
LEMMA AsideTasks ==
    ASSUME IInv, SyncKind, NEW t \in Tasks,
           \/ LockDelta(t) \/ LockWrite(t) \/ Killed(t) \/ DeltaRetry(t)
           \/ DeltaPut(t) \/ SetPending(t) \/ DeltaKick(t) \/ UnlockRead(t)
           \/ NoTransition(t) \/ TryTransition(t) \/ FlushPending(t)
           \/ UnlockWrite(t) \/ DtPut(t) \/ DtPending(t) \/ DtKick(t) \/ DtWake(t)
           \/ DtWait(t) \/ Transition(t) \/ TestAndSetRunning(t) \/ Recheck(t)
           \/ TransitionReturn(t) \/ CommitFlush(t) \/ Resume(t)
    PROVE  Aside(t)
  <1> USE TasksAssumption DEF Goto, refVars, stateVars, dataVars, opVars, Threads, SyncPCs, TakePCs,
             DrainedPCs
  <1>t. /\ t \in Threads /\ t # FlushTask /\ pc \in [Threads -> PCs]
        /\ ref \in [Threads -> Slots \union {NULL}]
        /\ pc[t] \in SyncPCs => kind[t] \in SyncKinds
    BY DEF IInv, TypeOK, PCs, SyncKind
  <1>1. ASSUME LockDelta(t) PROVE Aside(t)
    BY <1>1, <1>t DEF Aside, LockDelta
  <1>2. ASSUME LockWrite(t) PROVE Aside(t)
    BY <1>2, <1>t DEF Aside, LockWrite
  <1>3. ASSUME Killed(t) PROVE Aside(t)
    BY <1>3, <1>t DEF Aside, Killed
  <1>4. ASSUME DeltaRetry(t) PROVE Aside(t)
    BY <1>4, <1>t DEF Aside, DeltaRetry
  <1>5. ASSUME DeltaPut(t) PROVE Aside(t)
    BY <1>5, <1>t DEF Aside, DeltaPut, AfterPut
  <1>6. ASSUME SetPending(t) PROVE Aside(t)
    BY <1>6, <1>t DEF Aside, SetPending
  <1>7. ASSUME DeltaKick(t) PROVE Aside(t)
    BY <1>7, <1>t DEF Aside, DeltaKick, AfterPut, schedule_flush_delta
  <1>8. ASSUME UnlockRead(t) PROVE Aside(t)
    BY <1>8, <1>t DEF Aside, UnlockRead
  <1>9. ASSUME NoTransition(t) PROVE Aside(t)
    BY <1>9, <1>t DEF Aside, NoTransition, AfterTry
  <1>10. ASSUME TryTransition(t) PROVE Aside(t)
    BY <1>10, <1>t DEF Aside, TryTransition
  <1>11. ASSUME FlushPending(t) PROVE Aside(t)
    BY <1>11, <1>t DEF Aside, FlushPending
  <1>12. ASSUME UnlockWrite(t) PROVE Aside(t)
    BY <1>12, <1>t DEF Aside, UnlockWrite
  <1>13. ASSUME DtPut(t) PROVE Aside(t)
    BY <1>13, <1>t DEF Aside, DtPut
  <1>14. ASSUME DtPending(t) PROVE Aside(t)
    BY <1>14, <1>t DEF Aside, DtPending
  <1>15. ASSUME DtKick(t) PROVE Aside(t)
    BY <1>15, <1>t DEF Aside, DtKick, schedule_flush_delta
  <1>16. ASSUME DtWake(t) PROVE Aside(t)
    BY <1>16, <1>t DEF Aside, DtWake, AfterTransition, AfterTry
  <1>17. ASSUME DtWait(t) PROVE Aside(t)
    BY <1>17, <1>t DEF Aside, DtWait, WaitEvent, AfterTransition, AfterTry
  <1>18. ASSUME Transition(t) PROVE Aside(t)
    BY <1>18, <1>t DEF Aside, Transition, WaitEvent
  <1>19. ASSUME TestAndSetRunning(t) PROVE Aside(t)
    BY <1>19, <1>t DEF Aside, TestAndSetRunning
  <1>20. ASSUME Recheck(t) PROVE Aside(t)
    BY <1>20, <1>t DEF Aside, Recheck
  <1>21. ASSUME TransitionReturn(t) PROVE Aside(t)
    BY <1>21, <1>t DEF Aside, TransitionReturn
  <1>22. ASSUME CommitFlush(t) PROVE Aside(t)
    BY <1>22, <1>t DEF Aside, CommitFlush
  <1>23. ASSUME Resume(t) PROVE Aside(t)
    BY <1>23, <1>t DEF Aside, Resume
  <1> QED
    BY <1>1, <1>2, <1>3, <1>4, <1>5, <1>6, <1>7, <1>8, <1>9, <1>10, <1>11, <1>12, <1>13,
       <1>14, <1>15, <1>16, <1>17, <1>18, <1>19, <1>20, <1>21, <1>22, <1>23

(* The same for the backend's steps. *)
LEMMA AsideBackend ==
    ASSUME IInv, SyncKind, NEW t \in Threads
    PROVE  /\ (ClearRunning(t) \/ FlushWake(t)) => Aside(t)
           /\ FlushWork => Aside(FlushTask)
  <1> USE TasksAssumption DEF Goto, refVars, stateVars, dataVars, opVars, Threads, SyncPCs, TakePCs,
             DrainedPCs
  <1>t. /\ FlushTask \in Threads /\ pc \in [Threads -> PCs]
        /\ ref \in [Threads -> Slots \union {NULL}]
    BY DEF IInv, TypeOK, PCs
  <1>1. ASSUME ClearRunning(t) PROVE Aside(t)
    BY <1>1, <1>t DEF Aside, ClearRunning
  <1>2. ASSUME FlushWake(t) PROVE Aside(t)
    BY <1>2, <1>t DEF Aside, FlushWake, AfterFlush
  <1>3. ASSUME WorkCheck PROVE Aside(FlushTask)
    BY <1>3, <1>t DEF Aside, WorkCheck
  <1>4. ASSUME WorkState PROVE Aside(FlushTask)
    BY <1>4, <1>t DEF Aside, WorkState
  <1>5. ASSUME WorkTest PROVE Aside(FlushTask)
    BY <1>5, <1>t DEF Aside, WorkTest
  <1>6. ASSUME WorkWoken PROVE Aside(FlushTask)
    BY <1>6, <1>t DEF Aside, WorkWoken
  <1> QED
    BY <1>1, <1>2, <1>3, <1>4, <1>5, <1>6 DEF FlushWork

(* Such a step keeps the invariant. *)
LEMMA AsideStep ==
    ASSUME IInv, SInv, NEW t \in Threads, Aside(t)
    PROVE  SInv'
  <1>t. pc \in [Threads -> PCs] /\ Tasks \subseteq Threads /\ ref \in [Threads -> Slots \union {NULL}]
    BY DEF IInv, TypeOK, PCs, Threads
  <1>1. /\ \A u \in Threads \ {t} : pc'[u] = pc[u] /\ ref'[u] = ref[u]
        /\ \A u \in Threads : pc'[u] \in {"dt_num", "body", "inc", "mark", "fl_commit", "done"} =>
             pc'[u] = pc[u] /\ ref'[u] = ref[u]
    BY <1>t DEF Aside
  <1>2. \A s : Live(s)' = Live(s)
    BY DEF Aside, Live
  <1>3. NumberOrder'
    BY <1>1 DEF Aside, SInv, NumberOrder
  <1>4. EarlyKnown'
    BY <1>t, <1>1 DEF Aside, SInv, EarlyKnown
  <1>5. Drained'
    <2>1. ASSUME ~running' \/ \E u \in Threads : pc'[u] \in DrainedPCs
          PROVE  ~running \/ \E u \in Threads : pc[u] \in DrainedPCs
      BY <2>1, <1>1 DEF Aside
    <2> QED
      BY <2>1, <1>2 DEF Aside, SInv, Drained
  <1>6. SyncKind'
    BY <1>t, <1>1 DEF Aside, SInv, SyncKind
  <1>7. \A u \in Tasks : InSync(u)' => InSync(u)
    BY <1>t, <1>1 DEF Aside, InSync
  <1>8. MustKept'
    BY DEF Aside, SInv, MustKept
  <1>9. MustBounded'
    <2>1. \A u \in Tasks : /\ pc'[u] \in {"inc", "mark"} => pc[u] = pc'[u] /\ ref'[u] = ref[u]
                           /\ pc'[u] \notin TakePCs => pc[u] \notin TakePCs
                           /\ pc'[u] = "done" => pc[u] = "done"
      BY <1>t, <1>1 DEF Aside
    <2> QED
      BY <1>2, <1>7, <2>1 DEF Aside, SInv, MustBounded
  <1>10. OrderBounded'
    <2>1. \A u \in Tasks : pc'[u] \in {"inc", "body"} => pc[u] = pc'[u] /\ ref'[u] = ref[u]
      BY <1>t, <1>1
    <2> QED
      BY <1>2, <2>1 DEF Aside, SInv, OrderBounded
  <1> QED
    BY <1>3, <1>4, <1>5, <1>6, <1>8, <1>9, <1>10 DEF SInv

(* An operation that starts has changed nothing. *)
LEMMA NewOperation ==
    ASSUME AllInv, NEW t \in Tasks, Invoke(t)
    PROVE  <<t, ops'[t]>> \notin durable /\ \A s \in Slots : <<t, ops'[t]>> \notin dirty[s]
  <1>1. ops[t] \in Nat /\ ops'[t] = ops[t] + 1
    BY DEF Invoke, AllInv, IInv, TypeOK
  <1>2. ops'[t] \in Nat /\ ops'[t] > ops[t]
    BY <1>1
  <1>3. \A n \in Nat : n > ops[t] =>
          <<t, n>> \notin durable /\ \A s \in Slots : <<t, n>> \notin dirty[s]
    BY DEF AllInv, Whole
  <1> QED
    BY <1>2, <1>3

-----------------------------------------------------------------------------
(* The steps that take a reference and the change itself. *)
LEMMA OperationStep ==
    ASSUME AllInv, NEW t \in Tasks,
           Invoke(t) \/ DeltaRead(t) \/ DeltaInc(t) \/ Change(t) \/ MarkSync(t) \/ CommitWait(t)
    PROVE  SInv'
  <1> USE TasksAssumption DEF Goto, refVars, stateVars, dataVars, opVars
  <1>t. /\ t \in Threads /\ Tasks \subseteq Threads /\ pc \in [Threads -> PCs]
        /\ ref \in [Threads -> Slots \union {NULL}] /\ current_delta \in Slots
        /\ delta_of \in [Slots -> Nat] /\ kind \in [Tasks -> AllKinds]
        /\ must \in [Tasks -> SUBSET Ops] /\ want \in [Tasks -> Nat]
        /\ dirty \in [Slots -> SUBSET Ops] /\ ops \in [Tasks -> Nat]
        /\ committed_delta \in Int
    BY DEF AllInv, IInv, TypeOK, PCs, Threads, Deltas, TUX3_INIT_DELTA
  <1>i. /\ NumberOrder /\ EarlyKnown /\ Drained /\ SyncKind /\ MustKept /\ MustBounded /\ OrderBounded
    BY DEF AllInv, SInv
  <1>1. CASE Invoke(t)
    <2>1. /\ UNCHANGED <<current_delta, delta_of, marshal_delta, committed_delta, pending_delta,
                         cdelta, dirty, durable, failed, early, want, running, ref>>
          /\ pc'[t] = "lock" /\ \A u \in Threads \ {t} : pc'[u] = pc[u]
          /\ \A u \in Tasks \ {t} : kind'[u] = kind[u] /\ must'[u] = must[u] /\ ops'[u] = ops[u]
          /\ must'[t] = UNION {dirty[s] : s \in Slots}
      BY <1>1, <1>t DEF Invoke
    <2>2. \A s : Live(s)' = Live(s)
      BY <2>1 DEF Live
    <2>3. NumberOrder'
      BY <1>i, <1>t, <2>1 DEF NumberOrder
    <2>4. EarlyKnown'
      BY <1>i, <1>t, <2>1 DEF EarlyKnown
    <2>5. Drained'
      BY <1>i, <1>t, <2>1, <2>2 DEF Drained, DrainedPCs
    <2>6. SyncKind'
      BY <1>i, <1>t, <2>1 DEF SyncKind, SyncPCs
    <2>7. MustKept'
      <3>1. ASSUME NEW u \in Tasks
            PROVE  must'[u] \subseteq durable \union failed \union early
                                        \union UNION {dirty[s] : s \in Slots}
        <4>1. CASE u = t
          BY <2>1, <4>1
        <4>2. CASE u # t
          BY <1>i, <1>t, <2>1, <4>2 DEF MustKept
        <4> QED
          BY <4>1, <4>2
      <3> QED
        BY <2>1, <3>1 DEF MustKept
    <2>8. MustBounded'
      BY <1>i, <1>t, <2>1, <2>2 DEF MustBounded, InSync, TakePCs
    <2>9. OrderBounded'
      <3>1. \A s \in Slots : <<t, ops'[t]>> \notin dirty[s]
        BY <1>1, NewOperation
      <3> QED
        BY <1>i, <1>t, <2>1, <2>2, <3>1 DEF OrderBounded
    <2> QED
      BY <2>3, <2>4, <2>5, <2>6, <2>7, <2>8, <2>9 DEF SInv
  <1>2. CASE DeltaRead(t)
    <2>1. /\ UNCHANGED <<current_delta, delta_of, marshal_delta, committed_delta, pending_delta,
                         cdelta, dirty, durable, failed, early, kind, ops, must, want, running>>
          /\ pc[t] = "get" /\ pc'[t] = "inc" /\ ref'[t] = current_delta
          /\ \A u \in Threads \ {t} : pc'[u] = pc[u] /\ ref'[u] = ref[u]
      BY <1>2, <1>t DEF DeltaRead
    <2>2. \A s : Live(s)' = Live(s)
      BY <2>1 DEF Live
    <2>3. NumberOrder' /\ EarlyKnown'
      BY <1>i, <1>t, <2>1 DEF NumberOrder, EarlyKnown
    <2>4. Drained' /\ SyncKind'
      BY <1>i, <1>t, <2>1, <2>2 DEF Drained, DrainedPCs, SyncKind, SyncPCs
    <2>5. MustKept'
      BY <1>i, <1>t, <2>1 DEF MustKept
    <2>6. MustBounded'
      BY <1>i, <1>t, <2>1, <2>2 DEF MustBounded, InSync, TakePCs, NumberOrder
    <2>7. OrderBounded'
      BY <1>i, <1>t, <2>1, <2>2 DEF OrderBounded, NumberOrder
    <2> QED
      BY <2>3, <2>4, <2>5, <2>6, <2>7 DEF SInv
  <1>3. CASE DeltaInc(t)
    <2>1. /\ UNCHANGED <<current_delta, delta_of, marshal_delta, committed_delta, pending_delta,
                         cdelta, dirty, durable, failed, kind, ops, must, want, running, ref>>
          /\ pc[t] = "inc" /\ pc'[t] \in {"mark", "body"}
          /\ pc'[t] = "mark" <=> kind[t] \in SyncKinds
          /\ \A u \in Threads \ {t} : pc'[u] = pc[u]
          /\ early \subseteq early'
          /\ (\E u \in Tasks : pc[u] = "dt_num" /\ ref[t] = NextSlot(ref[u])) =>
               <<t, ops[t]>> \in early'
      BY <1>3, <1>t DEF DeltaInc
    <2>2. \A s : Live(s)' \subseteq Live(s)
      BY <2>1 DEF Live
    <2>3. NumberOrder'
      BY <1>i, <1>t, <2>1 DEF NumberOrder
    <2>4. EarlyKnown'
      <3>1. ASSUME NEW v \in Tasks, NEW u \in Tasks, pc'[u] = "dt_num", pc'[v] = "body",
                   ref'[v] = NextSlot(ref'[u])
            PROVE  <<v, ops'[v]>> \in early'
        <4>1. u # t /\ pc[u] = "dt_num"
          BY <1>t, <2>1, <3>1
        <4>2. CASE v = t
          BY <2>1, <3>1, <4>1, <4>2
        <4>3. CASE v # t
          BY <1>i, <1>t, <2>1, <3>1, <4>1, <4>3 DEF EarlyKnown
        <4> QED
          BY <4>2, <4>3
      <3> QED
        BY <3>1 DEF EarlyKnown
    <2>5. Drained' /\ SyncKind'
      BY <1>i, <1>t, <2>1, <2>2 DEF Drained, DrainedPCs, SyncKind, SyncPCs
    <2>6. MustKept'
      BY <1>i, <1>t, <2>1 DEF MustKept
    <2>7. MustBounded'
      <3>1. ASSUME NEW u \in Tasks, InSync(u)' PROVE InSync(u) /\ u = t => pc'[u] = "mark"
        BY <1>t, <2>1, <3>1 DEF InSync
      <3>2. \A u \in Tasks : InSync(u)' => InSync(u)
        BY <1>t, <2>1 DEF InSync
      <3>3. \A u \in Tasks, s \in Slots :
              must'[u] \intersect Live(s)' # {} => must[u] \intersect Live(s) # {}
        BY <2>1, <2>2
      <3> QED
        BY <1>i, <1>t, <2>1, <3>1, <3>2, <3>3 DEF MustBounded, TakePCs
    <2>8. OrderBounded'
      <3>1. \A u \in Tasks, s \in Slots :
              must'[u] \intersect Live(s)' # {} => must[u] \intersect Live(s) # {}
        BY <2>1, <2>2
      <3> QED
        BY <1>i, <1>t, <2>1, <3>1 DEF OrderBounded
    <2> QED
      BY <2>3, <2>4, <2>5, <2>6, <2>7, <2>8 DEF SInv
  <1>4. CASE Change(t)
    <2>1. /\ pc[t] = "body" /\ ref[t] \in Slots /\ tux3_delta(delta_of[ref[t]]) = ref[t]
          /\ UNCHANGED <<current_delta, delta_of, marshal_delta, committed_delta, pending_delta,
                         cdelta, durable, failed, early, kind, ops, must, want, running, ref, pc>>
          /\ dirty' = [dirty EXCEPT ![ref[t]] = @ \union {<<t, ops[t]>>}]
      BY <1>4, <1>t DEF Change, AllInv, Whole, RefNumbered, HoldPCs, IInv, RefsSet, RefPCs
    <2>2. \A s \in Slots : dirty'[s] = dirty[s] \union (IF s = ref[t] THEN {<<t, ops[t]>>} ELSE {})
      BY <1>t, <2>1
    <2>3. NumberOrder' /\ EarlyKnown' /\ SyncKind'
      BY <1>i, <2>1 DEF NumberOrder, EarlyKnown, SyncKind
    <2>4. Drained'
      <3> SUFFICES ASSUME ~running \/ \E u \in Threads : pc[u] \in DrainedPCs
                   PROVE  Live(NextSlot(current_delta))' = {}
        BY <2>1 DEF Drained
      <3>1. Live(NextSlot(current_delta)) = {} /\ NextSlot(current_delta) \in Slots
        BY <1>i, <1>t, OtherSlot DEF Drained
      <3>2. refcount[ref[t]] # 0
        BY <2>1, RefcountPositive DEF AllInv, IInv, HoldPCs
      <3>3. CASE ref[t] # NextSlot(current_delta)
        BY <2>1, <2>2, <3>1, <3>3 DEF Live
      <3>4. CASE ref[t] = NextSlot(current_delta)
        <4>1. refcount[NextSlot(current_delta)] # 0
          BY <3>2, <3>4
        <4>2. PICK u \in Threads : pc[u] = "dt_num"
          BY <4>1 DEF AllInv, IInv, FreeSlot, WritePCs, DrainedPCs
        <4>3. u \in Tasks /\ ref[u] = current_delta
          BY <4>2 DEF AllInv, IInv, FlushTaskIdle, FlushPCs, FlushTaskPCs, Threads, PreviousSlot
        <4>4. <<t, ops[t]>> \in early
          BY <1>i, <2>1, <3>4, <4>2, <4>3 DEF EarlyKnown
        <4> QED
          BY <2>1, <2>2, <3>1, <4>4 DEF Live
      <3> QED
        BY <3>3, <3>4
    <2>5. ASSUME NEW u \in Tasks, NEW s \in Slots
          PROVE  must[u] \intersect Live(s)' \subseteq must[u] \intersect Live(s)
      <3>1. \A r \in Slots : <<t, ops[t]>> \in dirty[r] => r = ref[t]
        BY <2>1 DEF AllInv, Whole
      <3>2. must[u] \subseteq durable \union failed \union early \union UNION {dirty[r] : r \in Slots}
        BY <1>i DEF MustKept
      <3> QED
        BY <2>1, <2>2, <3>1, <3>2 DEF Live
    <2>6. MustKept'
      <3>1. UNION {dirty[s] : s \in Slots} \subseteq UNION {dirty'[s] : s \in Slots}
        BY <2>2
      <3> QED
        BY <1>i, <2>1, <3>1 DEF MustKept
    <2>7. MustBounded'
      BY <1>i, <2>1, <2>5 DEF MustBounded, InSync
    <2>8. OrderBounded'
      <3>1. ASSUME NEW u \in Tasks, NEW r \in Slots, NEW s \in Slots,
                   must[u] \intersect Live(r) # {}, <<u, ops[u]>> \in dirty'[s]
            PROVE  delta_of[r] <= delta_of[s]
        <4>1. CASE <<u, ops[u]>> \in dirty[s]
          BY <1>i, <3>1, <4>1 DEF OrderBounded
        <4>2. CASE u = t /\ s = ref[t]
          BY <1>i, <2>1, <3>1, <4>2 DEF OrderBounded
        <4> QED
          BY <2>2, <3>1, <4>1, <4>2
      <3> QED
        BY <1>i, <2>1, <2>5, <3>1 DEF OrderBounded
    <2> QED
      BY <2>3, <2>4, <2>6, <2>7, <2>8 DEF SInv
  <1>5. CASE MarkSync(t)
    <2>1. /\ UNCHANGED <<current_delta, delta_of, marshal_delta, committed_delta, pending_delta,
                         cdelta, dirty, durable, failed, early, kind, ops, must, running, ref>>
          /\ pc[t] = "mark" /\ pc'[t] = "put" /\ want'[t] = delta_of[ref[t]]
          /\ \A u \in Threads \ {t} : pc'[u] = pc[u]
          /\ \A u \in Tasks \ {t} : want'[u] = want[u]
      BY <1>5, <1>t DEF MarkSync
    <2>2. \A s : Live(s)' = Live(s)
      BY <2>1 DEF Live
    <2>3. NumberOrder' /\ EarlyKnown'
      BY <1>i, <1>t, <2>1 DEF NumberOrder, EarlyKnown
    <2>4. Drained' /\ SyncKind'
      BY <1>i, <1>t, <2>1, <2>2 DEF Drained, DrainedPCs, SyncKind, SyncPCs
    <2>5. MustKept'
      BY <1>i, <1>t, <2>1 DEF MustKept
    <2>6. MustBounded'
      BY <1>i, <1>t, <2>1, <2>2 DEF MustBounded, InSync, TakePCs
    <2>7. OrderBounded'
      BY <1>i, <1>t, <2>1, <2>2 DEF OrderBounded
    <2> QED
      BY <2>3, <2>4, <2>5, <2>6, <2>7 DEF SInv
  <1>6. CASE CommitWait(t)
    <2>1. /\ UNCHANGED <<current_delta, delta_of, marshal_delta, committed_delta, pending_delta,
                         cdelta, dirty, durable, failed, early, kind, ops, must, want, running, ref>>
          /\ pc[t] = "commit" /\ pc'[t] \in {"done", "commit_sleep"}
          /\ pc'[t] = "done" => delta_after_eq(committed_delta, want[t])
          /\ \A u \in Threads \ {t} : pc'[u] = pc[u]
      BY <1>6, <1>t DEF CommitWait, WaitEvent
    <2>2. \A s : Live(s)' = Live(s)
      BY <2>1 DEF Live
    <2>3. NumberOrder' /\ EarlyKnown'
      BY <1>i, <1>t, <2>1 DEF NumberOrder, EarlyKnown
    <2>4. Drained' /\ SyncKind'
      BY <1>i, <1>t, <2>1, <2>2 DEF Drained, DrainedPCs, SyncKind, SyncPCs
    <2>5. MustKept'
      BY <1>i, <1>t, <2>1 DEF MustKept
    <2>6. pc'[t] = "done" => want[t] <= committed_delta
      BY <1>t, <2>1 DEF delta_after_eq
    <2>7. MustBounded'
      BY <1>i, <1>t, <2>1, <2>2, <2>6 DEF MustBounded, InSync, TakePCs
    <2>8. OrderBounded'
      BY <1>i, <1>t, <2>1, <2>2 DEF OrderBounded
    <2> QED
      BY <2>3, <2>4, <2>5, <2>7, <2>8 DEF SInv
  <1> QED
    BY <1>1, <1>2, <1>3, <1>4, <1>5, <1>6

(* The transition. *)
LEMMA TransitionStep ==
    ASSUME AllInv, NEW t \in Tasks, DtSet(t) \/ DtNum(t) \/ DtMarshal(t)
    PROVE  SInv'
  <1> USE TasksAssumption DEF Goto, refVars, stateVars, dataVars, opVars
  <1>t. /\ t \in Threads /\ Tasks \subseteq Threads /\ pc \in [Threads -> PCs]
        /\ ref \in [Threads -> Slots \union {NULL}] /\ current_delta \in Slots
        /\ delta_of \in [Slots -> Nat] /\ next_delta \in Nat /\ NULL \notin Slots
    BY NULLAssumption DEF AllInv, IInv, TypeOK, PCs, Threads, Slots, TUX3_MAX_DELTA
  <1>i. /\ NumberOrder /\ EarlyKnown /\ Drained /\ SyncKind /\ MustKept /\ MustBounded /\ OrderBounded
    BY DEF AllInv, SInv
  <1>o. ASSUME NEW u \in Threads, u # t, pc[t] \in OwnPCs
        PROVE  pc[u] \notin OwnPCs
    BY <1>o, <1>t DEF AllInv, IInv, OneOwner
  <1>1. CASE DtSet(t)
    <2>1. /\ UNCHANGED <<current_delta, delta_of, marshal_delta, committed_delta, pending_delta,
                         cdelta, dirty, durable, failed, early, kind, ops, must, want, running>>
          /\ pc[t] = "dt_set" /\ pc'[t] = "dt_num" /\ ref'[t] = current_delta
          /\ \A u \in Threads \ {t} : pc'[u] = pc[u] /\ ref'[u] = ref[u]
      BY <1>1, <1>t DEF DtSet
    <2>2. \A s : Live(s)' = Live(s)
      BY <2>1 DEF Live
    <2>3. NumberOrder'
      BY <1>i, <1>t, <2>1 DEF NumberOrder
    <2>4. EarlyKnown'
      <3>1. refcount[NextSlot(current_delta)] = 0
        BY <1>t, <2>1 DEF AllInv, IInv, FreeSlot
      <3>2. \A v \in Tasks : pc[v] = "body" => ref[v] # NextSlot(current_delta)
        BY <3>1, RefcountPositive DEF AllInv, IInv, HoldPCs
      <3>3. \A u \in Tasks : pc'[u] = "dt_num" => u = t
        BY <1>t, <1>o, <2>1 DEF OwnPCs, SetupPCs
      <3> QED
        BY <1>t, <2>1, <3>2, <3>3 DEF EarlyKnown
    <2>5. Drained' /\ SyncKind'
      BY <1>i, <1>t, <2>1, <2>2 DEF Drained, DrainedPCs, SyncKind, SyncPCs
    <2>6. MustKept'
      BY <1>i, <1>t, <2>1 DEF MustKept
    <2>7. MustBounded'
      BY <1>i, <1>t, <2>1, <2>2 DEF MustBounded, InSync, TakePCs
    <2>8. OrderBounded'
      BY <1>i, <1>t, <2>1, <2>2 DEF OrderBounded
    <2> QED
      BY <2>3, <2>4, <2>5, <2>6, <2>7, <2>8 DEF SInv
  <1>2. CASE DtNum(t)
    <2> DEFINE next == NextSlot(current_delta)
    <2>0. ref[t] = current_delta /\ next \in Slots /\ next # current_delta /\ NextSlot(next) = current_delta
      BY <1>2, <1>t, OtherSlot DEF DtNum, AllInv, IInv, PreviousSlot
    <2>1. /\ UNCHANGED <<marshal_delta, committed_delta, pending_delta, cdelta, dirty, durable,
                         failed, early, kind, ops, must, want, running, ref>>
          /\ pc[t] = "dt_num" /\ pc'[t] = "dt_marshal" /\ current_delta' = next
          /\ \A u \in Threads \ {t} : pc'[u] = pc[u]
          /\ delta_of'[next] = next_delta /\ \A s \in Slots \ {next} : delta_of'[s] = delta_of[s]
      BY <1>2, <1>t, <2>0 DEF DtNum
    <2>2. /\ \A s : Live(s)' = Live(s)
          /\ Live(next) = {}
      BY <1>i, <1>t, <2>1 DEF Live, Drained, DrainedPCs
    <2>3. \A u \in Threads \ {t} : pc[u] \notin OwnPCs
      BY <1>o, <2>1 DEF OwnPCs, SetupPCs
    <2>4. /\ \A s \in Slots : delta_of[s] <= delta_of[current_delta]
          /\ next_delta = delta_of[current_delta] + 1
      BY <1>i DEF NumberOrder, AllInv, IInv, Numbering
    <2>5. NumberOrder'
      <3>1. \A s \in Slots : delta_of'[s] <= delta_of'[current_delta']
        BY <1>t, <2>0, <2>1, <2>4
      <3>2. pending_delta = NULL
        BY <1>t, <2>1 DEF AllInv, IInv, PendingSlot, SetupPCs
      <3>3. \A u \in Threads : pc'[u] # "fl_commit"
        BY <2>1, <2>3 DEF OwnPCs, WritePCs
      <3> QED
        BY <2>1, <3>1, <3>2, <3>3 DEF NumberOrder
    <2>6. EarlyKnown'
      BY <1>t, <2>1, <2>3 DEF EarlyKnown, OwnPCs, SetupPCs
    <2>7. Drained'
      <3>1. running
        BY <1>t, <2>1 DEF AllInv, IInv, OneOwner, Owned, OwnPCs, SetupPCs
      <3> QED
        BY <1>t, <2>1, <2>3, <3>1 DEF Drained, DrainedPCs, OwnPCs, SetupPCs, WritePCs
    <2>8. SyncKind'
      BY <1>i, <1>t, <2>1 DEF SyncKind, SyncPCs
    <2>9. MustKept'
      BY <1>i, <1>t, <2>1 DEF MustKept
    <2>10. MustBounded'
      <3>1. ASSUME NEW u \in Tasks, InSync(u)', NEW s \in Slots, must'[u] \intersect Live(s)' # {}
            PROVE  /\ InSync(u) /\ s # next /\ delta_of'[s] = delta_of[s]
                   /\ must[u] \intersect Live(s) # {}
        BY <1>t, <2>1, <2>2, <3>1 DEF InSync
      <3>2. ASSUME NEW u \in Tasks, pc[u] \in {"inc", "mark"}
            PROVE  delta_of[ref[u]] <= delta_of'[ref[u]]
        <4>1. ref[u] \in Slots
          BY <3>2 DEF AllInv, IInv, RefsSet, RefPCs, HoldPCs
        <4> QED
          BY <1>t, <2>0, <2>1, <2>4, <4>1
      <3>3. ASSUME NEW u \in Tasks, InSync(u)', NEW s \in Slots, must'[u] \intersect Live(s)' # {},
                   pc'[u] \in {"inc", "mark"}
            PROVE  delta_of'[s] <= delta_of'[ref'[u]]
        <4>1. pc[u] = pc'[u] /\ u # t
          BY <1>t, <2>1, <3>3
        <4>2. delta_of[s] <= delta_of[ref[u]] /\ ref[u] \in Slots
          BY <1>i, <3>1, <3>3, <4>1 DEF MustBounded, AllInv, IInv, RefsSet, RefPCs, HoldPCs
        <4>3. delta_of'[ref[u]] \in Nat /\ delta_of[ref[u]] \in Nat /\ delta_of[s] \in Nat
          BY <1>t, <2>1, <4>2
        <4> QED
          BY <2>1, <3>1, <3>2, <3>3, <4>1, <4>2, <4>3
      <3>4. ASSUME NEW u \in Tasks, InSync(u)', NEW s \in Slots, must'[u] \intersect Live(s)' # {},
                   pc'[u] \notin TakePCs
            PROVE  delta_of'[s] <= want'[u]
        BY <1>i, <1>t, <2>1, <3>1, <3>4 DEF MustBounded, TakePCs
      <3>5. ASSUME NEW u \in Tasks, InSync(u)', pc'[u] = "done"
            PROVE  want'[u] <= committed_delta'
        BY <1>i, <1>t, <2>1, <3>5 DEF MustBounded, InSync
      <3> QED
        BY <3>3, <3>4, <3>5 DEF MustBounded
    <2>11. OrderBounded'
      <3>1. \A s \in Slots : delta_of[s] <= delta_of'[s] /\ delta_of[s] \in Nat /\ delta_of'[s] \in Nat
        BY <1>t, <2>0, <2>1, <2>4
      <3>2. ASSUME NEW u \in Tasks, NEW r \in Slots, must'[u] \intersect Live(r)' # {}
            PROVE  must[u] \intersect Live(r) # {} /\ delta_of'[r] = delta_of[r]
        BY <2>1, <2>2, <3>2
      <3>3. ASSUME NEW u \in Tasks, NEW r \in Slots, must'[u] \intersect Live(r)' # {},
                   pc'[u] \in {"inc", "body"}
            PROVE  delta_of'[r] <= delta_of'[ref'[u]]
        <4>1. pc[u] = pc'[u]
          BY <1>t, <2>1, <3>3
        <4>2. delta_of[r] <= delta_of[ref[u]] /\ ref[u] \in Slots
          BY <1>i, <3>2, <3>3, <4>1 DEF OrderBounded, AllInv, IInv, RefsSet, RefPCs, HoldPCs
        <4> QED
          BY <2>1, <3>1, <3>2, <3>3, <4>2
      <3>4. ASSUME NEW u \in Tasks, NEW r \in Slots, must'[u] \intersect Live(r)' # {},
                   NEW s \in Slots, <<u, ops'[u]>> \in dirty'[s]
            PROVE  delta_of'[r] <= delta_of'[s]
        <4>1. delta_of[r] <= delta_of[s]
          BY <1>i, <2>1, <3>2, <3>4 DEF OrderBounded
        <4> QED
          BY <3>1, <3>2, <3>4, <4>1
      <3> QED
        BY <3>3, <3>4 DEF OrderBounded
    <2> QED
      BY <2>5, <2>6, <2>7, <2>8, <2>9, <2>10, <2>11 DEF SInv
  <1>3. CASE DtMarshal(t)
    <2>1. /\ UNCHANGED <<current_delta, delta_of, committed_delta, cdelta, dirty, durable, failed,
                         early, kind, ops, must, want, running, ref>>
          /\ pc[t] = "dt_marshal" /\ pc'[t] = "dt_put"
          /\ \A u \in Threads \ {t} : pc'[u] = pc[u]
          /\ marshal_delta' = delta_of[ref[t]] /\ pending_delta' = ref[t]
      BY <1>3, <1>t DEF DtMarshal
    <2>2. \A s : Live(s)' = Live(s)
      BY <2>1 DEF Live
    <2>3. NumberOrder'
      BY <1>i, <1>t, <2>1 DEF NumberOrder
    <2>4. EarlyKnown'
      BY <1>i, <1>t, <2>1 DEF EarlyKnown
    <2>5. Drained' /\ SyncKind'
      BY <1>i, <1>t, <2>1, <2>2 DEF Drained, DrainedPCs, SyncKind, SyncPCs
    <2>6. MustKept'
      BY <1>i, <1>t, <2>1 DEF MustKept
    <2>7. MustBounded'
      BY <1>i, <1>t, <2>1, <2>2 DEF MustBounded, InSync, TakePCs
    <2>8. OrderBounded'
      BY <1>i, <1>t, <2>1, <2>2 DEF OrderBounded
    <2> QED
      BY <2>3, <2>4, <2>5, <2>6, <2>7, <2>8 DEF SInv
  <1> QED
    BY <1>1, <1>2, <1>3

(* The commit. *)
LEMMA CommitStep ==
    ASSUME AllInv, NEW t \in Threads,
           \/ FlushStart(t) \/ Commit(t) \/ CommitError(t) \/ SuperError(t)
           \/ PostCommit(t) \/ FlushDone(t)
    PROVE  SInv'
  <1> USE TasksAssumption DEF Goto, refVars, stateVars, dataVars, opVars
  <1>t. /\ Tasks \subseteq Threads /\ pc \in [Threads -> PCs]
        /\ current_delta \in Slots /\ pending_delta \in Slots \union {NULL}
        /\ dirty \in [Slots -> SUBSET Ops] /\ cdelta \in [Threads -> Deltas]
        /\ committed_delta \in Int /\ want \in [Tasks -> Nat]
        /\ NextSlot(current_delta) \in Slots
    BY OtherSlot DEF AllInv, IInv, TypeOK, PCs, Threads, Deltas, TUX3_INIT_DELTA
  <1>i. /\ NumberOrder /\ EarlyKnown /\ Drained /\ SyncKind /\ MustKept /\ MustBounded /\ OrderBounded
    BY DEF AllInv, SInv
  <1>1. CASE FlushStart(t)
    <2>1. /\ UNCHANGED <<current_delta, delta_of, marshal_delta, committed_delta, dirty, durable,
                         failed, early, kind, ops, must, want, running, ref>>
          /\ pc[t] = "fl_start" /\ pc'[t] = "fl_commit" /\ cdelta'[t] = marshal_delta
          /\ \A u \in Threads \ {t} : pc'[u] = pc[u] /\ cdelta'[u] = cdelta[u]
          /\ pending_delta' = NULL
      BY <1>1, <1>t DEF FlushStart
    <2>2. \A s : Live(s)' = Live(s)
      BY <2>1 DEF Live
    <2>3. pending_delta = NextSlot(current_delta)
      BY <1>t, <2>1, OtherSlot DEF AllInv, IInv, PendingSlot, ZeroPCs
    <2>4. NumberOrder'
      BY <1>i, <1>t, <2>1, <2>3 DEF NumberOrder, AllInv, IInv, PendingSlot, ZeroPCs
    <2>5. EarlyKnown'
      BY <1>i, <1>t, <2>1 DEF EarlyKnown
    <2>6. Drained' /\ SyncKind'
      BY <1>i, <1>t, <2>1, <2>2 DEF Drained, DrainedPCs, SyncKind, SyncPCs
    <2>7. MustKept'
      BY <1>i, <1>t, <2>1 DEF MustKept
    <2>8. MustBounded'
      BY <1>i, <1>t, <2>1, <2>2 DEF MustBounded, InSync, TakePCs
    <2>9. OrderBounded'
      BY <1>i, <1>t, <2>1, <2>2 DEF OrderBounded
    <2> QED
      BY <2>4, <2>5, <2>6, <2>7, <2>8, <2>9 DEF SInv
  <1>2. CASE Commit(t) \/ CommitError(t) \/ SuperError(t)
    <2>1. /\ UNCHANGED <<current_delta, delta_of, marshal_delta, committed_delta, pending_delta,
                         cdelta, dirty, early, kind, ops, must, want, running, ref>>
          /\ pc[t] = "fl_commit" /\ pc'[t] \in {"fl_post", "fl_done"}
          /\ \A u \in Threads \ {t} : pc'[u] = pc[u]
          /\ durable \subseteq durable' /\ failed \subseteq failed'
          /\ dirty[tux3_delta(cdelta[t])] \subseteq durable' \union failed'
      BY <1>2, <1>t DEF Commit, CommitError, SuperError
    <2>2. \A s : Live(s)' \subseteq Live(s)
      BY <2>1 DEF Live
    <2>3. Live(NextSlot(current_delta))' = {}
      BY <2>1 DEF Live, AllInv, IInv, Numbering
    <2>4. NumberOrder' /\ EarlyKnown'
      BY <1>i, <1>t, <2>1 DEF NumberOrder, EarlyKnown
    <2>5. Drained' /\ SyncKind'
      BY <1>i, <1>t, <2>1, <2>3 DEF Drained, SyncKind, SyncPCs
    <2>6. MustKept'
      BY <1>i, <1>t, <2>1 DEF MustKept
    <2>7. MustBounded'
      <3>1. \A u \in Tasks, s \in Slots :
              must'[u] \intersect Live(s)' # {} => must[u] \intersect Live(s) # {}
        BY <2>1, <2>2
      <3> QED
        BY <1>i, <1>t, <2>1, <3>1 DEF MustBounded, InSync, TakePCs
    <2>8. OrderBounded'
      <3>1. \A u \in Tasks, s \in Slots :
              must'[u] \intersect Live(s)' # {} => must[u] \intersect Live(s) # {}
        BY <2>1, <2>2
      <3>2. \A u \in Tasks : pc'[u] \in {"inc", "body"} => pc'[u] = pc[u]
        BY <1>t, <2>1
      <3>3. \A s \in Slots : dirty'[s] \subseteq dirty[s]
        BY <2>1
      <3> QED
        BY <1>i, <2>1, <3>1, <3>2, <3>3 DEF OrderBounded
    <2> QED
      BY <2>4, <2>5, <2>6, <2>7, <2>8 DEF SInv
  <1>3. CASE PostCommit(t)
    <2>1. /\ UNCHANGED <<current_delta, delta_of, marshal_delta, committed_delta, pending_delta,
                         cdelta, durable, failed, early, kind, ops, must, want, running, ref>>
          /\ pc[t] = "fl_post" /\ pc'[t] = "fl_done"
          /\ \A u \in Threads \ {t} : pc'[u] = pc[u]
          /\ tux3_delta(cdelta[t]) = NextSlot(current_delta)
          /\ \A s \in Slots : dirty'[s] = IF s = NextSlot(current_delta) THEN {} ELSE dirty[s]
      BY <1>3, <1>t DEF PostCommit, AllInv, IInv, Numbering
    <2>2. /\ \A s \in Slots : Live(s)' \subseteq Live(s)
          /\ Live(NextSlot(current_delta)) = {}
      BY <1>i, <1>t, <2>1 DEF Live, Drained, DrainedPCs
    <2>3. NumberOrder' /\ EarlyKnown'
      BY <1>i, <1>t, <2>1 DEF NumberOrder, EarlyKnown
    <2>4. Drained' /\ SyncKind'
      BY <1>i, <1>t, <2>1, <2>2 DEF Drained, SyncKind, SyncPCs
    <2>5. MustKept'
      <3>1. \A s \in Slots : dirty[s] \subseteq durable \union failed \union early \union dirty'[s]
        BY <1>t, <2>1, <2>2 DEF Live
      <3>2. UNION {dirty[s] : s \in Slots}
              \subseteq durable \union failed \union early \union UNION {dirty'[s] : s \in Slots}
        BY <3>1
      <3> QED
        BY <1>i, <1>t, <2>1, <3>2 DEF MustKept
    <2>6. MustBounded'
      <3>1. \A u \in Tasks, s \in Slots :
              must'[u] \intersect Live(s)' # {} => must[u] \intersect Live(s) # {}
        BY <2>1, <2>2
      <3> QED
        BY <1>i, <1>t, <2>1, <3>1 DEF MustBounded, InSync, TakePCs
    <2>7. OrderBounded'
      <3>1. \A u \in Tasks, s \in Slots :
              must'[u] \intersect Live(s)' # {} => must[u] \intersect Live(s) # {}
        BY <2>1, <2>2
      <3>2. \A u \in Tasks : pc'[u] \in {"inc", "body"} => pc'[u] = pc[u]
        BY <1>t, <2>1
      <3>3. \A s \in Slots : dirty'[s] \subseteq dirty[s]
        BY <2>1
      <3> QED
        BY <1>i, <2>1, <3>1, <3>2, <3>3 DEF OrderBounded
    <2> QED
      BY <2>3, <2>4, <2>5, <2>6, <2>7 DEF SInv
  <1>4. CASE FlushDone(t)
    <2>1. /\ UNCHANGED <<current_delta, delta_of, marshal_delta, pending_delta, cdelta, dirty,
                         durable, failed, early, kind, ops, must, want, running, ref>>
          /\ pc[t] = "fl_done" /\ pc'[t] = "fl_unlock"
          /\ \A u \in Threads \ {t} : pc'[u] = pc[u]
          /\ committed_delta' = committed_delta + 1
      BY <1>4, <1>t DEF FlushDone, AllInv, Sequence, CommitPCs
    <2>2. \A s : Live(s)' = Live(s)
      BY <2>1 DEF Live
    <2>3. NumberOrder' /\ EarlyKnown'
      BY <1>i, <1>t, <2>1 DEF NumberOrder, EarlyKnown
    <2>4. Drained' /\ SyncKind'
      BY <1>i, <1>t, <2>1, <2>2 DEF Drained, DrainedPCs, SyncKind, SyncPCs
    <2>5. MustKept'
      BY <1>i, <1>t, <2>1 DEF MustKept
    <2>6. \A u \in Tasks : want[u] <= committed_delta => want[u] <= committed_delta'
      BY <1>t, <2>1
    <2>7. MustBounded'
      BY <1>i, <1>t, <2>1, <2>2, <2>6 DEF MustBounded, InSync, TakePCs
    <2>8. OrderBounded'
      BY <1>i, <1>t, <2>1, <2>2 DEF OrderBounded
    <2> QED
      BY <2>3, <2>4, <2>5, <2>7, <2>8 DEF SInv
  <1> QED
    BY <1>1, <1>2, <1>3, <1>4

(* Every step keeps it. *)
LEMMA NextSInv == AllInv /\ [Next]_vars => SInv'
  <1> SUFFICES ASSUME AllInv, [Next]_vars PROVE SInv'
    OBVIOUS
  <1>0. IInv /\ SInv /\ SyncKind
    BY DEF AllInv, SInv
  <1>t. FlushTask \in Threads /\ Tasks \subseteq Threads
    BY DEF Threads
  <1>1. CASE UNCHANGED vars
    BY <1>0, <1>1 DEF vars, refVars, stateVars, dataVars, opVars, SInv, NumberOrder,
       EarlyKnown, Drained,
       SyncKind, MustKept, MustBounded, OrderBounded, InSync, Live
  <1>2. ASSUME NEW t \in Tasks,
               \/ Invoke(t) \/ Change(t) \/ Killed(t) \/ LockStep(t) \/ GetStep(t)
               \/ PutStep(t) \/ EndStep(t) \/ TransStep(t) \/ SyncStep(t)
        PROVE  SInv'
    <2>1. \/ Invoke(t) \/ DeltaRead(t) \/ DeltaInc(t) \/ Change(t) \/ MarkSync(t) \/ CommitWait(t)
          \/ DtSet(t) \/ DtNum(t) \/ DtMarshal(t) \/ Aside(t)
      BY <1>0, <1>2, AsideTasks
         DEF LockStep, GetStep, PutStep, EndStep, TransStep, SyncStep
    <2> QED
      BY <1>0, <1>t, <2>1, OperationStep, TransitionStep, AsideStep
  <1>3. ASSUME NEW t \in Threads, FlushStep(t) PROVE SInv'
    BY <1>0, <1>3, CommitStep, AsideBackend, AsideStep DEF FlushStep
  <1>4. ASSUME FlushWork PROVE SInv'
    BY <1>0, <1>t, <1>4, AsideBackend, AsideStep
  <1>5. CASE Next
    BY <1>2, <1>3, <1>4, <1>5 DEF Next
  <1> QED
    BY <1>1, <1>5

(* Nothing is to be written and nobody waits. *)
LEMMA InitSInv == Init => SInv
  <1> SUFFICES ASSUME Init PROVE SInv
    OBVIOUS
  <1>1. /\ \A t \in Tasks : pc[t] = "idle"
        /\ \A t \in Threads : pc[t] \in {"idle", "ft_check"}
        /\ \A s \in Slots : dirty[s] = {} /\ delta_of[s] = 0
        /\ current_delta \in Slots /\ NextSlot(current_delta) \in Slots /\ pending_delta = NULL
    BY TasksAssumption, OtherSlot DEF Init, Threads, Slots, TUX3_MAX_DELTA, TUX3_INIT_DELTA
  <1>2. NumberOrder /\ EarlyKnown
    BY <1>1 DEF NumberOrder, EarlyKnown
  <1>3. Drained /\ SyncKind
    BY <1>1 DEF Drained, Live, SyncKind, SyncPCs
  <1>4. MustKept /\ MustBounded /\ OrderBounded
    BY <1>1 DEF Init, MustKept, MustBounded, OrderBounded, InSync
  <1> QED
    BY <1>2, <1>3, <1>4 DEF SInv

-----------------------------------------------------------------------------
(* What is still to be written is in a delta that is not committed yet. *)
LEMMA LiveUncommitted ==
    ASSUME AllInv, NEW s \in Slots, Live(s) # {}
    PROVE  delta_of[s] > committed_delta
  <1>t. /\ delta_of \in [Slots -> Nat] /\ committed_delta \in Int /\ marshal_delta \in Int
        /\ current_delta \in Slots /\ pending_delta \in Slots \union {NULL}
        /\ ref \in [Threads -> Slots \union {NULL}] /\ Tasks \subseteq Threads
    BY DEF AllInv, IInv, TypeOK, Deltas, TUX3_INIT_DELTA, Threads
  <1>i. NumberOrder /\ Drained
    BY DEF AllInv, SInv
  <1>m. marshal_delta >= committed_delta
    BY <1>t DEF AllInv, Sequence
  <1>n. delta_of[current_delta] > marshal_delta
    BY <1>t DEF AllInv, Sequence
  <1>1. CASE s = current_delta
    BY <1>t, <1>m, <1>n, <1>1
  <1>2. CASE s # current_delta
    <2>1. s = NextSlot(current_delta)
      BY <1>t, <1>2, OtherSlot
    <2>2. running /\ \A t \in Threads : pc[t] \notin DrainedPCs
      BY <1>i, <2>1 DEF Drained
    <2>3. CASE pending_delta # NULL
      <3>1. pending_delta = s
        BY <1>t, <1>2, <2>1, <2>3, OtherSlot DEF AllInv, IInv, PendingSlot
      <3>2. delta_of[s] = marshal_delta /\ marshal_delta = committed_delta + 1
        BY <1>i, <2>3, <3>1 DEF NumberOrder, AllInv, Sequence
      <3> QED
        BY <1>t, <3>2
    <2>4. CASE pending_delta = NULL
      <3>1. PICK t \in Threads : pc[t] \in OwnPCs
        BY <2>2, <2>4 DEF AllInv, IInv, OneOwner, PendingSlot, Owned
      <3>2. pc[t] \in {"dt_marshal", "dt_put", "fl_commit"}
        BY <2>2, <2>4, <3>1 DEF AllInv, IInv, PendingSlot, OwnPCs, SetupPCs, ZeroPCs, WritePCs,
           DrainedPCs
      <3>3. CASE pc[t] = "fl_commit"
        <4>1. delta_of[s] = cdelta[t] /\ cdelta[t] = committed_delta + 1
          BY <1>i, <2>1, <3>3 DEF NumberOrder, AllInv, Sequence, CommitPCs
        <4> QED
          BY <1>t, <4>1
      <3>4. CASE pc[t] # "fl_commit"
        <4>1. t \in Tasks
          BY <3>2, <3>4 DEF AllInv, IInv, FlushTaskIdle, FlushPCs, FlushTaskPCs, Threads
        <4>2. ref[t] \in Slots /\ current_delta = NextSlot(ref[t])
          BY <3>2, <3>4, <4>1 DEF AllInv, IInv, RefsSet, RefPCs, PreviousSlot
        <4>3. ref[t] = s
          BY <2>1, <4>2, OtherSlot
        <4>4. pc[t] = "dt_marshal"
          BY <2>4, <3>2, <3>4, <4>2, <1>t, NULLAssumption
             DEF AllInv, IInv, PendingSlot, Slots, TUX3_MAX_DELTA
        <4>5. delta_of[s] = marshal_delta + 1
          BY <4>1, <4>3, <4>4 DEF AllInv, Sequence
        <4> QED
          BY <1>t, <1>m, <4>5
      <3> QED
        BY <3>3, <3>4
    <2> QED
      BY <2>3, <2>4
  <1> QED
    BY <1>1, <1>2

(* All of it holds in every reachable state. *)
LEMMA AllInvariance == Spec => []AllInv
  <1>1. Init => AllInv
    BY InitIInv, InitSequence, InitWhole, InitSInv DEF AllInv
  <1>2. AllInv /\ [Next]_vars => AllInv'
    BY NextIInv, SequenceStep, WholeStep, NextSInv DEF AllInv
  <1> QED
    BY <1>1, <1>2, PTL DEF Spec

(* When force_delta() or force_unify() returns without an error, whatever   *)
(* had been changed before the call is durable, unless its operation took   *)
(* its reference before its delta was current or its commit failed: for any *)
(* number of tasks, with either flusher.                                    *)
THEOREM SyncIsDurable == Spec => []SyncDurableCurrent
  <1>1. AllInv => SyncDurableCurrent
    <2> SUFFICES ASSUME AllInv, NEW t \in Tasks, pc[t] = "done"
                 PROVE  must[t] \subseteq durable \union early \union failed
      BY DEF SyncDurableCurrent
    <2>1. InSync(t)
      BY DEF AllInv, SInv, SyncKind, SyncPCs, InSync
    <2>2. \A s \in Slots : must[t] \intersect Live(s) = {}
      <3>1. SUFFICES ASSUME NEW s \in Slots, must[t] \intersect Live(s) # {} PROVE FALSE
        OBVIOUS
      <3>2. delta_of[s] <= want[t] /\ want[t] <= committed_delta
        BY <2>1, <3>1 DEF AllInv, SInv, MustBounded, TakePCs
      <3>3. delta_of[s] > committed_delta
        BY <3>1, LiveUncommitted
      <3>4. delta_of[s] \in Int /\ want[t] \in Int /\ committed_delta \in Int
        BY DEF AllInv, IInv, TypeOK, Deltas, TUX3_INIT_DELTA
      <3> QED
        BY <3>2, <3>3, <3>4
    <2>3. must[t] \subseteq durable \union failed \union early \union UNION {dirty[s] : s \in Slots}
      BY <2>1 DEF AllInv, SInv, MustKept
    <2> QED
      BY <2>2, <2>3 DEF Live
  <1> QED
    BY <1>1, AllInvariance, PTL

-----------------------------------------------------------------------------
(* Once an operation is durable, so is what had been changed before it. *)
Ordered ==
    \A t \in Tasks : <<t, ops[t]>> \in durable => must[t] \subseteq durable \union early \union failed

(* A commit makes the oldest delta durable, and all of it. *)
LEMMA CommitOrdered ==
    ASSUME AllInv, Ordered, NEW t \in Threads, Commit(t)
    PROVE  Ordered'
  <1>1. /\ UNCHANGED <<ops, must, early, failed, current_delta, dirty>> /\ pc[t] = "fl_commit"
        /\ durable' = durable \union dirty[NextSlot(current_delta)]
    BY DEF Commit, Goto, refVars, opVars, AllInv, IInv, Numbering
  <1>t. /\ current_delta \in Slots /\ NextSlot(current_delta) \in Slots
        /\ delta_of \in [Slots -> Nat] /\ marshal_delta \in Int
    BY OtherSlot DEF AllInv, IInv, TypeOK, Deltas, TUX3_INIT_DELTA
  <1> SUFFICES ASSUME NEW u \in Tasks, <<u, ops[u]>> \in durable'
               PROVE  must[u] \subseteq durable' \union early \union failed
    BY <1>1 DEF Ordered
  <1>2. CASE <<u, ops[u]>> \in durable
    BY <1>1, <1>2 DEF Ordered
  <1>3. CASE <<u, ops[u]>> \notin durable
    <2>1. <<u, ops[u]>> \in dirty[NextSlot(current_delta)]
      BY <1>1, <1>3
    <2>2. /\ delta_of[NextSlot(current_delta)] = marshal_delta
          /\ delta_of[current_delta] > marshal_delta
      BY <1>1, <1>t DEF AllInv, SInv, NumberOrder, Sequence, CommitPCs
    <2>3. \A r \in Slots : must[u] \intersect Live(r) # {} => r = NextSlot(current_delta)
      <3>1. \A r \in Slots : must[u] \intersect Live(r) # {} =>
              delta_of[r] <= delta_of[NextSlot(current_delta)]
        BY <1>t, <2>1 DEF AllInv, SInv, OrderBounded
      <3> QED
        BY <1>t, <2>2, <3>1, OtherSlot
    <2>4. must[u] \subseteq durable \union failed \union early \union UNION {dirty[s] : s \in Slots}
      BY DEF AllInv, SInv, MustKept
    <2> QED
      BY <1>1, <2>3, <2>4 DEF Live
  <1> QED
    BY <1>2, <1>3

(* The steps that leave what is durable alone, and those that start anew. *)
LEMMA OrderedStep == AllInv /\ Ordered /\ [Next]_vars => Ordered'
  <1> SUFFICES ASSUME AllInv, Ordered, [Next]_vars PROVE Ordered'
    OBVIOUS
  <1> USE DEF Goto, refVars, stateVars, dataVars, opVars
  <1>t. FlushTask \in Threads /\ Tasks \subseteq Threads /\ IInv /\ SyncKind
    BY DEF AllInv, SInv, Threads
  <1>1. ASSUME UNCHANGED <<durable, ops, must>>, early \subseteq early', failed \subseteq failed'
        PROVE  Ordered'
    BY <1>1 DEF Ordered
  <1>2. ASSUME NEW t \in Tasks, Invoke(t) PROVE Ordered'
    <2>1. /\ UNCHANGED <<durable, early, failed>>
          /\ \A u \in Tasks \ {t} : ops'[u] = ops[u] /\ must'[u] = must[u]
      BY <1>2 DEF Invoke, AllInv, IInv, TypeOK
    <2>2. <<t, ops'[t]>> \notin durable
      BY <1>2, NewOperation
    <2> QED
      BY <2>1, <2>2 DEF Ordered
  <1>3. ASSUME NEW t \in Threads, Aside(t) PROVE Ordered'
    BY <1>1, <1>3 DEF Aside
  <1>4. ASSUME NEW t \in Tasks,
               \/ DeltaRead(t) \/ DeltaInc(t) \/ Change(t) \/ MarkSync(t) \/ CommitWait(t)
               \/ DtSet(t) \/ DtNum(t) \/ DtMarshal(t)
        PROVE  Ordered'
    BY <1>1, <1>4 DEF DeltaRead, DeltaInc, Change, MarkSync, CommitWait, DtSet, DtNum, DtMarshal
  <1>5. ASSUME NEW t \in Tasks,
               \/ Invoke(t) \/ Change(t) \/ Killed(t) \/ LockStep(t) \/ GetStep(t)
               \/ PutStep(t) \/ EndStep(t) \/ TransStep(t) \/ SyncStep(t)
        PROVE  Ordered'
    BY <1>t, <1>2, <1>3, <1>4, <1>5, AsideTasks
       DEF LockStep, GetStep, PutStep, EndStep, TransStep, SyncStep
  <1>6. ASSUME NEW t \in Threads,
               \/ FlushStart(t) \/ CommitError(t) \/ SuperError(t) \/ PostCommit(t) \/ FlushDone(t)
        PROVE  Ordered'
    BY <1>1, <1>6 DEF FlushStart, CommitError, SuperError, PostCommit, FlushDone
  <1>7. ASSUME NEW t \in Threads, FlushStep(t) PROVE Ordered'
    BY <1>t, <1>3, <1>6, <1>7, AsideBackend, CommitOrdered DEF FlushStep
  <1>8. ASSUME FlushWork PROVE Ordered'
    BY <1>t, <1>3, <1>8, AsideBackend
  <1>9. CASE Next
    BY <1>5, <1>7, <1>8, <1>9 DEF Next
  <1>10. CASE UNCHANGED vars
    BY <1>10 DEF vars, Ordered
  <1> QED
    BY <1>9, <1>10

(* Where no commit fails, no operation is counted as lost. *)
LEMMA NoneFailed == Spec => [](~CommitMayFail => failed = {})
  <1>1. Init => (~CommitMayFail => failed = {})
    BY DEF Init
  <1>2. (~CommitMayFail => failed = {}) /\ [Next]_vars => (~CommitMayFail => failed = {})'
    <2> SUFFICES ASSUME failed = {}, ~CommitMayFail, [Next]_vars PROVE failed' = {}
      OBVIOUS
    <2> USE DEF dataVars
    <2>1. CASE UNCHANGED vars
      BY <2>1 DEF vars
    <2>2. ASSUME NEW t \in Tasks,
                 \/ Invoke(t) \/ Change(t) \/ Killed(t) \/ LockStep(t) \/ GetStep(t)
                 \/ PutStep(t) \/ EndStep(t) \/ TransStep(t) \/ SyncStep(t)
          PROVE  failed' = {}
      BY <2>2 DEF Invoke, Change, Killed, LockStep, GetStep, PutStep, EndStep, TransStep, SyncStep,
         LockDelta, LockWrite, DeltaRead, DeltaInc, DeltaRetry, DeltaPut, SetPending, DeltaKick,
         UnlockRead, NoTransition, TryTransition, FlushPending, UnlockWrite, DtSet, DtNum,
         DtMarshal, DtPut, DtPending, DtKick, DtWake, DtWait, MarkSync, Transition,
         TestAndSetRunning, Recheck, TransitionReturn, CommitWait, CommitFlush, Resume
    <2>3. ASSUME NEW t \in Threads, FlushStep(t) PROVE failed' = {}
      BY <2>3 DEF FlushStep, FlushStart, Commit, CommitError, SuperError, PostCommit, FlushDone,
         ClearRunning, FlushWake
    <2>4. CASE FlushWork
      BY <2>4 DEF FlushWork, WorkCheck, WorkState, WorkTest, WorkWoken
    <2>5. CASE Next
      BY <2>2, <2>3, <2>4, <2>5 DEF Next
    <2> QED
      BY <2>1, <2>5
  <1> QED
    BY <1>1, <1>2, PTL DEF Spec

(* Without I/O errors operations become durable in order: once a task's     *)
(* last operation is durable, so is whatever had been changed before it     *)
(* began, unless by an operation that took its reference before its delta   *)
(* was current.                                                             *)
THEOREM DurableOrder == Spec => [](~CommitMayFail => DurableInOrder)
  <1>1. Init => Ordered
    BY DEF Init, Ordered
  <1>2. Ordered /\ (~CommitMayFail => failed = {}) => (~CommitMayFail => DurableInOrder)
    BY DEF Ordered, DurableInOrder
  <1> QED
    BY <1>1, <1>2, OrderedStep, NoneFailed, AllInvariance, PTL DEF Spec

------------------------------------------------------------------------------
(* force_delta() and force_unify() in the SYNC flusher, where               *)
(* sb->delta_lock lets a sync exclude every transition but its own: all     *)
(* that was changed before it is durable after it, also what joined a delta *)
(* before it was current, and its delta is committed with the log unified.  *)

(* Where a task has sb->delta_lock for writing. *)
WriterPCs == {"need", "flush_pending", "unlock"} \union TransitionPCs \union FlushPCs
             \union SyncPCs
Sync(t)   == kind[t] \in SyncKinds /\ pc[t] \notin {"idle", "lock"}
Writes(t) == pc[t] \in WriterPCs \/ Sync(t)

(* Who transits, commits or syncs has the lock; the flush task is idle. *)
Locked == /\ pc[FlushTask] = "ft_check"
          /\ \A t \in Tasks : Writes(t) => writer = t

(* A transition and the commit of its delta are done by one task before it  *)
(* releases the lock.                                                       *)
HandPCs == {"flush_pending", "trans_ret", "commit"}
RunPCs  == TransitionPCs \union {"recheck", "fl_start"} \union HandPCs \union WritePCs
OneRun  ==
    /\ running => \E t \in Tasks : /\ pc[t] \in RunPCs /\ writer = t
                                   /\ pc[t] \in HandPCs => pending
    /\ \A t \in Tasks : pc[t] \in TransitionPCs \union {"trans_ret"} => running

(* The phases of a sync: before its transition, with the delta marshalled,  *)
(* and once the commit has begun.                                           *)
EntryPCs  == {"get", "inc", "mark"}
BeforePCs == {"put", "pend", "kick", "trans", "tas", "recheck", "dt_set", "dt_num"}
ClosedPCs == {"dt_marshal", "dt_put", "dt_pend", "dt_kick", "dt_wake", "dt_wait", "dt_sleep",
              "trans_ret", "fl_start"}
LatePCs   == (FlushPCs \ {"fl_start"}) \union {"done"}

Before(t) == pc[t] \in BeforePCs
Closed(t) == pc[t] \in ClosedPCs \/ (pc[t] = "commit" /\ running)
Late(t)   == pc[t] \in LatePCs \/ (pc[t] = "commit" /\ ~running)

(* The delta a sync waits for is the current one, then the one before. *)
WantPhase ==
    \A t \in Tasks : Sync(t) =>
        /\ pc[t] \in EntryPCs \/ Before(t) \/ Closed(t) \/ Late(t)
        /\ pc[t] \in {"inc", "mark"} => ref[t] = current_delta
        /\ Before(t) => want[t] = delta_of[current_delta]
        /\ Closed(t) \/ Late(t) =>
             want[t] = IF pc[t] = "dt_marshal" THEN delta_of[ref[t]] ELSE marshal_delta

(* What is in the dirty lists of a slot and neither written nor lost. *)
Backlog(s) == dirty[s] \ (durable \union failed)

(* The other slot has none before a transition and after the commit. *)
CleanPCs == {"recheck", "dt_set", "fl_post", "fl_done", "fl_unlock"}
BacklogDone ==
    (~running \/ \E t \in Threads : pc[t] \in CleanPCs)
        => Backlog(NextSlot(current_delta)) = {}

(* What was changed before a sync is written or in the delta it waits for. *)
MustThere ==
    \A t \in Tasks : must[t] \subseteq durable \union failed \union UNION {dirty[s] : s \in Slots}
MustPhase ==
    \A t \in Tasks : Sync(t) => \A s \in Slots : must[t] \intersect Backlog(s) # {} =>
        /\ pc[t] \in EntryPCs \/ Before(t) => s = current_delta
        /\ Closed(t) \/ Late(t)            => s = NextSlot(current_delta)

(* The unify flag a sync has set is there until the commit reads it. *)
FlagPhase ==
    \A t \in Tasks : (Sync(t) /\ kind[t] = "force_unify") =>
        /\ Before(t) => unify_flag[current_delta] = "FORCE_UNIFY"
        /\ Closed(t) => unify_flag[NextSlot(current_delta)] = "FORCE_UNIFY"
        /\ Late(t)   => want[t] \in unified

LInv == /\ Locked /\ OneRun /\ WantPhase /\ BacklogDone /\ MustThere /\ MustPhase /\ FlagPhase

-----------------------------------------------------------------------------
(* A step that leaves changes, deltas and waits as they are and each sync   *)
(* in its phase.                                                            *)
Plain(t) ==
    /\ t \in Tasks /\ pc[t] # "idle"
    /\ pc' = [pc EXCEPT ![t] = pc'[t]]
    /\ ref' = [ref EXCEPT ![t] = ref'[t]]
    /\ UNCHANGED <<current_delta, delta_of, unify_flag, marshal_delta, dirty, durable, failed,
                   unified, kind, must, want>>
    /\ writer' = writer \/ writer \in {NULL, t}
    /\ Writes(t)' => writer' = t
    /\ running' = running \/ (writer = t /\ writer' = t)
    /\ running' => \/ /\ pc'[t] \in RunPCs /\ writer' = t
                      /\ pc'[t] \in HandPCs => pending'
                   \/ writer' = writer /\ writer # t /\ (pending => pending')
    /\ pc'[t] \in TransitionPCs \union {"trans_ret"} => running'
    /\ pc'[t] \in CleanPCs => (pc[t] \in CleanPCs \/ ~running)
    /\ ~running' => (pc[t] \in CleanPCs \/ ~running)
    /\ Sync(t)' => IF Sync(t)
                   THEN /\ \/ pc[t] \in EntryPCs /\ pc'[t] \in EntryPCs
                           \/ Before(t) /\ Before(t)'
                           \/ Closed(t) /\ Closed(t)' /\ "dt_marshal" \notin {pc[t], pc'[t]}
                           \/ Late(t) /\ Late(t)'
                        /\ pc'[t] \in {"inc", "mark"} => ref'[t] = current_delta
                   ELSE pc'[t] = "get" /\ ~running

(* Such a step keeps the invariant. *)
LEMMA PlainStep ==
    ASSUME IInv, LInv, NEW t, Plain(t)
    PROVE  LInv'
  <1> USE TasksAssumption, NULLAssumption
  <1>t. /\ t \in Tasks /\ t \in Threads /\ Tasks \subseteq Threads /\ FlushTask \in Threads
        /\ pc \in [Threads -> PCs] /\ ref \in [Threads -> Slots \union {NULL}]
        /\ \A u \in Threads : pc'[u] = IF u = t THEN pc'[t] ELSE pc[u]
        /\ \A u \in Threads \ {t} : ref'[u] = ref[u]
        /\ FlushTask # t
    BY DEF Plain, IInv, TypeOK, PCs, Threads
  <1>i. /\ Locked /\ OneRun /\ WantPhase /\ BacklogDone /\ MustThere /\ MustPhase /\ FlagPhase
    BY DEF LInv
  <1>1. Locked'
    <2>1. ASSUME NEW u \in Tasks, Writes(u)', u # t PROVE writer' = u
      <3>1. Writes(u)
        BY <1>t, <2>1 DEF Plain, Writes, Sync
      <3>2. writer = u
        BY <1>i, <3>1 DEF Locked
      <3> QED
        BY <2>1, <3>2 DEF Plain
    <2> QED
      BY <1>t, <1>i, <2>1 DEF Locked, Plain
  <1>2. OneRun'
    <2>1. ASSUME running'
          PROVE  \E u \in Tasks : pc'[u] \in RunPCs /\ writer' = u /\ (pc'[u] \in HandPCs => pending')
      <3>1. CASE pc'[t] \in RunPCs /\ writer' = t /\ (pc'[t] \in HandPCs => pending')
        BY <1>t, <3>1
      <3>2. CASE writer' = writer /\ writer # t /\ (pending => pending')
        <4>1. running
          BY <2>1, <3>2 DEF Plain
        <4>2. PICK u \in Tasks : pc[u] \in RunPCs /\ writer = u /\ (pc[u] \in HandPCs => pending)
          BY <1>i, <4>1 DEF OneRun
        <4> QED
          BY <1>t, <3>2, <4>2
      <3> QED
        BY <2>1, <3>1, <3>2 DEF Plain
    <2>2. ASSUME NEW u \in Tasks, u # t, pc'[u] \in TransitionPCs \union {"trans_ret"} PROVE running'
      <3>1. pc[u] = pc'[u] /\ running
        BY <1>t, <1>i, <2>2 DEF OneRun
      <3>2. Writes(u)
        BY <2>2, <3>1 DEF Writes, WriterPCs, SyncPCs
      <3>3. writer = u
        BY <1>i, <3>2 DEF Locked
      <3> QED
        BY <2>2, <3>1, <3>3 DEF Plain
    <2> QED
      BY <2>1, <2>2 DEF OneRun, Plain
  <1>3. \A s : Backlog(s)' = Backlog(s)
    BY DEF Plain, Backlog
  <1>4. ASSUME NEW u \in Tasks, u # t, Sync(u)'
        PROVE  /\ Sync(u) /\ pc'[u] = pc[u] /\ ref'[u] = ref[u]
               /\ Before(u)' = Before(u) /\ Closed(u)' = Closed(u) /\ Late(u)' = Late(u)
    <2>1. Sync(u) /\ pc'[u] = pc[u] /\ ref'[u] = ref[u]
      BY <1>t, <1>4 DEF Plain, Sync
    <2>2. writer = u
      BY <1>i, <2>1 DEF Locked, Writes
    <2>3. running' = running
      BY <1>4, <2>2 DEF Plain
    <2> QED
      BY <2>1, <2>3 DEF Before, Closed, Late
  <1>d. \A u : /\ ~(u = t /\ Before(t) /\ (Closed(t) \/ Late(t)))
               /\ ~(pc[t] \in EntryPCs /\ (Before(t) \/ Closed(t) \/ Late(t)))
               /\ ~(Closed(t) /\ Late(t))
    BY DEF Before, Closed, Late, EntryPCs, BeforePCs, ClosedPCs, LatePCs, FlushPCs
  <1>e. /\ ~(Before(t)' /\ (Closed(t)' \/ Late(t)'))
        /\ ~(pc'[t] \in EntryPCs /\ (Before(t)' \/ Closed(t)' \/ Late(t)'))
        /\ ~(Closed(t)' /\ Late(t)')
    BY DEF Before, Closed, Late, EntryPCs, BeforePCs, ClosedPCs, LatePCs, FlushPCs
  <1>5. WantPhase'
    <2>1. ASSUME Sync(t)'
          PROVE  /\ pc'[t] \in EntryPCs \/ Before(t)' \/ Closed(t)' \/ Late(t)'
                 /\ pc'[t] \in {"inc", "mark"} => ref'[t] = current_delta'
                 /\ Before(t)' => want'[t] = delta_of'[current_delta']
                 /\ Closed(t)' \/ Late(t)' =>
                      want'[t] = IF pc'[t] = "dt_marshal" THEN delta_of'[ref'[t]] ELSE marshal_delta'
      <3>1. CASE Sync(t)
        <4>1. /\ Before(t) => want[t] = delta_of[current_delta]
              /\ Closed(t) \/ Late(t) =>
                   want[t] = IF pc[t] = "dt_marshal" THEN delta_of[ref[t]] ELSE marshal_delta
          BY <1>t, <1>i, <3>1 DEF WantPhase
        <4>2. Late(t) => pc[t] # "dt_marshal"
          BY DEF Late, LatePCs, FlushPCs
        <4>3. Late(t)' => pc'[t] # "dt_marshal"
          BY DEF Late, LatePCs, FlushPCs
        <4> QED
          BY <1>e, <2>1, <3>1, <4>1, <4>2, <4>3 DEF Plain
      <3>2. CASE ~Sync(t)
        <4>1. pc'[t] = "get"
          BY <2>1, <3>2 DEF Plain
        <4> QED
          BY <1>e, <4>1 DEF EntryPCs
      <3> QED
        BY <3>1, <3>2
    <2>2. ASSUME NEW u \in Tasks, u # t, Sync(u)'
          PROVE  /\ pc'[u] \in EntryPCs \/ Before(u)' \/ Closed(u)' \/ Late(u)'
                 /\ pc'[u] \in {"inc", "mark"} => ref'[u] = current_delta'
                 /\ Before(u)' => want'[u] = delta_of'[current_delta']
                 /\ Closed(u)' \/ Late(u)' =>
                      want'[u] = IF pc'[u] = "dt_marshal" THEN delta_of'[ref'[u]] ELSE marshal_delta'
      BY <1>i, <1>4, <2>2 DEF Plain, WantPhase
    <2> QED
      BY <2>1, <2>2 DEF WantPhase
  <1>6. BacklogDone'
    <2>1. ASSUME ~running' \/ \E u \in Threads : pc'[u] \in CleanPCs
          PROVE  ~running \/ \E u \in Threads : pc[u] \in CleanPCs
      BY <1>t, <2>1 DEF Plain
    <2> QED
      BY <1>3, <1>i, <2>1 DEF Plain, BacklogDone
  <1>7. MustThere'
    BY <1>i DEF Plain, MustThere
  <1>8. MustPhase'
    <2>1. ASSUME Sync(t)', NEW s \in Slots, must'[t] \intersect Backlog(s)' # {}
          PROVE  /\ pc'[t] \in EntryPCs \/ Before(t)' => s = current_delta'
                 /\ Closed(t)' \/ Late(t)' => s = NextSlot(current_delta')
      <3>0. must[t] \intersect Backlog(s) # {} /\ current_delta \in Slots
        BY <1>3, <2>1 DEF Plain, IInv, TypeOK
      <3>1. CASE Sync(t)
        <4>1. /\ pc[t] \in EntryPCs \/ Before(t) => s = current_delta
              /\ Closed(t) \/ Late(t) => s = NextSlot(current_delta)
          BY <1>t, <1>i, <3>0, <3>1 DEF MustPhase
        <4> QED
          BY <1>e, <2>1, <3>1, <4>1 DEF Plain
      <3>2. CASE ~Sync(t)
        <4>1. pc'[t] = "get" /\ ~running
          BY <2>1, <3>2 DEF Plain
        <4>2. Backlog(NextSlot(current_delta)) = {}
          BY <1>i, <4>1 DEF BacklogDone
        <4>3. s = current_delta
          BY <3>0, <4>2, OtherSlot
        <4> QED
          BY <1>e, <4>1, <4>3 DEF EntryPCs, Plain
      <3> QED
        BY <3>1, <3>2
    <2>2. ASSUME NEW u \in Tasks, u # t, Sync(u)', NEW s \in Slots,
                 must'[u] \intersect Backlog(s)' # {}
          PROVE  /\ pc'[u] \in EntryPCs \/ Before(u)' => s = current_delta'
                 /\ Closed(u)' \/ Late(u)' => s = NextSlot(current_delta')
      BY <1>3, <1>i, <1>4, <2>2 DEF Plain, MustPhase
    <2> QED
      BY <2>1, <2>2 DEF MustPhase
  <1>9. FlagPhase'
    <2>1. ASSUME Sync(t)', kind'[t] = "force_unify"
          PROVE  /\ Before(t)' => unify_flag'[current_delta'] = "FORCE_UNIFY"
                 /\ Closed(t)' => unify_flag'[NextSlot(current_delta')] = "FORCE_UNIFY"
                 /\ Late(t)'   => want'[t] \in unified'
      <3>1. CASE Sync(t)
        <4>1. /\ Before(t) => unify_flag[current_delta] = "FORCE_UNIFY"
              /\ Closed(t) => unify_flag[NextSlot(current_delta)] = "FORCE_UNIFY"
              /\ Late(t)   => want[t] \in unified
          BY <1>t, <1>i, <2>1, <3>1 DEF FlagPhase, Plain
        <4> QED
          BY <1>e, <2>1, <3>1, <4>1 DEF Plain
      <3>2. CASE ~Sync(t)
        <4>1. pc'[t] = "get"
          BY <2>1, <3>2 DEF Plain
        <4> QED
          BY <1>e, <4>1 DEF EntryPCs
      <3> QED
        BY <3>1, <3>2
    <2>2. ASSUME NEW u \in Tasks, u # t, Sync(u)', kind'[u] = "force_unify"
          PROVE  /\ Before(u)' => unify_flag'[current_delta'] = "FORCE_UNIFY"
                 /\ Closed(u)' => unify_flag'[NextSlot(current_delta')] = "FORCE_UNIFY"
                 /\ Late(u)'   => want'[u] \in unified'
      BY <1>i, <1>4, <2>2 DEF Plain, FlagPhase
    <2> QED
      BY <2>1, <2>2 DEF FlagPhase
  <1> QED
    BY <1>1, <1>2, <1>5, <1>6, <1>7, <1>8, <1>9 DEF LInv

(* In the SYNC flusher these steps leave each sync in its phase: who waits  *)
(* for the transition does it, and who waits for the commit does that.      *)
LEMMA PlainActions ==
    ASSUME AllInv, LInv, FlusherSync, NEW t \in Tasks,
           \/ LockDelta(t) \/ LockWrite(t) \/ DeltaRead(t) \/ DeltaInc(t)
           \/ DeltaRetry(t) \/ DeltaPut(t) \/ SetPending(t) \/ DeltaKick(t)
           \/ UnlockRead(t) \/ NoTransition(t) \/ TryTransition(t) \/ FlushPending(t)
           \/ UnlockWrite(t) \/ DtSet(t) \/ DtPut(t) \/ DtPending(t) \/ DtKick(t)
           \/ DtWake(t) \/ DtWait(t) \/ Transition(t) \/ TestAndSetRunning(t)
           \/ Recheck(t) \/ TransitionReturn(t) \/ CommitWait(t) \/ CommitFlush(t)
           \/ Resume(t) \/ FlushDone(t) \/ ClearRunning(t) \/ FlushWake(t)
    PROVE  Plain(t)
  <1> USE TasksAssumption, NULLAssumption
      DEF Goto, refVars, stateVars, dataVars, opVars, lockVars, Writes, Sync, WriterPCs, TransitionPCs, FlushPCs,
          SyncPCs, RunPCs, HandPCs, WritePCs, CleanPCs, EntryPCs, BeforePCs, ClosedPCs, LatePCs,
          Before, Closed, Late
  <1>t. /\ t \in Threads /\ pc \in [Threads -> PCs] /\ ref \in [Threads -> Slots \union {NULL}]
        /\ t # NULL /\ t # FlushTask /\ running \in BOOLEAN /\ pending \in BOOLEAN
        /\ readers \subseteq Tasks
    BY DEF AllInv, IInv, TypeOK, PCs, Threads
  <1>w. Writes(t) => writer = t
    BY DEF LInv, Locked
  <1>r. running => /\ writer # NULL
                   /\ writer = t => pc[t] \in RunPCs /\ (pc[t] \in HandPCs => pending)
    BY DEF LInv, OneRun
  <1>s. pc[t] \in TransitionPCs \union {"trans_ret", "recheck"} => running
    BY <1>t DEF LInv, OneRun, AllInv, IInv, OneOwner, Owned, OwnPCs, SetupPCs
  <1>k. pc[t] \in SyncPCs => Sync(t)
    BY DEF AllInv, SInv, SyncKind
  <1>p. Sync(t) => /\ pc[t] \in EntryPCs \/ Before(t) \/ Closed(t) \/ Late(t)
                   /\ pc[t] \in {"inc", "mark"} => ref[t] = current_delta
    BY DEF LInv, WantPhase
  <1>m. pc[t] \in {"trans", "recheck"} => ~delta_after_eq(marshal_delta, want[t])
    <2> SUFFICES ASSUME pc[t] \in {"trans", "recheck"} PROVE ~delta_after_eq(marshal_delta, want[t])
      OBVIOUS
    <2>1. Sync(t) /\ writer = t
      BY <1>k, <1>w
    <2>2. want[t] = delta_of[current_delta]
      BY <2>1 DEF LInv, WantPhase
    <2>3. \A u \in Tasks : pc[u] # "dt_marshal"
      BY <2>1 DEF LInv, Locked
    <2>4. delta_of[current_delta] = marshal_delta + 1 /\ marshal_delta \in Int
      BY <2>3 DEF AllInv, Sequence, IInv, TypeOK, Deltas, TUX3_INIT_DELTA
    <2> QED
      BY <2>2, <2>4 DEF delta_after_eq
  <1>n. pc[t] = "trans_ret" => delta_after_eq(marshal_delta, want[t])
    <2> SUFFICES ASSUME pc[t] = "trans_ret" PROVE delta_after_eq(marshal_delta, want[t])
      OBVIOUS
    <2>1. want[t] = marshal_delta
      BY <1>k DEF LInv, WantPhase
    <2>2. marshal_delta \in Int
      BY DEF AllInv, IInv, TypeOK, Deltas, TUX3_INIT_DELTA
    <2> QED
      BY <2>1, <2>2 DEF delta_after_eq
  <1>c. pc[t] = "commit" => IF running THEN pending /\ ~delta_after_eq(committed_delta, want[t])
                                       ELSE delta_after_eq(committed_delta, want[t])
    <2> SUFFICES ASSUME pc[t] = "commit"
                 PROVE  IF running THEN pending /\ ~delta_after_eq(committed_delta, want[t])
                                   ELSE delta_after_eq(committed_delta, want[t])
      OBVIOUS
    <2>1. want[t] = marshal_delta
      BY <1>k DEF LInv, WantPhase
    <2>2. marshal_delta \in Int /\ committed_delta \in Int
      BY DEF AllInv, IInv, TypeOK, Deltas, TUX3_INIT_DELTA
    <2>3. CASE running
      <3>1. pending
        BY <1>k, <1>w, <1>r, <2>3
      <3>2. marshal_delta = committed_delta + 1
        BY <3>1 DEF AllInv, IInv, PendingSlot, Sequence
      <3> QED
        BY <2>1, <2>2, <2>3, <3>1, <3>2 DEF delta_after_eq
    <2>4. CASE ~running
      <3>1. pending_delta = NULL /\ \A u \in Threads : pc[u] \notin CommitPCs
        BY <2>4 DEF AllInv, IInv, PendingSlot, OneOwner, Owned, OwnPCs, CommitPCs
      <3>2. committed_delta = marshal_delta
        BY <3>1 DEF AllInv, Sequence
      <3> QED
        BY <2>1, <2>2, <2>4, <3>2 DEF delta_after_eq
    <2> QED
      BY <2>3, <2>4
  <1>1. ASSUME LockDelta(t) PROVE Plain(t)
    BY <1>1, <1>t, <1>w, <1>r, <1>s, <1>k, <1>p DEF Plain, LockDelta, SyncKinds
  <1>2. ASSUME LockWrite(t) PROVE Plain(t)
    BY <1>2, <1>t, <1>w, <1>r, <1>s, <1>k, <1>p DEF Plain, LockWrite
  <1>3. ASSUME DeltaRead(t) PROVE Plain(t)
    BY <1>3, <1>t, <1>w, <1>r, <1>s, <1>k, <1>p DEF Plain, DeltaRead
  <1>4. ASSUME DeltaInc(t) PROVE Plain(t)
    BY <1>4, <1>t, <1>w, <1>r, <1>s, <1>k, <1>p DEF Plain, DeltaInc
  <1>5. ASSUME DeltaRetry(t) PROVE Plain(t)
    BY <1>5, <1>t, <1>w, <1>r, <1>s, <1>k, <1>p DEF Plain, DeltaRetry
  <1>6. ASSUME DeltaPut(t) PROVE Plain(t)
    BY <1>6, <1>t, <1>w, <1>r, <1>s, <1>k, <1>p DEF Plain, DeltaPut, AfterPut
  <1>7. ASSUME SetPending(t) PROVE Plain(t)
    BY <1>7, <1>t, <1>w, <1>r, <1>s, <1>k, <1>p DEF Plain, SetPending
  <1>8. ASSUME DeltaKick(t) PROVE Plain(t)
    BY <1>8, <1>t, <1>w, <1>r, <1>s, <1>k, <1>p DEF Plain, DeltaKick, AfterPut, schedule_flush_delta
  <1>9. ASSUME UnlockRead(t) PROVE Plain(t)
    BY <1>9, <1>t, <1>w, <1>r, <1>s, <1>k, <1>p DEF Plain, UnlockRead
  <1>10. ASSUME NoTransition(t) PROVE Plain(t)
    BY <1>10, <1>t, <1>w, <1>r, <1>s, <1>k, <1>p DEF Plain, NoTransition, AfterTry
  <1>11. ASSUME TryTransition(t) PROVE Plain(t)
    BY <1>11, <1>t, <1>w, <1>r, <1>s, <1>k, <1>p DEF Plain, TryTransition
  <1>12. ASSUME FlushPending(t) PROVE Plain(t)
    BY <1>12, <1>t, <1>w, <1>r, <1>s, <1>k, <1>p DEF Plain, FlushPending
  <1>13. ASSUME UnlockWrite(t) PROVE Plain(t)
    BY <1>13, <1>t, <1>w, <1>r, <1>s, <1>k, <1>p DEF Plain, UnlockWrite
  <1>14. ASSUME DtSet(t) PROVE Plain(t)
    BY <1>14, <1>t, <1>w, <1>r, <1>s, <1>k, <1>p DEF Plain, DtSet
  <1>15. ASSUME DtPut(t) PROVE Plain(t)
    BY <1>15, <1>t, <1>w, <1>r, <1>s, <1>k, <1>p DEF Plain, DtPut
  <1>16. ASSUME DtPending(t) PROVE Plain(t)
    BY <1>16, <1>t, <1>w, <1>r, <1>s, <1>k, <1>p DEF Plain, DtPending
  <1>17. ASSUME DtKick(t) PROVE Plain(t)
    BY <1>17, <1>t, <1>w, <1>r, <1>s, <1>k, <1>p DEF Plain, DtKick, schedule_flush_delta
  <1>18. ASSUME DtWake(t) PROVE Plain(t)
    BY <1>18, <1>t, <1>w, <1>r, <1>s, <1>k, <1>p DEF Plain, DtWake, AfterTransition
  <1>19. ASSUME DtWait(t) PROVE Plain(t)
    BY <1>19, <1>t, <1>w, <1>r, <1>s, <1>k, <1>p DEF Plain, DtWait, WaitEvent, AfterTransition, AfterTry
  <1>20. ASSUME Transition(t) PROVE Plain(t)
    BY <1>20, <1>t, <1>w, <1>r, <1>s, <1>k, <1>p, <1>m DEF Plain, Transition, WaitEvent
  <1>21. ASSUME TestAndSetRunning(t) PROVE Plain(t)
    BY <1>21, <1>t, <1>w, <1>r, <1>s, <1>k, <1>p DEF Plain, TestAndSetRunning
  <1>22. ASSUME Recheck(t) PROVE Plain(t)
    BY <1>22, <1>t, <1>w, <1>r, <1>s, <1>k, <1>p, <1>m DEF Plain, Recheck
  <1>23. ASSUME TransitionReturn(t) PROVE Plain(t)
    BY <1>23, <1>t, <1>w, <1>r, <1>s, <1>k, <1>p, <1>n DEF Plain, TransitionReturn
  <1>24. ASSUME CommitWait(t) PROVE Plain(t)
    BY <1>24, <1>t, <1>w, <1>r, <1>s, <1>k, <1>p, <1>c DEF Plain, CommitWait, WaitEvent
  <1>25. ASSUME CommitFlush(t) PROVE Plain(t)
    BY <1>25, <1>t, <1>w, <1>r, <1>s, <1>k, <1>p, <1>c DEF Plain, CommitFlush
  <1>26. ASSUME Resume(t) PROVE Plain(t)
    BY <1>26, <1>t, <1>w, <1>r, <1>s, <1>k, <1>p DEF Plain, Resume
  <1>27. ASSUME FlushDone(t) PROVE Plain(t)
    BY <1>27, <1>t, <1>w, <1>r, <1>s, <1>k, <1>p DEF Plain, FlushDone
  <1>28. ASSUME ClearRunning(t) PROVE Plain(t)
    BY <1>28, <1>t, <1>w, <1>r, <1>s, <1>k, <1>p DEF Plain, ClearRunning
  <1>29. ASSUME FlushWake(t) PROVE Plain(t)
    BY <1>29, <1>t, <1>w, <1>r, <1>s, <1>k, <1>p DEF Plain, FlushWake, AfterFlush
  <1> QED
    BY <1>1, <1>2, <1>3, <1>4, <1>5, <1>6, <1>7, <1>8, <1>9, <1>10, <1>11, <1>12, <1>13,
       <1>14, <1>15, <1>16, <1>17, <1>18, <1>19, <1>20, <1>21, <1>22, <1>23, <1>24,
       <1>25, <1>26, <1>27, <1>28, <1>29

(* A task that starts an operation waits for nothing yet. *)
LEMMA InvokeStep ==
    ASSUME AllInv, LInv, NEW t \in Tasks, Invoke(t)
    PROVE  LInv'
  <1> USE TasksAssumption DEF Goto, refVars, stateVars, dataVars, lockVars
  <1>t. /\ Tasks \subseteq Threads /\ pc \in [Threads -> PCs] /\ FlushTask # t
        /\ kind \in [Tasks -> AllKinds] /\ must \in [Tasks -> SUBSET Ops]
    BY DEF AllInv, IInv, TypeOK, PCs, Threads
  <1>i. /\ Locked /\ OneRun /\ WantPhase /\ BacklogDone /\ MustThere /\ MustPhase /\ FlagPhase
    BY DEF LInv
  <1>1. /\ UNCHANGED <<current_delta, delta_of, unify_flag, marshal_delta, dirty, durable, failed,
                       unified, want, ref, running, pending, writer>>
        /\ pc[t] = "idle" /\ pc'[t] = "lock" /\ must'[t] = UNION {dirty[s] : s \in Slots}
        /\ \A u \in Threads \ {t} : pc'[u] = pc[u]
        /\ \A u \in Tasks \ {t} : kind'[u] = kind[u] /\ must'[u] = must[u]
    BY <1>t DEF Invoke
  <1>2. ~Sync(t)' /\ ~Writes(t)'
    BY <1>1 DEF Sync, Writes, WriterPCs, TransitionPCs, FlushPCs, SyncPCs
  <1>3. \A u \in Tasks : Sync(u)' => /\ u # t /\ Sync(u)
                                     /\ Before(u)' = Before(u) /\ Closed(u)' = Closed(u)
                                     /\ Late(u)' = Late(u)
    BY <1>1, <1>2, <1>t DEF Sync, Before, Closed, Late
  <1>4. Locked' /\ BacklogDone'
    <2>1. ASSUME NEW u \in Tasks, Writes(u)' PROVE Writes(u)
      <3>1. u # t
        BY <1>2, <2>1
      <3>2. pc'[u] = pc[u] /\ kind'[u] = kind[u]
        BY <1>1, <1>t, <3>1
      <3> QED
        BY <2>1, <3>2 DEF Writes, Sync
    <2>2. Locked'
      BY <1>i, <1>t, <1>1, <2>1 DEF Locked, Threads
    <2>3. BacklogDone'
      BY <1>i, <1>t, <1>1 DEF BacklogDone, Backlog, CleanPCs
    <2> QED
      BY <2>2, <2>3
  <1>5. OneRun'
    BY <1>i, <1>t, <1>1 DEF OneRun, RunPCs, TransitionPCs, HandPCs, WritePCs
  <1>6. WantPhase'
    BY <1>i, <1>t, <1>1, <1>3 DEF WantPhase
  <1>7. MustThere'
    BY <1>i, <1>1 DEF MustThere
  <1>8. MustPhase' /\ FlagPhase'
    BY <1>i, <1>t, <1>1, <1>3 DEF MustPhase, FlagPhase, Backlog
  <1> QED
    BY <1>4, <1>5, <1>6, <1>7, <1>8 DEF LInv

(* A change made after a sync began is of an operation that had made none,  *)
(* or is in the slot that operation's changes are in.                       *)
LEMMA ChangeStep ==
    ASSUME AllInv, LInv, NEW t \in Tasks, Change(t)
    PROVE  LInv'
  <1> USE TasksAssumption DEF refVars, stateVars, lockVars, opVars
  <1>t. /\ Tasks \subseteq Threads /\ dirty \in [Slots -> SUBSET Ops]
        /\ ref[t] \in Slots /\ refcount[ref[t]] # 0
    BY RefcountPositive DEF AllInv, IInv, TypeOK, Threads, Change, HoldPCs
  <1>i. /\ Locked /\ OneRun /\ WantPhase /\ BacklogDone /\ MustThere /\ MustPhase /\ FlagPhase
    BY DEF LInv
  <1> DEFINE op == <<t, ops[t]>>
  <1>1. /\ UNCHANGED <<current_delta, delta_of, unify_flag, marshal_delta, durable, failed, unified,
                       kind, must, want, pc, ref, running, pending, writer>>
        /\ pc[t] = "body"
        /\ \A s \in Slots : dirty'[s] = dirty[s] \union IF s = ref[t] THEN {op} ELSE {}
    <2>1. tux3_delta(delta_of[ref[t]]) = ref[t]
      BY DEF Change, AllInv, Whole, RefNumbered, HoldPCs
    <2> QED
      BY <1>t, <2>1 DEF Change
  <1>2. \A u \in Tasks : /\ Sync(u)' = Sync(u) /\ Writes(u)' = Writes(u) /\ Before(u)' = Before(u)
                         /\ Closed(u)' = Closed(u) /\ Late(u)' = Late(u)
    BY <1>1 DEF Sync, Writes, Before, Closed, Late
  <1>3. Locked' /\ OneRun'
    BY <1>i, <1>1, <1>2 DEF Locked, OneRun
  <1>4. WantPhase' /\ FlagPhase'
    BY <1>i, <1>1, <1>2 DEF WantPhase, FlagPhase
  <1>5. BacklogDone'
    <2>1. ASSUME ~running \/ \E u \in Threads : pc[u] \in CleanPCs
          PROVE  Backlog(NextSlot(current_delta))' = {}
      <3>1. refcount[NextSlot(current_delta)] = 0
        BY <2>1 DEF AllInv, IInv, FreeSlot, CleanPCs, WritePCs
      <3>2. NextSlot(current_delta) \in Slots
        BY OtherSlot DEF AllInv, IInv, TypeOK
      <3>3. dirty'[NextSlot(current_delta)] = dirty[NextSlot(current_delta)]
        BY <1>t, <1>1, <3>1, <3>2
      <3>4. Backlog(NextSlot(current_delta)) = {}
        BY <1>i, <2>1 DEF BacklogDone
      <3> QED
        BY <1>1, <3>3, <3>4 DEF Backlog
    <2> QED
      BY <1>1, <2>1 DEF BacklogDone
  <1>6. MustThere'
    BY <1>i, <1>1 DEF MustThere
  <1>7. MustPhase'
    <2>1. ASSUME NEW u \in Tasks, NEW s \in Slots, must[u] \intersect Backlog(s)' # {}
          PROVE  must[u] \intersect Backlog(s) # {}
      <3>1. PICK o \in must[u] : o \in Backlog(s)'
        BY <2>1
      <3>2. o \in dirty'[s] /\ o \notin durable \union failed
        BY <1>1, <3>1 DEF Backlog
      <3>3. CASE o \in dirty[s]
        BY <3>1, <3>2, <3>3 DEF Backlog
      <3>4. CASE o \notin dirty[s]
        <4>1. o = op /\ s = ref[t]
          BY <1>1, <3>2, <3>4
        <4>2. PICK r \in Slots : o \in dirty[r]
          BY <1>i, <3>1, <3>2 DEF MustThere
        <4>3. r = ref[t]
          BY <1>1, <4>1, <4>2 DEF AllInv, Whole
        <4> QED
          BY <3>4, <4>1, <4>2, <4>3
      <3> QED
        BY <3>3, <3>4
    <2> QED
      BY <1>i, <1>1, <1>2, <2>1 DEF MustPhase
  <1> QED
    BY <1>3, <1>4, <1>5, <1>6, <1>7 DEF LInv

-----------------------------------------------------------------------------
(* The steps of the task that has the lock for writing: no other task       *)
(* syncs, transits or commits.                                              *)
Alone(t) ==
    /\ \A u \in Tasks \ {t} : pc'[u] = pc[u] /\ kind'[u] = kind[u] /\ ~Sync(u) /\ ~Writes(u)
    /\ writer' = t /\ kind'[t] = kind[t]
    /\ pc'[FlushTask] = "ft_check"

LEMMA AloneWriter ==
    ASSUME AllInv, LInv, NEW t \in Tasks, Alone(t),
           running' => (pc'[t] \in RunPCs \ HandPCs),
           pc'[t] \in TransitionPCs \union {"trans_ret"} => running'
    PROVE  /\ Locked' /\ OneRun'
           /\ \A u \in Tasks : Sync(u)' => u = t
  <1>1. \A u \in Tasks \ {t} : ~Sync(u)' /\ ~Writes(u)'
    BY DEF Alone, Sync, Writes
  <1>2. Locked'
    BY <1>1 DEF Alone, Locked
  <1>3. ASSUME NEW u \in Tasks, pc'[u] \in TransitionPCs \union {"trans_ret"} PROVE running'
    BY <1>1, <1>3 DEF Writes, WriterPCs, SyncPCs
  <1> QED
    BY <1>1, <1>2, <1>3 DEF Alone, OneRun

(* Who transits or commits is a task, and alone. *)
LEMMA WriterAlone ==
    ASSUME AllInv, LInv, NEW t \in Threads, Writes(t), kind' = kind, writer' = writer,
           pc[t] # "ft_check", \A u \in Threads \ {t} : pc'[u] = pc[u]
    PROVE  t \in Tasks /\ Alone(t)
  <1>1. t \in Tasks /\ FlushTask # t /\ FlushTask \in Threads /\ Tasks \subseteq Threads
    BY TasksAssumption DEF LInv, Locked, Threads
  <1>2. \A u \in Tasks \ {t} : ~Writes(u)
    BY <1>1 DEF LInv, Locked
  <1>3. \A u \in Tasks \ {t} : ~Sync(u)
    BY <1>2 DEF Writes
  <1> QED
    BY <1>1, <1>2, <1>3 DEF Alone, LInv, Locked

LEMMA SyncTransitionStep ==
    ASSUME AllInv, LInv, NEW t \in Tasks, MarkSync(t) \/ DtNum(t) \/ DtMarshal(t)
    PROVE  LInv'
  <1> USE TasksAssumption DEF Goto, refVars, stateVars, lockVars, dataVars, opVars
  <1>t. /\ t \in Threads /\ Tasks \subseteq Threads /\ pc \in [Threads -> PCs]
        /\ current_delta \in Slots /\ NextSlot(current_delta) \in Slots
        /\ NextSlot(current_delta) # current_delta
        /\ NextSlot(NextSlot(current_delta)) = current_delta
        /\ unify_flag \in [Slots -> UnifyFlags] /\ want \in [Tasks -> Nat]
        /\ delta_of \in [Slots -> Nat]
    BY OtherSlot DEF AllInv, IInv, TypeOK, PCs, Threads
  <1>i. /\ Locked /\ OneRun /\ WantPhase /\ BacklogDone /\ MustThere /\ MustPhase /\ FlagPhase
    BY DEF LInv
  <1>1. CASE MarkSync(t)
    <2>1. /\ UNCHANGED <<current_delta, delta_of, marshal_delta, dirty, durable, failed,
                         unified, kind, must, ref, running, pending, writer>>
          /\ pc[t] = "mark" /\ pc'[t] = "put" /\ want'[t] = delta_of[ref[t]]
          /\ unify_flag'[ref[t]] = IF kind[t] = "force_unify" THEN "FORCE_UNIFY" ELSE "NO_UNIFY"
          /\ \A u \in Threads \ {t} : pc'[u] = pc[u]
      <3>1. ref[t] \in Slots
        BY <1>1 DEF MarkSync, AllInv, IInv, RefsSet, RefPCs, HoldPCs
      <3> QED
        BY <1>1, <1>t, <3>1 DEF MarkSync
    <2>2. Sync(t) /\ Writes(t)
      BY <2>1 DEF AllInv, SInv, SyncKind, SyncPCs, Sync, Writes
    <2>3. Alone(t)
      BY <1>t, <2>1, <2>2, WriterAlone
    <2>4. ~running
      BY <1>i, <2>1, <2>2 DEF OneRun, Locked, RunPCs, TransitionPCs, HandPCs, WritePCs
    <2>5. Locked' /\ OneRun' /\ \A u \in Tasks : Sync(u)' => u = t
      BY <2>1, <2>3, <2>4, AloneWriter DEF TransitionPCs
    <2>6. ref[t] = current_delta
      BY <1>i, <2>1, <2>2 DEF WantPhase
    <2>7. Before(t)' /\ ~Closed(t)' /\ ~Late(t)'
      BY <2>1 DEF Before, Closed, Late, BeforePCs, ClosedPCs, LatePCs, FlushPCs
    <2>8. WantPhase' /\ FlagPhase'
      BY <2>1, <2>5, <2>6, <2>7 DEF WantPhase, FlagPhase
    <2>9. BacklogDone' /\ MustThere'
      BY <1>i, <2>1, <2>4 DEF BacklogDone, Backlog, MustThere
    <2>10. MustPhase'
      BY <1>i, <2>1, <2>2, <2>5, <2>7 DEF MustPhase, Backlog, EntryPCs
    <2> QED
      BY <2>5, <2>8, <2>9, <2>10 DEF LInv
  <1>2. CASE DtNum(t)
    <2>1. ref[t] = current_delta /\ next_delta = delta_of[current_delta] + 1
      BY <1>2 DEF DtNum, AllInv, IInv, PreviousSlot, Numbering
    <2>2. /\ UNCHANGED <<marshal_delta, dirty, durable, failed,
                         unified, kind, must, want, ref, running, pending, writer>>
          /\ pc[t] = "dt_num" /\ pc'[t] = "dt_marshal"
          /\ current_delta' = NextSlot(current_delta)
          /\ delta_of'[current_delta] = delta_of[current_delta]
          /\ unify_flag'[current_delta] = unify_flag[current_delta]
          /\ \A u \in Threads \ {t} : pc'[u] = pc[u]
      BY <1>2, <1>t, <2>1 DEF DtNum
    <2>3. Writes(t) /\ running
      BY <1>i, <2>2 DEF Writes, WriterPCs, TransitionPCs, OneRun
    <2>4. Alone(t)
      BY <1>t, <2>2, <2>3, WriterAlone
    <2>5. Locked' /\ OneRun' /\ \A u \in Tasks : Sync(u)' => u = t
      BY <2>2, <2>3, <2>4, AloneWriter DEF TransitionPCs, RunPCs, HandPCs
    <2>6. Before(t) /\ Closed(t)' /\ ~Before(t)' /\ ~Late(t)' /\ pc'[t] \notin EntryPCs
      BY <2>2 DEF Before, Closed, Late, BeforePCs, ClosedPCs, LatePCs, FlushPCs, EntryPCs
    <2>7. Sync(t)' => Sync(t)
      BY <2>2 DEF Sync
    <2>8. WantPhase'
      BY <1>i, <2>1, <2>2, <2>5, <2>6, <2>7 DEF WantPhase
    <2>9. FlagPhase'
      BY <1>i, <1>t, <2>2, <2>5, <2>6, <2>7 DEF FlagPhase
    <2>10. \A u \in Threads : pc'[u] \notin CleanPCs
      <3>1. \A u \in Threads \ {t} : pc[u] \notin OwnPCs
        BY <1>t, <2>2 DEF AllInv, IInv, OneOwner, OwnPCs, SetupPCs
      <3> QED
        BY <2>2, <3>1 DEF OwnPCs, SetupPCs, WritePCs, CleanPCs
    <2>11. BacklogDone' /\ MustThere'
      BY <1>i, <2>2, <2>3, <2>10 DEF BacklogDone, MustThere
    <2>12. MustPhase'
      BY <1>i, <1>t, <2>2, <2>5, <2>6, <2>7 DEF MustPhase, Backlog
    <2> QED
      BY <2>5, <2>8, <2>9, <2>11, <2>12 DEF LInv
  <1>3. CASE DtMarshal(t)
    <2>1. /\ UNCHANGED <<current_delta, delta_of, unify_flag, dirty, durable, failed,
                         unified, kind, must, want, ref, running, pending, writer>>
          /\ pc[t] = "dt_marshal" /\ pc'[t] = "dt_put" /\ marshal_delta' = delta_of[ref[t]]
          /\ \A u \in Threads \ {t} : pc'[u] = pc[u]
      BY <1>3, <1>t DEF DtMarshal
    <2>2. Writes(t) /\ running
      BY <1>i, <2>1 DEF Writes, WriterPCs, TransitionPCs, OneRun
    <2>3. Alone(t)
      BY <1>t, <2>1, <2>2, WriterAlone
    <2>4. Locked' /\ OneRun' /\ \A u \in Tasks : Sync(u)' => u = t
      BY <2>1, <2>2, <2>3, AloneWriter DEF TransitionPCs, RunPCs, HandPCs
    <2>5. Closed(t) /\ Closed(t)' /\ ~Before(t)' /\ ~Late(t)' /\ pc'[t] \notin EntryPCs
      BY <2>1 DEF Before, Closed, Late, BeforePCs, ClosedPCs, LatePCs, FlushPCs, EntryPCs
    <2>6. Sync(t)' => Sync(t)
      BY <2>1 DEF Sync
    <2>7. WantPhase' /\ FlagPhase'
      BY <1>i, <2>1, <2>4, <2>5, <2>6 DEF WantPhase, FlagPhase
    <2>8. BacklogDone' /\ MustThere'
      BY <1>i, <1>t, <2>1 DEF BacklogDone, Backlog, MustThere, CleanPCs
    <2>9. MustPhase'
      BY <1>i, <2>1, <2>4, <2>5, <2>6 DEF MustPhase, Backlog
    <2> QED
      BY <2>4, <2>7, <2>8, <2>9 DEF LInv
  <1> QED
    BY <1>1, <1>2, <1>3

(* The commit empties the backlog, and the flag is read as it starts. *)
LEMMA SyncCommitStep ==
    ASSUME AllInv, LInv, NEW t \in Threads,
           FlushStart(t) \/ Commit(t) \/ CommitError(t) \/ SuperError(t) \/ PostCommit(t)
    PROVE  LInv'
  <1> USE TasksAssumption DEF Goto, refVars, stateVars, lockVars, dataVars, opVars
  <1>t. /\ Tasks \subseteq Threads /\ pc \in [Threads -> PCs]
        /\ current_delta \in Slots /\ NextSlot(current_delta) \in Slots
        /\ NextSlot(current_delta) # current_delta
        /\ dirty \in [Slots -> SUBSET Ops]
    BY OtherSlot DEF AllInv, IInv, TypeOK, PCs, Threads
  <1>i. /\ Locked /\ OneRun /\ WantPhase /\ BacklogDone /\ MustThere /\ MustPhase /\ FlagPhase
    BY DEF LInv
  <1>1. /\ UNCHANGED <<current_delta, delta_of, unify_flag, marshal_delta, kind, must, want, ref,
                       running, pending, writer>>
        /\ pc[t] \in {"fl_start", "fl_commit", "fl_post"}
        /\ pc'[t] \in {"fl_commit", "fl_post", "fl_done"}
        /\ \A u \in Threads \ {t} : pc'[u] = pc[u]
    BY <1>t DEF FlushStart, Commit, CommitError, SuperError, PostCommit
  <1>2. t \in Tasks /\ Alone(t)
    <2>1. Writes(t)
      BY <1>1 DEF Writes, WriterPCs, FlushPCs
    <2> QED
      BY <1>1, <2>1, WriterAlone
  <1>3. /\ Locked' /\ OneRun'
        /\ \A u \in Tasks : Sync(u)' => u = t
    BY <1>1, <1>2, AloneWriter DEF RunPCs, HandPCs, TransitionPCs, WritePCs
  <1>4. /\ ~Before(t)' /\ ~Closed(t)' /\ Late(t)' /\ pc'[t] \notin EntryPCs
        /\ Closed(t) \/ Late(t)
    BY <1>1 DEF Before, Closed, Late, BeforePCs, ClosedPCs, LatePCs, FlushPCs, EntryPCs
  <1>5. Sync(t)' => Sync(t)
    BY <1>1 DEF Sync
  <1>6. WantPhase'
    BY <1>i, <1>1, <1>3, <1>4, <1>5 DEF WantPhase
  <1>7. CASE FlushStart(t)
    <2>1. /\ UNCHANGED <<dirty, durable, failed>>
          /\ pc[t] = "fl_start" /\ pc'[t] = "fl_commit"
          /\ unified' = unified \union
                          {d \in {marshal_delta} : unify_flag[pending_delta] = "FORCE_UNIFY"}
      BY <1>7, <1>t DEF FlushStart
    <2>2. pending_delta = NextSlot(current_delta)
      <3>1. pending_delta \in Slots /\ pending_delta # current_delta
        BY <2>1 DEF AllInv, IInv, TypeOK, PendingSlot, ZeroPCs
      <3> QED
        BY <1>t, <3>1, OtherSlot
    <2>3. Closed(t)
      BY <2>1 DEF Closed, ClosedPCs
    <2>4. FlagPhase'
      <3>1. ASSUME Sync(t)', kind[t] = "force_unify" PROVE want[t] \in unified'
        <4>1. want[t] = marshal_delta /\ unify_flag[pending_delta] = "FORCE_UNIFY"
          BY <1>i, <1>2, <1>5, <2>1, <2>2, <2>3, <3>1 DEF WantPhase, FlagPhase
        <4> QED
          BY <2>1, <4>1
      <3> QED
        BY <1>1, <1>3, <1>4, <3>1 DEF FlagPhase
    <2>5. BacklogDone' /\ MustThere'
      BY <1>i, <1>t, <1>1, <2>1 DEF BacklogDone, Backlog, MustThere, CleanPCs
    <2>6. MustPhase'
      BY <1>i, <1>1, <1>2, <1>3, <1>4, <1>5, <2>1 DEF MustPhase, Backlog
    <2> QED
      BY <1>3, <1>6, <2>4, <2>5, <2>6 DEF LInv
  <1>8. CASE Commit(t) \/ CommitError(t) \/ SuperError(t)
    <2>1. /\ UNCHANGED <<dirty, unified>>
          /\ pc[t] = "fl_commit"
          /\ durable \subseteq durable' /\ failed \subseteq failed'
          /\ dirty[NextSlot(current_delta)] \subseteq durable' \union failed'
      <3>1. pc[t] = "fl_commit"
        BY <1>8 DEF Commit, CommitError, SuperError
      <3>2. tux3_delta(cdelta[t]) = NextSlot(current_delta)
        BY <3>1 DEF AllInv, IInv, Numbering
      <3> QED
        BY <1>8, <3>1, <3>2 DEF Commit, CommitError, SuperError
    <2>2. \A s : Backlog(s)' \subseteq Backlog(s)
      BY <2>1 DEF Backlog
    <2>3. BacklogDone'
      BY <1>1, <2>1 DEF BacklogDone, Backlog
    <2>4. MustThere'
      BY <1>i, <1>1, <2>1 DEF MustThere
    <2>5. MustPhase'
      <3>1. \A u \in Tasks, s \in Slots :
              must'[u] \intersect Backlog(s)' # {} => must[u] \intersect Backlog(s) # {}
        BY <1>1, <2>2
      <3> QED
        BY <1>i, <1>1, <1>2, <1>3, <1>4, <1>5, <3>1 DEF MustPhase
    <2>6. FlagPhase'
      <3>1. Late(t)
        BY <2>1 DEF Late, LatePCs, FlushPCs
      <3> QED
        BY <1>i, <1>1, <1>2, <1>3, <1>4, <1>5, <2>1, <3>1 DEF FlagPhase
    <2> QED
      BY <1>3, <1>6, <2>3, <2>4, <2>5, <2>6 DEF LInv
  <1>9. CASE PostCommit(t)
    <2>1. /\ UNCHANGED <<durable, failed, unified>>
          /\ pc[t] = "fl_post"
          /\ \A s \in Slots : dirty'[s] = IF s = NextSlot(current_delta) THEN {} ELSE dirty[s]
      <3>1. pc[t] = "fl_post"
        BY <1>9 DEF PostCommit
      <3>2. tux3_delta(cdelta[t]) = NextSlot(current_delta)
        BY <3>1 DEF AllInv, IInv, Numbering
      <3> QED
        BY <1>9, <1>t, <3>1, <3>2 DEF PostCommit
    <2>2. Backlog(NextSlot(current_delta)) = {}
      BY <1>i, <2>1 DEF BacklogDone, CleanPCs
    <2>3. \A s \in Slots : Backlog(s)' \subseteq Backlog(s)
      BY <2>1 DEF Backlog
    <2>4. BacklogDone'
      BY <1>1, <1>t, <2>1 DEF BacklogDone, Backlog
    <2>5. MustThere'
      <3>1. \A u \in Tasks : \A o \in must[u] :
              o \in durable \union failed \/ \E s \in Slots : o \in Backlog(s)
        BY <1>i DEF MustThere, Backlog
      <3>2. \A s \in Slots : \A o \in Backlog(s) : o \in dirty'[s]
        BY <2>1, <2>2 DEF Backlog
      <3> QED
        BY <1>1, <2>1, <3>1, <3>2 DEF MustThere
    <2>6. MustPhase'
      <3>1. \A u \in Tasks, s \in Slots :
              must'[u] \intersect Backlog(s)' # {} => must[u] \intersect Backlog(s) # {}
        BY <1>1, <2>3
      <3> QED
        BY <1>i, <1>1, <1>2, <1>3, <1>4, <1>5, <3>1 DEF MustPhase
    <2>7. FlagPhase'
      <3>1. Late(t)
        BY <2>1 DEF Late, LatePCs, FlushPCs
      <3> QED
        BY <1>i, <1>1, <1>2, <1>3, <1>4, <1>5, <2>1, <3>1 DEF FlagPhase
    <2> QED
      BY <1>3, <1>6, <2>4, <2>5, <2>6, <2>7 DEF LInv
  <1> QED
    BY <1>7, <1>8, <1>9

(* Every step of the SYNC flusher keeps the invariant, and it holds first.  *)
LEMMA NextLInv == AllInv /\ (FlusherSync => LInv) /\ [Next]_vars => (FlusherSync => LInv)'
  <1> SUFFICES ASSUME AllInv, FlusherSync, LInv, [Next]_vars PROVE LInv'
    OBVIOUS
  <1>1. ASSUME NEW t \in Tasks, Plain(t) PROVE LInv'
    BY <1>1, PlainStep DEF AllInv
  <1>2. ASSUME NEW t \in Tasks,
               \/ Invoke(t) \/ Change(t) \/ Killed(t)
               \/ LockStep(t) \/ GetStep(t) \/ PutStep(t) \/ EndStep(t)
               \/ TransStep(t) \/ SyncStep(t)
        PROVE  LInv'
    <2>1. CASE Invoke(t) \/ Change(t) \/ MarkSync(t) \/ DtNum(t) \/ DtMarshal(t)
      BY <2>1, InvokeStep, ChangeStep, SyncTransitionStep
    <2>2. CASE Killed(t)
      BY <2>2 DEF Killed
    <2>3. CASE LockStep(t) \/ GetStep(t) \/ PutStep(t) \/ EndStep(t)
      <3>1. Plain(t)
        BY <2>3, PlainActions DEF LockStep, GetStep, PutStep, EndStep
      <3> QED
        BY <1>1, <3>1
    <2>4. CASE /\ TransStep(t) \/ SyncStep(t)
               /\ ~(MarkSync(t) \/ DtNum(t) \/ DtMarshal(t))
      <3>1. Plain(t)
        BY <2>4, PlainActions DEF TransStep, SyncStep
      <3> QED
        BY <1>1, <3>1
    <2> QED
      BY <1>2, <2>1, <2>2, <2>3, <2>4
  <1>3. ASSUME NEW t \in Threads, FlushStep(t) PROVE LInv'
    <2>1. CASE FlushStart(t) \/ Commit(t) \/ CommitError(t) \/ SuperError(t) \/ PostCommit(t)
      BY <2>1, SyncCommitStep
    <2>2. CASE FlushDone(t) \/ ClearRunning(t) \/ FlushWake(t)
      <3>1. t \in Tasks
        BY <2>2 DEF FlushDone, ClearRunning, FlushWake, Goto, LInv, Locked, Threads
      <3> QED
        BY <1>1, <2>2, <3>1, PlainActions
    <2> QED
      BY <1>3, <2>1, <2>2 DEF FlushStep
  <1>4. ASSUME UNCHANGED vars PROVE LInv'
    BY <1>4 DEF LInv, vars, refVars, stateVars, lockVars, dataVars, opVars, Locked, OneRun, WantPhase,
       BacklogDone, MustThere, MustPhase, FlagPhase, Writes, Sync, Before, Closed, Late, Backlog
  <1> QED
    BY <1>2, <1>3, <1>4 DEF Next, FlushWork

LEMMA InitLInv == Init => LInv
  <1> SUFFICES ASSUME Init PROVE LInv
    OBVIOUS
  <1>1. \A t \in Tasks : pc[t] = "idle" /\ must[t] = {}
    BY TasksAssumption DEF Init, Threads
  <1>2. \A t \in Tasks : ~Writes(t) /\ ~Sync(t)
    BY <1>1 DEF Writes, Sync, WriterPCs, TransitionPCs, FlushPCs, SyncPCs
  <1>3. \A s \in Slots : Backlog(s) = {}
    BY DEF Init, Backlog
  <1>4. Locked /\ OneRun
    BY <1>1, <1>2 DEF Init, Locked, OneRun, Threads, TransitionPCs
  <1>5. BacklogDone /\ MustThere
    BY <1>1, <1>3, OtherSlot DEF Init, BacklogDone, MustThere, Slots, TUX3_MAX_DELTA
  <1> QED
    BY <1>2, <1>4, <1>5 DEF LInv, WantPhase, MustPhase, FlagPhase

LEMMA LockInvariance == Spec => [](AllInv /\ (FlusherSync => LInv))
  <1>1. Init => (FlusherSync => LInv)
    BY InitLInv
  <1> QED
    BY <1>1, NextLInv, AllInvariance, PTL DEF Spec

-----------------------------------------------------------------------------
(* In the SYNC flusher, when force_delta() or force_unify() returns and no  *)
(* commit can fail, everything that had been changed before the call is     *)
(* durable, also what joined a delta before it was current: sync_current_   *)
(* delta() has kept every other transition out with sb->delta_lock.         *)
THEOREM SyncIsDurableLocked == Spec => [](FlusherSync /\ ~CommitMayFail => SyncDurable)
  <1>1. ASSUME AllInv, LInv, NEW t \in Tasks, pc[t] = "done"
        PROVE  must[t] \subseteq durable \union failed
    <2>1. Sync(t) /\ Late(t) /\ ~Before(t) /\ writer = t
      BY <1>1 DEF AllInv, SInv, SyncKind, SyncPCs, Sync, Writes, Late, LatePCs, Before, BeforePCs,
         LInv, Locked
    <2>2. ~running
      BY <1>1, <2>1 DEF LInv, OneRun, RunPCs, TransitionPCs, HandPCs, WritePCs
    <2>3. Backlog(NextSlot(current_delta)) = {}
      BY <1>1, <2>2 DEF LInv, BacklogDone
    <2>4. \A s \in Slots : must[t] \intersect Backlog(s) = {}
      BY <1>1, <2>1, <2>3 DEF LInv, MustPhase
    <2> QED
      BY <1>1, <2>4 DEF LInv, MustThere, Backlog
  <1>2. AllInv /\ (FlusherSync => LInv) /\ (~CommitMayFail => failed = {})
          => (FlusherSync /\ ~CommitMayFail => SyncDurable)
    BY <1>1 DEF SyncDurable
  <1>3. Spec => [](~CommitMayFail => failed = {})
    BY NoneFailed
  <1> QED
    BY <1>2, <1>3, LockInvariance, PTL

(* In the SYNC flusher, a force_unify() that returns has seen its delta     *)
(* committed with the log unified: nobody replaces the unify flag it set    *)
(* before the commit reads it.                                              *)
THEOREM UnifyIsForced == Spec => [](FlusherSync => UnifyForced)
  <1>1. ASSUME AllInv, LInv PROVE UnifyForced
    <2> SUFFICES ASSUME NEW t \in Tasks, pc[t] = "done", kind[t] = "force_unify"
                 PROVE  want[t] \in unified
      BY DEF UnifyForced
    <2>1. Sync(t) /\ Late(t)
      BY DEF Sync, SyncKinds, Late, LatePCs
    <2> QED
      BY <1>1, <2>1 DEF LInv, FlagPhase
  <1>2. AllInv /\ (FlusherSync => LInv) => (FlusherSync => UnifyForced)
    BY <1>1
  <1> QED
    BY <1>2, LockInvariance, PTL
==============================================================================
