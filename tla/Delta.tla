------------------------------- MODULE Delta -------------------------------
(***************************************************************************)
(* Delta transition: how frontend operations are grouped into deltas and   *)
(* how the backend commits one delta while the frontend fills the next     *)
(* (kernel/commit.c, kernel/commit_flusher.c).                             *)
(*                                                                         *)
(* A frontend operation brackets its changes with change_begin() and       *)
(* change_end().  In between it holds a reference on a delta_ref, one of   *)
(* the TUX3_MAX_DELTA slots of sb->delta_refs.  delta_transition() makes   *)
(* the next slot current and drops the initial reference of the previous   *)
(* one; whoever drops the last reference sets TUX3_COMMIT_PENDING_BIT, and *)
(* the backend commits that delta.  TUX3_COMMIT_RUNNING_BIT is held from   *)
(* the transition until the commit is done.                                *)
(*                                                                         *)
(* Two of the three flushers the code can be compiled with are modelled:   *)
(* TUX3_FLUSHER_SYNC (userland: whoever finds the delta pending commits it *)
(* under sb->delta_lock) and TUX3_FLUSHER_ASYNC_OWN (a kernel thread).     *)
(*                                                                         *)
(* Every atomic access to shared state is a step of its own.  An operation *)
(* is named <<thread, number>>; "dirty" and "durable" are sets of such     *)
(* names and stand for the contents of the per-delta dirty lists and of    *)
(* the committed volume.                                                   *)
(***************************************************************************)
EXTENDS Naturals, Integers, FiniteSets

CONSTANTS
    Tasks,          \* frontend tasks
    FlushTask,      \* the backend thread, sb->flush_task
    FlusherSync,    \* TRUE for TUX3_FLUSHER_SYNC, FALSE for ASYNC_OWN
    CommitMayFail,  \* TRUE: stage_delta(), unify_log() or save_sb() may return an error
    Kinds,          \* the operations the tasks call
    MaxOps,         \* bound: operations started by all tasks
    NULL

ChangeKinds == {"change", "change_atomic"}
SyncKinds   == {"force_delta", "force_unify"}
AllKinds    == ChangeKinds \union SyncKinds

ASSUME TasksAssumption   == IsFiniteSet(Tasks) /\ FlushTask \notin Tasks
ASSUME FlusherAssumption == FlusherSync \in BOOLEAN /\ CommitMayFail \in BOOLEAN
ASSUME KindsAssumption   == Kinds \subseteq AllKinds
ASSUME MaxOpsAssumption  == MaxOps \in Nat
ASSUME NULLAssumption    == NULL \notin Nat /\ NULL \notin Tasks \union {FlushTask}

Threads == Tasks \union {FlushTask}

TUX3_MAX_DELTA  == 2        \* 1 frontend + 1 backend
TUX3_INIT_DELTA == 0
Slots == 0 .. TUX3_MAX_DELTA - 1

(* Slot of the per-delta dirty lists a delta number selects. *)
tux3_delta(delta) == delta % TUX3_MAX_DELTA

(* delta_ref + 1, wrapped at the end of sb->delta_refs[]. *)
NextSlot(s) == IF s + 1 = TUX3_MAX_DELTA THEN 0 ELSE s + 1

(* The code compares with a signed difference of 32 bit counters; within   *)
(* 2^31 deltas of each other that is the order of the numbers.             *)
delta_after_eq(a, b) == a - b >= 0

UnifyFlags  == {"NO_UNIFY", "ALLOW_UNIFY", "FORCE_UNIFY"}

VARIABLES
    current_delta,   \* slot new references are taken on
    refcount,        \* delta_refs[s].refcount
    delta_of,        \* delta_refs[s].delta
    unify_flag,      \* delta_refs[s].unify_flag
    next_delta,      \* next delta number
    running,         \* TUX3_COMMIT_RUNNING_BIT
    pending,         \* TUX3_COMMIT_PENDING_BIT
    pending_delta,   \* slot to be committed, or NULL
    marshal_delta, committed_delta,
    waiters,         \* queued on delta_event_wq and not woken yet
    ft_awake,        \* state of flush_task is TASK_RUNNING
    readers, writer, \* sb->delta_lock
    dirty,           \* operations in the dirty lists of each slot
    durable,         \* operations the committed volume contains
    unified,         \* deltas committed with FORCE_UNIFY
    failed,          \* history: operations in a delta whose commit failed
    pc,              \* where each thread is
    kind,            \* the operation a task is in
    started, ops,    \* operations started by all tasks, by each task
    ref,             \* the slot a thread has, or will take, a reference on
    want,            \* sync_current_delta(): the delta to wait for
    must,            \* history: operations in flight when the task's last one started
    early,           \* history: operations that joined a delta before it was current
    cdelta,          \* flush_delta(): the delta being committed
    backend          \* threads whose current->journal_info is sb

refVars   == <<current_delta, refcount, delta_of, unify_flag, next_delta>>
stateVars == <<running, pending, pending_delta, marshal_delta, committed_delta>>
wakeVars  == <<waiters, ft_awake>>
lockVars  == <<readers, writer>>
dataVars  == <<dirty, durable, unified, failed>>
opVars    == <<kind, started, ops, must, early>>
vars == <<refVars, stateVars, wakeVars, lockVars, dataVars, opVars,
          pc, ref, want, cdelta, backend>>

(* INIT_DELTA - 1 of an unsigned counter: the delta before the first one. *)
Deltas == {TUX3_INIT_DELTA - 1} \union Nat
Ops    == Tasks \X Nat

TransitionPCs == {"dt_set", "dt_num", "dt_marshal", "dt_put", "dt_pend", "dt_kick",
                  "dt_wake", "dt_wait", "dt_sleep"}
FlushPCs      == {"fl_start", "fl_commit", "fl_post", "fl_done", "fl_unlock", "fl_wake"}
SyncPCs       == {"mark", "trans", "tas", "recheck", "trans_ret", "trans_sleep",
                  "commit", "commit_sleep", "done"}
ChangePCs     == {"body", "unlock_read", "lock_write", "need", "flush_pending", "unlock"}
TaskPCs       == {"idle", "lock", "get", "inc", "put", "pend", "kick"}
                 \union TransitionPCs \union SyncPCs \union ChangePCs
FlushTaskPCs  == {"ft_check", "ft_state", "ft_test", "ft_sleep"}

(* Every variable stays in its range; above all delta_put() never drops a    *)
(* refcount below zero.                                                     *)
TypeOK ==
    /\ current_delta \in Slots
    /\ refcount \in [Slots -> Nat]
    /\ delta_of \in [Slots -> Nat]
    /\ unify_flag \in [Slots -> UnifyFlags]
    /\ next_delta \in Nat
    /\ running \in BOOLEAN /\ pending \in BOOLEAN
    /\ pending_delta \in Slots \union {NULL}
    /\ marshal_delta \in Deltas /\ committed_delta \in Deltas
    /\ waiters \subseteq Tasks /\ ft_awake \in BOOLEAN
    /\ readers \subseteq Tasks /\ writer \in Tasks \union {NULL}
    /\ dirty \in [Slots -> SUBSET Ops] /\ durable \subseteq Ops /\ unified \subseteq Deltas
    /\ failed \subseteq Ops
    /\ pc \in [Threads -> TaskPCs \union FlushPCs \union FlushTaskPCs]
    /\ kind \in [Tasks -> AllKinds]
    /\ started \in Nat /\ ops \in [Tasks -> Nat]
    /\ ref \in [Threads -> Slots \union {NULL}]
    /\ want \in [Tasks -> Nat]
    /\ must \in [Tasks -> SUBSET Ops]
    /\ early \subseteq Ops
    /\ cdelta \in [Threads -> Deltas]
    /\ backend \subseteq Threads

-----------------------------------------------------------------------------
(* __setup_sb() after init_sb(): the first delta is current, nothing runs.  *)
Init ==
    /\ current_delta = 0
    /\ refcount = [s \in Slots |-> IF s = 0 THEN 1 ELSE 0]
    /\ delta_of = [s \in Slots |-> TUX3_INIT_DELTA]
    /\ unify_flag = [s \in Slots |-> "ALLOW_UNIFY"]
    /\ next_delta = TUX3_INIT_DELTA + 1
    /\ running = FALSE /\ pending = FALSE /\ pending_delta = NULL
    /\ marshal_delta = TUX3_INIT_DELTA - 1 /\ committed_delta = TUX3_INIT_DELTA - 1
    /\ waiters = {} /\ ft_awake = TRUE
    /\ readers = {} /\ writer = NULL
    /\ dirty = [s \in Slots |-> {}] /\ durable = {} /\ unified = {} /\ failed = {}
    /\ pc = [t \in Threads |-> IF t = FlushTask THEN "ft_check" ELSE "idle"]
    /\ kind = [t \in Tasks |-> "change"]
    /\ started = 0 /\ ops = [t \in Tasks |-> 0]
    /\ ref = [t \in Threads |-> NULL]
    /\ want = [t \in Tasks |-> 0]
    /\ must = [t \in Tasks |-> {}]
    /\ early = {}
    /\ cdelta = [t \in Threads |-> TUX3_INIT_DELTA - 1]
    /\ backend = {}

Goto(t, from, to) == pc[t] = from /\ pc' = [pc EXCEPT ![t] = to]

(* Mutant: PENDING is set and nobody is told. *)
schedule_flush_delta_NoWake == UNCHANGED wakeVars

(* schedule_flush_delta(): ASYNC_OWN wakes the flush task, SYNC the waiters *)
(* on delta_event_wq.                                                       *)
schedule_flush_delta ==
    IF FlusherSync THEN waiters' = {} /\ UNCHANGED ft_awake
                   ELSE ft_awake' = TRUE /\ UNCHANGED waiters

-----------------------------------------------------------------------------
(* Starting an operation: change_begin(), change_begin_atomic() and         *)
(* sync_current_delta().  change_begin() takes sb->delta_lock for reading   *)
(* and sync_current_delta() for writing, in the SYNC flusher only.          *)

Invoke(t) ==
    \E k \in Kinds :
        /\ started < MaxOps
        /\ Goto(t, "idle", "lock")
        /\ kind' = [kind EXCEPT ![t] = k]
        /\ started' = started + 1
        /\ ops' = [ops EXCEPT ![t] = @ + 1]
        /\ must' = [must EXCEPT ![t] = UNION {dirty[s] : s \in Slots}]
        /\ UNCHANGED <<early, refVars, stateVars, wakeVars, lockVars, dataVars, ref, want, cdelta,
                       backend>>

LockDelta(t) ==
    /\ Goto(t, "lock", "get")
    /\ IF ~FlusherSync \/ kind[t] = "change_atomic" THEN UNCHANGED lockVars
       ELSE IF kind[t] = "change"
            THEN writer = NULL /\ readers' = readers \union {t} /\ UNCHANGED writer
            ELSE writer = NULL /\ readers = {} /\ writer' = t /\ UNCHANGED readers
    /\ UNCHANGED <<refVars, stateVars, wakeVars, dataVars, opVars, ref, want, cdelta, backend>>

(* delta_get(): read sb->current_delta ... *)
DeltaRead(t) ==
    /\ Goto(t, "get", "inc")
    /\ ref' = [ref EXCEPT ![t] = current_delta]
    /\ UNCHANGED <<refVars, stateVars, wakeVars, lockVars, dataVars, opVars, want, cdelta, backend>>

(* ... then atomic_inc_not_zero() on the slot it was, even if it is no      *)
(* longer current, and retry when that fails.                               *)
DeltaInc(t) ==
    /\ Goto(t, "inc", IF kind[t] \in SyncKinds THEN "mark" ELSE "body")
    /\ refcount[ref[t]] # 0
    /\ refcount' = [refcount EXCEPT ![ref[t]] = @ + 1]
    /\ early' = IF \E u \in Tasks : pc[u] = "dt_num" /\ ref[t] = NextSlot(ref[u])
                THEN early \union {<<t, ops[t]>>} ELSE early
    /\ UNCHANGED <<current_delta, delta_of, unify_flag, next_delta, stateVars, wakeVars,
                   lockVars, dataVars, kind, started, ops, must, ref, want, cdelta, backend>>

DeltaRetry(t) ==
    /\ Goto(t, "inc", "get")
    /\ refcount[ref[t]] = 0
    /\ UNCHANGED <<refVars, stateVars, wakeVars, lockVars, dataVars, opVars, ref, want, cdelta, backend>>

(* Mutant: the change goes to whatever delta is current by now. *)
Change_Current(t) ==
    /\ pc[t] = "body"
    /\ dirty' = [dirty EXCEPT ![tux3_delta(delta_of[current_delta])] = @ \union {<<t, ops[t]>>}]
    /\ UNCHANGED <<refVars, stateVars, wakeVars, lockVars, durable, unified, failed, opVars,
                   pc, ref, want, cdelta, backend>>

(* A change of the operation goes to the dirty lists tux3_get_current_delta() *)
(* selects; an operation makes any number of changes.                         *)
Change(t) ==
    /\ pc[t] = "body"
    /\ dirty' = [dirty EXCEPT ![tux3_delta(delta_of[ref[t]])] = @ \union {<<t, ops[t]>>}]
    /\ UNCHANGED <<refVars, stateVars, wakeVars, lockVars, durable, unified, failed, opVars,
                   pc, ref, want, cdelta, backend>>

(* Mutant: the unify flag the caller asks for is dropped. *)
MarkSync_NoForce(t) ==
    /\ Goto(t, "mark", "put")
    /\ want' = [want EXCEPT ![t] = delta_of[ref[t]]]
    /\ UNCHANGED <<refVars, stateVars, wakeVars, lockVars, dataVars, opVars, ref, cdelta, backend>>

(* sync_current_delta(): set the unify flag of the delta, note its number.  *)
MarkSync(t) ==
    /\ Goto(t, "mark", "put")
    /\ unify_flag' = [unify_flag EXCEPT ![ref[t]] =
                        IF kind[t] = "force_unify" THEN "FORCE_UNIFY" ELSE "NO_UNIFY"]
    /\ want' = [want EXCEPT ![t] = delta_of[ref[t]]]
    /\ UNCHANGED <<current_delta, refcount, delta_of, next_delta, stateVars, wakeVars,
                   lockVars, dataVars, opVars, ref, cdelta, backend>>

(* Where an operation goes on once it has put its reference. *)
AfterPut(t) ==
    CASE kind[t] \in SyncKinds    -> "trans"
      [] kind[t] = "change_atomic" -> "idle"
      [] OTHER                     -> IF FlusherSync THEN "unlock_read" ELSE "need"

(* delta_put(): atomic_dec_and_test(); the one who drops the last reference *)
(* sets PENDING ...                                                         *)
DeltaPut(t) ==
    /\ pc[t] \in {"body", "put"}
    /\ refcount' = [refcount EXCEPT ![ref[t]] = @ - 1]
    /\ pc' = [pc EXCEPT ![t] = IF refcount[ref[t]] = 1 THEN "pend" ELSE AfterPut(t)]
    /\ ref' = [ref EXCEPT ![t] = NULL]
    /\ UNCHANGED <<current_delta, delta_of, unify_flag, next_delta, stateVars, wakeVars,
                   lockVars, dataVars, opVars, want, cdelta, backend>>

SetPending(t) ==
    /\ Goto(t, "pend", "kick")
    /\ pending' = TRUE
    /\ UNCHANGED <<refVars, running, pending_delta, marshal_delta, committed_delta, wakeVars,
                   lockVars, dataVars, opVars, ref, want, cdelta, backend>>

(* ... and wakes the flusher. *)
DeltaKick(t) ==
    /\ Goto(t, "kick", AfterPut(t))
    /\ schedule_flush_delta
    /\ UNCHANGED <<refVars, stateVars, lockVars, dataVars, opVars, ref, want, cdelta, backend>>

-----------------------------------------------------------------------------
(* change_end() after change_end_atomic(). *)

UnlockRead(t) ==
    /\ Goto(t, "unlock_read", "lock_write")
    /\ readers' = readers \ {t}
    /\ UNCHANGED <<refVars, stateVars, wakeVars, writer, dataVars, opVars, ref, want, cdelta, backend>>

LockWrite(t) ==
    /\ Goto(t, "lock_write", "need")
    /\ writer = NULL /\ readers = {}
    /\ writer' = t
    /\ UNCHANGED <<refVars, stateVars, wakeVars, readers, dataVars, opVars, ref, want, cdelta, backend>>

AfterTry == IF FlusherSync THEN "flush_pending" ELSE "idle"

(* need_delta() says yes once in ten calls; try_delta_transition() gives up *)
(* when RUNNING is already set.                                             *)
NoTransition(t) ==
    /\ Goto(t, "need", AfterTry)
    /\ UNCHANGED <<refVars, stateVars, wakeVars, lockVars, dataVars, opVars, ref, want, cdelta, backend>>

(* Mutant: the transition starts even if RUNNING is set. *)
TryTransition_NoTest(t) ==
    /\ Goto(t, "need", "dt_set")
    /\ running' = TRUE
    /\ UNCHANGED <<refVars, pending, pending_delta, marshal_delta, committed_delta, wakeVars,
                   lockVars, dataVars, opVars, ref, want, cdelta, backend>>

TryTransition(t) ==
    /\ ~running
    /\ Goto(t, "need", "dt_set")
    /\ running' = TRUE
    /\ UNCHANGED <<refVars, pending, pending_delta, marshal_delta, committed_delta, wakeVars,
                   lockVars, dataVars, opVars, ref, want, cdelta, backend>>

(* flush_pending_delta() (SYNC): commit if PENDING, then release the lock.  *)
FlushPending(t) ==
    /\ Goto(t, "flush_pending", IF pending THEN "fl_start" ELSE "unlock")
    /\ pending' = FALSE
    /\ UNCHANGED <<refVars, running, pending_delta, marshal_delta, committed_delta, wakeVars,
                   lockVars, dataVars, opVars, ref, want, cdelta, backend>>

UnlockWrite(t) ==
    /\ pc[t] \in {"unlock", "done"}
    /\ pc' = [pc EXCEPT ![t] = "idle"]
    /\ writer' = IF FlusherSync THEN NULL ELSE writer
    /\ UNCHANGED <<refVars, stateVars, wakeVars, readers, dataVars, opVars, ref, want, cdelta, backend>>

-----------------------------------------------------------------------------
(* delta_transition() and __delta_transition(), called with RUNNING set.    *)

(* Mutant: the next slot gets no initial reference. *)
DtSet_NoReference(t) ==
    /\ Goto(t, "dt_set", "dt_num")
    /\ ref' = [ref EXCEPT ![t] = current_delta]
    /\ UNCHANGED <<refVars, stateVars, wakeVars, lockVars, dataVars, opVars, want, cdelta, backend>>

(* The next slot gets its initial reference; ref[t] is "prev". *)
DtSet(t) ==
    /\ Goto(t, "dt_set", "dt_num")
    /\ ref' = [ref EXCEPT ![t] = current_delta]
    /\ refcount' = [refcount EXCEPT ![NextSlot(current_delta)] = 1]
    /\ UNCHANGED <<current_delta, delta_of, unify_flag, next_delta, stateVars, wakeVars,
                   lockVars, dataVars, opVars, want, cdelta, backend>>

(* Number the new delta and publish it as the current one. *)
DtNum(t) ==
    LET next == NextSlot(ref[t]) IN
    /\ Goto(t, "dt_num", "dt_marshal")
    /\ delta_of' = [delta_of EXCEPT ![next] = next_delta]
    /\ next_delta' = next_delta + 1
    /\ unify_flag' = [unify_flag EXCEPT ![next] = "ALLOW_UNIFY"]
    /\ current_delta' = next
    /\ UNCHANGED <<refcount, stateVars, wakeVars, lockVars, dataVars, opVars, ref, want, cdelta, backend>>

(* Mutant: the number of the new delta is marshalled, not of the previous one. *)
DtMarshal_Current(t) ==
    /\ Goto(t, "dt_marshal", "dt_put")
    /\ marshal_delta' = delta_of[current_delta]
    /\ pending_delta' = ref[t]
    /\ UNCHANGED <<refVars, running, pending, committed_delta, wakeVars, lockVars, dataVars,
                   opVars, ref, want, cdelta, backend>>

DtMarshal(t) ==
    /\ Goto(t, "dt_marshal", "dt_put")
    /\ marshal_delta' = delta_of[ref[t]]
    /\ pending_delta' = ref[t]
    /\ UNCHANGED <<refVars, running, pending, committed_delta, wakeVars, lockVars, dataVars,
                   opVars, ref, want, cdelta, backend>>

(* Release the initial reference of the previous delta: delta_put(). *)
DtPut(t) ==
    /\ Goto(t, "dt_put", IF refcount[ref[t]] = 1 THEN "dt_pend" ELSE "dt_wake")
    /\ refcount' = [refcount EXCEPT ![ref[t]] = @ - 1]
    /\ ref' = [ref EXCEPT ![t] = NULL]
    /\ UNCHANGED <<current_delta, delta_of, unify_flag, next_delta, stateVars, wakeVars,
                   lockVars, dataVars, opVars, want, cdelta, backend>>

DtPending(t) ==
    /\ Goto(t, "dt_pend", "dt_kick")
    /\ pending' = TRUE
    /\ UNCHANGED <<refVars, running, pending_delta, marshal_delta, committed_delta, wakeVars,
                   lockVars, dataVars, opVars, ref, want, cdelta, backend>>

DtKick(t) ==
    /\ Goto(t, "dt_kick", "dt_wake")
    /\ schedule_flush_delta
    /\ UNCHANGED <<refVars, stateVars, lockVars, dataVars, opVars, ref, want, cdelta, backend>>

AfterTransition(t) == IF kind[t] \in SyncKinds THEN "trans_ret" ELSE AfterTry

DtWake(t) ==
    /\ Goto(t, "dt_wake", IF FlusherSync THEN "dt_wait" ELSE AfterTransition(t))
    /\ waiters' = {}
    /\ UNCHANGED <<refVars, stateVars, ft_awake, lockVars, dataVars, opVars, ref, want, cdelta, backend>>

-----------------------------------------------------------------------------
(* wait_event(): the task queues itself, evaluates the condition, and       *)
(* sleeps when it is false; wake_up_all() empties the queue.                *)

WaitEvent(t, condition, next, sleep) ==
    IF condition
    THEN waiters' = waiters \ {t} /\ pc' = [pc EXCEPT ![t] = next]
    ELSE waiters' = waiters \union {t} /\ pc' = [pc EXCEPT ![t] = sleep]

(* SYNC only: the end of delta_transition() waits for the last put. *)
DtWait(t) ==
    /\ pc[t] = "dt_wait"
    /\ WaitEvent(t, pending, AfterTransition(t), "dt_sleep")
    /\ UNCHANGED <<refVars, stateVars, ft_awake, lockVars, dataVars, opVars, ref, want, cdelta,
                   backend>>

(* wait_for_transition(): try_delta_transition_until_delta() is the         *)
(* condition, and starts the transition itself when it gets RUNNING.        *)
Transition(t) ==
    /\ pc[t] = "trans"
    /\ WaitEvent(t, delta_after_eq(marshal_delta, want[t]), "commit", "tas")
    /\ UNCHANGED <<refVars, stateVars, ft_awake, lockVars, dataVars, opVars, ref, want, cdelta,
                   backend>>

TestAndSetRunning(t) ==
    /\ Goto(t, "tas", IF running THEN "trans_ret" ELSE "recheck")
    /\ running' = TRUE
    /\ UNCHANGED <<refVars, pending, pending_delta, marshal_delta, committed_delta, wakeVars,
                   lockVars, dataVars, opVars, ref, want, cdelta, backend>>

(* RUNNING is cleared without a wake_up_all() when it was not needed. *)
Recheck(t) ==
    /\ pc[t] = "recheck"
    /\ IF delta_after_eq(marshal_delta, want[t])
       THEN /\ pc' = [pc EXCEPT ![t] = "commit"]
            /\ running' = FALSE
            /\ waiters' = waiters \ {t}
       ELSE pc' = [pc EXCEPT ![t] = "dt_set"] /\ UNCHANGED <<running, waiters>>
    /\ UNCHANGED <<refVars, pending, pending_delta, marshal_delta, committed_delta, ft_awake,
                   lockVars, dataVars, opVars, ref, want, cdelta, backend>>

TransitionReturn(t) ==
    /\ pc[t] = "trans_ret"
    /\ IF delta_after_eq(marshal_delta, want[t])
       THEN waiters' = waiters \ {t} /\ pc' = [pc EXCEPT ![t] = "commit"]
       ELSE UNCHANGED waiters /\ pc' = [pc EXCEPT ![t] = "trans_sleep"]
    /\ UNCHANGED <<refVars, stateVars, ft_awake, lockVars, dataVars, opVars, ref, want, cdelta,
                   backend>>

(* Mutant: waits for the delta to be marshalled, not to be committed. *)
CommitWait_Marshal(t) ==
    /\ pc[t] = "commit"
    /\ WaitEvent(t, delta_after_eq(marshal_delta, want[t]), "done", "commit_sleep")
    /\ UNCHANGED <<refVars, stateVars, ft_awake, lockVars, dataVars, opVars, ref, want, cdelta,
                   backend>>

(* wait_for_commit(): the SYNC flusher commits a pending delta itself. *)
CommitWait(t) ==
    /\ pc[t] = "commit"
    /\ ~(FlusherSync /\ pending /\ ~delta_after_eq(committed_delta, want[t]))
    /\ WaitEvent(t, delta_after_eq(committed_delta, want[t]), "done", "commit_sleep")
    /\ UNCHANGED <<refVars, stateVars, ft_awake, lockVars, dataVars, opVars, ref, want, cdelta,
                   backend>>

CommitFlush(t) ==
    /\ Goto(t, "commit", "fl_start")
    /\ FlusherSync /\ pending /\ ~delta_after_eq(committed_delta, want[t])
    /\ pending' = FALSE
    /\ UNCHANGED <<refVars, running, pending_delta, marshal_delta, committed_delta, wakeVars,
                   lockVars, dataVars, opVars, ref, want, cdelta, backend>>

(* A woken sleeper evaluates its condition again. *)
Resume(t) ==
    /\ pc[t] \in {"dt_sleep", "trans_sleep", "commit_sleep"}
    /\ t \notin waiters
    /\ pc' = [pc EXCEPT ![t] = CASE @ = "dt_sleep"    -> "dt_wait"
                                 [] @ = "trans_sleep" -> "trans"
                                 [] OTHER             -> "commit"]
    /\ UNCHANGED <<refVars, stateVars, wakeVars, lockVars, dataVars, opVars, ref, want, cdelta,
                   backend>>

(* wait_event_killable(): a fatal signal ends the wait with an error.  The  *)
(* userland wait_event_killable() of the SYNC build cannot be interrupted.  *)
Killed(t) ==
    /\ ~FlusherSync
    /\ pc[t] \in {"trans_sleep", "commit_sleep"}
    /\ pc' = [pc EXCEPT ![t] = "idle"]
    /\ waiters' = waiters \ {t}
    /\ UNCHANGED <<refVars, stateVars, ft_awake, lockVars, dataVars, opVars, ref, want, cdelta,
                   backend>>

-----------------------------------------------------------------------------
(* flush_delta(), run by flush_task (ASYNC_OWN) or by the task that found   *)
(* PENDING set (SYNC), with PENDING cleared and RUNNING set.                *)

(* Mutant: RUNNING is cleared when the commit starts. *)
FlushStart_ClearRunning(t) ==
    /\ Goto(t, "fl_start", "fl_commit")
    /\ cdelta' = [cdelta EXCEPT ![t] = marshal_delta]
    /\ running' = FALSE
    /\ pending_delta' = NULL
    /\ backend' = backend \union {t}
    /\ UNCHANGED <<refVars, pending, marshal_delta, committed_delta, wakeVars, lockVars,
                   dataVars, opVars, ref, want>>

(* Read marshal_delta and the unify flag, enter the backend.  do_commit()   *)
(* also unifies when the flag is ALLOW_UNIFY and the log is long.           *)
FlushStart(t) ==
    /\ Goto(t, "fl_start", "fl_commit")
    /\ cdelta' = [cdelta EXCEPT ![t] = marshal_delta]
    /\ unified' = unified \union
          {d \in {marshal_delta} : unify_flag[pending_delta] = "FORCE_UNIFY"}
    /\ pending_delta' = NULL
    /\ backend' = backend \union {t}
    /\ UNCHANGED <<refVars, running, pending, marshal_delta, committed_delta, wakeVars, lockVars,
                   dirty, durable, failed, opVars, ref, want>>

(* stage_delta() .. commit_delta(): all that the delta's dirty lists hold   *)
(* becomes durable with the superblock write; then leave the backend.       *)
Commit(t) ==
    /\ Goto(t, "fl_commit", "fl_post")
    /\ durable' = durable \union dirty[tux3_delta(cdelta[t])]
    /\ backend' = backend \ {t}
    /\ UNCHANGED <<refVars, stateVars, wakeVars, lockVars, dirty, unified, failed, opVars, ref,
                   want, cdelta>>

(* An error of stage_delta() or unify_log() returns at once from            *)
(* do_commit(): nothing is written and tux3_end_backend() is not called.    *)
CommitError(t) ==
    /\ CommitMayFail
    /\ Goto(t, "fl_commit", "fl_done")
    /\ failed' = failed \union dirty[tux3_delta(cdelta[t])]
    /\ UNCHANGED <<refVars, stateVars, wakeVars, lockVars, dirty, durable, unified, opVars, ref,
                   want, cdelta, backend>>

(* do_commit() ignores an error of save_sb() (commit_delta()) and goes on   *)
(* as after a commit, with the previous superblock on disk.                 *)
SuperError(t) ==
    /\ CommitMayFail
    /\ Goto(t, "fl_commit", "fl_post")
    /\ failed' = failed \union dirty[tux3_delta(cdelta[t])]
    /\ backend' = backend \ {t}
    /\ UNCHANGED <<refVars, stateVars, wakeVars, lockVars, dirty, durable, unified, opVars, ref,
                   want, cdelta>>

(* post_commit(): tux3_clear_dirty_inodes(). *)
PostCommit(t) ==
    /\ Goto(t, "fl_post", "fl_done")
    /\ dirty' = [dirty EXCEPT ![tux3_delta(cdelta[t])] = {}]
    /\ UNCHANGED <<refVars, stateVars, wakeVars, lockVars, durable, unified, failed, opVars, ref,
                   want, cdelta, backend>>

(* Mutant: the delta that is current counts as committed. *)
FlushDone_Current(t) ==
    /\ Goto(t, "fl_done", "fl_unlock")
    /\ committed_delta' = next_delta - 1
    /\ UNCHANGED <<refVars, running, pending, pending_delta, marshal_delta, wakeVars, lockVars,
                   dataVars, opVars, ref, want, cdelta, backend>>

(* The delta counts as committed whatever do_commit() returned. *)
FlushDone(t) ==
    /\ Goto(t, "fl_done", "fl_unlock")
    /\ committed_delta' = cdelta[t]
    /\ UNCHANGED <<refVars, running, pending, pending_delta, marshal_delta, wakeVars, lockVars,
                   dataVars, opVars, ref, want, cdelta, backend>>

ClearRunning(t) ==
    /\ Goto(t, "fl_unlock", "fl_wake")
    /\ running' = FALSE
    /\ UNCHANGED <<refVars, pending, pending_delta, marshal_delta, committed_delta, wakeVars,
                   lockVars, dataVars, opVars, ref, want, cdelta, backend>>

(* Where the caller of flush_delta() goes on. *)
AfterFlush(t) ==
    IF t = FlushTask THEN "ft_state" ELSE IF kind[t] \in SyncKinds THEN "commit" ELSE "unlock"

FlushWake(t) ==
    /\ Goto(t, "fl_wake", AfterFlush(t))
    /\ waiters' = {}
    /\ UNCHANGED <<refVars, stateVars, ft_awake, lockVars, dataVars, opVars, ref, want, cdelta,
                   backend>>

-----------------------------------------------------------------------------
(* flush_delta_work(): the loop of flush_task. *)

WorkCheck ==
    /\ Goto(FlushTask, "ft_check", IF pending THEN "fl_start" ELSE "ft_state")
    /\ pending' = FALSE
    /\ UNCHANGED <<refVars, running, pending_delta, marshal_delta, committed_delta, wakeVars,
                   lockVars, dataVars, opVars, ref, want, cdelta, backend>>

WorkState ==
    /\ Goto(FlushTask, "ft_state", "ft_test")
    /\ ft_awake' = FALSE
    /\ UNCHANGED <<refVars, stateVars, waiters, lockVars, dataVars, opVars, ref, want, cdelta,
                   backend>>

(* Mutant: PENDING is not tested again before the flush task sleeps. *)
WorkTest_Sleep ==
    /\ Goto(FlushTask, "ft_test", "ft_sleep")
    /\ UNCHANGED <<refVars, stateVars, wakeVars, lockVars, dataVars, opVars, ref, want, cdelta,
                   backend>>

WorkTest ==
    /\ Goto(FlushTask, "ft_test", IF pending THEN "ft_check" ELSE "ft_sleep")
    /\ ft_awake' = (ft_awake \/ pending)
    /\ UNCHANGED <<refVars, stateVars, waiters, lockVars, dataVars, opVars, ref, want, cdelta,
                   backend>>

WorkWoken ==
    /\ Goto(FlushTask, "ft_sleep", "ft_check")
    /\ ft_awake
    /\ UNCHANGED <<refVars, stateVars, wakeVars, lockVars, dataVars, opVars, ref, want, cdelta,
                   backend>>

FlushWork == ~FlusherSync /\ (WorkCheck \/ WorkState \/ WorkTest \/ WorkWoken)

-----------------------------------------------------------------------------
GetStep(t)    == DeltaRead(t) \/ DeltaInc(t) \/ DeltaRetry(t)
PutStep(t)    == DeltaPut(t) \/ SetPending(t) \/ DeltaKick(t)
EndStep(t)    == UnlockRead(t) \/ NoTransition(t) \/ TryTransition(t) \/ FlushPending(t)
                 \/ UnlockWrite(t)
TransStep(t)  == DtSet(t) \/ DtNum(t) \/ DtMarshal(t) \/ DtPut(t) \/ DtPending(t)
                 \/ DtKick(t) \/ DtWake(t) \/ DtWait(t)
SyncStep(t)   == MarkSync(t) \/ Transition(t) \/ TestAndSetRunning(t) \/ Recheck(t)
                 \/ TransitionReturn(t) \/ CommitWait(t) \/ CommitFlush(t) \/ Resume(t)
FlushStep(t)  == FlushStart(t) \/ Commit(t) \/ CommitError(t) \/ SuperError(t) \/ PostCommit(t)
                 \/ FlushDone(t) \/ ClearRunning(t) \/ FlushWake(t)
LockStep(t)   == LockDelta(t) \/ LockWrite(t)

Next ==
    \/ \E t \in Tasks : \/ Invoke(t) \/ Change(t) \/ Killed(t)
                       \/ LockStep(t) \/ GetStep(t) \/ PutStep(t) \/ EndStep(t)
                       \/ TransStep(t) \/ SyncStep(t)
    \/ \E t \in Threads : FlushStep(t)
    \/ FlushWork

(* A thread that can take a step of its own takes one: the scheduler runs   *)
(* it.  delta_lock is a fair rw_semaphore: who waits for it gets it.  No    *)
(* task has to start an operation, make a change or be killed.              *)
Fairness ==
    /\ \A t \in Tasks : /\ WF_vars(GetStep(t)) /\ WF_vars(PutStep(t)) /\ WF_vars(EndStep(t))
                        /\ WF_vars(TransStep(t)) /\ WF_vars(SyncStep(t))
                        /\ SF_vars(LockStep(t))
    /\ \A t \in Threads : WF_vars(FlushStep(t))
    /\ WF_vars(FlushWork)

Spec     == Init /\ [][Next]_vars
FairSpec == Spec /\ Fairness

-----------------------------------------------------------------------------
(* Properties. *)

(* A task holds a reference between delta_get() and delta_put(). *)
HoldPCs == {"body", "mark", "put"}
Holders(s) == {t \in Tasks : pc[t] \in HoldPCs /\ ref[t] = s}

(* The slot whose initial reference __delta_transition() has set and        *)
(* delta_transition() has not released yet.                                 *)
Initial(s) ==
    \/ s = current_delta
    \/ \E t \in Tasks : (pc[t] = "dt_num" /\ s = NextSlot(ref[t]))
                    \/ (pc[t] \in {"dt_marshal", "dt_put"} /\ s = ref[t])

(* delta_get(), delta_put() and the transition never lose or duplicate a    *)
(* reference: a slot's refcount is the number of tasks inside a change of   *)
(* it, plus the initial reference.                                          *)
RefcountAccounts ==
    \A s \in Slots : refcount[s] = Cardinality(Holders(s)) + IF Initial(s) THEN 1 ELSE 0

(* "assert(atomic_read(&delta_ref->refcount) == 0)" of __delta_transition():*)
(* the slot a transition is about to reuse has no user left, however late   *)
(* the tasks that read current_delta before the last transition are.        *)
NextSlotFree ==
    \A t \in Tasks : pc[t] = "dt_set" => refcount[NextSlot(current_delta)] = 0

(* "further changes of frontend belong to the next delta": while do_commit()*)
(* writes a delta, no task is inside a change that belongs to it, and no    *)
(* other thread commits.                                                    *)
BackendExclusive ==
    \A t \in Threads : pc[t] \in {"fl_commit", "fl_post"} =>
        /\ \A u \in Tasks : pc[u] \in HoldPCs =>
               tux3_delta(delta_of[ref[u]]) # tux3_delta(cdelta[t])
        /\ \A u \in Threads \ {t} : pc[u] \notin FlushPCs \ {"fl_wake"}

(* change_begin() .. change_end() is atomic: its changes are never spread   *)
(* over two deltas, and no part of it is durable while it still runs.       *)
OperationAtomic ==
    \A t \in Tasks : LET op == <<t, ops[t]>> IN
        /\ ~ \A s \in Slots : op \in dirty[s]
        /\ pc[t] = "body" => op \notin durable

(* Deltas become durable in order: once a task's last operation is durable, *)
(* so is every operation that had made a change before it began, unless     *)
(* that one joined the next delta before it became current.                 *)
DurableInOrder ==
    \A t \in Tasks : <<t, ops[t]>> \in durable => must[t] \subseteq durable \union early

(* sync_current_delta() "Wait until committing the current delta": when     *)
(* force_delta() or force_unify() returns without an error, everything that *)
(* had been changed when it was called is durable.                          *)
SyncDurable ==
    \A t \in Tasks : pc[t] = "done" => must[t] \subseteq durable

(* The same for the operations that took their reference while their delta  *)
(* was the current one, but for those a commit has failed to write.         *)
SyncDurableCurrent ==
    \A t \in Tasks : pc[t] = "done" => must[t] \subseteq durable \union early \union failed

(* A force_unify() that returns has seen its delta committed with the log   *)
(* unified.                                                                 *)
UnifyForced ==
    \A t \in Tasks : (pc[t] = "done" /\ kind[t] = "force_unify") => want[t] \in unified

(* Deltas are committed one by one, none skipped and none committed twice.  *)
CommittedInSequence ==
    [][committed_delta' # committed_delta => committed_delta' = committed_delta + 1]_vars

(* Every delta a transition has closed is committed in the end. *)
MarshalledCommitted ==
    \A t \in Tasks : pc[t] = "dt_put" ~> committed_delta = marshal_delta

(* Every force_delta() and force_unify() returns. *)
SyncCompletes ==
    \A t \in Tasks : pc[t] = "trans" ~> pc[t] \in {"done", "idle"}
=============================================================================
