---------------------------- MODULE ActiveDispatch ----------------------------
(***************************************************************************)
(* The dispatches of one task and the processes that carry them out:       *)
(* scripts/workflow_orchestrator.py (start_dispatch_cycle, the finalizer,  *)
(* run_bounded_dispatch_retry, recover_owner_lost_dispatch),               *)
(* scripts/dispatch_supervisor_runner.py and                               *)
(* scripts/dispatch_supervisor_evidence.py.                                *)
(*                                                                         *)
(* An Orchestrator process reserves a receipt for a dispatch, applies      *)
(* TASK_DISPATCHED, starts a supervisor process and reads its pipe.  The   *)
(* supervisor records itself in the receipt, starts the worker process,    *)
(* records it, waits for it and reports.  The Orchestrator acknowledges,   *)
(* keeps a heartbeat, and in the end one of completion, heartbeat failure, *)
(* cancellation, supersession and outer cancellation wins the finalizer.   *)
(* When an Orchestrator has died, another one may declare its dispatch     *)
(* failed from what the receipt says of the processes, reserve a retry and *)
(* start it.  Any process can die between any two steps.                   *)
(*                                                                         *)
(* A change of the ledger is one step here (ControlPlaneTransition has the *)
(* writes), except that a recovery holds the state lock while it reads and *)
(* probes.  It may be refused whenever it is asked for: for lack of the    *)
(* lock, of the slot or of an approval, for a moved HEAD.  A write of a    *)
(* receipt is one step too, and may fail whenever it is tried: the lock    *)
(* file of the store is the whole project's, is tried once, and stays when *)
(* its holder dies.  A dispatch id is reserved once, so that it stands for *)
(* the generation id that reserve_receipt is given with it.                *)
(***************************************************************************)
EXTENDS Naturals, Sequences, FiniteSets

CONSTANTS
  Orchestrators,   \* the Orchestrator processes
  Dispatches,      \* the dispatch ids
  MaxAttempt,      \* the last attempt of a retry plan, and bound of the others
  Platforms,       \* the platforms that are looked at
  NoDispatch,      \* no dispatch
  NoOrchestrator,  \* nobody
  Free             \* nobody holds the state lock

ASSUME ConstantsAssumption ==
  /\ MaxAttempt \in Nat
  /\ Platforms \subseteq {"posix", "win32"}
  /\ NoDispatch \notin Dispatches
  /\ NoOrchestrator \notin Orchestrators
  /\ Free \notin Orchestrators

\* DispatchReceiptPhase and OwnerLossRetryPhase; ABSENT: there is no file.
Phases == {"ABSENT", "RESERVED", "SUPERVISOR_READY", "WORKER_STARTED",
           "FINALIZING", "FINALIZED"}
RetryPhases == {"ABSENT", "RETRY_RESERVED", "RETRY_STARTED",
                "RETRY_FINALIZING", "RETRY_FINALIZED"}

\* The phases in which the receipt names the worker process.
NamesWorker == {"WORKER_STARTED", "FINALIZING", "FINALIZED"}

\* The phases in which an owner loss is considered.
Recoverable == {"SUPERVISOR_READY", "WORKER_STARTED"}

EventTypes == {"TASK_DISPATCHED", "DISPATCH_ACKNOWLEDGED",
               "DELIVERY_SUBMITTED", "DISPATCH_FAILED", "TASK_CANCELLED",
               "TASK_SUPERSEDED"}

\* The winners that a caller or the heartbeat can make at any time.
Interruptions == {"heartbeat", "outer_cancellation"}
Terminations == {"cancellation", "supersession"}
Winners == {"none", "completion"} \cup Interruptions \cup Terminations

VARIABLES
  platform,    \* os.name
  task,        \* state, attempt and current_dispatch of the task
  events,      \* the types of the committed events of each dispatch
  recovered,   \* the dispatches whose DISPATCH_FAILED is a recovery's
  receipts,    \* the DispatchProcessReceipt of each dispatch
  tombstones,  \* the dispatches that have a DispatchFinalizerTombstone
  retries,     \* the OwnerLossRetryReceipt of each next dispatch
  stateLock,   \* who holds the lock of the ledger over several steps
  orch,        \* what each Orchestrator process is doing
  sup,         \* what the supervisor of each dispatch is doing
  worker,      \* the worker process of each dispatch
  pipe         \* the frames that are still to be read

ledger == <<task, events, recovered>>
evidence == <<receipts, tombstones, retries>>
processes == <<sup, worker, pipe>>
vars == <<platform, ledger, evidence, stateLock, orch, processes>>

\* In a recovery, `dispatch' is the dispatch that was lost, `saw' the phase of
\* its receipt as it was read under the lock.  `lifecycle' is the dispatch of
\* the _OwnerLossRetryLifecycle that is handed to every attempt of the plan.
Idle == [pc |-> "idle", dispatch |-> NoDispatch, attempt |-> 0,
         lifecycle |-> NoDispatch, saw |-> "ABSENT", outcome |-> "none",
         winner |-> "none", error |-> "none", released |-> FALSE]

Dead == [Idle EXCEPT !.pc = "dead"]

\* DispatchCycleRequest: the requests of a cycle are of one dispatch and one
\* attempt.
Cycle(d, attempt, lifecycle) ==
  [Idle EXCEPT !.pc = "starting", !.dispatch = d, !.attempt = attempt,
               !.lifecycle = lifecycle]

\* BoundedDispatchRetryRequest: the attempts of a plan are consecutive, at most
\* MaxAttempt, and no two have the same dispatch id.
MayFollow(d, last, attempt) == d # last /\ attempt < MaxAttempt

\* OwnerLossRecoveryRequest: it names the dispatch that was lost.
Recovery(d) == [Idle EXCEPT !.pc = "recovering", !.dispatch = d]

\* OwnerLossRetryReceipt, as it is reserved.
RetryReserved(lost) == [phase |-> "RETRY_RESERVED", failed |-> lost]

Init ==
  /\ platform \in Platforms
  /\ task = [state |-> "ready", attempt |-> 0, dispatch |-> NoDispatch]
  /\ events = [d \in Dispatches |-> {}]
  /\ recovered = {}
  /\ receipts = [d \in Dispatches |->
                   [phase |-> "ABSENT", attempt |-> 0,
                    creator |-> NoOrchestrator]]
  /\ tombstones = {}
  /\ retries = [d \in Dispatches |->
                  [phase |-> "ABSENT", failed |-> NoDispatch]]
  /\ stateLock = Free
  /\ orch = [p \in Orchestrators |-> Idle]
  /\ sup = [d \in Dispatches |-> "none"]
  /\ worker = [d \in Dispatches |-> "none"]
  /\ pipe = [d \in Dispatches |-> <<>>]

Goto(p, pc) == orch' = [orch EXCEPT ![p].pc = pc]

\* The call of p returns or raises.
Return(p) == orch' = [orch EXCEPT ![p] = Idle]

\* _enforce_transition and _write_receipt.
Advance(d, from, to) ==
  /\ receipts[d].phase = from
  /\ receipts' = [receipts EXCEPT ![d].phase = to]

\* _enforce_retry_transition, of the receipt that is reserved for l.
AdvanceRetry(l, from, to) ==
  /\ retries[l].phase = from
  /\ retries' = [retries EXCEPT ![l].phase = to]

\* apply_transition for an event that carries d in its DispatchCAS.
Transition(d, type, from, to) ==
  /\ stateLock = Free
  /\ task.dispatch = d
  /\ task.attempt = receipts[d].attempt
  /\ task.state \in from
  /\ task' = [task EXCEPT
       !.state = to,
       !.dispatch = IF type \in {"DISPATCH_ACKNOWLEDGED",
                                 "DELIVERY_SUBMITTED"}
                      THEN d ELSE NoDispatch]
  /\ events' = [events EXCEPT ![d] = @ \cup {type}]

\* The supervisor's process ends.  On Windows the job object goes with it and
\* the system ends the worker; on POSIX the worker has a session of its own.
SupervisorEnds(d) ==
  /\ sup' = [sup EXCEPT ![d] = "exited"]
  /\ worker' = [worker EXCEPT ![d] =
       IF platform = "win32" /\ @ = "running" THEN "over" ELSE @]

\* run_supervised_dispatch is cancelled: proc.terminate(), and wait.
Terminate(d) ==
  IF sup[d] \in {"none", "exited"} THEN UNCHANGED <<sup, worker>>
                                   ELSE SupervisorEnds(d)

\* Mutated form of TerminateAndGo: the worker task is cancelled, its process
\* is not.
TerminateNothing(d) == UNCHANGED <<sup, worker>>

\* The same when a caller cancels or supersedes: it cancels the worker task, and
\* the finalizer cancels it again, which ends the wait for the supervisor.
TerminateAndGo(d) ==
  /\ sup' = [sup EXCEPT ![d] =
               IF @ \in {"none", "exited"} THEN @ ELSE "terminated"]
  /\ UNCHANGED worker

\* The pipe has ended: no frame is left and none can come.
Ended(d) == pipe[d] = <<>> /\ sup[d] = "exited"
-----------------------------------------------------------------------------
(* start_dispatch_cycle *)

\* A caller asks for a cycle with a dispatch id that it has made up.
Plan(p, d) ==
  /\ orch[p] = Idle
  /\ task.attempt < MaxAttempt
  /\ receipts[d].phase = "ABSENT"
  /\ retries[d].phase = "ABSENT"
  /\ orch' = [orch EXCEPT ![p] = Cycle(d, task.attempt + 1, NoDispatch)]
  /\ UNCHANGED <<platform, ledger, evidence, stateLock, processes>>

\* The slot is acquired and the receipt reserved.
Reserve(p) ==
  LET d == orch[p].dispatch IN
  /\ orch[p].pc = "starting"
  /\ task.state = "ready"
  /\ receipts[d].phase = "ABSENT"
  /\ receipts' = [receipts EXCEPT ![d] =
       [phase |-> "RESERVED", attempt |-> orch[p].attempt, creator |-> p]]
  /\ Goto(p, "reserved")
  /\ UNCHANGED <<platform, ledger, tombstones, retries, stateLock, processes>>

\* TASK_DISPATCHED, with the attempt of the request.
ApplyDispatch(p) ==
  LET d == orch[p].dispatch IN
  /\ orch[p].pc = "reserved"
  /\ stateLock = Free
  /\ task.state = "ready"
  /\ orch[p].attempt = task.attempt + 1
  /\ task' = [state |-> "dispatched", attempt |-> orch[p].attempt,
              dispatch |-> d]
  /\ events' = [events EXCEPT ![d] = {"TASK_DISPATCHED"}]
  /\ Goto(p, "dispatched")
  /\ UNCHANGED <<platform, recovered, evidence, stateLock, processes>>

StartSupervisor(p) ==
  /\ orch[p].pc = "dispatched"
  /\ sup' = [sup EXCEPT ![orch[p].dispatch] = "starting"]
  /\ Goto(p, "awaiting")
  /\ UNCHANGED <<platform, ledger, evidence, stateLock, worker, pipe>>

\* The frame worker_started: _AckObserver applies DISPATCH_ACKNOWLEDGED.
Acknowledge(p) ==
  LET d == orch[p].dispatch IN
  /\ orch[p].pc = "awaiting"
  /\ pipe[d] # <<>>
  /\ Head(pipe[d]) = "worker_started"
  /\ Transition(d, "DISPATCH_ACKNOWLEDGED", {"dispatched"}, "in_progress")
  /\ pipe' = [pipe EXCEPT ![d] = Tail(@)]
  /\ Goto(p, "acknowledged")
  /\ UNCHANGED <<platform, recovered, evidence, stateLock, sup, worker>>

\* Mutated form of WorkerTaskFails: the end of the pipe is not noticed.
WorkerTaskWaits(p) ==
  LET d == orch[p].dispatch IN
  /\ orch[p].pc = "awaiting"
  /\ pipe[d] # <<>>
  /\ pipe' = [pipe EXCEPT ![d] = <<>>]
  /\ orch' = [orch EXCEPT ![p].pc = "cleanup", ![p].outcome = "error"]
  /\ UNCHANGED <<platform, ledger, evidence, stateLock, sup, worker>>

\* The acknowledgement is refused, the launch has failed or the pipe ends: an
\* exception that is no cancellation, which leaves the supervisor alone.
WorkerTaskFails(p) ==
  LET d == orch[p].dispatch IN
  /\ orch[p].pc = "awaiting"
  /\ pipe[d] # <<>> \/ Ended(d)
  /\ pipe' = [pipe EXCEPT ![d] = <<>>]
  /\ orch' = [orch EXCEPT ![p].pc = "cleanup", ![p].outcome = "error"]
  /\ UNCHANGED <<platform, ledger, evidence, stateLock, sup, worker>>

\* RETRY_STARTED, when the cycle is part of an owner-loss retry: the receipt
\* that is compared with the identity of the cycle is that of `lifecycle'.
StartRetry(p) ==
  LET l == orch[p].lifecycle IN
  \/ l = NoDispatch /\ UNCHANGED retries
  \/ /\ l = orch[p].dispatch
     /\ receipts[l].phase \in NamesWorker
     /\ AdvanceRetry(l, "RETRY_RESERVED", "RETRY_STARTED")

BecomeActive(p) ==
  /\ orch[p].pc = "acknowledged"
  /\ StartRetry(p)
  /\ Goto(p, "active")
  /\ UNCHANGED <<platform, ledger, receipts, tombstones, stateLock, processes>>

\* Any other failure between the reservation and the active execution, and
\* the cancellation of the caller while it waits for the acknowledgement.
StartFails(p) ==
  /\ orch[p].pc \in {"reserved", "dispatched", "acknowledged"}
  /\ Goto(p, "cleanup")
  /\ UNCHANGED <<platform, ledger, evidence, stateLock, processes>>

CallerCancels(p) ==
  /\ orch[p].pc = "awaiting"
  /\ Goto(p, "cleanup")
  /\ UNCHANGED <<platform, ledger, evidence, stateLock, processes>>

\* _cleanup_failed_start: cancels the worker task unless it is done, releases
\* the slot and raises.  The ledger stays as it is.
CleanUp(p) ==
  LET d == orch[p].dispatch IN
  /\ orch[p].pc = "cleanup"
  /\ IF orch[p].outcome = "none" THEN Terminate(d)
                                 ELSE UNCHANGED <<sup, worker>>
  /\ pipe' = [pipe EXCEPT ![d] = <<>>]
  /\ Return(p)
  /\ UNCHANGED <<platform, ledger, evidence, stateLock>>
-----------------------------------------------------------------------------
(* The active execution and its finalizer *)

\* The worker task ends: with the result frame, which may be a line too long
\* for the reader, or with the end of the pipe.
ReadResult(p) ==
  LET d == orch[p].dispatch IN
  /\ orch[p].pc = "active"
  /\ orch[p].outcome = "none"
  /\ pipe[d] # <<>> \/ Ended(d)
  /\ \E o \in {"ok", "error"} :
       /\ o = "ok" => pipe[d] = <<"ok">>
       /\ orch' = [orch EXCEPT ![p].outcome = o]
  /\ pipe' = [pipe EXCEPT ![d] = <<>>]
  /\ UNCHANGED <<platform, ledger, evidence, stateLock, sup, worker>>

\* _run_active_dispatch: the worker task is done and nobody came first.
Complete(p) ==
  /\ orch[p].pc = "active"
  /\ orch[p].outcome # "none"
  /\ orch' = [orch EXCEPT ![p].pc = "delivering", ![p].winner = "completion"]
  /\ UNCHANGED <<platform, ledger, evidence, stateLock, processes>>

\* A failed heartbeat, cancel_active_dispatch, supersede_active_dispatch or
\* _abort_active_dispatch comes first.
Interrupt(p) ==
  /\ orch[p].pc = "active"
  /\ \E w \in Interruptions \cup Terminations :
       /\ w \in Terminations => orch[p].outcome = "none"
       /\ orch' = [orch EXCEPT ![p].pc = "stopping", ![p].winner = w]
  /\ UNCHANGED <<platform, ledger, evidence, stateLock, processes>>

\* The worker task is cancelled and awaited.  Its CancelledError is taken as
\* the confirmation that the worker is over.
Stop(p) ==
  LET d == orch[p].dispatch IN
  /\ orch[p].pc = "stopping"
  /\ \/ orch[p].outcome # "none" /\ UNCHANGED <<sup, worker>>
     \/ /\ orch[p].outcome = "none"
        /\ IF orch[p].winner \in Terminations THEN TerminateAndGo(d)
                                              ELSE Terminate(d)
  /\ pipe' = [pipe EXCEPT ![d] = <<>>]
  /\ orch' = [orch EXCEPT
       ![p].pc = "releasing",
       ![p].error = IF orch[p].winner = "heartbeat" THEN "other" ELSE @]
  /\ UNCHANGED <<platform, ledger, evidence, stateLock>>

Deliver(p) ==
  LET d == orch[p].dispatch IN
  /\ orch[p].pc = "delivering"
  /\ orch[p].outcome = "ok"
  /\ Transition(d, "DELIVERY_SUBMITTED", {"in_progress"}, "review_ready")
  /\ Goto(p, "releasing")
  /\ UNCHANGED <<platform, recovered, evidence, stateLock, processes>>

\* WORKER_FAILED, WORKER_OUTPUT_FAILED or DELIVERY_TRANSITION_FAILED.
DeliveryFails(p) ==
  /\ orch[p].pc = "delivering"
  /\ orch' = [orch EXCEPT ![p].pc = "releasing", ![p].error = "classified"]
  /\ UNCHANGED <<platform, ledger, evidence, stateLock, processes>>

\* The heartbeat is stopped, and a failure of it that is seen now comes before
\* every other error; then the slot is released, or the release fails.
Release(p) ==
  /\ orch[p].pc = "releasing"
  /\ \E beats, released \in BOOLEAN :
       LET error == IF beats THEN orch[p].error ELSE "other" IN
       orch' = [orch EXCEPT
         ![p].pc = "closing",
         ![p].released = released,
         ![p].error = IF error = "none" /\ ~released THEN "other" ELSE error]
  /\ UNCHANGED <<platform, ledger, evidence, stateLock, processes>>

MayClose(p) ==
  /\ orch[p].winner \in Terminations
  /\ orch[p].error = "none"
  /\ orch[p].released

\* The request of the winner is for the dispatch of the execution's handle:
\* any other is refused before something is stopped.
CloseAs(d, winner) ==
  IF winner = "cancellation"
    THEN Transition(d, "TASK_CANCELLED", {"dispatched", "in_progress"},
                    "cancelled")
    ELSE Transition(d, "TASK_SUPERSEDED", {"dispatched", "in_progress"},
                    "superseded")

\* TASK_CANCELLED or TASK_SUPERSEDED.
Close(p) ==
  /\ orch[p].pc = "closing"
  /\ MayClose(p)
  /\ CloseAs(orch[p].dispatch, orch[p].winner)
  /\ Goto(p, "retiring")
  /\ UNCHANGED <<platform, recovered, evidence, stateLock, processes>>

\* Nothing to close, or the transition is refused.
CloseNot(p) ==
  /\ orch[p].pc = "closing"
  /\ orch' = [orch EXCEPT
       ![p].pc = "retiring",
       ![p].error = IF MayClose(p) THEN "other" ELSE @]
  /\ UNCHANGED <<platform, ledger, evidence, stateLock, processes>>
-----------------------------------------------------------------------------
(* The evidence of the end, and the retry *)

\* Mutated form of RetryFinalizing: whoever won.
RetryFinalizingAnyWinner(p) ==
  LET l == orch[p].lifecycle IN
  /\ orch[p].pc = "retiring"
  /\ \/ /\ l # NoDispatch
        /\ orch[p].released
        /\ AdvanceRetry(l, "RETRY_STARTED", "RETRY_FINALIZING")
     \/ UNCHANGED retries
  /\ Goto(p, "tombstone")
  /\ UNCHANGED <<platform, ledger, receipts, tombstones, stateLock, processes>>

\* RETRY_FINALIZING, if a retry was completed.  A refusal is swallowed here
\* and in the next three.
RetryFinalizing(p) ==
  LET l == orch[p].lifecycle IN
  /\ orch[p].pc = "retiring"
  /\ \/ /\ l # NoDispatch
        /\ orch[p].released
        /\ orch[p].winner = "completion"
        /\ AdvanceRetry(l, "RETRY_STARTED", "RETRY_FINALIZING")
     \/ UNCHANGED retries
  /\ Goto(p, "tombstone")
  /\ UNCHANGED <<platform, ledger, receipts, tombstones, stateLock, processes>>

\* Mutated form of WriteTombstone: the phase of the receipt is not looked at.
WriteTombstoneAny(p) ==
  LET d == orch[p].dispatch IN
  /\ orch[p].pc = "tombstone"
  /\ orch[p].released
  /\ d \notin tombstones
  /\ tombstones' = tombstones \cup {d}
  /\ Goto(p, "advance")
  /\ UNCHANGED <<platform, ledger, receipts, retries, stateLock, processes>>

\* write_finalizer_tombstone: the tombstone first, then the receipt.
WriteTombstone(p) ==
  LET d == orch[p].dispatch IN
  /\ orch[p].pc = "tombstone"
  /\ orch[p].released
  /\ receipts[d].phase = "FINALIZING"
  /\ d \notin tombstones
  /\ tombstones' = tombstones \cup {d}
  /\ Goto(p, "advance")
  /\ UNCHANGED <<platform, ledger, receipts, retries, stateLock, processes>>

FinishReceipt(p) ==
  /\ orch[p].pc = "advance"
  /\ Advance(orch[p].dispatch, "FINALIZING", "FINALIZED")
  /\ Goto(p, "retry_finalized")
  /\ UNCHANGED <<platform, ledger, tombstones, retries, stateLock, processes>>

NoTombstone(p) ==
  /\ orch[p].pc \in {"tombstone", "advance"}
  /\ Goto(p, "retry_finalized")
  /\ UNCHANGED <<platform, ledger, evidence, stateLock, processes>>

\* RETRY_FINALIZED.
RetryFinalized(p) ==
  LET l == orch[p].lifecycle IN
  /\ orch[p].pc = "retry_finalized"
  /\ \/ /\ l # NoDispatch
        /\ orch[p].released
        /\ AdvanceRetry(l, "RETRY_FINALIZING", "RETRY_FINALIZED")
     \/ UNCHANGED retries
  /\ Goto(p, "published")
  /\ UNCHANGED <<platform, ledger, receipts, tombstones, stateLock, processes>>

\* The completion is published to a caller that has no retry plan, that gives
\* up on the metadata, or that has the result.
Publish(p) ==
  /\ orch[p].pc = "published"
  /\ Return(p)
  /\ UNCHANGED <<platform, ledger, evidence, stateLock, processes>>

\* run_bounded_dispatch_retry: a classified failure is DISPATCH_FAILED, and
\* the plan goes on with its next attempt and with the same lifecycle.
FailAndRetry(p) ==
  LET me == orch[p] IN
  /\ me.pc = "published"
  /\ me.error = "classified"
  /\ me.released
  /\ me.winner = "completion"
  /\ Transition(me.dispatch, "DISPATCH_FAILED", {"in_progress"}, "ready")
  /\ \/ Return(p)
     \/ \E d \in Dispatches :
          /\ MayFollow(d, me.dispatch, me.attempt)
          /\ receipts[d].phase = "ABSENT"
          /\ retries[d].phase = "ABSENT"
          /\ orch' = [orch EXCEPT ![p] =
               Cycle(d, me.attempt + 1, me.lifecycle)]
  /\ UNCHANGED <<platform, recovered, evidence, stateLock, processes>>
-----------------------------------------------------------------------------
(* The supervisor *)

CreatorLives(d) == orch[receipts[d].creator].pc # "dead"

\* _emit, to a creator that lives: it may have stopped to read.
Emit(d, frame) ==
  LET creator == orch[receipts[d].creator] IN
  pipe' = [pipe EXCEPT ![d] =
    IF creator.dispatch = d /\ creator.pc \in {"awaiting", "acknowledged", "active"}
      THEN Append(@, frame) ELSE @]

\* SUPERVISOR_READY ...
Ready(d) ==
  /\ sup[d] = "starting"
  /\ Advance(d, "RESERVED", "SUPERVISOR_READY")
  /\ sup' = [sup EXCEPT ![d] = "ready"]
  /\ UNCHANGED <<platform, ledger, tombstones, retries, stateLock, orch,
                 worker, pipe>>

\* ... and the frame that says so, which nobody acts upon.
Announce(d) ==
  /\ sup[d] = "ready"
  /\ CreatorLives(d)
  /\ sup' = [sup EXCEPT ![d] = "announced"]
  /\ UNCHANGED <<platform, ledger, evidence, stateLock, orch, worker, pipe>>

\* The receipt cannot be written, or the pipe is broken.
ReadyFails(d) ==
  /\ sup[d] \in {"starting", "ready"}
  /\ SupervisorEnds(d)
  /\ UNCHANGED <<platform, ledger, evidence, stateLock, orch, pipe>>

\* run_dispatch_from_invocation starts the worker.
Spawn(d) ==
  /\ sup[d] = "announced"
  /\ sup' = [sup EXCEPT ![d] = "spawned"]
  /\ worker' = [worker EXCEPT ![d] = "running"]
  /\ UNCHANGED <<platform, ledger, evidence, stateLock, orch, pipe>>

LaunchFails(d) ==
  /\ sup[d] = "announced"
  /\ SupervisorEnds(d)
  /\ IF CreatorLives(d) THEN Emit(d, "error") ELSE UNCHANGED pipe
  /\ UNCHANGED <<platform, ledger, evidence, stateLock, orch>>

\* Mutated form of Record: the frame comes before the receipt.
RecordLater(d) ==
  /\ sup[d] = "spawned"
  /\ CreatorLives(d)
  /\ Emit(d, "worker_started")
  /\ sup' = [sup EXCEPT ![d] = "watching"]
  /\ UNCHANGED <<platform, ledger, evidence, stateLock, orch, worker>>

\* _on_worker_started: WORKER_STARTED, then the frame.
Record(d) ==
  /\ sup[d] = "spawned"
  /\ CreatorLives(d)
  /\ Advance(d, "SUPERVISOR_READY", "WORKER_STARTED")
  /\ Emit(d, "worker_started")
  /\ sup' = [sup EXCEPT ![d] = "watching"]
  /\ UNCHANGED <<platform, ledger, tombstones, retries, stateLock, orch,
                 worker>>

\* One of the two fails: no handler of the runner catches that, and it ends
\* without the worker.
RecordFails(d) ==
  /\ sup[d] = "spawned"
  /\ Advance(d, "SUPERVISOR_READY", "WORKER_STARTED") \/ UNCHANGED receipts
  /\ SupervisorEnds(d)
  /\ UNCHANGED <<platform, ledger, tombstones, retries, stateLock, orch, pipe>>

\* The worker's process ends by itself, or is ended from outside.
WorkerEnds(d) ==
  /\ worker[d] = "running"
  /\ worker' = [worker EXCEPT ![d] = "over"]
  /\ UNCHANGED <<platform, ledger, evidence, stateLock, orch, sup, pipe>>

\* communicate() returns.
Watch(d) ==
  /\ sup[d] = "watching"
  /\ worker[d] = "over"
  /\ \E o \in {"succeeded", "failed"} : sup' = [sup EXCEPT ![d] = o]
  /\ UNCHANGED <<platform, ledger, evidence, stateLock, orch, worker, pipe>>

\* The time is over: the worker is terminated.
Timeout(d) ==
  /\ sup[d] = "watching"
  /\ worker[d] = "running"
  /\ worker' = [worker EXCEPT ![d] = "over"]
  /\ sup' = [sup EXCEPT ![d] = "failed"]
  /\ UNCHANGED <<platform, ledger, evidence, stateLock, orch, pipe>>

\* FINALIZING, then the result frame.
Finish(d) ==
  /\ sup[d] \in {"succeeded", "failed"}
  /\ CreatorLives(d)
  /\ Advance(d, "WORKER_STARTED", "FINALIZING")
  /\ Emit(d, IF sup[d] = "succeeded" THEN "ok" ELSE "error")
  /\ SupervisorEnds(d)
  /\ UNCHANGED <<platform, ledger, tombstones, retries, stateLock, orch>>

FinishFails(d) ==
  /\ sup[d] \in {"succeeded", "failed"}
  /\ Advance(d, "WORKER_STARTED", "FINALIZING") \/ UNCHANGED receipts
  /\ SupervisorEnds(d)
  /\ UNCHANGED <<platform, ledger, tombstones, retries, stateLock, orch, pipe>>

\* The signal arrives; a write that had begun may still be carried out.
EndTerminated(d) ==
  /\ sup[d] = "terminated"
  /\ \/ UNCHANGED receipts
     \/ worker[d] = "over" /\ Advance(d, "WORKER_STARTED", "FINALIZING")
  /\ SupervisorEnds(d)
  /\ UNCHANGED <<platform, ledger, tombstones, retries, stateLock, orch, pipe>>

SupervisorDies(d) ==
  /\ sup[d] \notin {"none", "exited"}
  /\ SupervisorEnds(d)
  /\ UNCHANGED <<platform, ledger, evidence, stateLock, orch, pipe>>
-----------------------------------------------------------------------------
(* recover_owner_lost_dispatch *)

\* Mutated form of TreeDead: the worker is not asked for.
SupervisorDead(d, saw) == sup[d] = "exited"

\* Windows: the job object of the dispatch is empty, or gone with its last
\* handle, whether the receipt names a worker or not.
JobDead(d) == worker[d] # "running"

\* POSIX: nothing lives in the process group of the worker, if the receipt
\* names one.
WorkerTreeDead(d, saw) == saw \in NamesWorker => worker[d] # "running"

\* probe_dispatch_process_tree
TreeDead(d, saw) ==
  /\ sup[d] = "exited"
  /\ IF platform = "win32" THEN JobDead(d) ELSE WorkerTreeDead(d, saw)

\* What is read of the ledger and of the receipt.
LooksLost(d) ==
  /\ task.dispatch = d
  /\ task.state \in {"dispatched", "in_progress"}
  /\ receipts[d].attempt = task.attempt
  /\ receipts[d].phase \in Recoverable
  /\ d \notin tombstones

\* The checks without the lock; a recovery that is asked for again goes on
\* from its event.
Recover(p, d) ==
  /\ orch[p] = Idle
  /\ \/ LooksLost(d) /\ ~CreatorLives(d) /\ TreeDead(d, receipts[d].phase)
     \/ d \in recovered
  /\ orch' = [orch EXCEPT ![p] = Recovery(d)]
  /\ UNCHANGED <<platform, ledger, evidence, stateLock, processes>>

\* apply_owner_loss_recovery_transition: the lock, and what is read under it.
LockAndRead(p) ==
  LET d == orch[p].dispatch IN
  /\ orch[p].pc = "recovering"
  /\ stateLock = Free
  /\ LooksLost(d)
  /\ stateLock' = p
  /\ orch' = [orch EXCEPT ![p].pc = "locked", ![p].saw = receipts[d].phase]
  /\ UNCHANGED <<platform, ledger, evidence, processes>>

\* With a retry plan the recovery goes on.
Recovered(p) == Goto(p, "reserving") \/ Return(p)

\* The probes, the events, and DISPATCH_FAILED.
ProbeAndFail(p) ==
  LET d == orch[p].dispatch IN
  /\ orch[p].pc = "locked"
  /\ ~CreatorLives(d)
  /\ TreeDead(d, orch[p].saw)
  /\ "TASK_DISPATCHED" \in events[d]
  /\ "DISPATCH_ACKNOWLEDGED" \in events[d] <=> task.state = "in_progress"
  /\ events[d] \subseteq {"TASK_DISPATCHED", "DISPATCH_ACKNOWLEDGED"}
  /\ task' = [task EXCEPT !.state = "ready", !.dispatch = NoDispatch]
  /\ events' = [events EXCEPT ![d] = @ \cup {"DISPATCH_FAILED"}]
  /\ recovered' = recovered \cup {d}
  /\ stateLock' = Free
  /\ Recovered(p)
  /\ UNCHANGED <<platform, evidence, processes>>

Refuse(p) ==
  /\ orch[p].pc = "locked"
  /\ stateLock' = Free
  /\ Return(p)
  /\ UNCHANGED <<platform, ledger, evidence, processes>>

\* The transition finds its own event.
Replay(p) ==
  /\ orch[p].pc = "recovering"
  /\ stateLock = Free
  /\ orch[p].dispatch \in recovered
  /\ task.state = "ready"
  /\ Recovered(p)
  /\ UNCHANGED <<platform, ledger, evidence, stateLock, processes>>

\* reserve_retry_receipt: a reservation that is there already is taken as this
\* one.
PutRetry(d, lost) ==
  /\ retries[d].phase = "ABSENT" \/ retries[d] = RetryReserved(lost)
  /\ retries' = [retries EXCEPT ![d] = RetryReserved(lost)]

\* Mutated form of ReserveRetry: one attempt too many.
ReserveRetryOnceMore(p, d) ==
  LET lost == orch[p].dispatch IN
  /\ orch[p].pc = "reserving"
  /\ stateLock = Free
  /\ task.state = "ready"
  /\ task.attempt = receipts[lost].attempt
  /\ d # lost
  /\ PutRetry(d, lost)
  /\ orch' = [orch EXCEPT ![p] = Cycle(d, task.attempt + 1, d)]
  /\ UNCHANGED <<platform, ledger, receipts, tombstones, stateLock, processes>>

\* execute_owner_loss_retry_reservation for the first dispatch of the plan.
ReserveRetry(p, d) ==
  LET lost == orch[p].dispatch IN
  /\ orch[p].pc = "reserving"
  /\ stateLock = Free
  /\ task.state = "ready"
  /\ task.attempt = receipts[lost].attempt
  /\ MayFollow(d, lost, task.attempt)
  /\ PutRetry(d, lost)
  /\ orch' = [orch EXCEPT ![p] = Cycle(d, task.attempt + 1, d)]
  /\ UNCHANGED <<platform, ledger, receipts, tombstones, stateLock, processes>>
-----------------------------------------------------------------------------
\* A refusal before anything of the call is on disk, except a reservation.
Abandon(p) ==
  /\ orch[p].pc \in {"starting", "recovering", "reserving"}
  /\ Return(p)
  /\ UNCHANGED <<platform, ledger, evidence, stateLock, processes>>

\* The process dies: the system gives its lock back, and nobody reads its pipe.
Die(p) ==
  /\ orch[p].pc # "dead"
  /\ orch' = [orch EXCEPT ![p] = Dead]
  /\ stateLock' = IF stateLock = p THEN Free ELSE stateLock
  /\ pipe' = [d \in Dispatches |->
                IF d = orch[p].dispatch THEN <<>> ELSE pipe[d]]
  /\ UNCHANGED <<platform, ledger, evidence, sup, worker>>

\* What a caller decides, and what an Orchestrator does by itself.
Demand(p) ==
  \/ \E d \in Dispatches : Plan(p, d) \/ Recover(p, d)
  \/ CallerCancels(p) \/ Interrupt(p) \/ Die(p)

OrchestratorStep(p) ==
  \/ Reserve(p) \/ ApplyDispatch(p) \/ StartSupervisor(p) \/ Acknowledge(p)
  \/ WorkerTaskFails(p) \/ BecomeActive(p) \/ StartFails(p) \/ CleanUp(p)
  \/ ReadResult(p) \/ Complete(p) \/ Stop(p) \/ Deliver(p) \/ DeliveryFails(p)
  \/ Release(p) \/ Close(p) \/ CloseNot(p)
  \/ RetryFinalizing(p) \/ WriteTombstone(p) \/ FinishReceipt(p)
  \/ NoTombstone(p) \/ RetryFinalized(p) \/ Publish(p) \/ FailAndRetry(p)
  \/ LockAndRead(p) \/ ProbeAndFail(p) \/ Refuse(p) \/ Replay(p)
  \/ \E d \in Dispatches : ReserveRetry(p, d)
  \/ Abandon(p)

SupervisorStep(d) ==
  \/ Ready(d) \/ Announce(d) \/ ReadyFails(d) \/ Spawn(d) \/ LaunchFails(d)
  \/ Record(d) \/ RecordFails(d) \/ Watch(d) \/ Timeout(d)
  \/ Finish(d) \/ FinishFails(d) \/ EndTerminated(d)

Next ==
  \/ \E p \in Orchestrators : Demand(p) \/ OrchestratorStep(p)
  \/ \E d \in Dispatches :
       SupervisorStep(d) \/ WorkerEnds(d) \/ SupervisorDies(d)

Spec == Init /\ [][Next]_vars

\* A process that lives goes on: no step waits for a lock, the Orchestrator
\* waits for a frame or the end of the pipe, the supervisor for its worker
\* and no longer than the timeout, and a signal arrives.
Fairness ==
  /\ \A p \in Orchestrators : WF_vars(OrchestratorStep(p))
  /\ \A d \in Dispatches : WF_vars(SupervisorStep(d))

FairSpec == Spec /\ Fairness
-----------------------------------------------------------------------------
(* Properties. *)

PCs == {"idle", "dead", "starting", "reserved", "dispatched", "awaiting",
        "acknowledged", "active", "cleanup", "delivering", "stopping",
        "releasing", "closing", "retiring", "tombstone", "advance",
        "retry_finalized", "published", "recovering", "locked", "reserving"}

\* Type correctness of the ledger, the evidence, the processes and what the
\* Orchestrators have in memory.
TypeOK ==
  /\ platform \in Platforms
  /\ task \in [state : {"ready", "dispatched", "in_progress", "review_ready",
                        "cancelled", "superseded"},
               attempt : 0..MaxAttempt, dispatch : Dispatches \cup {NoDispatch}]
  /\ events \in [Dispatches -> SUBSET EventTypes]
  /\ recovered \subseteq Dispatches
  /\ receipts \in [Dispatches ->
       [phase : Phases, attempt : 0..MaxAttempt,
        creator : Orchestrators \cup {NoOrchestrator}]]
  /\ tombstones \subseteq Dispatches
  /\ retries \in [Dispatches ->
       [phase : RetryPhases, failed : Dispatches \cup {NoDispatch}]]
  /\ stateLock \in Orchestrators \cup {Free}
  /\ orch \in [Orchestrators ->
       [pc : PCs, dispatch : Dispatches \cup {NoDispatch},
        attempt : 0..MaxAttempt, lifecycle : Dispatches \cup {NoDispatch},
        saw : Phases, outcome : {"none", "ok", "error"}, winner : Winners,
        error : {"none", "classified", "other"}, released : BOOLEAN]]
  /\ sup \in [Dispatches -> {"none", "starting", "ready", "announced",
                             "spawned", "watching", "succeeded", "failed",
                             "terminated", "exited"}]
  /\ worker \in [Dispatches -> {"none", "running", "over"}]
  /\ pipe \in [Dispatches -> Seq({"worker_started", "ok", "error"})]

\* Section 4 of the supervisor evidence contract, across the two processes
\* that write: a dispatch in the ledger has a receipt of the same attempt, a
\* worker runs only after SUPERVISOR_READY, a dispatch is acknowledged only
\* after WORKER_STARTED is on disk, and delivered only after the end of the
\* worker is.
EvidenceBacksLedger ==
  \A d \in Dispatches :
    /\ "TASK_DISPATCHED" \in events[d] => receipts[d].phase # "ABSENT"
    /\ task.dispatch = d => receipts[d].attempt = task.attempt
    /\ worker[d] # "none" => receipts[d].phase \notin {"ABSENT", "RESERVED"}
    /\ "DISPATCH_ACKNOWLEDGED" \in events[d] => receipts[d].phase \in NamesWorker
    /\ "DELIVERY_SUBMITTED" \in events[d] =>
         receipts[d].phase \in {"FINALIZING", "FINALIZED"}

\* A tombstone is the proof of a whole end (write_finalizer_tombstone): the
\* worker and the supervisor of the dispatch are gone, whoever won, and a
\* receipt that says FINALIZED has one.  A crash between the two files leaves
\* the tombstone, never the other.
TombstoneIsFinal ==
  \A d \in Dispatches :
    /\ d \in tombstones =>
         /\ receipts[d].phase \in {"FINALIZING", "FINALIZED"}
         /\ worker[d] # "running"
         /\ sup[d] = "exited"
    /\ receipts[d].phase = "FINALIZED" => d \in tombstones

\* An owner-loss recovery declares a dispatch failed only if its creator and
\* its supervisor are dead and, once it was acknowledged, its worker is over:
\* the evidence is read under the state lock and cannot be overtaken by what
\* the processes write meanwhile (apply_owner_loss_recovery_transition).
RecoveredWasDead ==
  \A d \in recovered :
    /\ ~CreatorLives(d)
    /\ sup[d] = "exited"
    /\ "DISPATCH_ACKNOWLEDGED" \in events[d] => worker[d] # "running"

\* On Windows, with the job object of _DispatchJobOwner, a worker runs only
\* for the current dispatch of the task: no failure, cancellation, recovery or
\* crash brings the task on while a worker of an earlier dispatch still runs,
\* but for the moment that a supervisor which a cancellation has terminated
\* takes to end.
OnlyCurrentWorkerRuns ==
  \A d \in Dispatches :
    platform = "win32" /\ worker[d] = "running" =>
      \/ task.dispatch = d /\ task.state \in {"dispatched", "in_progress"}
      \/ sup[d] = "terminated"

\* What an owner-loss retry receipt says: the dispatch that it follows was
\* recovered, one attempt before; RETRY_STARTED means that the retry was
\* acknowledged, and RETRY_FINALIZING that it was completed and nobody
\* cancelled or superseded it (advance_retry_to_finalizing: only the
\* completion winner).
RetryTruthful ==
  \A d \in Dispatches :
    /\ retries[d].phase # "ABSENT" => retries[d].failed \in recovered
    /\ retries[d].phase \notin {"ABSENT", "RETRY_RESERVED"} =>
         /\ "DISPATCH_ACKNOWLEDGED" \in events[d]
         /\ receipts[d].attempt = receipts[retries[d].failed].attempt + 1
    /\ retries[d].phase \in {"RETRY_FINALIZING", "RETRY_FINALIZED"} =>
         {"TASK_CANCELLED", "TASK_SUPERSEDED"} \cap events[d] = {}

\* A call of start_dispatch_cycle, of the finalizer or of a recovery comes to
\* an end, whatever supervisors and workers do and whichever of them die: it
\* returns or raises, unless its own process dies.
CycleEnds ==
  \A p \in Orchestrators :
    orch[p].pc # "idle" ~> orch[p].pc \in {"idle", "dead"}

\* Section 14.5 of workflow-orchestrator-contract.md: TASK_CANCELLED MUST NOT
\* be applied while the worker process is still active.  Even if the moment
\* is left out that the terminated supervisor takes to end, the code does not
\* keep it on POSIX: see the run that checks it.
NoWorkerAfterCancel ==
  \A d \in Dispatches :
    "TASK_CANCELLED" \in events[d] /\ sup[d] = "exited" =>
      worker[d] # "running"

\* Section 11 of dispatch-supervisor-evidence-contract.md: a crash after the
\* worker starts and before WORKER_STARTED is written is UNKNOWN, no recovery.
\* The code does not keep it on POSIX: see the run that checks it.
NoRecoveryOfRunningWorker ==
  \A d \in recovered : worker[d] # "running"

\* The message of start_dispatch_cycle: the receipt that is read for an
\* owner-loss retry is the one of the attempt that is starting.  The code does
\* not keep it for the second attempt of a plan: see the run that checks it.
RetryReadsItsOwnReceipt ==
  \A p \in Orchestrators :
    orch[p].pc = "acknowledged" /\ orch[p].lifecycle # NoDispatch =>
      receipts[orch[p].lifecycle].attempt = orch[p].attempt
=============================================================================
