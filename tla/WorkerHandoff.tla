--------------------------- MODULE WorkerHandoff ---------------------------
(***************************************************************************)
(* One admitted dispatch, from its worktree to the receipt that the PM     *)
(* gets:                                                                   *)
(*                                                                         *)
(*   WorktreeLifecycleManager   the reservation and the record of the      *)
(*                              worktree, and what Git has                 *)
(*   DockyardPostAdmissionWorkerRuntime, run_pm_external_worker,           *)
(*   _start_admitted_dispatch   the run that starts the worker and waits   *)
(*   PortfolioSchedulerWorkerHandoffStore                                  *)
(*                              the handoff, a pair of files               *)
(*                                                                         *)
(* Two runs may be started for the dispatch: an admission starts one, and  *)
(* another admission of the card or the local runtime, when it resumes a   *)
(* plan whose handoff is not finalized, a second.  They share no lock but  *)
(* that of the scheduler's store, which each call takes for itself.  The   *)
(* lease, the ledger and the supervisor have modules of their own and are  *)
(* reduced to what this one reads.                                         *)
(***************************************************************************)
EXTENDS Naturals, FiniteSets

CONSTANTS
  Runs,       \* threads or processes that execute the receipt of the admission
  Managers,   \* processes that create or release the worktree
  MaxFaults,  \* bound on crashes, kills and failed writes
  None

ASSUME WorkerHandoffAssumption ==
  /\ IsFiniteSet(Runs)
  /\ MaxFaults \in Nat
  /\ "orphan" \notin Runs
  /\ None \notin Runs

\* A phase of the handoff is its place in ScheduledDispatchHandoffPhase.order();
\* 0 stands for a file that does not exist.
HandoffReserved == 1
SupervisorStarted == 2
WorkerStarted == 3
Acknowledged == 4
Finalizing == 5
Finalized == 6
HandoffPhases == 0 .. Finalized

\* The phases of the record of the worktree, and those of DispatchProcessReceipt.
RecordPhases == {"NONE", "CREATING", "READY", "RELEASING", "RELEASED"}
ReceiptPhases == {"NONE", "RESERVED", "SUPERVISOR_READY", "WORKER_STARTED",
                  "FINALIZING", "FINALIZED"}

\* The receipt names the worker.
Started == {"WORKER_STARTED", "FINALIZING", "FINALIZED"}

\* How a dispatch ended, as its tombstone says: with a delivery, with a failure
\* of the worker, stopped by the heartbeat, or found lost by another owner.
Ends == {"delivered", "failed", "stopped", "lost"}

ASSUME NoneAssumption ==
  None \notin Ends \cup {"orphan", "replayed", "recovery"}

VARIABLES
  record,     \* the phase of the WorktreeRecord
  branch,     \* does the branch of the dispatch exist?
  tree,       \* the worktree of Git: absent, clean or dirty
  moved,      \* has the worker committed, so that HEAD # base_commit?
  manager,    \* what each process of Managers is doing, what it has seen, and
              \* (history) whether a release of its got past the receipt with
              \* leases that it had read before the admission
  lease,      \* the entry of the dispatch in the lease store
  task,       \* the state of the task
  receipt,    \* the phase of the DispatchProcessReceipt
  tombstone,  \* the DispatchFinalizerTombstone
  pair,       \* the phases of the two files of the handoff
  lock,       \* who holds the lock of the scheduler's store over two writes
  pmReceipt,  \* the PmExternalWorkerReceipt
  run,        \* what each run is doing
  sup,        \* the supervisor that each run has started
  worker,     \* the worker of that supervisor
  faults

worktree == <<record, branch, tree, moved>>
evidence == <<receipt, tombstone, pair, lock, pmReceipt>>
processes == <<sup, worker>>
vars == <<worktree, manager, lease, task, evidence, run, processes, faults>>

\* `goal' is the phase that a run advances the handoff to, `end' what it knows
\* of the end of the dispatch, `outcome' what it reports.
Idle == [pc |-> "idle", goal |-> 0, end |-> None, outcome |-> None]

Init ==
  /\ record = "NONE" /\ branch = FALSE /\ tree = "none" /\ moved = FALSE
  /\ manager = [m \in Managers |-> [pc |-> "idle", saw |-> FALSE, early |-> FALSE]]
  /\ lease = "none" /\ task = "ready"
  /\ receipt = "NONE" /\ tombstone = None
  /\ pair = [handoff |-> 0, receipt |-> 0]
  /\ lock = None
  /\ pmReceipt = None
  /\ run = [r \in Runs |-> Idle]
  /\ sup = [r \in Runs |-> "none"]
  /\ worker = [r \in Runs |-> "none"]
  /\ faults = 0

\* The lease store has an entry of the dispatch: nobody asks whether it is over.
Leased == lease \in {"held", "lapsed"}

Fault == faults < MaxFaults /\ faults' = faults + 1

ManagerGoto(m, pc, saw) ==
  manager' = [manager EXCEPT ![m].pc = pc, ![m].saw = saw]

Goto(r, pc) == run' = [run EXCEPT ![r].pc = pc]

\* What the inventory of Git and the status of the tree say: an entry is exact
\* while its HEAD is the base commit.
HasEntry == tree # "none"
Exact == HasEntry /\ ~moved
Clean == tree = "clean"

\* advance_record: one phase further; the phase it is in is a replay.
AdvanceRecord(from, to) ==
  /\ record \in {from, to}
  /\ record' = to
-----------------------------------------------------------------------------
(* create *)

\* The inventory is read before the reservation and the record.  The operation
\* lock is a threading.Lock, and Managers are processes.
CreateRead(m) ==
  /\ manager[m].pc = "idle"
  /\ ManagerGoto(m, "create", HasEntry)
  /\ UNCHANGED <<worktree, lease, task, evidence, run, processes, faults>>

\* reconcile_worktree, for a record in the phase p: READY is a replay, RELEASING
\* and RELEASED are conflicts, and both end the call.
Reconciled(p, saw) ==
  CASE p = "CREATING" /\ ~saw                 -> "add"
    [] p = "CREATING" /\ saw /\ Exact /\ Clean -> "verify"
    [] OTHER                                   -> "idle"

\* reserve and create_record: what exists is read, and is the same.
CreateRecord(m) ==
  /\ manager[m].pc = "create"
  /\ record' = IF record = "NONE" THEN "CREATING" ELSE record
  /\ ManagerGoto(m, Reconciled(record', manager[m].saw), FALSE)
  /\ UNCHANGED <<branch, tree, moved, lease, task, evidence, run, processes, faults>>

\* Mutated form of AddWorktree: an existing branch is checked out.
AddAnyway(m) ==
  /\ manager[m].pc = "add"
  /\ branch' = TRUE
  /\ tree' = IF tree = "none" THEN "clean" ELSE tree
  /\ ManagerGoto(m, "verify", FALSE)
  /\ UNCHANGED <<record, moved, lease, task, evidence, run, processes, faults>>

\* git worktree add -b refuses a branch or a path that exists.  When it fails
\* the inventory decides; a path found beforehand is not one to be used.
AddWorktree(m) ==
  /\ manager[m].pc = "add"
  /\ \/ /\ ~branch /\ ~HasEntry
        /\ branch' = TRUE /\ tree' = "clean"
        /\ ManagerGoto(m, "verify", FALSE)
     \/ /\ branch /\ Exact
        /\ ManagerGoto(m, "verify", FALSE)
        /\ UNCHANGED <<branch, tree>>
     \/ /\ branch \/ HasEntry
        /\ ManagerGoto(m, "idle", FALSE)
        /\ UNCHANGED <<branch, tree>>
  /\ UNCHANGED <<record, moved, lease, task, evidence, run, processes, faults>>

\* Git is killed at the timeout or with the manager: it has made the branch,
\* and perhaps an entry whose files are not all there.
AddKilled(m) ==
  /\ manager[m].pc = "add"
  /\ ~branch /\ ~HasEntry
  /\ Fault
  /\ branch' = TRUE
  /\ tree' \in {"none", "dirty"}
  /\ ManagerGoto(m, "idle", FALSE)
  /\ UNCHANGED <<record, moved, lease, task, evidence, run, processes>>

\* _clean and the inventory after it.
Verify(m) ==
  /\ manager[m].pc = "verify"
  /\ ManagerGoto(m, IF Exact /\ Clean THEN "publish" ELSE "idle", FALSE)
  /\ UNCHANGED <<worktree, lease, task, evidence, run, processes, faults>>

\* CREATING to READY; any other phase is a transition error.
Publish(m) ==
  /\ manager[m].pc = "publish"
  /\ AdvanceRecord("CREATING", "READY") \/ (record \notin {"CREATING", "READY"} /\ UNCHANGED record)
  /\ ManagerGoto(m, "idle", FALSE)
  /\ UNCHANGED <<branch, tree, moved, lease, task, evidence, run, processes, faults>>
-----------------------------------------------------------------------------
(* release *)

\* _verify_release_ownership, before the operation lock is taken: leases,
\* receipt, tombstone and processes are read one after the other, and no lock
\* holds the reads together.

\* Mutated form of ReleaseLeases: a lease that is over does not count.
ReleaseUnheld(m) ==
  /\ manager[m].pc = "idle"
  /\ lease # "held"
  /\ ManagerGoto(m, "receipt", lease = "none")
  /\ UNCHANGED <<worktree, lease, task, evidence, run, processes, faults>>

\* The lease store has no entry of the dispatch, over or not.
ReleaseLeases(m) ==
  /\ manager[m].pc = "idle"
  /\ ~Leased
  /\ ManagerGoto(m, "receipt", lease = "none")
  /\ UNCHANGED <<worktree, lease, task, evidence, run, processes, faults>>

\* The receipt: without one the release is refused, and one that is RESERVED
\* needs nothing more.
ReleaseReceipt(m) ==
  /\ manager[m].pc = "receipt"
  /\ manager' = [manager EXCEPT ![m] =
       [pc    |-> CASE receipt = "NONE"     -> "idle"
                    [] receipt = "RESERVED" -> "release"
                    [] OTHER                -> "probe",
        saw   |-> receipt \in Started,
        early |-> @.early \/ (@.saw /\ Leased /\ receipt # "NONE")]]
  /\ UNCHANGED <<worktree, lease, task, evidence, run, processes, faults>>

\* The tombstone, and without one the processes: the supervisor that the receipt
\* names, and the worker if the receipt named one when it was read; on Windows
\* the job of both.  What either finds stays, so both are read at the later
\* moment; a probe may always say UNKNOWN, which is a refusal.
ReleaseProbe(m) ==
  /\ manager[m].pc = "probe"
  /\ \/ ManagerGoto(m, "idle", FALSE)
     \/ /\ \/ tombstone # None
           \/ \A r \in Runs : sup[r] # "ready" /\ (manager[m].saw => worker[r] # "running")
        /\ ManagerGoto(m, "release", FALSE)
  /\ UNCHANGED <<worktree, lease, task, evidence, run, processes, faults>>

\* The record, the inventory and the status of the tree; READY to RELEASING.
Releasable == record = "READY" /\ Exact /\ Clean

ReleaseMark(m) ==
  /\ manager[m].pc = "release"
  /\ \/ /\ Releasable \/ record = "RELEASING"
        /\ record' = "RELEASING"
        /\ ManagerGoto(m, IF HasEntry THEN "remove" ELSE "removed", FALSE)
     \/ /\ ~Releasable /\ record # "RELEASING"
        /\ ManagerGoto(m, "idle", FALSE)
        /\ UNCHANGED record
  /\ UNCHANGED <<branch, tree, moved, lease, task, evidence, run, processes, faults>>

\* git worktree remove, which refuses a dirty tree and leaves the branch.
RemoveTree(m) ==
  /\ manager[m].pc = "remove"
  /\ IF Clean THEN tree' = "none" /\ ManagerGoto(m, "removed", FALSE)
              ELSE ManagerGoto(m, "idle", FALSE) /\ UNCHANGED tree
  /\ UNCHANGED <<record, branch, moved, lease, task, evidence, run, processes, faults>>

\* The inventory once more, and RELEASING to RELEASED.
ReleaseDone(m) ==
  /\ manager[m].pc = "removed"
  /\ \/ ~HasEntry /\ AdvanceRecord("RELEASING", "RELEASED")
     \/ HasEntry /\ UNCHANGED record
  /\ ManagerGoto(m, "idle", FALSE)
  /\ UNCHANGED <<branch, tree, moved, lease, task, evidence, run, processes, faults>>

\* The manager dies, or one of its calls fails.
ManagerStops(m) ==
  /\ manager[m].pc # "idle"
  /\ Fault
  /\ ManagerGoto(m, "idle", FALSE)
  /\ UNCHANGED <<worktree, lease, task, evidence, run, processes>>

ManagerStep(m) ==
  \/ CreateRead(m) \/ CreateRecord(m) \/ AddWorktree(m) \/ AddKilled(m)
  \/ Verify(m) \/ Publish(m)
  \/ ReleaseLeases(m) \/ ReleaseReceipt(m) \/ ReleaseProbe(m)
  \/ ReleaseMark(m) \/ RemoveTree(m) \/ ReleaseDone(m)
  \/ ManagerStops(m)
-----------------------------------------------------------------------------
(* The admission, and the evidence that it leaves *)

\* The tick of the scheduler, with the worktree READY: the slot is acquired and
\* TASK_DISPATCHED is applied.
Dispatch ==
  /\ record = "READY"
  /\ lease = "none"
  /\ lease' = "held"
  /\ task' = "dispatched"
  /\ UNCHANGED <<worktree, manager, evidence, run, processes, faults>>

\* The lease runs out, and an acquire of another slot drops the entry.
Lapse ==
  /\ lease = "held"
  /\ lease' = "lapsed"
  /\ UNCHANGED <<worktree, manager, task, evidence, run, processes, faults>>

Purge ==
  /\ lease = "lapsed"
  /\ lease' = "gone"
  /\ UNCHANGED <<worktree, manager, task, evidence, run, processes, faults>>

\* read_handoff takes no lock, and needs both files in the same phase.
Readable == pair.handoff # 0 /\ pair.receipt = pair.handoff

\* execute: every admission of the card that gets as far as ADMITTED starts a
\* run, and so does the local runtime when the handoff is not FINALIZED.
Begin(r) ==
  /\ run[r] = Idle
  /\ lease # "none"
  /\ Goto(r, "execute")
  /\ UNCHANGED <<worktree, manager, lease, task, evidence, processes, faults>>

\* run_pm_external_worker returns a receipt that it has written before.
Returned == pmReceipt # None

\* _execute.  A run that fails before run_pm_external_worker is called only
\* leaves a marker.
Execute(r) ==
  /\ run[r].pc = "execute"
  /\ IF /\ record = "READY"
        /\ Leased \/ (Readable /\ pair.handoff = Finalized)
        /\ ~Returned
       THEN Goto(r, "admitted")
       ELSE Goto(r, "done")
  /\ UNCHANGED <<worktree, manager, lease, task, evidence, processes, faults>>

\* load_external_worker_endpoint: the endpoint is not verified, or not the one
\* of the model selection.
EndpointRefused(r) ==
  /\ run[r].pc = "admitted"
  /\ Goto(r, "failed")
  /\ UNCHANGED <<worktree, manager, lease, task, evidence, processes, faults>>

\* The checks of _start_admitted_dispatch before the first write.
CheckAdmission(r) ==
  /\ run[r].pc = "admitted"
  /\ IF Leased /\ record = "READY" /\ Exact /\ Clean /\ task # "ready"
       THEN Goto(r, "evidence")
       ELSE Goto(r, "failed")
  /\ UNCHANGED <<worktree, manager, lease, task, evidence, processes, faults>>

\* A pair that is torn raises; a file that is missing makes the handoff None.
Torn == pair.handoff # 0 /\ pair.receipt # 0 /\ pair.handoff # pair.receipt

\* The receipt, the handoff, the tombstone and the probe, in that order: what
\* is read of them only ever grows.
ReadEvidence(r) ==
  /\ run[r].pc = "evidence"
  /\ \/ Torn /\ Goto(r, "failed")
     \/ /\ ~Torn
        /\ receipt \in {"NONE", "RESERVED"}
        /\ Goto(r, IF receipt = "NONE" THEN "reserve" ELSE "handoff")
     \/ /\ ~Torn
        /\ receipt \notin {"NONE", "RESERVED"}
        /\ LET Report(outcome) ==
                 run' = [run EXCEPT ![r].pc = "report", ![r].outcome = outcome]
               Resume(goal) ==
                 run' = [run EXCEPT ![r].pc = "advance", ![r].goal = goal,
                                    ![r].outcome = "replayed"]
           IN CASE Readable /\ pair.handoff = Finalized ->
                     IF tombstone # None THEN Report("replayed") ELSE Goto(r, "failed")
                [] Readable /\ tombstone # None /\ pair.handoff = Acknowledged ->
                     Resume(Finalizing)
                [] Readable /\ tombstone # None /\ pair.handoff = Finalizing ->
                     Resume(Finalized)
                [] OTHER -> Report("recovery") \/ Goto(r, "failed")
  /\ UNCHANGED <<worktree, manager, lease, task, evidence, processes, faults>>

\* reserve_receipt, which refuses a receipt that exists.
ReserveReceipt(r) ==
  /\ run[r].pc = "reserve"
  /\ IF receipt = "NONE" THEN receipt' = "RESERVED" /\ Goto(r, "handoff")
                         ELSE Goto(r, "failed") /\ UNCHANGED receipt
  /\ UNCHANGED <<worktree, manager, lease, task, tombstone, pair, lock, pmReceipt,
                 processes, faults>>

\* The lock of the scheduler's store is taken at once or the call fails.
LockBusy(r) ==
  /\ run[r].pc \in {"handoff", "advance"}
  /\ lock # None
  /\ Goto(r, "failed")
  /\ UNCHANGED <<worktree, manager, lease, task, evidence, processes, faults>>

\* reserve_handoff: the same pair is a replay while its phase is still
\* HANDOFF_RESERVED; any other pair, and one file alone, are conflicts.
ReserveHandoff(r) ==
  /\ run[r].pc = "handoff"
  /\ lock = None
  /\ \/ /\ pair = [handoff |-> 0, receipt |-> 0]
        /\ pair' = [pair EXCEPT !.handoff = HandoffReserved]
        /\ lock' = r
        /\ run' = [run EXCEPT ![r].pc = "write", ![r].goal = HandoffReserved]
     \/ /\ pair # [handoff |-> 0, receipt |-> 0]
        /\ Goto(r, IF pair = [handoff |-> HandoffReserved, receipt |-> HandoffReserved]
                     THEN "start" ELSE "failed")
        /\ UNCHANGED <<pair, lock>>
  /\ UNCHANGED <<worktree, manager, lease, task, receipt, tombstone, pmReceipt,
                 processes, faults>>

\* What a run does when the handoff has reached the phase g.
After(g) == CASE g = HandoffReserved -> "start"
              [] g = Acknowledged    -> "wait"
              [] g = Finalized       -> "report"
              [] OTHER               -> "advance"

Advanced(r, g) ==
  run' = [run EXCEPT ![r].pc = After(g),
                     ![r].goal = IF After(g) = "advance" THEN g + 1 ELSE g]

\* advance_phase: one phase further; the phase it is in is a replay if it comes
\* with the same timestamp, and FINALIZING has none.
AdvancePhase(r) ==
  LET g == run[r].goal IN
  /\ run[r].pc = "advance"
  /\ lock = None
  /\ \/ /\ Readable /\ pair.handoff + 1 = g
        /\ pair' = [pair EXCEPT !.handoff = g]
        /\ lock' = r
        /\ Goto(r, "write")
     \/ /\ Readable /\ pair.handoff = g /\ g # Finalizing
        /\ Advanced(r, g)
        /\ UNCHANGED <<pair, lock>>
     \/ /\ ~Readable \/ pair.handoff \notin {g - 1} \cup ({g} \ {Finalizing})
        /\ Goto(r, "failed")
        /\ UNCHANGED <<pair, lock>>
  /\ UNCHANGED <<worktree, manager, lease, task, receipt, tombstone, pmReceipt,
                 processes, faults>>

\* The second file of the pair, under the same lock.
WriteReceipt(r) ==
  /\ run[r].pc = "write"
  /\ pair' = [pair EXCEPT !.receipt = run[r].goal]
  /\ lock' = None
  /\ Advanced(r, run[r].goal)
  /\ UNCHANGED <<worktree, manager, lease, task, receipt, tombstone, pmReceipt,
                 processes, faults>>

\* The second write fails: the first one stays.
WriteFails(r) ==
  /\ run[r].pc = "write"
  /\ Fault
  /\ lock' = None
  /\ Goto(r, "failed")
  /\ UNCHANGED <<worktree, manager, lease, task, receipt, tombstone, pair, pmReceipt,
                 processes>>
-----------------------------------------------------------------------------
(* start_admitted_dispatch_execution and its supervisor *)

\* The receipt is read again: RESERVED, whoever has reserved it.
Start(r) ==
  /\ run[r].pc = "start"
  /\ IF receipt = "RESERVED" THEN sup' = [sup EXCEPT ![r] = "starting"] /\ Goto(r, "starting")
                             ELSE Goto(r, "failed") /\ UNCHANGED sup
  /\ UNCHANGED <<worktree, manager, lease, task, evidence, worker, faults>>

\* Mutated form of Ready: a supervisor that finds SUPERVISOR_READY takes it for
\* its own.
ReadyAgain(r) ==
  /\ sup[r] = "starting"
  /\ IF receipt \in {"RESERVED", "SUPERVISOR_READY"}
       THEN receipt' = "SUPERVISOR_READY" /\ sup' = [sup EXCEPT ![r] = "ready"]
       ELSE sup' = [sup EXCEPT ![r] = "over"] /\ UNCHANGED receipt
  /\ UNCHANGED <<worktree, manager, lease, task, tombstone, pair, lock, pmReceipt, run,
                 worker, faults>>

\* advance_to_supervisor_ready, from RESERVED only; else the supervisor exits.
Ready(r) ==
  /\ sup[r] = "starting"
  /\ IF receipt = "RESERVED"
       THEN receipt' = "SUPERVISOR_READY" /\ sup' = [sup EXCEPT ![r] = "ready"]
       ELSE sup' = [sup EXCEPT ![r] = "over"] /\ UNCHANGED receipt
  /\ UNCHANGED <<worktree, manager, lease, task, tombstone, pair, lock, pmReceipt, run,
                 worker, faults>>

\* The worker is started in the worktree; a launch without one fails.
Spawn(r) ==
  /\ sup[r] = "ready" /\ worker[r] = "none"
  /\ IF HasEntry THEN worker' = [worker EXCEPT ![r] = "running"] /\ UNCHANGED sup
              ELSE sup' = [sup EXCEPT ![r] = "over"] /\ UNCHANGED worker
  /\ UNCHANGED <<worktree, manager, lease, task, evidence, run, faults>>

RecordWorker(r) ==
  /\ sup[r] = "ready" /\ worker[r] # "none"
  /\ receipt = "SUPERVISOR_READY"
  /\ receipt' = "WORKER_STARTED"
  /\ UNCHANGED <<worktree, manager, lease, task, tombstone, pair, lock, pmReceipt, run,
                 processes, faults>>

\* The worker changes files, or commits all of them.
Work(r) ==
  /\ worker[r] = "running" /\ HasEntry
  /\ \/ tree' = "dirty" /\ UNCHANGED moved
     \/ tree' = "clean" /\ moved' = TRUE
  /\ UNCHANGED <<record, branch, manager, lease, task, evidence, run, processes, faults>>

WorkerEnds(r) ==
  /\ worker[r] = "running"
  /\ worker' = [worker EXCEPT ![r] = "over"]
  /\ UNCHANGED <<worktree, manager, lease, task, evidence, run, sup, faults>>

\* advance_to_finalizing, and the supervisor exits.
SupervisorEnds(r) ==
  /\ sup[r] = "ready" /\ worker[r] = "over"
  /\ receipt = "WORKER_STARTED"
  /\ receipt' = "FINALIZING"
  /\ sup' = [sup EXCEPT ![r] = "over"]
  /\ UNCHANGED <<worktree, manager, lease, task, tombstone, pair, lock, pmReceipt, run,
                 worker, faults>>

\* The supervisor is killed; on POSIX its worker goes on.
SupervisorDies(r) ==
  /\ sup[r] \in {"starting", "ready"}
  /\ Fault
  /\ sup' = [sup EXCEPT ![r] = "over"]
  /\ \E w \in {worker[r], IF worker[r] = "running" THEN "over" ELSE worker[r]} :
       worker' = [worker EXCEPT ![r] = w]
  /\ UNCHANGED <<worktree, manager, lease, task, evidence, run>>

\* The frame worker_started has come: _AckObserver applies
\* DISPATCH_ACKNOWLEDGED.
Acknowledge(r) ==
  /\ run[r].pc = "starting"
  /\ worker[r] # "none" /\ receipt \notin {"NONE", "RESERVED", "SUPERVISOR_READY"}
  /\ task = "dispatched"
  /\ task' = "in_progress"
  /\ run' = [run EXCEPT ![r].pc = "advance", ![r].goal = SupervisorStarted,
                        ![r].outcome = "delivered"]
  /\ UNCHANGED <<worktree, manager, lease, evidence, processes, faults>>

\* The acknowledgement is refused or the supervisor is over.  Nothing of what
\* start_dispatch_cycle cleans up is cleaned up here.
StartFails(r) ==
  /\ run[r].pc = "starting"
  /\ worker[r] # "none" \/ sup[r] = "over"
  /\ Goto(r, "failed")
  /\ UNCHANGED <<worktree, manager, lease, task, evidence, processes, faults>>
-----------------------------------------------------------------------------
(* The end of the execution: wait, and what comes after it *)

\* The worker task ends and the delivery is submitted, or one of both fails.
Complete(r) ==
  /\ run[r].pc = "wait"
  /\ sup[r] = "over"
  /\ \/ /\ receipt = "FINALIZING" /\ Clean /\ moved
        /\ task = "in_progress"
        /\ task' = "review_ready"
        /\ run' = [run EXCEPT ![r].pc = "release", ![r].end = "delivered"]
     \/ /\ run' = [run EXCEPT ![r].pc = "release", ![r].end = "failed"]
        /\ UNCHANGED task
  /\ UNCHANGED <<worktree, manager, lease, evidence, processes, faults>>

\* The heartbeat finds no live lease and stops the worker.
HeartbeatFails(r) ==
  /\ run[r].pc = "wait"
  /\ lease # "held"
  /\ run' = [run EXCEPT ![r].pc = "release", ![r].end = "stopped"]
  /\ sup' = [sup EXCEPT ![r] = "over"]
  /\ worker' = [worker EXCEPT ![r] = IF @ = "running" THEN "over" ELSE @]
  /\ UNCHANGED <<worktree, manager, lease, task, evidence, faults>>

Release(r) ==
  /\ run[r].pc = "release"
  /\ lease' = "gone"
  /\ Goto(r, "close")
  /\ UNCHANGED <<worktree, manager, task, evidence, processes, faults>>

\* write_finalizer_tombstone.  What wait returns or raises is as before.
Close(r) ==
  /\ run[r].pc = "close"
  /\ tombstone = None
  /\ tombstone' = run[r].end
  /\ receipt' = "FINALIZED"
  /\ Goto(r, IF run[r].end = "delivered" THEN "final" ELSE "failed")
  /\ UNCHANGED <<worktree, manager, lease, task, pair, lock, pmReceipt, processes, faults>>

\* The release or the tombstone fails.
CloseNot(r) ==
  /\ run[r].pc = "close"
  /\ tombstone # None \/ faults < MaxFaults
  /\ faults' = IF tombstone # None THEN faults ELSE faults + 1
  /\ Goto(r, IF run[r].end = "delivered" THEN "final" ELSE "failed")
  /\ UNCHANGED <<worktree, manager, lease, task, evidence, processes>>

\* Mutated form of CheckFinal: the handoff is finalized without the evidence.
FinalUnchecked(r) ==
  /\ run[r].pc = "final"
  /\ run' = [run EXCEPT ![r].pc = "advance", ![r].goal = Finalizing]
  /\ UNCHANGED <<worktree, manager, lease, task, evidence, processes, faults>>

\* The receipt and the tombstone are read once more before FINALIZING.
CheckFinal(r) ==
  /\ run[r].pc = "final"
  /\ run' = [run EXCEPT ![r].pc = IF tombstone # None THEN "advance" ELSE "failed",
                        ![r].goal = Finalizing]
  /\ UNCHANGED <<worktree, manager, lease, task, evidence, processes, faults>>

\* _write_receipt replaces the file, whatever it says.
Report(r) ==
  /\ run[r].pc = "report"
  /\ pmReceipt' = run[r].outcome
  /\ Goto(r, "done")
  /\ UNCHANGED <<worktree, manager, lease, task, receipt, tombstone, pair, lock,
                 processes, faults>>

\* _record_finalized_dispatch_failure: DISPATCH_FAILED if the tombstone tells of
\* a failure of the worker.
RecordFailure(r) ==
  /\ run[r].pc = "failed"
  /\ task' = IF tombstone = "failed" /\ task = "in_progress" THEN "ready" ELSE task
  /\ Goto(r, "done")
  /\ UNCHANGED <<worktree, manager, lease, evidence, processes, faults>>

Crash(r) ==
  /\ run[r].pc \notin {"idle", "done"}
  /\ Fault
  /\ Goto(r, "done")
  /\ lock' = IF lock = r THEN "orphan" ELSE lock
  /\ UNCHANGED <<worktree, manager, lease, task, receipt, tombstone, pair, pmReceipt,
                 processes>>

\* Somebody removes a lock file that nobody holds; no code does.
RemoveOrphan ==
  /\ lock = "orphan"
  /\ lock' = None
  /\ UNCHANGED <<worktree, manager, lease, task, receipt, tombstone, pair, pmReceipt, run,
                 processes, faults>>

\* recover_owner_lost_dispatch, for a dispatch whose processes are dead and
\* whose lease is over.
RecoverLost ==
  /\ receipt \notin {"NONE", "RESERVED", "FINALIZED"} /\ tombstone = None
  /\ lease # "held"
  /\ \A r \in Runs : /\ run[r].pc \in {"idle", "done"}
                     /\ sup[r] \in {"none", "over"} /\ worker[r] # "running"
  /\ task \in {"dispatched", "in_progress"}
  /\ task' = "ready" /\ lease' = "gone"
  /\ tombstone' = "lost" /\ receipt' = "FINALIZED"
  /\ UNCHANGED <<worktree, manager, pair, lock, pmReceipt, run, processes, faults>>

\* The steps of _start_admitted_dispatch up to the execution.
StartStep(r) ==
  \/ Begin(r) \/ Execute(r) \/ EndpointRefused(r) \/ CheckAdmission(r)
  \/ ReadEvidence(r)
  \/ ReserveReceipt(r) \/ LockBusy(r) \/ ReserveHandoff(r) \/ AdvancePhase(r)
  \/ WriteReceipt(r) \/ WriteFails(r) \/ Start(r)

\* Those of the supervisor and of the run that waits for it.
ExecutionStep(r) ==
  \/ Ready(r) \/ Spawn(r) \/ RecordWorker(r) \/ Work(r) \/ WorkerEnds(r)
  \/ SupervisorEnds(r) \/ SupervisorDies(r) \/ Acknowledge(r) \/ StartFails(r)
  \/ Complete(r) \/ HeartbeatFails(r) \/ Release(r) \/ Close(r) \/ CloseNot(r)
  \/ CheckFinal(r) \/ Report(r) \/ RecordFailure(r) \/ Crash(r)

Next ==
  \/ \E m \in Managers : ManagerStep(m)
  \/ \E r \in Runs : StartStep(r) \/ ExecutionStep(r)
  \/ Dispatch \/ Lapse \/ Purge \/ RemoveOrphan \/ RecoverLost

Spec == Init /\ [][Next]_vars
-----------------------------------------------------------------------------
(* Invariants *)

\* The files, the ledger and the processes hold what the code writes to them.
TypeOK ==
  /\ record \in RecordPhases /\ branch \in BOOLEAN /\ moved \in BOOLEAN
  /\ tree \in {"none", "clean", "dirty"}
  /\ lease \in {"none", "held", "lapsed", "gone"}
  /\ task \in {"ready", "dispatched", "in_progress", "review_ready"}
  /\ receipt \in ReceiptPhases /\ tombstone \in Ends \cup {None}
  /\ pair \in [handoff : HandoffPhases, receipt : HandoffPhases]
  /\ lock \in Runs \cup {None, "orphan"}
  /\ pmReceipt \in {None, "delivered", "replayed", "recovery"}
  /\ sup \in [Runs -> {"none", "starting", "ready", "over"}]
  /\ worker \in [Runs -> {"none", "running", "over"}]
  /\ faults \in 0 .. MaxFaults

\* However many runs are started for the dispatch, and whatever crashes, at most
\* one worker is ever started: reserve_handoff lets two runs through, and the
\* second supervisor cannot take the receipt from RESERVED.
OneWorker == Cardinality({r \in Runs : worker[r] # "none"}) <= 1

\* The handoff never runs ahead of the evidence that it summarises, its two files
\* are never more than one phase apart, and a delivery that the PM is told of is
\* one whose handoff and tombstone are final (_start_admitted_dispatch).
HandoffBacked ==
  /\ pair.receipt \in {pair.handoff, pair.handoff - 1}
  /\ pair.handoff >= HandoffReserved => receipt # "NONE"
  /\ pair.handoff >= SupervisorStarted =>
       receipt \in Started /\ \E r \in Runs : worker[r] # "none"
  /\ pair.handoff >= Finalizing => tombstone # None /\ lease = "gone"
  /\ pmReceipt = "delivered" =>
       /\ tombstone = "delivered" /\ pair = [handoff |-> Finalized, receipt |-> Finalized]
       /\ task = "review_ready"

\* A dispatch whose lease is in the store keeps its worktree: no release takes it
\* but one that had read the leases before the admission and came to the receipt
\* after the reservation; and a record that is RELEASED has no worktree, however
\* late a creator comes (_verify_release_ownership, create).
WorktreeKept ==
  /\ Leased => \/ record = "READY" /\ HasEntry
               \/ receipt # "NONE" /\ \E m \in Managers : manager[m].early
  /\ record = "RELEASED" => ~HasEntry

\* The same without the exception: the two reads are not one.
LeasedKept == Leased => record = "READY" /\ HasEntry

\* What worktree-lifecycle-contract.md:253-255 asks of a release and the code
\* does not give: the check comes before the removal, and RESERVED passes it.
WorkerHasTree == \A r \in Runs : worker[r] = "running" => HasEntry

\* What scheduler-worker-handoff-runtime-contract.md:120 asks after a crash: a
\* tombstone that came before FINALIZED is verified and the handoff advanced.
\* The finalizer has dropped the lease by then, and _lease refuses without it.
Resumable ==
  /\ Readable /\ pair.handoff \in {Acknowledged, Finalizing} /\ tombstone = "delivered"
  /\ \A r \in Runs : run[r].pc \in {"idle", "done"}
  => Leased

\* The PM's receipt of a delivery stays: _write_receipt replaces it.
DeliveryKept == [][pmReceipt = "delivered" => pmReceipt' = "delivered"]_vars
=============================================================================
