# Dockyard / AgentDesk: a TLA+ model of the ledger, the scheduler, the dispatches and what becomes of their deliveries

Dockyard runs coding agents. A project manager process (the *Orchestrator*)
moves tasks through a ledger of files in a Git repository, dispatches each task
to a worker CLI that runs in a worktree, takes its delivery, has it reviewed
and integrates it. Everything that is shared is a file: processes meet only at
lock files and at the files that these guard. This directory models a task's
whole way: how a planned card is admitted to the scheduler and selected, how
its worktree and its worker come about, who owns a worker slot, how the ledger
changes and what a gated change needs, how a dispatch is watched, ended and
recovered from, and how its delivery is audited, accepted or returned, and
merged. All sources named here are in `src/skills/agentdesk/scripts/`;
contracts are in `src/skills/agentdesk/references/public-interfaces/`.

## 1. Inventory

| component | state | operations | what is hard | what makes it correct |
|---|---|---|---|---|
| worker slot lease (`worker_slot_lease.py`) | `worker-slot-lease.yaml` (leases, epochs, `updated_at`), `.worker-slot-lease.lock` | acquire, renew, release, fence | clocks read before the lock, expiry, crash with the lock file in place, errors after the write | one owner per slot and per worktree and kind; epochs fence off old holders; nobody alive is evicted |
| control-plane transition (`control_plane_transition.py`) | `tasks.yaml`, event files, outbox messages, acceptance records, `BOARD.md`, `STATUS.md`, `.state-transition.lock` | `apply_transition` (16 event types), owner-loss transition, retry reservation | requests built from unlocked reads, a write of up to six files that can stop anywhere, retries | one change per event, evidence before the ledger and written once, stale dispatches rejected, dispatch and state fit |
| approval gate (`approval_gate.py`) | evidence files in `docs/pm/approvals/` | `write_grant`, `write_revoke`, `require` | three parties with three clock readings, Git HEAD that moves | a gated change has exactly one good approval; evidence stays loadable |
| Orchestrator (`workflow_orchestrator.py`) | an `ActiveDispatchExecution` in memory (worker task, heartbeat task, winner, finalize lock) | start, adopt, cancel, supersede, finalize, bounded retry, acceptance, remediation, recovery | asyncio races between completion, heartbeat, cancellation; failures between lease, ledger and receipt | one terminal outcome; slot released exactly when the worker is known to be over |
| dispatch supervisor evidence and runner (`dispatch_supervisor_evidence.py`, `dispatch_supervisor_runner.py`) | receipts, tombstones, retry receipts, token lock | reserve, advance, finalize, probe | crash between tombstone and receipt, process identity, dead owners | phases move forward, no second worker while one may run |
| owner-loss recovery (`dockyard_owner_loss_recovery.py`, ...) | the above, read by another process | classify, recover, retry | acts on evidence of a process that is gone | recovers only what is provably dead, and once |
| portfolio scheduler (`portfolio_scheduler_*.py`) | queue entries, reservations, admission plans, receipts, handoffs | enqueue, reserve, admit, hand off, recover | crash between the files of one admission; lock order slot, ledger, queue | one admission per queue entry, recovery finishes or undoes |
| worktree lifecycle (`worktree_lifecycle_*.py`) | reservations and records | reserve, create, remove | git commands that fail half-way | no worktree for two owners, no loss of work |
| Git integration (`git_integration_owner.py`) | Git refs, request and receipt files, a lock file | integrate an accepted commit | all of git runs outside the lock; a death after `update-ref` | a receipt is true of the branch, the branch only grows, conflicting changes stay apart |
| PM admission and materialisation (`pm_*.py`, `dockyard_task_admission_composition.py`) | three receipts in three stores, the index of git, the queue | prepare, materialise, admit, resume | HEAD moves, two threads and one index, a stop between any two steps | everything made for a card speaks of one commit; dependencies first |
| post-delivery review (`dockyard_terminal_owner_composition.py`, `dockyard_post_delivery_*.py`) | review requests and receipts | audit, accept, return, redispatch | seven steps in four stores with a lock each | only what was passed and accepted is merged; no receipt ahead of the ledger |
| Orchestrator cycles after a delivery (`workflow_orchestrator.py` from `run_acceptance_cycle` on) | none of its own: results that callers keep | ten cycles of one or two transitions | results of any age, two owners, cycles that stop and are run again | each verdict for its own delivery; escalation of the last attempt only |
| pairing, registry, plans (`dockyard_pairing.py`, `dockyard_project_registry.py`, `dockyard_plan_store.py`) | local stores of the web runtime | pair, revoke, register | expiry, concurrent writers | a token is used once |
| composition, control API, projections | none of their own | wiring, HTTP, SSE | | |
| providers, adapters, decoders | none | one subprocess per call | output that is cut off | |
| policies (rate limit, escalation, context budget, difficulty, model selection) | none | pure functions | boundaries | monotone, total |
| validators, state provider, views, doctor, init | none | read and render | | their rules are the invariants of the ledger |

How they interact: a worker transition of the ledger (acknowledge, deliver)
runs inside the slot fence, so that the slot lock is taken first and the state
lock second (`_LockOrderTracker`); the three gated transitions (dispatch,
accept, integrate) call the approval gate inside the state lock, and the
approval writers take the same state lock; the Orchestrator holds a lease from
before TASK_DISPATCHED until the dispatch is finalized and renews it from a
heartbeat; the scheduler takes slot lock, state lock and queue write in that
order (`portfolio-scheduler-contract.md`).

## 2. Modules

| module | models | runs and reproductions |
|---|---|---|
| `WorkerSlotLease` | `worker_slot_lease.py` | `worker_slot_lease` |
| `ControlPlaneTransition` | `apply_transition` for one task | `ledger_delivery`, `ledger_blockers`; Replay, Envelope |
| `TaskLog` | what a reader of `tasks.yaml` may rely on; `ControlPlaneTransition` implements it | property `ImplementsTaskLog` |
| `ApprovalGate` | the approval writers and the gate inside a transition | `approval_gate`; Conflict |
| `ActiveDispatch` | the Orchestrator's dispatch cycle and finalizer, the supervisor, owner-loss recovery and its retry | `dispatch_safety`, `dispatch_ends`; Cancel, OwnerLoss, RetryPlan |
| `PortfolioScheduler` | the tick of the scheduler, its store and the admission to TASK_DISPATCHED; also the abstract specification for `TaskAdmission` | with the two below |
| `SchedulerRecovery` | `PortfolioScheduler` with recovery decisions and their execution | `scheduler_recovery`; Alignable |
| `TaskAdmission` | the composition, preparation and handoff that bring cards to the scheduler; refines `PortfolioScheduler` | `task_admission` (`ImplementsScheduler`); Finalizes |
| `WorkerHandoff` | the worktree of an admitted dispatch, the runs that start its worker, the handoff's pair of files and the PM's receipt | `worker_handoff`; Leased, Tree, Resumable, Kept |
| `OwnerCycles` | the Orchestrator's cycles after a delivery | `owner_cycles`; Results, Quiescent, Integrates |
| `GitIntegration` | `git_integration_owner.py` | `git_integration` |
| `DeliveryReview` | the terminal owner composition and the review store, on top of `GitIntegration` | `delivery_review`; Actionable |
| `WorkerSlotLeaseProofs`, `ControlPlaneTransitionProofs`, `ApprovalGateProofs`, `ActiveDispatchProofs`, `WorkerHandoffProofs`, `OwnerCyclesProofs`, `DeliveryReviewProofs` (with `GitIntegration`), `SchedulerProofs` (with `SchedulerRecovery` and `TaskAdmission`) | theorems about them | (tlapm) |
| `MC*` | small instances | |

How they compose: `TaskAdmission` and `SchedulerRecovery` extend
`PortfolioScheduler` with the callers on either side of a tick;
`DeliveryReview` extends `GitIntegration`, whose operations are its
deliveries; `OwnerCycles` takes the compare-and-set and the changes of a
transition from `ControlPlaneTransition` by INSTANCE. Elsewhere a component
that another module models in full is reduced to what is read of it: to an
`ActiveDispatch` the ledger is one step that may be refused, to a
`WorkerHandoff` the supervisor is a few states. `TaskLog` is why a transition
may be one step everywhere but in `ControlPlaneTransition`.

### WorkerSlotLease

State: the clock, the lock file, the store file, and for each process its place
in a call (`pc`), the call's arguments (`call`, with the `now` its caller read),
the copy of the store it has read (`snap`), what it is about to return (`ret`)
and the lease object its caller has (`handle`). `returned` records who has
asked for a release. A call goes `begin`, `locked`, `loaded`, (`fenced`,)
`unlock`, one action for each point where another process can come in or this
one can die: `Lock` is the `O_EXCL` open, `Contend` the immediate refusal,
`Read` the load, `Acquire`/`Renew`/`Release`/`EnterFence` the checks with
`os.replace`, `Unlock`/`UnlockFails` the release of the lock file. `Replace`
lets the directory fsync fail after `os.replace`, so that a call can raise
although it changed the store. `Crash` at any point leaves the lock file
(`Orphan`). No code removes such a file; `RemoveOrphanLock` is the person who
does. That person is assumed not to remove the lock of a running call.

Time is whole seconds, which is what the store keeps. Assumption: the UTC
clock that all processes read does not step back.

### ControlPlaneTransition

State: the Git HEAD, the task in `tasks.yaml`, the event files, outbox messages
and acceptance records, the state lock, and for each caller its last request,
what it read inside the lock, and its place in the call. `committed` is
history. `Prepare` builds a request from an unlocked read; the call happens any
time later. `Lock` takes the OS lock and reads; `Replay`, `Refuse` and `Accept`
are the three outcomes of the checks (the orphan pre-check, the byte-exact
replay check, the compare-and-set, the builders of the files); then one action
per file in the order of `_write_canonical_files`, and `Stop` for a failure or
a death between any two. `Retry` makes the same request again, with the same
event id and the same `now`, which is what makes a byte-exact replay possible.

One number stands for the event id, the message id and the dispatch id that a
caller makes up together. A fresh number per request says that callers never
reuse an event id for a different request (they are random or derived from the
request). Requests of TASK_CANCELLED and TASK_SUPERSEDED carry no DispatchCAS,
as those for a quiescent task do not. Those of the finalizer carry one
(`_bind_active_dispatch_cas`) and so are accepted in fewer states, with the
same effect; `ActiveDispatch` has them.

`TaskLog` is the abstract specification: the state, revision, attempt and
current dispatch of the task and the set of dispatches it ever had, changed in
single steps along the edges of `_TRANSITION_SPECS`. The refinement mapping
(`Log` in `ControlPlaneTransition`) reads them from `tasks.yaml` and takes as
the dispatches the applied TASK_DISPATCHED events. Only `WriteLedger` maps to a
step; locks, files, failures and retries are stutters.

### ApprovalGate

State: the clock, HEAD, the evidence files by event id, the state lock, and for
each caller its call (with the clock and HEAD it read before) and what it
loaded. `Use` is a gated transition: `ApprovalGate.require` and the write of
the transition happen under one lock. Git history is a line of commits and HEAD
moves both ways on it.

### ActiveDispatch

Three kinds of processes: Orchestrators, one supervisor per dispatch
(`dispatch_supervisor_runner.py`) and its worker. They share the ledger
(`task`, and the event types committed for each dispatch), the evidence store
(`receipts`, `tombstones`, `retries`), a pipe per dispatch from the supervisor
to the Orchestrator that started it, and the state lock.

* `orch[p]` is the call that an Orchestrator is in. A cycle goes `starting`
  (slot acquired), `reserved`, `dispatched`, `awaiting`, `acknowledged`,
  `active`: `Reserve`, `ApplyDispatch`, `StartSupervisor`, `Acknowledge` and
  `BecomeActive` are the statements of `start_dispatch_cycle`, and
  `StartFails`, `CallerCancels`, `WorkerTaskFails` and `CleanUp` its `except`.
  `Complete` and `Interrupt` choose the winner of the finalizer; from then on
  there is one action per statement of `_finalize_active_dispatch` that touches
  something shared: `Stop` (the worker task is cancelled), `Deliver`,
  `Release`, `Close` (TASK_CANCELLED, TASK_SUPERSEDED), `RetryFinalizing`,
  `WriteTombstone`, `FinishReceipt`, `RetryFinalized`, `Publish`, each beside
  what happens when it is refused. `FailAndRetry` is the loop of
  `run_bounded_dispatch_retry`.
* `sup[d]` is the supervisor: `Ready` and `Announce` (SUPERVISOR_READY and its
  frame), `Spawn`, `Record` (WORKER_STARTED and its frame), `Watch`, `Timeout`,
  `Finish` (FINALIZING and the result frame). A write or a frame that fails
  ends it, and so can anybody at any time (`SupervisorDies`). On Windows the job
  object then ends the worker; on POSIX the worker has its own session.
* `Recover`, `LockAndRead`, `ProbeAndFail`, `Replay` and `ReserveRetry` are
  `recover_owner_lost_dispatch`: the checks without the lock, what is read under
  it, the probes and the transition, and the reservation of the retry. The
  probes see the processes as they are, with the receipt as it was read.
* `Die` ends an Orchestrator at any point; the system frees its lock.

What is abstracted: a change of the ledger is one step that may be refused
(`ControlPlaneTransition` has the writes), a write of a receipt is one step
that may fail, the slot is only whether its release succeeded
(`WorkerSlotLease` has the rest), a retry tombstone is one with its receipt, a
frame is `worker_started`, `ok` or `error`, a worker stands for its whole
process tree, and the supervisor's last frame and its exit are one step. When a
caller cancels or supersedes, the worker task is cancelled twice, by
`cancel_active_dispatch` and by the finalizer, and the second time ends the
wait for the supervisor: `TerminateAndGo` leaves it `terminated`, and
`EndTerminated` ends it later. In every other case `Terminate` waits.

### PortfolioScheduler and SchedulerRecovery

State: HEAD; per card its task and the generation of its TASK_DISPATCHED event
(`task`, `dispatch`; `events` may have one without its task), the queue entry
with state and generation, and per generation plan, receipt, reservation and
tombstone; the store's lock file, which a dead holder leaves behind (`Orphan`),
and what its holder has still to write (`todo`); per process the tick it makes.
A tick reads entry, receipt, ledger and HEAD in steps, selects, writes plan,
receipt, reservation and entry one file at a time under the lock, checks the
canonical evidence, takes a slot, dispatches, and aligns receipt and entry in
lock sections of their own. It may give up, fail or die between any two steps
and be made again. Which queued card `select_next` prefers is left open.

`SchedulerRecovery` adds recoverers: `Examine` makes a decision
(`decide_reconciliation`) from evidence read without the lock, `Recover` carries
it out under the lock at any later time, and `WriteOn` goes on with its files.
The adoption of a dispatch writes the receipt before it looks at the entry, and
refuses one that is still queued only then (`RefusedAfter`): the receipt stays.
`Resubmit`, `Retire` and `Finalize` are operations of the store that only tests
call today; the module says what they do whenever they are called.

### TaskAdmission

State: the composition's receipt, the preparation, the handoff's receipt
(`progress`, `prepared`, `handoff`, all numbers of phases), the stored inputs,
the index of git and what HEAD tracks, the registration of the task, the
dispatch approval, the queue sequences, and per thread its step (`job`). Every
function of the three modules that writes something another one reads is a
step; each receipt is written after the step it speaks of; a thread can `Stop`
anywhere (a refusal, an error or the end of its process) and the card is taken
up again from the receipts. That no two threads are at one card at a time
(`Alone`) rests on locks of the process (`_EXEC_LOCKS`, a `threading.Lock` per
card): the model is of the one process that runs the admission. Its last part is a tick of `PortfolioScheduler`,
and `ImplementsScheduler` shows that all the steps before it are, to the
scheduler, the one step `HandOver`.

### WorkerHandoff

State: the worktree's record, branch and tree; the lease, the ledger's state of
the task, the supervisor's receipt and tombstone; the two files of the handoff
(`pair`), the store's lock, the PM's receipt; per run and per manager its
place. A run goes through `run_pm_external_worker` and
`_start_admitted_dispatch`: reserve, start the supervisor, mark the worker
started, acknowledge, finalize, publish. Two runs share no lock but the store's,
which each call takes for itself. `create` and `release` of
`WorktreeLifecycleManager` look before they lock, and git may be killed half-way.
`_verify_release_ownership` reads the leases, the receipt and the tombstone or
the processes with nothing to hold the reads together: `ReleaseLeases`,
`ReleaseReceipt` and `ReleaseProbe` are three steps, and an admission, a
reservation or the start of a worker may come between any two. `early` marks a
release that was overtaken in that way, so that the properties can name it.

### OwnerCycles

State: the ledger's task, the acceptance records, per attempt its dispatch, the
slots, and the results that callers keep: audits, an accepted result, blocked
results. None of them is bound to an attempt, because the code does not do it: a
`MadAuditGatewayResult` has no task and no dispatch, the validation of a cycle
compares a verdict and the task, and so a cycle of any delivery may be begun
with the result of any other (`Audited`). A cycle (`cycle[c]`) is one of ten operations with its requests built
when it begins; `ApplyFirst` and `ApplySecond` are its transitions, `Acquire`
and `Release` its slot, and `Retry` runs the last cycle again with the same
event ids (`made` is what makes a replay possible). There is one dispatch per
attempt (`OneDispatchPerAttempt`), so that the attempt stands for the dispatch,
its delivery and its commit.

### GitIntegration and DeliveryReview

A commit is the sequence of steps that lead to it, so that "is an ancestor of"
is "is a prefix of", and the merge of one request into one head is always the
same commit, as it is in git when parents, message and date are fixed. A call
of `integrate` goes through four sections under the lock file (`Call`,
`MarkValidated`, `RecordTree`, `Finalize`) and runs git between them
(`Validate`, `Prepare`, `UpdateRef`). It may die inside a section, which
leaves the lock file, or between two; developers push. `DeliveryReview` drives
it: `audit`, `accept`, `apply`, `integrate`, `complete`, `publish`, `close`, and
`return`, `requeue`, `apply_return`, `close_return` are the statements of
`execute`, `accept` and `return_delivery` that change one of the four stores. The
lock of the review store is a `threading.Lock` (`_store_lock`), and the two
callers are two processes: `advance` is a read and a write (`ReadReview`,
`WriteReview`; `applying`, `closing`, `finalizing`, `applying_return`,
`closing_return` are between them), so two calls may both take a review past its
verdict and both go on to the integration. Before the verdict a review has one
call only, the one that reserved it. A
delivery may be the rework of a returned one.

## 3. What is checked

All properties but `CycleEnds` are safety properties, and only the run
`dispatch_ends` assumes fairness: an Orchestrator and a supervisor that live
take their next step when they can. That is what the code justifies: no step
waits for a lock (one attempt, then a refusal), the Orchestrator waits for a
line or for the end of the pipe, the supervisor waits for its worker and no
longer than the timeout, and the system delivers a signal. Nothing is assumed
of callers (cancellations, recoveries) nor of workers, and any process may die.

Deadlock is checked in the runs of `WorkerSlotLease`, `ControlPlaneTransition`,
`ApprovalGate` and `WorkerHandoff`, where nobody can be stuck: a call makes one
attempt at a lock and is refused otherwise. It is not in the others: there all processes may be dead or done,
a bound may be reached, or a lock file may be left that nobody removes.

| run | bounds | size |
|---|---|---|
| `worker_slot_lease` | 2 processes, 2 slots of one kind, 2 worktrees, TTL 2, clock to 2, epochs to 2; symmetric in processes and worktrees | 2.7 M states, about 1 min. |
| `ledger_delivery` | 2 callers, the 10 event types of a delivery, 6 requests (each with any number of retries), HEAD moves once | 1.7 M states, about 35 s |
| `ledger_blockers` | 2 callers, 9 event types around blocking, 5 requests | 4.9 M states, about 70 s |
| `approval_gate` | 2 callers, 1 action, 2 approval ids, 3 files, clock to 1, HEAD on 2 commits | 2.4 M states, about 45 s |
| `dispatch_safety` | 3 Orchestrators, 2 dispatches, attempts to 2, both platforms; symmetric in both | 0.43 M states, about 20 s |
| `dispatch_ends` | 2 Orchestrators, 2 dispatches, attempts to 2, both platforms, fairness | 0.35 M states, about 1 min. |
| `scheduler_recovery` | 1 card, 2 ticks, 1 recoverer, generations to 2, HEAD moves once, 1 error or crash | 2.7 M states, about 75 s |
| `task_admission` | 2 cards, 2 threads, 1 slot, 1 generation, enqueue sequences to 2, HEAD to 4 commits of which 1 is a stranger's; stops anywhere | 1.1 M states, about 80 s |
| `worker_handoff` | 2 runs, 2 managers, of which one at a time is in a call once both runs have begun (`ThreeAtATime`), 2 crashes, kills or failed writes | 4.8 M states, about 3 min. |
| `owner_cycles` | 2 callers, 3 attempts, 2 revisions, 2 audits in the first two attempts of the first revision, in the second of them one cycle at a time, and 1 audit beyond (`TwoAuditsEarly`) | 1.2 M states, about 2 min. |
| `git_integration` | 2 callers, 3 operations of which 2 conflict and 1 asks for a fast forward, 1 push, 1 fault | 1.2 M states, about 20 s |
| `delivery_review` | 2 callers, 3 deliveries of which 1 reworks another and 2 conflict, 1 push, and 1 fault or 1 move of HEAD (`OneTrouble`) | 1.7 M states, about 1 min. |

Why the bounds are enough for what is asked. Two processes are needed and
enough for every race on a lock, since a lock has one holder and one rival. A
slot needs an epoch 2 for an old holder to be fenced off by, and a clock that
passes a TTL. Six requests are specify, dispatch, fail, dispatch, acknowledge
and a stale request of the first dispatch, or the straight way to an accepted
task. Three evidence files are a grant, its revoke and one more grant. In
`ActiveDispatch` two dispatches are one that fails or is lost and its retry, and
three Orchestrators are a creator that died and two that recover from it at the
same time; that a call ends does not depend on a third. The code allows three
attempts; the third matters only to the retry plan, whose reproduction has it.
In `scheduler_recovery` generation 2 is what a requeue makes of generation 1;
cards meet in a queue only through the lock, HEAD and the slots, which is what
two cards in `task_admission` are for, where the fault bound is 0 because every
thread may stop between any two steps without one (faults there are torn
transitions and locks left behind, which `scheduler_recovery` has). Of the
worktree two managers race with each other and with one run; two runs race for
the worker, and a second manager at work adds nothing to that. In `owner_cycles`
two audits in two attempts are two owners that disagree over one delivery, or an
old verdict that meets the next delivery; three attempts are the blocked one, its
redispatch and one that overtakes an old cycle, and there one audit is enough,
since a result is used as often as a caller likes. Two callers race with two
results in the first attempt, and with one result in any. In `git_integration`
one fault is a death in the worst place and everything that follows it is free.
In `delivery_review` HEAD moving refuses a call as a fault ends it, at fewer
places; either leaves the other call to go on.

What the properties say:

* **OwnersExclusive**: while a client may believe in its lease (not released,
  time not over) the store has it and no other client may believe in the same
  slot, or in the same worktree under the same kind.
* **FencedBodyOwnsSlot**: a block under the fence runs for the stored holder
  and alone, even past the lease's time.
* **EpochsFence**, **NoLiveEviction** (action properties): new leases have new
  epochs; a lease leaves only by expiry or by its holder.
* **LedgerFollowsEvents**, **StaleDispatchFenced**, **EvidenceImmutable**
  (action properties): each change of the task is that of an event on disk
  which starts from the task as it is and is used once; words of an old
  dispatch change nothing; evidence never changes.
* **DispatchTraceable**, **AcceptedWasDelivered**, **OneDispatchPerAttempt**,
  **DispatchMatchesState**: what a reader of `tasks.yaml` may conclude at any
  moment, also between two files of a write.
* **ImplementsTaskLog**: the refinement of `TaskLog`.
* **EvidenceLoadable**, **OneActiveGrant**, **UsesApproved**: approvals.
* **EvidenceBacksLedger**: what the Orchestrator commits is never ahead of what
  the supervisor has put on disk, although they are two processes and a pipe.
* **TombstoneIsFinal**: a tombstone means that worker and supervisor are gone,
  and FINALIZED is never without one.
* **RecoveredWasDead**: a recovery declares a dispatch failed only if creator
  and supervisor are dead and an acknowledged worker is over.
* **OnlyCurrentWorkerRuns**: on Windows no failure, cancellation, recovery or
  crash leaves a worker of an earlier dispatch behind.
* **RetryTruthful**: a retry receipt says what became of the retry.
* **CycleEnds**: every call returns or raises.
* **NeverRepeated**, **EvidenceFollowsLedger**, **GenerationFenced**: no tick of
  any generation dispatches a card twice; the store never says DISPATCHED
  before the ledger; a generation that was given up keeps its SELECTED receipt
  and the tombstone that keeps late ticks out.
* **OneCommit**, **ReceiptsTruthful**, **InOrder**, **ImplementsScheduler**:
  approval, registration and plan of a card name one commit, its evidence is in
  it, no receipt is ahead of another store, dependencies come first, and all of
  it is what the scheduler's own specification allows.
* **OneWorker**, **HandoffBacked**, **WorktreeKept**: two runs for one dispatch
  start one worker; the handoff and a reported delivery rest on receipt,
  tombstone and ledger; a leased dispatch keeps its worktree, unless one release
  read the leases before its admission and the receipt after its reservation,
  and a released record has no worktree.
* **VerdictCarriedOut**, **EscalatesLast**, **NeverCancelsRunning**: a delivery is
  answered once, but for a failed integration after its acceptance, and is
  accepted or returned on such a verdict about the task, of this delivery or an
  earlier one; a redispatch answers the last attempt, which was blocked, at its
  revision, with the kind of worker after that of a blocked delivery; the
  quiescent operations never end a running task or one under review.
* **FinalizedIsInTarget**, **ClashesKeptApart**, **NothingLost**: see section 4.
* **MergedWasAccepted**, **ReviewFollowsLedger**, **IntegratedIsInTarget**:
  nothing is merged that was not passed and accepted; a review's phase is backed
  by its transition; what the ledger calls integrated is on the branch, by the
  commit that the ledger records and that the git receipt names, although a
  second call may write that receipt again.

`DispatchMatchesState` and `AcceptedWasDelivered` are promises of the service
*for the requests that the Orchestrator makes*: the service itself would let a
caller resume a blocked task to any state and call the attempt that it blocks
valid. `ResumeTo` and `BlockValid` say what callers ask for. The Orchestrator's
validation (`OrchestratorBlock`) sends TASK_BLOCKED with `attempt_valid` false
and INTEGRATION_FAILED with true, and resumes to `ready`; `ledger_blockers`
checks `DispatchMatchesState` for these, `ledger_delivery` checks the rest for
any request. Section 4 has the two conditions under which they are theorems.

There are stated properties that hold and are not among the runs, but proved:
the type invariants, `StoreValid` (no sequence of calls makes a lease
store that its own validator refuses) and `AcceptedBacked`.

### Where the code and its documents disagree

Each of these has a configuration of its own, to be run as
`tlc -config <cfg> <module>`; TLC then shows a behaviour within seconds.

| configuration | property violated | what happens |
|---|---|---|
| `MCControlPlaneTransitionEnvelope` | `EnvelopeOnlyWhenBlocked` | Cancelling or superseding a blocked task leaves its blocked fields, which `validate_project.py:2889` reports as errors. |
| `MCControlPlaneTransitionReplay` | `ReplayedWasCommitted` | The replay check compares the state only; decision 001 asks for revision, attempt and identity and for no orphan. An event that was never applied is reported as a success. |
| `MCApprovalGateConflict` | `ConflictMeansActive` | `write_grant` looks up the revoke of the *new* approval id and no expiry: an action whose grant was revoked or has expired cannot be granted again. |
| `MCActiveDispatchCancel` | `NoWorkerAfterCancel` | Cancelling an active dispatch terminates the supervisor only. On POSIX the worker goes on after the slot is released and TASK_CANCELLED applied, which section 14.5 of the Orchestrator's contract forbids. |
| `MCActiveDispatchOwnerLoss` | `NoRecoveryOfRunningWorker` | On POSIX a worker that was started but not recorded is not seen by a recovery, which declares its dispatch lost; section 11 of the supervisor evidence contract calls for UNKNOWN there. |
| `MCActiveDispatchRetryPlan` | `RetryReadsItsOwnReceipt` | The attempts of a plan after an owner loss all carry the lifecycle of the first, so that the second is refused once its worker has started. |
| `MCSchedulerRecoveryAlignable` | `Alignable` | A receipt that is DISPATCHED beside an entry that is SELECTED, with HEAD moved on, or beside one that is QUEUED, which an adoption leaves when it is refused after its first write: no tick aligns them and the recovery finds nothing to do (`portfolio-scheduler-contract.md:295`: "Align to `dispatched`/`retired` from the canonical event"). |
| `MCTaskAdmissionFinalizes` | `AdmittedFinalizes` | A thread that stops after ADMITTED: the lease or HEAD moves on and the replay of the submission is refused, so that the card never finalizes (`dockyard-task-admission-composition-contract.md:197`: "finalize only"). It is stated under strong fairness of the threads. |
| `MCWorkerHandoffLeased` | `LeasedKept` | `release` reads the leases, the dispatch is admitted and reserved, `release` reads the receipt RESERVED and removes the tree of a leased dispatch (`worktree-lifecycle-contract.md:253-255`: release is refused for "live process/lease evidence"). |
| `MCWorkerHandoffTree` | `WorkerHasTree` | `release` checks the lease, then removes; a RESERVED receipt whose lease has lapsed passes, and a worker that starts meanwhile loses its tree (`worktree-lifecycle-contract.md:251-255`). |
| `MCWorkerHandoffResumable` | `Resumable` | A tombstone before FINALIZED cannot be resumed: the finalizer has dropped the lease by then and `_lease` refuses without it (`scheduler-worker-handoff-runtime-contract.md:120`). |
| `MCWorkerHandoffKept` | `DeliveryKept` | `_write_receipt` replaces the PM's receipt of a delivery by the RECOVERY_REQUIRED of a run that came second. |
| `MCOwnerCyclesResults` | `VerdictOfDelivery` | An audit result names no delivery: the `pass` or `fail` of an earlier attempt accepts or returns a later one (`workflow-orchestrator-contract.md:2313-2315`: the methods "validate the audit verdict plus task/revision/attempt/dispatch/commit/CAS/event identity"). |
| the same without `VerdictOfDelivery` | `EscalatesKind` | Only task ids are compared between a blocked result and the cycle that it drives: the redispatch asks for the kind after that of an earlier attempt, so that a kind is repeated or goes down (`adr/001-mad-agentdesk-integration.md:5475`: "No downward escalation, skip, or wrap-around"). |
| `MCOwnerCyclesQuiescent` | `EndsQuiescent` | `cancel_quiescent_task` looks at a snapshot and transitions later with no dispatch to compare: a task blocked, redispatched and blocked again is ended with its dispatch. |
| `MCOwnerCyclesIntegrates` | `IntegratesAccepted` | After a second acceptance `run_durable_integration_completion` integrates the delivery of an earlier one, which its request calls equivalent (`references/protocol.md:240`). |
| `MCDeliveryReviewActionable` | `UserActionable` | A review with the verdict `blocked` hides the task's other review from the user and offers no action itself. |

On Windows the two about workers do not happen: `OnlyCurrentWorkerRuns` holds.

What else the models show of the code, without a property that would hold:

* A lock file left by a dead process stops the lease store, the scheduler's
  store and the Git integration until a person removes it.
* A handoff that stops between its queue entry and its receipt reserves another
  sequence when it resumes, which the entry refuses for good
  (the contract calls that fail-closed); a torn pair of handoff files is
  unreadable for good; a killed `git worktree add` leaves a branch that every
  later creation stumbles over.
* TASK_BLOCKED, TASK_REQUEUED and the BLOCKER events carry no dispatch to
  compare, and the requests of a remediation do not compare their revision with
  the delivery's; the state machine of the ledger is all that holds them back.
* The fourth section of `integrate` writes REF_UPDATED over whatever phase it
  finds, so that a finalized receipt is briefly unfinished again when a second
  caller comes late; its content stays true (`FinalizedIsInTarget`).

## 4. What is proved

`WorkerSlotLeaseProofs` proves, for any finite or infinite set of clients, any
set of slots, kinds and worktrees and any TTL, every property of the run
`worker_slot_lease`: `TypeOK`, `StoreValid`, `OwnersExclusive`,
`FencedBodyOwnsSlot`, `EpochsFence` and `NoLiveEviction`. The assumptions are
those that `WorkerSlotLease` names (the null values differ from what they stand
beside; TTL and the bounds are naturals). None of the properties is inductive:
what a client has in memory has to be tied to the file. The invariant is the
conjunction of

* `LockHeld`: a client past `begin` has the lock file, so at most one is;
* `SnapCurrent`: what it has read is still the store;
* `CallsMade`: a call carries a time that has passed, an operation on a lease
  has one, and a release has been recorded in `returned`;
* `ExpiryFixed`: a stored lease ends TTL after its last heartbeat;
* `HandleFaithful`: a client's lease object is its own, its epoch is not above
  the slot's, and while the epochs agree the stored lease is that object,
  renewed or not;
* `ReturnStored`, `OwnedStored`, `FencedStored`: a lease that is about to be
  returned, is believed in, or is fenced, is stored;

together with `TypeOK` and `StoreValid`.

The key steps: an acquire purges nothing that the clock has not passed, since
its `now` is at most the clock; a renewal only moves the expiry up, since its
`now` is not before the last heartbeat; a slot's epoch goes up with each
acquire, so that `_verify_lease_identity` tells an old holder from the present
one. The module
has one lemma per action and combines them in `Invariance`.

`ControlPlaneTransitionProofs` proves, for any callers, any choice of event
types, payloads and resume states and any bounds, `TypeOK`,
`DispatchTraceable`, `OneDispatchPerAttempt`, `AcceptedBacked`,
`EvidenceImmutable`, `LedgerFollowsEvents`, `StaleDispatchFenced` and the
refinement `ImplementsTaskLog`, from `ConstantsAssumption` (requests have the
types of the code) and the assumptions that the null values differ from what
they stand beside. The inductive invariant `IInv` adds

* `LockHeld`: a caller past the lock is the only one there;
* `Requested`: a request is as its caller built it (`WellFormed`);
* `AllInHand`: before it has replaced `tasks.yaml` a caller knows the task as it
  is; once its checks passed its request fits that task (`Fits`: the from-state,
  revision, dispatch and attempt, and an id that was not applied), and of its
  files exactly those before the next one are there (`FilesAt`);
* `EvidenceFirst`: an applied id has its event, and an applied dispatch an
  attempt that is not above the ledger's;
* `DispatchApplied`: the current dispatch was applied, for the current attempt.

The argument: the files of a request do not exist when its checks pass, the
lock keeps everybody else out until the last of them is written, and a call
that stops half-way leaves an event that makes `IsNew` false for ever. So no
file is replaced twice (`EvidenceImmutable`), each id is applied at most once
(`LedgerFollowsEvents`), and the compare-and-set, made against a task that
cannot change meanwhile, is still true when `tasks.yaml` is replaced
(`StaleDispatchFenced`, the refinement). `OneDispatchPerAttempt` needs the
order of attempts: a new dispatch has the ledger's attempt plus one and every
earlier one at most the ledger's.

The two properties that depend on what callers ask for have their condition in
the theorem, and an invariant each on top of `IInv`:

* `AcceptedAlwaysDelivered`, if `review_ready` is not in `ResumeTo`: then only a
  delivery leads to a review. `ReviewInv` says that a task under review names a
  commit that its current dispatch has delivered (`UnderReview`), that a verdict
  past its checks is about that commit (`Chosen`), and that the path of an
  acceptance record, which has revision, attempt and review id in it, has one
  record (`OnePath`). Whether a blocked attempt is called valid does not matter
  to it.
* `DispatchAlwaysMatchesState`, if TASK_BLOCKED comes with `attempt_valid` false
  and no task is resumed to a state with a worker. Then a valid request to
  block is an INTEGRATION_FAILED (`NoValidBlock`), which an accepted task has no
  dispatch for, and the ledger has a dispatch if and only if its state is one
  with a worker (`DispatchIffRunning`).

`ApprovalGateProofs` proves, for any callers, actions, ids and times, `TypeOK`,
`EvidenceLoadable`, `OneActiveGrant` and `UsesApproved`. The invariant ties what
a caller has loaded to the files (`LockHeld`, `SeenCurrent`) and adds
`RevokesGranted` and `OneGrantPerAction`. The last is stronger than what the
code is meant to keep: since only a granted id can be revoked and a new grant
needs a new id, the exception of `write_grant` for a revoked id never applies,
and an action is granted once in its life. That is why at most one grant is
active, and also why `ConflictMeansActive` fails.

`DeliveryReviewProofs` is about two modules. Of `GitIntegration` it proves, for
any operations, callers, conflicts and bounds, `TypeOK`, `FinalizedIsInTarget`,
`ClashesKeptApart` and `NothingLost`. The invariant `IInv` says that an operation
has one candidate commit, given by its request on disk (`Candidate`): a report
or a merge is on the branch only as that candidate (`LandedAsCandidate`), and
every receipt (`ReceiptOK`) and every call's memory (`CallOK`) names that
candidate or a commit that is on the branch. So when two calls of one operation
write its receipt in turn, or one dies between `update-ref` and the receipt,
whichever value ends up on disk is true. `NeverBack` adds that a receipt that is
past the preparation of the tree never goes behind it. `update-ref` compares the
target with the expected one, so the branch only grows by what was computed for
its present head, and with it `Fits` (no conflict with that head) gives
`ClashesKeptApart`. All of it is proved for `AnyNext`, in which a call may expect
any commit and faults may happen elsewhere: the steps of `GitIntegration` are
such steps, and so is what a step of `DeliveryReview` does to git
(`ReviewIsAny`).

Of `DeliveryReview` it proves, for any deliveries, reworks, callers, conflicts
and bounds, `MergedWasAccepted`, `ReviewFollowsLedger`, `IntegratedIsInTarget`,
and the promises of `GitIntegration` once more (`IntegratesTruly`). Besides the
assumptions of both modules (bounds are naturals, `None` differs from the
phases, outcomes, verdicts and commits) nothing is assumed. `ReviewIInv` adds

* `StageOK`: what the stage of a call stands for still holds, whatever others
  have done since (`Holds`: a call past `accept` is for a task that is accepted,
  or integrated already if another call was first, and for a verdict `pass`; one
  at `integrate` or later for a review that is past REVIEW_APPLIED; one past
  `publish` for a task that is integrated);
* `GitCallOK`: a call of `integrate` runs at its stage, for its delivery;
* `OneFresh`: a delivery has one call before its verdict; after it there may be
  any number, and each of them may have read the review before another wrote it;
* `Agree`: which states of the task go with which phase and verdict, for a phase
  that such a late write may have set back as well;
* `Recorded`: the receipt that a call of `integrate` has returned, and the one
  that an integrated task has recorded, name the commit that the git receipt on
  disk names, with outcome FINALIZED (`Settled`); its phase may be REF_UPDATED
  again when another call writes it or has died over it.

A commit comes to the branch by the `update-ref` of one call, and it brings the
report of one delivery only, that of the call (`NewlyMerged`); the call is at
`integrate`, so its task is accepted or integrated and its verdict `pass`, and a
task never leaves `accepted` but for `integrated` (`AcceptedStays`). A git receipt
is written only by a call at `integrate` for its delivery, but there may be
several of these. What makes the recorded receipt stay true is `SettledStays`:
once the report is on the branch under the operation's one candidate, the fourth
section of another call finds it there and can only write that commit.

`ActiveDispatchProofs` proves, for any Orchestrators, dispatch ids, attempts and
both platforms, `TypeOK` and all the safety properties of `dispatch_safety`:
`EvidenceBacksLedger`, `TombstoneIsFinal`, `RecoveredWasDead`,
`OnlyCurrentWorkerRuns` and `RetryTruthful`, from `ConstantsAssumption` (attempts
are naturals, the null values are no ids). The invariant says of the task
(`TaskTrue`) which events its dispatch has in which state, of each dispatch
(`DispatchTrue`) how receipt, supervisor and worker go together, that a frame in
the pipe comes after the receipt that it tells of, and that events, tombstone,
recovery and retry have their evidence, and of each call (`CallTrue`) that its
dispatch is its own from the reservation on (`Owns`), that what it has read in
the pipe stays true (`Knows`), that the retry that it carries out has not been
given up (`Retries`), and that a recovery knows the task as it is
while it has the lock (`Recovers`). The hard part is `Knows`: the Orchestrator
acts on frames that are older than the receipt, so each frame is tied to a phase
that cannot be undone. A supervisor that lives and was not told to end has the
current dispatch, and on Windows its end is its worker's end; together that is
`OnlyCurrentWorkerRuns`.

`WorkerHandoffProofs` proves, for any finite set of runs, any managers and any
number of faults, `TypeOK`, `OneWorker`, `HandoffBacked` and `WorktreeKept`, from
`WorkerHandoffAssumption` and `NoneAssumption`. Its invariant:

* `HeldOnce`: a run that has a supervisor which got past its start took the
  receipt from RESERVED, and only one can; a run before its start has started
  nothing. This is `OneWorker`, with the receipt as the lock that the two runs
  do not have;
* `PairLocked`: between the two files of the handoff its writer has the store's
  lock, and the second file is one phase behind;
* `GoalBacked`: the evidence for each phase of the handoff that a run is about to
  write is there already;
* `OutcomeTrue`: what a run has in memory of the end of its worker is what
  tombstone, ledger and pair say;
* `TreeKept`: a release that has got past the receipt was either overtaken
  (`Overtaken`: it had read the leases before the admission and the receipt after
  the reservation) or the lease is gone for good, so without such a release the
  tree that was verified for a record that is READY stays until then. The reads
  are not one, so the invariant says of each place between them what was still
  true (`saw`: there was no lease when the leases were read).

`OwnerCyclesProofs` proves, for any callers, kinds of workers and bounds,
`VerdictCarriedOut`, `EscalatesLast` and `NeverCancelsRunning`, from
`CyclesAssumption`. Results are as old as a caller likes and cycles are run
again at any time, so the invariant says what time cannot take from a result:

* `CurrentIsLast`: the current dispatch is that of the last attempt, and a task
  that is dispatched, in progress or under review has one;
* `NothingAhead`: attempts to come have neither dispatch nor audit;
* `Settled`: an attempt that has had its answer is not under review any more,
  whatever is done to the task before its next dispatch;
* `BlockedHas`: a task that is blocked was blocked in its last attempt;
* `CyclesSound`: what the validation of a cycle found (some audit with that
  verdict, some blocked worker kind below the expert, a state without a running
  worker for the quiescent ones) still holds, and a redispatch of the last
  attempt that has resolved the blocker knows that this attempt was blocked.

Nothing ties a result to the cycle that it drives, so the argument is the
ledger's alone. An acceptance or a return compares the dispatch, so it moves the
last attempt, which has a dispatch and thus no answer yet; a block compares the
state, which is `review_ready` only for an attempt without one. A redispatch asks
for the attempt after that of the delivery that it is given, and the ledger takes
only the attempt after its last; and it has resolved a blocker before, which the
ledger allows in `blocked` only. The quiescent
operations found no dispatch and so none of the three states, and the ledger
compares the state that the request names. Nothing of this needs the worker
slot, which is why it is not in the invariant.

`SchedulerProofs` proves, for any cards, ticks and recoverers, any capacity and
any bounds, `TypeOK` and every property of the run `scheduler_recovery`:
`GenerationFenced`, `EvidenceFollowsLedger` and `NeverRepeated`. It assumes that
the null values and the holder that died differ from what they stand beside
(`NoneIsNothing`, `NobodyRecovers`) and that the bounds are naturals. The three
invariants concern files that an operation writes one after the other, and any
write may be the last: what is left to write has to be in the invariant.

* `Sound(todo)`: what the holder of the lock has yet to write is of one of four
  shapes, relative to the files as they are now: files whose order does not
  matter, a reservation (`Selects`), a requeue, whose tombstone comes before the
  entry leaves the generation (`Requeues`), or an alignment, whose receipt comes
  before the entry and for which the ledger has a dispatch (`Aligns`);
* `LedgerOK`: a task with a dispatch is dispatched, so that `Transit`, which
  wants it ready, makes the first one only;
* `TickOK`: a receipt that a tick has read as DISPATCHED is so still, a tick past
  its transition has a dispatch, and one past `AlignReceipt` has a receipt to
  show for it;
* `RequestsOK`: a decision to align was made from a dispatch, which nothing takes
  back, and one to requeue has a generation to go to.

`PutFirst` is the core: writing the first file of a shape keeps the files in
order and leaves a shape. A tick that is late is caught by `Binds` and by the
entry's generation, a recovery by `StillLive`: each operation reads the entry
again under the lock, and its files have a shape only because it does.

For `TaskAdmission` it proves, for any cards, threads and waits between cards,
`AdmissionTypeOK` and every property of the run `task_admission`: `OneCommit`,
`ReceiptsTruthful`, `InOrder` and the refinement `ImplementsScheduler`. It assumes
besides that the bounds on sequences and on moves of HEAD are naturals. Three of these
properties relate stores of different owners, each written by a thread that may
have stopped before it wrote the next; so the invariant says what each store
shows of the others and what a thread at each step still has in hand:

* `LadderOK`: the composition's receipt, phase by phase, of what it read
  (`DependenciesReady` holds from its second phase on, since integration is never
  undone) and of the handoff's;
* `BoundOK`: approval, task and plan are made in this order, each of the commit
  in the receipt; a plan that is still to be written is in `Plain(todo)`;
* `QueueOK`: an entry has the sequence of the receipt, or the receipt has none
  yet. A thread that stopped between `ReserveSequence` and `Enqueue` leaves a hole
  in the sequences; one that stopped after `Enqueue` leaves an entry which another
  sequence cannot replace, so that the card stays where it is;
* `DispatchOK`: from ADMISSION_SUBMITTED on there is a dispatch, and nothing takes it back;
* `ThreadOK` (`Outer`, `Inner`, `Ticking`) and `Alone`: a thread at a step finds the
  receipts in the phase that led it there, which holds only because no other
  thread is at its card; without `Alone` none of the rest is inductive.

`Ticking` adds that the tick of a thread is of its card, of the first generation
and of the receipt's commit, and `Plain(todo)` that what it has to write is too.
The scheduler's own invariant is kept by the lemmas of `SchedulerRecovery`: a
thread's tick is its tick. For the refinement the scheduler sees the task and
the commit of a card only once the card is queued (`SeenTask`, `SeenCommit`).
`Enqueue` is then `HandOver`, once, because the entry was not there; `Commit` and
`Integrate` are `MoveHead`, the tick's steps are themselves, and everything else
is a stutter, `Register` and `SaveGitEvidence` because the card is not yet queued
when they are taken, by whichever thread.

Model-checked only: `CycleEnds`, since liveness is beyond the provers.

No other liveness is checked: an orphaned lock file, an orphaned event and a
dispatch whose owner is gone wait for somebody outside the modelled code, so no
fairness that the code justifies would give progress.

## 5. Not modelled, and what is open

* Owner-loss recovery as composed by `dockyard_owner_loss_recovery.py`: the
  recovery itself is in `ActiveDispatch`; the composition adds redispatch
  receipts and the web runtime.
* The redispatch receipts, the result store and
  `dockyard_post_delivery_composition.py`, which nothing calls.
* Pairing, project registry and plan store: stores of the local web runtime,
  beside the way of a task.
* Context budget, rate limits, difficulty and model selection: functions of one
  request without a state.
* Subprocess command lines and output decoding, HTTP and SSE, rendering, the
  validators, the state provider, the project initialiser and the web front end,
  which keep no state of the task; external planners and deliberation services.

Open: an abstract slot that `WorkerSlotLease` implements and `ActiveDispatch` uses.
