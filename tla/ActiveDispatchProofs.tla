------------------------- MODULE ActiveDispatchProofs -------------------------
(***************************************************************************)
(* Proofs about ActiveDispatch, for every set of Orchestrator processes,   *)
(* every set of dispatch ids, any number of attempts and both platforms.   *)
(***************************************************************************)
EXTENDS ActiveDispatch, TLAPS

-----------------------------------------------------------------------------
(* The inductive invariant: what holds of the task, of each dispatch and of *)
(* each Orchestrator.                                                       *)

\* The places of a call whose execution is active, or was.
Executing == {"active", "delivering", "stopping", "releasing", "closing",
              "retiring", "tombstone", "advance", "retry_finalized", "published"}

\* The places of a call that has reserved the receipt of its dispatch.
Cycling == {"reserved", "dispatched", "awaiting", "acknowledged", "cleanup"}
             \cup Executing

\* The places before the execution is active.
Starting == {"starting", "reserved", "dispatched", "awaiting", "acknowledged"}

\* The places after the worker was stopped, or had ended.
Stopped == Executing \ {"active", "stopping"}

\* The places from which RETRY_FINALIZING may still be written.
NotRetired == Cycling \ {"tombstone", "advance", "retry_finalized", "published"}

\* A supervisor that has not been told to end.
Live == {"starting", "ready", "announced", "spawned", "watching", "succeeded", "failed"}

Over == {"FINALIZING", "FINALIZED"}

OpenStates == {"dispatched", "in_progress"}

Closed == {"TASK_CANCELLED", "TASK_SUPERSEDED"}

Retired == {"RETRY_FINALIZING", "RETRY_FINALIZED"}

\* The task has a current dispatch while it is open or under review, and the
\* events of that dispatch are those that lead to the state.
TaskTrue ==
  /\ task.state \in OpenStates \cup {"review_ready"} <=> task.dispatch # NoDispatch
  /\ task.dispatch # NoDispatch =>
       /\ receipts[task.dispatch].phase # "ABSENT"
       /\ receipts[task.dispatch].attempt = task.attempt
       /\ events[task.dispatch] =
            CASE task.state = "dispatched" -> {"TASK_DISPATCHED"}
              [] task.state = "in_progress" -> {"TASK_DISPATCHED", "DISPATCH_ACKNOWLEDGED"}
              [] OTHER -> {"TASK_DISPATCHED", "DISPATCH_ACKNOWLEDGED", "DELIVERY_SUBMITTED"}

\* The receipt, the supervisor and the worker of a dispatch go together.
ProcessesTrue(d) ==
  /\ receipts[d].phase # "ABSENT" => receipts[d].creator \in Orchestrators
  /\ receipts[d].phase = "ABSENT" => events[d] = {}
  /\ receipts[d].phase \in {"ABSENT", "RESERVED"} =>
       sup[d] \in {"none", "starting", "terminated", "exited"} /\ worker[d] = "none"
  /\ receipts[d].phase = "ABSENT" => sup[d] = "none"
  /\ receipts[d].phase \in NamesWorker => worker[d] # "none"
  /\ receipts[d].phase \in Over => worker[d] = "over" /\ sup[d] = "exited"
  /\ sup[d] = "none" => receipts[d].phase \in {"ABSENT", "RESERVED"}
  /\ sup[d] = "starting" => receipts[d].phase = "RESERVED"
  /\ sup[d] \in {"ready", "announced"} =>
       receipts[d].phase = "SUPERVISOR_READY" /\ worker[d] = "none"
  /\ sup[d] = "spawned" => receipts[d].phase = "SUPERVISOR_READY" /\ worker[d] # "none"
  /\ sup[d] \in {"watching", "succeeded", "failed"} => receipts[d].phase = "WORKER_STARTED"
  /\ sup[d] \in {"succeeded", "failed"} => worker[d] = "over"
  /\ sup[d] = "exited" /\ platform = "win32" => worker[d] # "running"
  /\ sup[d] \in Live => task.dispatch = d /\ task.state \in OpenStates

\* Frames come after the receipt that they tell of.
PipeTrue(d) ==
  /\ \A i \in 1 .. Len(pipe[d]) :
       /\ pipe[d][i] = "worker_started" => receipts[d].phase \in NamesWorker
       /\ pipe[d][i] = "ok" => receipts[d].phase \in Over
       /\ pipe[d][i] \in {"ok", "error"} => sup[d] = "exited"
       /\ i > 1 => pipe[d][i] # "worker_started"
  /\ sup[d] \in {"none", "starting", "ready", "announced", "spawned"} => pipe[d] = <<>>

\* The events, the tombstone and the recovery of a dispatch have their evidence.
EvidenceTrue(d) ==
  /\ "DISPATCH_ACKNOWLEDGED" \in events[d] => receipts[d].phase \in NamesWorker
  /\ "DELIVERY_SUBMITTED" \in events[d] => receipts[d].phase \in Over
  /\ d \in tombstones => receipts[d].phase \in Over
  /\ receipts[d].phase = "FINALIZED" => d \in tombstones
  /\ d \in recovered =>
       /\ receipts[d].phase # "ABSENT"
       /\ orch[receipts[d].creator].pc = "dead"
       /\ sup[d] = "exited"
       /\ task.dispatch # d
       /\ "DISPATCH_ACKNOWLEDGED" \in events[d] => worker[d] # "running"

RetryTrue(d) ==
  /\ retries[d].phase # "ABSENT" => retries[d].failed \in recovered
  /\ retries[d].phase \notin {"ABSENT", "RETRY_RESERVED"} =>
       /\ "DISPATCH_ACKNOWLEDGED" \in events[d]
       /\ receipts[d].attempt = receipts[retries[d].failed].attempt + 1
  /\ retries[d].phase \in Retired => events[d] \cap Closed = {}

DispatchTrue(d) == ProcessesTrue(d) /\ PipeTrue(d) /\ EvidenceTrue(d) /\ RetryTrue(d)

\* The dispatch of a call is its own from the reservation on.
Owns(p) ==
  LET me == orch[p]
      d == orch[p].dispatch IN
  /\ me.pc \notin {"idle", "dead"} => d \in Dispatches
  /\ me.pc \in Cycling =>
       /\ receipts[d].phase # "ABSENT"
       /\ receipts[d].creator = p
       /\ receipts[d].attempt = me.attempt
  /\ me.pc = "reserved" => events[d] = {}
  /\ me.pc \in {"reserved", "dispatched"} => sup[d] = "none"
  /\ me.pc = "dispatched" => task.dispatch = d /\ task.state = "dispatched"
  /\ me.pc \in Starting => me.outcome = "none" /\ me.winner = "none"

\* What an execution knows of its dispatch stays true.
Knows(p) ==
  LET me == orch[p]
      d == orch[p].dispatch IN
  /\ me.pc \in Executing \cup {"acknowledged"} => "DISPATCH_ACKNOWLEDGED" \in events[d]
  /\ me.pc \in {"acknowledged", "active"} =>
       \A i \in 1 .. Len(pipe[d]) : pipe[d][i] # "worker_started"
  /\ me.pc \in Executing /\ me.outcome # "none" => sup[d] = "exited"
  /\ me.pc \in Executing /\ me.outcome = "ok" => receipts[d].phase \in Over
  /\ me.pc = "active" => me.winner = "none"
  /\ me.pc = "stopping" => me.winner # "completion"
  /\ me.pc \in Stopped /\ me.winner = "completion" => me.outcome # "none"
  /\ me.pc \in Stopped /\ me.winner \in Terminations =>
       sup[d] \in {"none", "exited", "terminated"}
  /\ me.pc = "advance" => d \in tombstones

\* The lifecycle of an owner-loss retry, in its first attempt.
Retries(p) ==
  LET me == orch[p]
      d == orch[p].dispatch
      l == orch[p].lifecycle IN
  /\ l # NoDispatch => retries[l].phase # "ABSENT"
  /\ l # NoDispatch /\ l = d /\ me.pc \in Cycling \cup {"starting"} =>
       me.attempt = receipts[retries[d].failed].attempt + 1
  /\ me.pc \in Executing /\ l # NoDispatch => l = d
  /\ me.pc \in NotRetired => retries[d].phase \notin Retired
  /\ \/ me.pc \in {"acknowledged", "active", "delivering", "stopping", "releasing", "closing"}
     \/ me.pc = "retiring" /\ me.winner = "completion"
     => events[d] \cap Closed = {}

\* A recovery reads under the lock what it decides upon.
Recovers(p) ==
  LET me == orch[p]
      d == orch[p].dispatch IN
  /\ me.pc = "locked" =>
       /\ stateLock = p
       /\ task.dispatch = d /\ task.state \in OpenStates
       /\ "DISPATCH_ACKNOWLEDGED" \in events[d] => me.saw \in NamesWorker
  /\ me.pc = "reserving" => d \in recovered

CallTrue(p) == Owns(p) /\ Knows(p) /\ Retries(p) /\ Recovers(p)

IInv ==
  /\ TypeOK
  /\ TaskTrue
  /\ \A d \in Dispatches : DispatchTrue(d)
  /\ \A p \in Orchestrators : CallTrue(p)

-----------------------------------------------------------------------------
(* What a step writes. *)

\* The memory of a call.
CallRecord ==
  [pc : PCs, dispatch : Dispatches \cup {NoDispatch},
   attempt : 0 .. MaxAttempt, lifecycle : Dispatches \cup {NoDispatch},
   saw : Phases, outcome : {"none", "ok", "error"}, winner : Winners,
   error : {"none", "classified", "other"}, released : BOOLEAN]

ReceiptRecord ==
  [phase : Phases, attempt : 0 .. MaxAttempt, creator : Orchestrators \cup {NoOrchestrator}]

RetryRecord == [phase : RetryPhases, failed : Dispatches \cup {NoDispatch}]

SupervisorStates == {"none", "starting", "ready", "announced", "spawned", "watching",
                     "succeeded", "failed", "terminated", "exited"}

\* One call changes.
CallIs(p, new) ==
  /\ orch' \in [Orchestrators -> CallRecord]
  /\ orch'[p] = new
  /\ \A q \in Orchestrators : q # p => orch'[q] = orch[q]

\* The functions and records of TypeOK, by name.
LEMMA Types ==
  ASSUME TypeOK
  PROVE  /\ orch \in [Orchestrators -> CallRecord]
         /\ receipts \in [Dispatches -> ReceiptRecord]
         /\ retries \in [Dispatches -> RetryRecord]
         /\ sup \in [Dispatches -> SupervisorStates]
         /\ worker \in [Dispatches -> {"none", "running", "over"}]
         /\ pipe \in [Dispatches -> Seq({"worker_started", "ok", "error"})]
         /\ events \in [Dispatches -> SUBSET EventTypes]
         /\ task.attempt \in 0 .. MaxAttempt
         /\ task.dispatch \in Dispatches \cup {NoDispatch}
BY DEF TypeOK, CallRecord, ReceiptRecord, RetryRecord, SupervisorStates

\* The changes of one call.
LEMMA CallSet ==
  ASSUME TypeOK, NEW p \in Orchestrators, NEW new \in CallRecord,
         orch' = [orch EXCEPT ![p] = new]
  PROVE  CallIs(p, new)
BY Types DEF CallIs

\* A call goes on.
LEMMA CallGoes ==
  ASSUME TypeOK, NEW p \in Orchestrators, NEW pc \in PCs, Goto(p, pc)
  PROVE  \E new \in CallRecord :
           /\ CallIs(p, new)
           /\ new = [orch[p] EXCEPT !.pc = pc]
<1> DEFINE new == [orch[p] EXCEPT !.pc = pc]
<1>1. orch' = [orch EXCEPT ![p] = new]
  BY DEF Goto
<1>2. new \in CallRecord
  BY Types DEF CallRecord
<1>3. CallIs(p, new)
  <2> HIDE DEF new
  <2> QED
    BY <1>1, <1>2, CallSet
<1> QED
  BY <1>2, <1>3

\* The memories that a call begins or ends with.
LEMMA CallBegins ==
  /\ Idle \in CallRecord /\ Dead \in CallRecord
  /\ \A d \in Dispatches : Recovery(d) \in CallRecord
  /\ \A d \in Dispatches, a \in 0 .. MaxAttempt, l \in Dispatches \cup {NoDispatch} :
       Cycle(d, a, l) \in CallRecord
<1>1. 0 \in 0 .. MaxAttempt
  BY ConstantsAssumption
<1>2. Idle \in CallRecord
  BY <1>1 DEF Idle, CallRecord, PCs, Phases, Winners
<1>3. [Idle EXCEPT !.pc = "dead"] \in CallRecord
  BY <1>2 DEF CallRecord, PCs
<1>4. \A d \in Dispatches : Recovery(d) \in CallRecord
  BY <1>2 DEF Recovery, CallRecord, PCs
<1>5. \A d \in Dispatches, a \in 0 .. MaxAttempt, l \in Dispatches \cup {NoDispatch} :
        Cycle(d, a, l) \in CallRecord
  BY <1>2 DEF Cycle, CallRecord, PCs
<1> QED
  BY <1>2, <1>3, <1>4, <1>5 DEF Dead

-----------------------------------------------------------------------------
(* Processes end, pipes are emptied, locks are taken and given back. *)

\* The processes and pipes of a step that starts nothing.
Winding ==
  /\ sup' \in [Dispatches -> SupervisorStates]
  /\ worker' \in [Dispatches -> {"none", "running", "over"}]
  /\ pipe' \in [Dispatches -> Seq({"worker_started", "ok", "error"})]
  /\ \A d \in Dispatches :
       /\ \/ sup'[d] = sup[d]
          \/ sup[d] \notin {"none", "exited"} /\ sup'[d] \in {"terminated", "exited"}
       /\ worker'[d] = worker[d] \/ (worker[d] = "running" /\ worker'[d] = "over")
       /\ sup'[d] = "exited" /\ platform = "win32" => worker'[d] # "running"
       /\ pipe'[d] = pipe[d] \/ pipe'[d] = <<>>

Written == <<platform, ledger, evidence>>

\* The task and the dispatches, while nothing is written and nobody who is dead
\* comes back.
LEMMA DispatchWinds ==
  ASSUME IInv, Winding, UNCHANGED Written,
         \A q \in Orchestrators : orch[q].pc = "dead" => orch'[q].pc = "dead"
  PROVE  TaskTrue' /\ \A d \in Dispatches : DispatchTrue(d)'
<1> USE DEF Written, ledger, evidence
<1>1. TaskTrue'
  BY DEF IInv, TaskTrue
<1> SUFFICES ASSUME NEW d \in Dispatches PROVE DispatchTrue(d)'
  BY <1>1
<1>0. ProcessesTrue(d) /\ PipeTrue(d) /\ EvidenceTrue(d) /\ RetryTrue(d)
  BY DEF IInv, DispatchTrue
<1>2. ProcessesTrue(d)'
  BY <1>0 DEF ProcessesTrue, Winding, Live
<1>3. PipeTrue(d)'
  BY <1>0 DEF PipeTrue, Winding
<1>4. EvidenceTrue(d)'
  <2>1. receipts[d].phase # "ABSENT" => receipts[d].creator \in Orchestrators
    BY <1>0 DEF ProcessesTrue
  <2>2. /\ sup[d] = "exited" => sup'[d] = "exited"
        /\ worker[d] # "running" => worker'[d] # "running"
    BY DEF Winding
  <2> QED
    BY <1>0, <2>1, <2>2 DEF EvidenceTrue
<1>5. RetryTrue(d)'
  BY <1>0 DEF RetryTrue
<1> QED
  BY <1>2, <1>3, <1>4, <1>5 DEF DispatchTrue

\* What another call knows, while nothing is written.
LEMMA CallWinds ==
  ASSUME IInv, Winding, UNCHANGED Written, NEW q \in Orchestrators, orch'[q] = orch[q],
         orch[q].pc = "locked" => stateLock' = stateLock
  PROVE  CallTrue(q)'
<1> USE DEF Written, ledger, evidence
<1>0. Owns(q) /\ Knows(q) /\ Retries(q) /\ Recovers(q) /\ orch[q] \in CallRecord
  BY Types DEF IInv, CallTrue
<1>d. orch[q].pc \in Cycling => orch[q].dispatch \in Dispatches
  BY <1>0 DEF Owns, Cycling, Executing
<1>1. Owns(q)'
  BY <1>0, <1>d DEF Owns, Winding, Cycling
<1>2. Knows(q)'
  <2>1. orch[q].pc \in {"acknowledged", "active"} =>
          \A i \in 1 .. Len(pipe'[orch[q].dispatch]) :
            pipe'[orch[q].dispatch][i] # "worker_started"
    <3> SUFFICES ASSUME orch[q].pc \in {"acknowledged", "active"}
                 PROVE  \A i \in 1 .. Len(pipe'[orch[q].dispatch]) :
                          pipe'[orch[q].dispatch][i] # "worker_started"
      OBVIOUS
    <3>1. pipe'[orch[q].dispatch] \in {pipe[orch[q].dispatch], <<>>}
      BY <1>d DEF Winding, Cycling, Executing
    <3> QED
      BY <1>0, <3>1 DEF Knows
  <2>2. orch[q].pc \in Executing =>
          /\ sup[orch[q].dispatch] = "exited" => sup'[orch[q].dispatch] = "exited"
          /\ sup[orch[q].dispatch] \in {"none", "exited", "terminated"} =>
               sup'[orch[q].dispatch] \in {"none", "exited", "terminated"}
    BY <1>d DEF Winding, Cycling
  <2> QED
    BY <1>0, <2>1, <2>2 DEF Knows, Stopped
<1>3. Retries(q)'
  BY <1>0 DEF Retries
<1>4. Recovers(q)'
  BY <1>0 DEF Recovers
<1> QED
  BY <1>1, <1>2, <1>3, <1>4 DEF CallTrue

\* A step of a call that writes nothing: it is left to show what the call
\* itself knows afterwards.
LEMMA WindsDown ==
  ASSUME IInv, NEW p \in Orchestrators, NEW new \in CallRecord, CallIs(p, new),
         orch[p].pc # "dead", Winding, UNCHANGED Written,
         \/ stateLock' = stateLock
         \/ stateLock \in {Free, p} /\ stateLock' \in {Free, p},
         CallTrue(p)'
  PROVE  IInv'
<1>1. \A q \in Orchestrators : orch[q].pc = "dead" => orch'[q].pc = "dead"
  BY DEF CallIs
<1>2. TaskTrue' /\ \A d \in Dispatches : DispatchTrue(d)'
  BY <1>1, DispatchWinds
<1>3. \A q \in Orchestrators : CallTrue(q)'
  <2> SUFFICES ASSUME NEW q \in Orchestrators, q # p PROVE CallTrue(q)'
    OBVIOUS
  <2>1. orch[q].pc = "locked" => stateLock = q
    BY DEF IInv, CallTrue, Recovers
  <2>2. orch[q].pc = "locked" => stateLock' = stateLock
    BY <2>1, ConstantsAssumption
  <2> QED
    BY <2>2, CallWinds DEF CallIs
<1>4. TypeOK'
  <2>1. stateLock' \in Orchestrators \cup {Free}
    BY DEF IInv, TypeOK
  <2> QED
    BY <2>1 DEF IInv, TypeOK, CallIs, CallRecord, Winding, SupervisorStates, Written, ledger,
       evidence
<1> QED
  BY <1>2, <1>3, <1>4 DEF IInv

\* Processes that stay as they are.
LEMMA StillWinds ==
  ASSUME IInv, UNCHANGED <<platform, sup, worker>>,
         pipe' \in [Dispatches -> Seq({"worker_started", "ok", "error"})],
         \A d \in Dispatches : pipe'[d] = pipe[d] \/ pipe'[d] = <<>>
  PROVE  Winding
<1>1. \A d \in Dispatches : sup[d] = "exited" /\ platform = "win32" => worker[d] # "running"
  BY DEF IInv, DispatchTrue, ProcessesTrue
<1> QED
  BY <1>1, Types DEF IInv, Winding

\* A pipe that is emptied.
LEMMA EmptyPipe ==
  ASSUME IInv, NEW d \in Dispatches, pipe' = [pipe EXCEPT ![d] = <<>>]
  PROVE  /\ pipe' \in [Dispatches -> Seq({"worker_started", "ok", "error"})]
         /\ \A e \in Dispatches : pipe'[e] = pipe[e] \/ pipe'[e] = <<>>
BY Types DEF IInv

\* The same, and nobody reads.
LEMMA SamePipe ==
  ASSUME IInv, pipe' = pipe
  PROVE  /\ pipe' \in [Dispatches -> Seq({"worker_started", "ok", "error"})]
         /\ \A e \in Dispatches : pipe'[e] = pipe[e] \/ pipe'[e] = <<>>
BY Types DEF IInv

\* A call that is over knows nothing.
LEMMA NothingKnown ==
  ASSUME NEW p \in Orchestrators, NEW new, CallIs(p, new), new \in {Idle, Dead}
  PROVE  CallTrue(p)'
<1>1. orch'[p].pc \in {"idle", "dead"} /\ orch'[p].lifecycle = NoDispatch
  BY DEF CallIs, Idle, Dead
<1>2. Owns(p)'
  BY <1>1 DEF Owns, Cycling, Executing, Starting
<1>3. Knows(p)' /\ Recovers(p)'
  BY <1>1 DEF Knows, Recovers, Executing, Stopped
<1>4. Retries(p)'
  BY <1>1 DEF Retries, Executing, NotRetired, Cycling
<1> QED
  BY <1>2, <1>3, <1>4 DEF CallTrue

\* A call returns or raises.
LEMMA ReturnKeeps ==
  ASSUME IInv, NEW p \in Orchestrators, Return(p), orch[p].pc # "dead",
         Winding, UNCHANGED Written,
         \/ stateLock' = stateLock
         \/ stateLock \in {Free, p} /\ stateLock' \in {Free, p}
  PROVE  IInv'
<1>1. Idle \in CallRecord /\ CallIs(p, Idle)
  BY CallBegins, CallSet DEF Return, IInv
<1> QED
  BY <1>1, NothingKnown, WindsDown

\* The process dies.
LEMMA DieKeeps ==
  ASSUME IInv, NEW p \in Orchestrators, Die(p)
  PROVE  IInv'
<1>1. Dead \in CallRecord /\ CallIs(p, Dead)
  BY CallBegins, CallSet DEF Die, IInv
<1>2. /\ pipe' \in [Dispatches -> Seq({"worker_started", "ok", "error"})]
      /\ \A d \in Dispatches : pipe'[d] = pipe[d] \/ pipe'[d] = <<>>
  BY Types DEF Die, IInv
<1>3. Winding
  BY <1>2, StillWinds DEF Die
<1> QED
  BY <1>1, <1>3, NothingKnown, WindsDown DEF Die, Written, ledger, evidence

\* Processes end with their supervisor.
LEMMA EndWinds ==
  ASSUME IInv, NEW d \in Dispatches, sup[d] \notin {"none", "exited"}, SupervisorEnds(d),
         UNCHANGED platform,
         pipe' \in [Dispatches -> Seq({"worker_started", "ok", "error"})],
         \A e \in Dispatches : pipe'[e] = pipe[e] \/ pipe'[e] = <<>>
  PROVE  Winding /\ sup'[d] = "exited"
<1>1. \A e \in Dispatches : sup[e] = "exited" /\ platform = "win32" => worker[e] # "running"
  BY DEF IInv, DispatchTrue, ProcessesTrue
<1> QED
  BY <1>1, Types DEF IInv, Winding, SupervisorEnds, SupervisorStates

\* The steps with which a call returns or raises, and nothing is written.
LEMMA ReturnsKeep ==
  ASSUME IInv, NEW p \in Orchestrators,
         \/ CleanUp(p) \/ Publish(p) \/ Refuse(p) \/ Abandon(p)
  PROVE  IInv'
<1> USE DEF Written, ledger, evidence, processes
<1>1. CASE CleanUp(p)
  <2> DEFINE d == orch[p].dispatch
  <2>1. d \in Dispatches
    BY <1>1 DEF CleanUp, IInv, CallTrue, Owns
  <2>2. /\ pipe' \in [Dispatches -> Seq({"worker_started", "ok", "error"})]
        /\ \A e \in Dispatches : pipe'[e] = pipe[e] \/ pipe'[e] = <<>>
    BY <1>1, <2>1, EmptyPipe DEF CleanUp
  <2>3. \/ UNCHANGED <<sup, worker>>
        \/ sup[d] \notin {"none", "exited"} /\ SupervisorEnds(d)
    BY <1>1 DEF CleanUp, Terminate
  <2>4. Winding
    BY <1>1, <2>1, <2>2, <2>3, StillWinds, EndWinds DEF CleanUp
  <2> QED
    BY <1>1, <2>4, ReturnKeeps DEF CleanUp
<1>2. CASE Publish(p)
  BY <1>2, SamePipe, StillWinds, ReturnKeeps DEF Publish
<1>3. CASE Refuse(p)
  <2>1. stateLock = p
    BY <1>3 DEF Refuse, IInv, CallTrue, Recovers
  <2> QED
    BY <1>3, <2>1, SamePipe, StillWinds, ReturnKeeps DEF Refuse
<1>4. CASE Abandon(p)
  BY <1>4, SamePipe, StillWinds, ReturnKeeps DEF Abandon
<1> QED
  BY <1>1, <1>2, <1>3, <1>4

\* A caller asks for a cycle, or for a recovery.
LEMMA AskKeeps ==
  ASSUME IInv, NEW p \in Orchestrators, NEW d \in Dispatches, Plan(p, d) \/ Recover(p, d)
  PROVE  IInv'
<1> USE DEF Written, ledger, evidence, processes
<1>0. orch[p].pc # "dead"
  BY DEF Plan, Recover, Idle
<1>1. Winding /\ UNCHANGED Written /\ stateLock' = stateLock
  BY SamePipe, StillWinds DEF Plan, Recover
<1>2. CASE Plan(p, d)
  <2>1. task.attempt + 1 \in 0 .. MaxAttempt
    BY <1>2, Types, ConstantsAssumption DEF Plan, IInv
  <2> DEFINE new == Cycle(d, task.attempt + 1, NoDispatch)
  <2>2. new \in CallRecord
    BY <2>1, CallBegins
  <2>3. /\ new.pc = "starting" /\ new.dispatch = d /\ new.lifecycle = NoDispatch
        /\ new.outcome = "none" /\ new.winner = "none"
    BY DEF Cycle, Idle
  <2> HIDE DEF new
  <2>4. CallIs(p, new)
    BY <1>2, <2>2, CallSet DEF Plan, IInv, new
  <2>5. Owns(p)'
    BY <2>3, <2>4 DEF CallIs, Owns, Cycling, Executing
  <2>6. Knows(p)' /\ Recovers(p)'
    BY <2>3, <2>4 DEF CallIs, Knows, Recovers, Executing, Stopped
  <2>7. Retries(p)'
    BY <2>3, <2>4 DEF CallIs, Retries, Executing, NotRetired, Cycling
  <2> QED
    BY <1>0, <1>1, <2>2, <2>4, <2>5, <2>6, <2>7, WindsDown DEF CallTrue
<1>3. CASE Recover(p, d)
  <2> DEFINE new == Recovery(d)
  <2>2. new \in CallRecord
    BY CallBegins
  <2>3. new.pc = "recovering" /\ new.dispatch = d /\ new.lifecycle = NoDispatch
    BY DEF Recovery, Idle
  <2> HIDE DEF new
  <2>4. CallIs(p, new)
    BY <1>3, <2>2, CallSet DEF Recover, IInv, new
  <2>5. Owns(p)'
    BY <2>3, <2>4 DEF CallIs, Owns, Cycling, Executing, Starting
  <2>6. Knows(p)' /\ Recovers(p)'
    BY <2>3, <2>4 DEF CallIs, Knows, Recovers, Executing, Stopped
  <2>7. Retries(p)'
    BY <2>3, <2>4 DEF CallIs, Retries, Executing, NotRetired, Cycling
  <2> QED
    BY <1>0, <1>1, <2>2, <2>4, <2>5, <2>6, <2>7, WindsDown DEF CallTrue
<1> QED
  BY <1>2, <1>3

\* A call in the execution of its dispatch, or in the cleanup, is still about
\* the same attempt, and what it has learnt is so.
LEMMA GoingOn ==
  ASSUME IInv, NEW p \in Orchestrators, NEW new \in CallRecord, CallIs(p, new),
         Winding, UNCHANGED Written, stateLock' = stateLock,
         new.dispatch = orch[p].dispatch, new.attempt = orch[p].attempt,
         new.lifecycle = orch[p].lifecycle,
         orch[p].pc \in Cycling,
         \/ new.pc = "cleanup" /\ orch[p].pc \notin Executing
         \/ /\ orch[p].pc \in Executing /\ new.pc \in Executing
            /\ new.pc \in NotRetired => orch[p].pc \in NotRetired
            /\ new.pc \in {"active", "delivering", "stopping", "releasing", "closing"}
               \/ (new.pc = "retiring" /\ new.winner = "completion")
               => orch[p].pc \in {"active", "delivering", "stopping", "releasing", "closing"}
            /\ new.outcome # "none" => sup'[new.dispatch] = "exited"
            /\ new.outcome = "ok" => receipts[new.dispatch].phase \in Over
            /\ new.pc = "active" => new.winner = "none" /\ orch[p].pc = "active"
            /\ new.pc = "stopping" => new.winner # "completion"
            /\ new.pc \in Stopped /\ new.winner = "completion" => new.outcome # "none"
            /\ new.pc \in Stopped /\ new.winner \in Terminations =>
                 sup'[new.dispatch] \in {"none", "exited", "terminated"}
            /\ new.pc # "advance"
  PROVE  IInv'
<1> USE DEF Written, ledger, evidence
<1>0. /\ Owns(p) /\ Knows(p) /\ Retries(p) /\ orch'[p] = new
      /\ orch[p].pc \notin {"idle", "dead"}
      /\ new.dispatch \in Dispatches
  BY DEF IInv, CallTrue, CallIs, Owns, Cycling, Executing
<1>1. Owns(p)'
  BY <1>0 DEF Owns, Cycling, Executing, Starting
<1>2. Knows(p)'
  <2>1. new.pc \in {"acknowledged", "active"} =>
          \A i \in 1 .. Len(pipe'[new.dispatch]) : pipe'[new.dispatch][i] # "worker_started"
    <3> SUFFICES ASSUME new.pc \in {"acknowledged", "active"}
                 PROVE  \A i \in 1 .. Len(pipe'[new.dispatch]) :
                          pipe'[new.dispatch][i] # "worker_started"
      OBVIOUS
    <3>1. pipe'[new.dispatch] \in {pipe[new.dispatch], <<>>} /\ orch[p].pc = "active"
      BY <1>0 DEF Winding, Executing
    <3> QED
      BY <1>0, <3>1 DEF Knows
  <2>2. new.pc \in Executing \cup {"acknowledged"} =>
          new.pc \in Executing /\ "DISPATCH_ACKNOWLEDGED" \in events[new.dispatch]
    BY <1>0 DEF Knows, Executing
  <2>3. new.pc # "cleanup" \/ (new.pc \notin Executing /\ new.pc \notin Stopped)
    BY DEF Executing, Stopped
  <2>4. new.pc \in Stopped => new.pc \in Executing
    BY DEF Stopped
  <2>5. CASE new.pc = "cleanup"
    BY <1>0, <2>2, <2>3, <2>4, <2>5 DEF Knows
  <2>6. CASE new.pc # "cleanup"
    <3>1. /\ new.outcome # "none" => sup'[new.dispatch] = "exited"
          /\ new.outcome = "ok" => receipts[new.dispatch].phase \in Over
          /\ new.pc = "active" => new.winner = "none"
          /\ new.pc = "stopping" => new.winner # "completion"
          /\ new.pc \in Stopped /\ new.winner = "completion" => new.outcome # "none"
          /\ new.pc \in Stopped /\ new.winner \in Terminations =>
               sup'[new.dispatch] \in {"none", "exited", "terminated"}
          /\ new.pc # "advance"
      BY <2>6
    <3> QED
      BY <1>0, <2>1, <2>2, <3>1 DEF Knows
  <2> QED
    BY <2>5, <2>6
<1>3. Retries(p)'
  BY <1>0 DEF Retries, Cycling, Executing, NotRetired
<1>4. Recovers(p)'
  BY <1>0 DEF Recovers, Executing
<1> QED
  BY <1>0, <1>1, <1>2, <1>3, <1>4, WindsDown DEF CallTrue

\* The first frame of a pipe that is not empty.
LEMMA FirstFrame ==
  ASSUME IInv, NEW d \in Dispatches, pipe[d] # <<>>
  PROVE  /\ 1 \in 1 .. Len(pipe[d])
         /\ Head(pipe[d]) = pipe[d][1]
         /\ pipe[d][1] \in {"worker_started", "ok", "error"}
<1>1. pipe[d] \in Seq({"worker_started", "ok", "error"})
  BY Types DEF IInv
<1> QED
  BY <1>1

\* The failures of a start.
LEMMA StartFailsKeep ==
  ASSUME IInv, NEW p \in Orchestrators,
         StartFails(p) \/ CallerCancels(p) \/ WorkerTaskFails(p)
  PROVE  IInv'
<1> USE DEF Written, ledger, evidence, processes
<1>1. orch[p] \in CallRecord /\ orch[p].pc \in Cycling /\ orch[p].pc \notin Executing
      /\ orch[p].dispatch \in Dispatches
  BY Types DEF IInv, CallTrue, Owns, StartFails, CallerCancels, WorkerTaskFails, Cycling, Executing
<1>2. Winding /\ UNCHANGED Written /\ stateLock' = stateLock
  <2>1. CASE StartFails(p) \/ CallerCancels(p)
    BY <2>1, SamePipe, StillWinds DEF StartFails, CallerCancels
  <2>2. CASE WorkerTaskFails(p)
    BY <1>1, <2>2, EmptyPipe, StillWinds DEF WorkerTaskFails
  <2> QED
    BY <2>1, <2>2
<1>3. PICK o \in {"none", "ok", "error"} :
        orch' = [orch EXCEPT ![p] = [orch[p] EXCEPT !.pc = "cleanup", !.outcome = o]]
  <2>1. CASE StartFails(p) \/ CallerCancels(p)
    <3>1. orch' = [orch EXCEPT ![p] = [orch[p] EXCEPT !.pc = "cleanup",
                                                      !.outcome = orch[p].outcome]]
      BY <1>1, <2>1 DEF StartFails, CallerCancels, Goto, CallRecord
    <3> QED
      BY <1>1, <3>1 DEF CallRecord
  <2>2. CASE WorkerTaskFails(p)
    BY <2>2 DEF WorkerTaskFails
  <2> QED
    BY <2>1, <2>2
<1> DEFINE new == [orch[p] EXCEPT !.pc = "cleanup", !.outcome = o]
<1>4. /\ new \in CallRecord /\ new.pc = "cleanup" /\ new.dispatch = orch[p].dispatch
      /\ new.attempt = orch[p].attempt /\ new.lifecycle = orch[p].lifecycle
  BY <1>1 DEF CallRecord, PCs
<1>5. orch' = [orch EXCEPT ![p] = new]
  BY <1>3
<1> HIDE DEF new
<1>6. CallIs(p, new)
  BY <1>4, <1>5, CallSet DEF IInv
<1> QED
  BY <1>1, <1>2, <1>4, <1>6, GoingOn

\* The worker task is done.
LEMMA ReadResultKeeps ==
  ASSUME IInv, NEW p \in Orchestrators, ReadResult(p)
  PROVE  IInv'
<1> USE DEF Written, ledger, evidence, processes
<1> DEFINE d == orch[p].dispatch
<1>1. orch[p] \in CallRecord /\ orch[p].pc = "active" /\ d \in Dispatches
      /\ orch[p].winner = "none"
  BY Types DEF IInv, CallTrue, Owns, Knows, ReadResult
<1>2. Winding /\ UNCHANGED Written /\ stateLock' = stateLock /\ UNCHANGED <<sup, receipts>>
  BY <1>1, EmptyPipe, StillWinds DEF ReadResult
<1>3. PICK o \in {"ok", "error"} :
        /\ orch' = [orch EXCEPT ![p] = [orch[p] EXCEPT !.outcome = o]]
        /\ o = "ok" => pipe[d] = <<"ok">>
  BY DEF ReadResult
<1>4. sup[d] = "exited"
  <2>1. CASE pipe[d] # <<>>
    <3>1. 1 \in 1 .. Len(pipe[d]) /\ pipe[d][1] \in {"worker_started", "ok", "error"}
      BY <1>1, <2>1, FirstFrame
    <3>2. pipe[d][1] \in {"ok", "error"}
      BY <1>1, <3>1 DEF IInv, CallTrue, Knows
    <3> QED
      BY <1>1, <3>1, <3>2 DEF IInv, DispatchTrue, PipeTrue
  <2>2. CASE Ended(d)
    BY <2>2 DEF Ended
  <2> QED
    BY <2>1, <2>2 DEF ReadResult
<1>5. o = "ok" => receipts[d].phase \in Over
  <2> SUFFICES ASSUME o = "ok" PROVE receipts[d].phase \in Over
    OBVIOUS
  <2>1. pipe[d] = <<"ok">>
    BY <1>3
  <2>2. 1 \in 1 .. Len(pipe[d]) /\ pipe[d][1] = "ok"
    BY <2>1
  <2>3. PipeTrue(d)
    BY <1>1 DEF IInv, DispatchTrue
  <2> QED
    BY <2>2, <2>3 DEF PipeTrue
<1> DEFINE new == [orch[p] EXCEPT !.outcome = o]
<1>6. /\ new \in CallRecord /\ new.pc = "active" /\ new.dispatch = d
      /\ new.attempt = orch[p].attempt /\ new.lifecycle = orch[p].lifecycle
      /\ new.outcome = o /\ new.winner = "none"
  BY <1>1 DEF CallRecord, PCs
<1>7. orch' = [orch EXCEPT ![p] = new]
  BY <1>3
<1> HIDE DEF new
<1>8. CallIs(p, new)
  BY <1>6, <1>7, CallSet DEF IInv
<1>9. "active" \in Executing /\ "active" \in Cycling /\ "active" \notin Stopped
  BY DEF Executing, Cycling, Stopped
<1> QED
  BY <1>1, <1>2, <1>4, <1>5, <1>6, <1>8, <1>9, GoingOn

\* The winner is decided.
LEMMA WinnerKeeps ==
  ASSUME IInv, NEW p \in Orchestrators, Complete(p) \/ Interrupt(p)
  PROVE  IInv'
<1> USE DEF Written, ledger, evidence, processes
<1> DEFINE d == orch[p].dispatch
<1>1. orch[p] \in CallRecord /\ orch[p].pc = "active" /\ d \in Dispatches /\ Knows(p)
  BY Types DEF IInv, CallTrue, Owns, Complete, Interrupt
<1>2. Winding /\ UNCHANGED Written /\ stateLock' = stateLock /\ UNCHANGED <<sup, receipts>>
  BY SamePipe, StillWinds DEF Complete, Interrupt
<1>3. PICK pc \in {"delivering", "stopping"}, w \in Winners :
        /\ orch' = [orch EXCEPT ![p] = [orch[p] EXCEPT !.pc = pc, !.winner = w]]
        /\ pc = "delivering" => w = "completion" /\ orch[p].outcome # "none"
        /\ pc = "stopping" => w \in Interruptions \cup Terminations
  BY DEF Complete, Interrupt, Winners
<1> DEFINE new == [orch[p] EXCEPT !.pc = pc, !.winner = w]
<1>4. /\ new \in CallRecord /\ new.pc = pc /\ new.dispatch = d
      /\ new.attempt = orch[p].attempt /\ new.lifecycle = orch[p].lifecycle
      /\ new.outcome = orch[p].outcome /\ new.winner = w
  BY <1>1 DEF CallRecord, PCs
<1>5. orch' = [orch EXCEPT ![p] = new]
  BY <1>3
<1> HIDE DEF new
<1>6. CallIs(p, new)
  BY <1>4, <1>5, CallSet DEF IInv
<1>7. /\ {"active", "delivering", "stopping"} \subseteq Executing \cap Cycling \cap NotRetired
      /\ "stopping" \notin Stopped
      /\ "completion" \notin Interruptions \cup Terminations
  BY DEF Executing, Cycling, Stopped, NotRetired, Interruptions, Terminations
<1>8. /\ orch[p].outcome # "none" => sup[d] = "exited"
      /\ orch[p].outcome = "ok" => receipts[d].phase \in Over
  BY <1>1, <1>7 DEF Knows
<1> QED
  BY <1>1, <1>2, <1>3, <1>4, <1>6, <1>7, <1>8, GoingOn

\* The worker task is cancelled and awaited.
LEMMA StopKeeps ==
  ASSUME IInv, NEW p \in Orchestrators, Stop(p)
  PROVE  IInv'
<1> USE DEF Written, ledger, evidence, processes
<1> DEFINE d == orch[p].dispatch
<1>1. /\ orch[p] \in CallRecord /\ orch[p].pc = "stopping" /\ d \in Dispatches /\ Knows(p)
      /\ UNCHANGED Written /\ stateLock' = stateLock /\ UNCHANGED receipts
      /\ "stopping" \in Executing
  BY Types DEF IInv, CallTrue, Owns, Stop, Executing
<1>2. /\ pipe' \in [Dispatches -> Seq({"worker_started", "ok", "error"})]
      /\ \A e \in Dispatches : pipe'[e] = pipe[e] \/ pipe'[e] = <<>>
  BY <1>1, EmptyPipe DEF Stop
<1>3. /\ Winding
      /\ orch[p].outcome # "none" => sup'[d] = "exited"
      /\ orch[p].winner \in Terminations => sup'[d] \in {"none", "exited", "terminated"}
  <2>1. CASE UNCHANGED <<sup, worker>> /\ orch[p].outcome # "none"
    <3>1. sup[d] = "exited"
      BY <1>1, <2>1 DEF Knows
    <3> QED
      BY <1>2, <2>1, <3>1, StillWinds DEF Stop
  <2>2. CASE orch[p].outcome = "none" /\ orch[p].winner \in Terminations /\ TerminateAndGo(d)
    <3>1. \A e \in Dispatches : sup[e] = "exited" /\ platform = "win32" => worker[e] # "running"
      BY DEF IInv, DispatchTrue, ProcessesTrue
    <3>2. /\ sup' \in [Dispatches -> SupervisorStates] /\ worker' = worker
          /\ sup'[d] = (IF sup[d] \in {"none", "exited"} THEN sup[d] ELSE "terminated")
          /\ \A e \in Dispatches : e # d => sup'[e] = sup[e]
      BY <1>1, <2>2, Types DEF TerminateAndGo, SupervisorStates, IInv
    <3> QED
      BY <1>1, <1>2, <2>2, <3>1, <3>2, Types DEF Winding, IInv
  <2>3. CASE orch[p].outcome = "none" /\ orch[p].winner \notin Terminations /\ Terminate(d)
    <3>1. CASE sup[d] \in {"none", "exited"} /\ UNCHANGED <<sup, worker>>
      BY <1>2, <2>3, <3>1, StillWinds DEF Stop
    <3>2. CASE sup[d] \notin {"none", "exited"} /\ SupervisorEnds(d)
      BY <1>1, <1>2, <2>3, <3>2, EndWinds DEF Stop
    <3> QED
      BY <2>3, <3>1, <3>2 DEF Terminate
  <2> QED
    BY <1>1, <2>1, <2>2, <2>3 DEF Stop
<1>4. PICK e \in {"none", "classified", "other"} :
        orch' = [orch EXCEPT ![p] = [orch[p] EXCEPT !.pc = "releasing", !.error = e]]
  <2>1. orch' = [orch EXCEPT ![p] = [orch[p] EXCEPT !.pc = "releasing",
          !.error = IF orch[p].winner = "heartbeat" THEN "other" ELSE orch[p].error]]
    BY <1>1 DEF Stop
  <2>2. (IF orch[p].winner = "heartbeat" THEN "other" ELSE orch[p].error)
           \in {"none", "classified", "other"}
    BY <1>1 DEF CallRecord
  <2> QED
    BY <2>1, <2>2
<1> DEFINE new == [orch[p] EXCEPT !.pc = "releasing", !.error = e]
<1>5. /\ new \in CallRecord /\ new.pc = "releasing" /\ new.dispatch = d
      /\ new.attempt = orch[p].attempt /\ new.lifecycle = orch[p].lifecycle
      /\ new.outcome = orch[p].outcome /\ new.winner = orch[p].winner
  BY <1>1 DEF CallRecord, PCs
<1>6. orch' = [orch EXCEPT ![p] = new]
  BY <1>4
<1> HIDE DEF new
<1>7. CallIs(p, new)
  BY <1>5, <1>6, CallSet DEF IInv
<1>8. {"stopping", "releasing"} \subseteq Executing \cap Cycling \cap NotRetired
  BY DEF Executing, Cycling, NotRetired
<1>9. /\ orch[p].outcome = "ok" => receipts[d].phase \in Over
      /\ orch[p].winner # "completion"
  BY <1>1 DEF Knows
<1> QED
  BY <1>1, <1>3, <1>5, <1>7, <1>8, <1>9, GoingOn

\* A finalizer goes on without a write: what won is what it was.
LEMMA FinalizerGoes ==
  ASSUME IInv, NEW p \in Orchestrators, NEW new \in CallRecord,
         orch' = [orch EXCEPT ![p] = new], UNCHANGED <<Written, stateLock, processes>>,
         new.dispatch = orch[p].dispatch, new.attempt = orch[p].attempt,
         new.lifecycle = orch[p].lifecycle, new.outcome = orch[p].outcome,
         new.winner = orch[p].winner,
         orch[p].pc \in Stopped, new.pc \in Stopped \ {"advance"},
         new.pc \in NotRetired => orch[p].pc \in NotRetired,
         new.pc \in {"delivering", "releasing", "closing"} =>
           orch[p].pc \in {"delivering", "releasing", "closing"},
         new.pc = "retiring" /\ new.winner = "completion" => orch[p].pc = "closing"
  PROVE  IInv'
<1>1. CallIs(p, new)
  BY CallSet DEF IInv
<1>2. Winding
  BY SamePipe, StillWinds DEF Written, processes
<1>3. /\ orch[p].pc \in Executing /\ orch[p].pc \in Cycling /\ new.pc \in Executing
      /\ new.pc \notin {"active", "stopping", "advance"}
  BY DEF Stopped, Cycling
<1>4. Knows(p) /\ new.dispatch \in Dispatches
  BY <1>3 DEF IInv, CallTrue, Owns, Executing
<1>5. /\ new.outcome # "none" => sup'[new.dispatch] = "exited"
      /\ new.outcome = "ok" => receipts[new.dispatch].phase \in Over
      /\ new.pc \in Stopped /\ new.winner = "completion" => new.outcome # "none"
      /\ new.pc \in Stopped /\ new.winner \in Terminations =>
           sup'[new.dispatch] \in {"none", "exited", "terminated"}
  BY <1>3, <1>4 DEF Knows, processes
<1> QED
  BY <1>1, <1>2, <1>3, <1>5, GoingOn

\* The same, by the place alone.
LEMMA FinalizerPasses ==
  ASSUME IInv, NEW p \in Orchestrators, NEW pc \in Stopped \ {"advance"}, Goto(p, pc),
         UNCHANGED <<Written, stateLock, processes>>,
         orch[p].pc \in Stopped,
         pc \in NotRetired => orch[p].pc \in NotRetired,
         pc \in {"delivering", "releasing", "closing"} =>
           orch[p].pc \in {"delivering", "releasing", "closing"},
         pc # "retiring"
  PROVE  IInv'
<1> DEFINE new == [orch[p] EXCEPT !.pc = pc]
<1>1. pc \in PCs /\ orch[p] \in CallRecord
  BY Types DEF Stopped, Executing, PCs, IInv
<1>2. /\ new \in CallRecord /\ new.pc = pc /\ new.dispatch = orch[p].dispatch
      /\ new.attempt = orch[p].attempt /\ new.lifecycle = orch[p].lifecycle
      /\ new.outcome = orch[p].outcome /\ new.winner = orch[p].winner
  BY <1>1 DEF CallRecord
<1>3. orch' = [orch EXCEPT ![p] = new]
  BY DEF Goto
<1> HIDE DEF new
<1> QED
  BY <1>2, <1>3, FinalizerGoes

\* The steps of the finalizer that write nothing.
LEMMA FinalizerKeeps ==
  ASSUME IInv, NEW p \in Orchestrators,
         DeliveryFails(p) \/ Release(p) \/ CloseNot(p) \/ NoTombstone(p)
  PROVE  IInv'
<1> USE DEF Written, ledger, evidence, processes
<1>0. UNCHANGED <<Written, stateLock, processes>> /\ orch[p] \in CallRecord
  BY Types DEF DeliveryFails, Release, CloseNot, NoTombstone, IInv
<1>1. CASE DeliveryFails(p) \/ Release(p) \/ CloseNot(p)
  <2>1. PICK pc \in {"releasing", "closing", "retiring"},
             e \in {"none", "classified", "other"}, b \in BOOLEAN :
          /\ orch' = [orch EXCEPT ![p] = [orch[p] EXCEPT !.pc = pc, !.error = e,
                                                         !.released = b]]
          /\ orch[p].pc = CASE pc = "releasing" -> "delivering"
                            [] pc = "closing" -> "releasing"
                            [] OTHER -> "closing"
    <3>1. CASE DeliveryFails(p)
      <4>1. orch' = [orch EXCEPT ![p] = [orch[p] EXCEPT !.pc = "releasing",
                       !.error = "classified", !.released = orch[p].released]]
        BY <1>0, <3>1 DEF DeliveryFails, CallRecord
      <4> QED
        BY <1>0, <3>1, <4>1 DEF DeliveryFails, CallRecord
    <3>2. CASE Release(p)
      <4>1. PICK beats, released \in BOOLEAN :
              LET error == IF beats THEN orch[p].error ELSE "other" IN
              orch' = [orch EXCEPT
                ![p].pc = "closing",
                ![p].released = released,
                ![p].error = IF error = "none" /\ ~released THEN "other" ELSE error]
        BY <3>2 DEF Release
      <4> DEFINE error == IF beats THEN orch[p].error ELSE "other"
                 after == IF error = "none" /\ ~released THEN "other" ELSE error
      <4>2. after \in {"none", "classified", "other"}
        BY <1>0 DEF CallRecord
      <4>3. orch' = [orch EXCEPT ![p].pc = "closing", ![p].released = released,
                                 ![p].error = after]
        BY <4>1
      <4> HIDE DEF after
      <4>4. orch' = [orch EXCEPT ![p] = [orch[p] EXCEPT !.pc = "closing", !.error = after,
                                                        !.released = released]]
        BY <1>0, <4>3 DEF CallRecord
      <4> QED
        BY <3>2, <4>2, <4>4 DEF Release
    <3>3. CASE CloseNot(p)
      <4> DEFINE after == IF MayClose(p) THEN "other" ELSE orch[p].error
      <4>1. after \in {"none", "classified", "other"}
        BY <1>0 DEF CallRecord
      <4>2. orch' = [orch EXCEPT ![p].pc = "retiring", ![p].error = after]
        BY <3>3 DEF CloseNot
      <4> HIDE DEF after
      <4>3. orch' = [orch EXCEPT ![p] = [orch[p] EXCEPT !.pc = "retiring", !.error = after,
                                                        !.released = orch[p].released]]
        BY <1>0, <4>2 DEF CallRecord
      <4> QED
        BY <1>0, <3>3, <4>1, <4>3 DEF CloseNot, CallRecord
    <3> QED
      BY <1>1, <3>1, <3>2, <3>3
  <2> DEFINE new == [orch[p] EXCEPT !.pc = pc, !.error = e, !.released = b]
  <2>2. /\ new \in CallRecord /\ new.pc = pc /\ new.dispatch = orch[p].dispatch
        /\ new.attempt = orch[p].attempt /\ new.lifecycle = orch[p].lifecycle
        /\ new.outcome = orch[p].outcome /\ new.winner = orch[p].winner
    BY <1>0 DEF CallRecord, PCs
  <2>3. orch' = [orch EXCEPT ![p] = new]
    BY <2>1
  <2> HIDE DEF new
  <2>4. {"delivering", "releasing", "closing", "retiring"} \subseteq Stopped \cap NotRetired
    BY DEF Stopped, Executing, NotRetired, Cycling
  <2>5. /\ orch[p].pc \in {"delivering", "releasing", "closing"}
        /\ pc = "retiring" => orch[p].pc = "closing"
    BY <2>1
  <2>6. orch[p].pc \in Stopped /\ orch[p].pc \in NotRetired /\ new.pc \in Stopped \ {"advance"}
    BY <2>2, <2>4, <2>5
  <2> QED
    BY <1>0, <2>2, <2>3, <2>5, <2>6, FinalizerGoes
<1>2. CASE NoTombstone(p)
  <2>1. /\ "retry_finalized" \in Stopped \ {"advance"} /\ "retry_finalized" \notin NotRetired
        /\ orch[p].pc \in Stopped
    BY <1>2 DEF NoTombstone, Stopped, Executing, NotRetired, Cycling
  <2> QED
    BY <1>0, <1>2, <2>1, FinalizerPasses DEF NoTombstone
<1> QED
  BY <1>1, <1>2

\* A recovery reads the ledger and the receipt under the lock.
LEMMA LockAndReadKeeps ==
  ASSUME IInv, NEW p \in Orchestrators, LockAndRead(p)
  PROVE  IInv'
<1> USE DEF Written, ledger, evidence, processes
<1> DEFINE d == orch[p].dispatch
<1>1. /\ orch[p] \in CallRecord /\ orch[p].pc = "recovering" /\ d \in Dispatches
      /\ UNCHANGED Written /\ LooksLost(d) /\ receipts[d] \in ReceiptRecord
      /\ CallTrue(p)
  BY Types DEF LockAndRead, IInv, CallTrue, Owns
<1> DEFINE new == [orch[p] EXCEPT !.pc = "locked", !.saw = receipts[d].phase]
<1>2. /\ new \in CallRecord /\ new.pc = "locked" /\ new.dispatch = d
      /\ new.lifecycle = orch[p].lifecycle /\ new.saw = receipts[d].phase
  BY <1>1 DEF CallRecord, PCs, ReceiptRecord
<1>3. orch' = [orch EXCEPT ![p] = new]
  BY DEF LockAndRead
<1> HIDE DEF new
<1>4. CallIs(p, new) /\ Winding
  BY <1>2, <1>3, CallSet, SamePipe, StillWinds DEF IInv, LockAndRead
<1>5. Owns(p)' /\ Knows(p)'
  BY <1>1, <1>2, <1>4 DEF CallIs, Owns, Knows, Cycling, Executing, Stopped, Starting
<1>6. Retries(p)'
  BY <1>1, <1>2, <1>4 DEF CallIs, CallTrue, Retries, Cycling, Executing, NotRetired
<1>7. Recovers(p)'
  BY <1>1, <1>2, <1>4 DEF CallIs, Recovers, LockAndRead, LooksLost, IInv, DispatchTrue,
     EvidenceTrue, OpenStates
<1> QED
  BY <1>1, <1>2, <1>4, <1>5, <1>6, <1>7, WindsDown DEF CallTrue, LockAndRead

\* The transition finds its own event.
LEMMA ReplayKeeps ==
  ASSUME IInv, NEW p \in Orchestrators, Replay(p)
  PROVE  IInv'
<1> USE DEF Written, ledger, evidence, processes
<1>1. Winding
  BY SamePipe, StillWinds DEF Replay
<1>2. CASE Return(p)
  BY <1>1, <1>2, ReturnKeeps DEF Replay
<1>3. CASE Goto(p, "reserving")
  <2>1. orch[p] \in CallRecord /\ CallTrue(p)
    BY Types DEF IInv
  <2>2. PICK new \in CallRecord : CallIs(p, new) /\ new = [orch[p] EXCEPT !.pc = "reserving"]
    <3>1. "reserving" \in PCs
      BY DEF PCs
    <3> QED
      BY <1>3, <3>1, CallGoes DEF IInv
  <2>3. new.pc = "reserving" /\ new.dispatch = orch[p].dispatch
        /\ new.lifecycle = orch[p].lifecycle
    BY <2>1, <2>2 DEF CallRecord
  <2>4. Owns(p)' /\ Knows(p)'
    BY <2>1, <2>2, <2>3 DEF CallIs, CallTrue, Owns, Knows, Cycling, Executing, Stopped, Starting,
       Replay
  <2>5. Retries(p)'
    BY <2>1, <2>2, <2>3 DEF CallIs, CallTrue, Retries, Cycling, Executing, NotRetired, Replay
  <2>6. Recovers(p)'
    BY <2>2, <2>3 DEF CallIs, Recovers, Replay
  <2> QED
    BY <1>1, <2>2, <2>4, <2>5, <2>6, WindsDown DEF CallTrue, Replay
<1> QED
  BY <1>2, <1>3 DEF Replay, Recovered

-----------------------------------------------------------------------------
(* The writes of a call, about its own dispatch. *)

\* What is left of the state when p writes about the dispatch d, which nobody
\* else is working at: the other calls and dispatches, and the past.
About(p, d) ==
  /\ \/ receipts[d].phase = "ABSENT"
     \/ receipts[d].creator = p
     \/ orch[receipts[d].creator].pc = "dead"
  /\ UNCHANGED platform
  /\ orch[p].pc # "dead"
  /\ \A q \in Orchestrators : q # p => orch'[q] = orch[q]
  /\ \A e \in Dispatches : e # d =>
       /\ receipts'[e] = receipts[e] /\ events'[e] = events[e] /\ retries'[e] = retries[e]
       /\ sup'[e] = sup[e] /\ worker'[e] = worker[e] /\ pipe'[e] = pipe[e]
       /\ e \in tombstones' <=> e \in tombstones
       /\ e \in recovered' <=> e \in recovered
  /\ recovered \subseteq recovered'
  /\ receipts[d].phase # "ABSENT" => receipts'[d].attempt = receipts[d].attempt
  /\ retries[d].phase # "ABSENT" =>
       retries'[d].phase # "ABSENT" /\ retries'[d].failed = retries[d].failed
  /\ \/ UNCHANGED <<task, events>>
     \/ /\ stateLock \in {Free, p}
        /\ task.dispatch \in {d, NoDispatch}
        /\ task'.dispatch \in {d, NoDispatch}
  /\ \/ stateLock' = stateLock
     \/ stateLock \in {Free, p} /\ stateLock' \in {Free, p}

\* The dispatch that a retry follows keeps its attempt.
LEMMA FailedStays ==
  ASSUME IInv, NEW p \in Orchestrators, NEW d \in Dispatches, About(p, d),
         NEW e \in Dispatches, retries[e].phase # "ABSENT"
  PROVE  /\ retries[e].failed \in recovered /\ retries[e].failed \in Dispatches
         /\ retries'[e].failed = retries[e].failed
         /\ receipts'[retries[e].failed].attempt = receipts[retries[e].failed].attempt
<1>1. retries[e].failed \in recovered /\ retries[e].failed \in Dispatches
  BY DEF IInv, DispatchTrue, RetryTrue, TypeOK
<1>2. receipts[retries[e].failed].phase # "ABSENT"
  BY <1>1 DEF IInv, DispatchTrue, EvidenceTrue
<1> QED
  BY <1>1, <1>2 DEF About

\* The other dispatches.
LEMMA OtherDispatches ==
  ASSUME IInv, NEW p \in Orchestrators, NEW d \in Dispatches, About(p, d),
         NEW e \in Dispatches, e # d
  PROVE  DispatchTrue(e)'
<1>0. /\ ProcessesTrue(e) /\ PipeTrue(e) /\ EvidenceTrue(e) /\ RetryTrue(e)
      /\ receipts'[e] = receipts[e] /\ events'[e] = events[e] /\ retries'[e] = retries[e]
      /\ sup'[e] = sup[e] /\ worker'[e] = worker[e] /\ pipe'[e] = pipe[e]
      /\ e \in tombstones' <=> e \in tombstones
      /\ e \in recovered' <=> e \in recovered
      /\ platform' = platform
  BY DEF About, IInv, DispatchTrue
<1>1. task' = task \/ (task.dispatch # e /\ task'.dispatch # e)
  BY ConstantsAssumption DEF About
<1>2. ProcessesTrue(e)'
  BY <1>0, <1>1 DEF ProcessesTrue
<1>3. PipeTrue(e)'
  BY <1>0 DEF PipeTrue
<1>4. EvidenceTrue(e)'
  <2>1. orch[receipts[e].creator].pc = "dead" /\ receipts[e].creator \in Orchestrators =>
          orch'[receipts[e].creator].pc = "dead"
    BY DEF About
  <2>2. receipts[e].phase # "ABSENT" => receipts[e].creator \in Orchestrators
    BY <1>0 DEF ProcessesTrue
  <2> QED
    BY <1>0, <1>1, <2>1, <2>2 DEF EvidenceTrue
<1>5. RetryTrue(e)'
  <2>1. recovered \subseteq recovered'
    BY DEF About
  <2>2. retries[e].phase \notin {"ABSENT", "RETRY_RESERVED"} =>
          receipts'[retries[e].failed].attempt = receipts[retries[e].failed].attempt
    BY FailedStays
  <2> QED
    BY <1>0, <2>1, <2>2 DEF RetryTrue
<1> QED
  BY <1>2, <1>3, <1>4, <1>5 DEF DispatchTrue

\* The other calls.
LEMMA OtherCalls ==
  ASSUME IInv, NEW p \in Orchestrators, NEW d \in Dispatches, About(p, d),
         NEW q \in Orchestrators, q # p
  PROVE  CallTrue(q)'
<1> DEFINE e == orch[q].dispatch
<1>0. /\ Owns(q) /\ Knows(q) /\ Retries(q) /\ Recovers(q) /\ orch'[q] = orch[q]
      /\ orch[q] \in CallRecord
  BY Types DEF IInv, CallTrue, About
<1>1. orch[q].pc \in Cycling => e # d /\ e \in Dispatches
  BY <1>0 DEF Owns, About, Cycling, Executing
<1>2. orch[q].pc = "locked" => stateLock = q
  BY <1>0 DEF Recovers
<1>3. orch[q].pc = "locked" => task' = task /\ events' = events /\ stateLock' = stateLock
  BY <1>2, ConstantsAssumption DEF About
<1>4. orch[q].pc \in Cycling =>
        /\ receipts'[e] = receipts[e] /\ events'[e] = events[e] /\ retries'[e] = retries[e]
        /\ sup'[e] = sup[e] /\ pipe'[e] = pipe[e]
        /\ e \in tombstones' <=> e \in tombstones
  BY <1>1 DEF About
<1>5. Owns(q)'
  <2>1. orch[q].pc = "dispatched" => task' = task
    BY <1>0, <1>1, ConstantsAssumption DEF Owns, About, Cycling
  <2> QED
    BY <1>0, <1>4, <2>1 DEF Owns, Cycling
<1>6. Knows(q)'
  <2>1. orch[q].pc \in Stopped => orch[q].pc \in Cycling
    BY DEF Stopped, Cycling
  <2>2. orch[q].pc \in Executing \cup {"acknowledged", "active", "advance"} =>
          orch[q].pc \in Cycling
    BY DEF Executing, Cycling
  <2> QED
    BY <1>0, <1>4, <2>1, <2>2 DEF Knows
<1>7. Retries(q)'
  <2> DEFINE l == orch[q].lifecycle
  <2>1. l # NoDispatch => l \in Dispatches /\ retries[l].phase # "ABSENT"
    BY <1>0 DEF Retries, CallRecord
  <2>2. l # NoDispatch =>
          /\ retries'[l].phase # "ABSENT" /\ retries'[l].failed = retries[l].failed
          /\ receipts'[retries[l].failed].attempt = receipts[retries[l].failed].attempt
    BY <2>1, FailedStays DEF About
  <2>3. orch[q].pc \in NotRetired \cup {"acknowledged", "active", "delivering", "stopping",
                                      "releasing", "closing", "retiring"}
          => orch[q].pc \in Cycling
    BY DEF NotRetired, Cycling, Executing
  <2> QED
    BY <1>0, <1>4, <2>2, <2>3 DEF Retries
<1>8. Recovers(q)'
  BY <1>0, <1>3 DEF Recovers, About
<1> QED
  BY <1>5, <1>6, <1>7, <1>8 DEF CallTrue

\* A write about one dispatch: it is left to show that the dispatch, the call
\* and the task are true afterwards.
LEMMA WritesOwn ==
  ASSUME IInv, NEW p \in Orchestrators, NEW d \in Dispatches, About(p, d),
         TypeOK', TaskTrue', DispatchTrue(d)', CallTrue(p)'
  PROVE  IInv'
BY OtherDispatches, OtherCalls DEF IInv

\* The receipt is reserved.
LEMMA ReserveKeeps ==
  ASSUME IInv, NEW p \in Orchestrators, Reserve(p)
  PROVE  IInv'
<1> USE DEF ledger, evidence, processes
<1>0. PICK d \in Dispatches : d = orch[p].dispatch
  BY DEF IInv, CallTrue, Owns, Reserve
<1>1. /\ orch[p] \in CallRecord /\ orch[p].pc = "starting" /\ orch[p].dispatch = d
      /\ Owns(p) /\ Retries(p) /\ DispatchTrue(d) /\ receipts[d].phase = "ABSENT"
  BY <1>0, Types DEF Reserve, IInv, CallTrue
<1>2. PICK new \in CallRecord : CallIs(p, new) /\ new = [orch[p] EXCEPT !.pc = "reserved"]
  <2>1. "reserved" \in PCs
    BY DEF PCs
  <2> QED
    BY <2>1, CallGoes DEF IInv, Reserve
<1>3. /\ new.pc = "reserved" /\ new.dispatch = d /\ new.attempt = orch[p].attempt
      /\ new.lifecycle = orch[p].lifecycle
      /\ new.outcome = orch[p].outcome /\ new.winner = orch[p].winner
  BY <1>1, <1>2 DEF CallRecord
<1> DEFINE put == [phase |-> "RESERVED", attempt |-> orch[p].attempt, creator |-> p]
<1>4. /\ put \in ReceiptRecord /\ put.phase = "RESERVED" /\ put.attempt = orch[p].attempt
      /\ put.creator = p
  BY <1>1 DEF ReceiptRecord, Phases, CallRecord
<1>5. receipts' = [receipts EXCEPT ![d] = put]
  BY <1>0 DEF Reserve
<1> HIDE DEF put
<1>6. /\ receipts' \in [Dispatches -> ReceiptRecord]
      /\ receipts'[d] = put /\ \A e \in Dispatches : e # d => receipts'[e] = receipts[e]
  BY <1>1, <1>4, <1>5, Types DEF IInv
<1>7. About(p, d)
  BY <1>1, <1>2, <1>6 DEF About, CallIs, Reserve
<1>8. TypeOK'
  BY <1>2, <1>6 DEF IInv, TypeOK, CallIs, CallRecord, ReceiptRecord, Reserve
<1>9. TaskTrue'
  <2>1. task.dispatch # NoDispatch => task.dispatch # d /\ task.dispatch \in Dispatches
    BY <1>1, Types DEF IInv, TaskTrue
  <2> QED
    BY <1>6, <2>1 DEF IInv, TaskTrue, Reserve
<1>10. /\ events[d] = {} /\ sup[d] = "none" /\ worker[d] = "none" /\ pipe[d] = <<>>
       /\ d \notin tombstones /\ d \notin recovered
       /\ retries[d].phase \in {"ABSENT", "RETRY_RESERVED"}
  BY <1>1 DEF DispatchTrue, ProcessesTrue, PipeTrue, EvidenceTrue, RetryTrue, Over
<1>11. DispatchTrue(d)'
  <2>1. ProcessesTrue(d)'
    BY <1>1, <1>4, <1>6, <1>10 DEF ProcessesTrue, Reserve, NamesWorker, Over, Live
  <2>2. PipeTrue(d)'
    BY <1>10 DEF PipeTrue, Reserve
  <2>3. EvidenceTrue(d)'
    BY <1>4, <1>6, <1>10 DEF EvidenceTrue, Reserve
  <2>4. RetryTrue(d)'
    BY <1>1, <1>10 DEF DispatchTrue, RetryTrue, Reserve, Retired
  <2> QED
    BY <2>1, <2>2, <2>3, <2>4 DEF DispatchTrue
<1>12. CallTrue(p)'
  <2>1. Owns(p)'
    BY <1>1, <1>2, <1>3, <1>4, <1>6, <1>10 DEF Owns, CallIs, Reserve, Starting
  <2>2. Knows(p)' /\ Recovers(p)'
    BY <1>2, <1>3 DEF Knows, Recovers, CallIs, Executing, Stopped
  <2>3. Retries(p)'
    <3>1. orch[p].lifecycle = d =>
            receipts'[retries[d].failed].attempt = receipts[retries[d].failed].attempt
      BY <1>1, <1>7, FailedStays, ConstantsAssumption DEF Retries
    <3> QED
      BY <1>1, <1>2, <1>3, <1>10, <3>1, ConstantsAssumption
      DEF Retries, CallIs, Reserve, Executing, Retired
  <2> QED
    BY <2>1, <2>2, <2>3 DEF CallTrue
<1> QED
  BY <1>1, <1>7, <1>8, <1>9, <1>11, <1>12, WritesOwn

\* A call that works at its dispatch: nobody has recovered it.
LEMMA WorkedAt ==
  ASSUME IInv, NEW p \in Orchestrators, orch[p].pc \in Cycling
  PROVE  /\ orch[p].dispatch \in Dispatches
         /\ receipts[orch[p].dispatch].phase # "ABSENT"
         /\ receipts[orch[p].dispatch].creator = p
         /\ receipts[orch[p].dispatch].attempt = orch[p].attempt
         /\ orch[p].dispatch \notin recovered
         /\ orch[p].pc # "dead"
<1>1. Owns(p) /\ orch[p].pc \notin {"idle", "dead"}
  BY DEF IInv, CallTrue, Cycling, Executing
<1>2. orch[p].dispatch \in Dispatches
  BY <1>1 DEF Owns
<1>3. EvidenceTrue(orch[p].dispatch)
  BY <1>2 DEF IInv, DispatchTrue
<1> QED
  BY <1>1, <1>2, <1>3 DEF Owns, EvidenceTrue

\* TASK_DISPATCHED.
LEMMA ApplyDispatchKeeps ==
  ASSUME IInv, NEW p \in Orchestrators, ApplyDispatch(p)
  PROVE  IInv'
<1> USE DEF ledger, evidence, processes
<1>0. orch[p].pc = "reserved" /\ "reserved" \in Cycling /\ "dispatched" \in PCs
  BY DEF ApplyDispatch, Cycling, PCs
<1>1. PICK d \in Dispatches : d = orch[p].dispatch
  BY <1>0, WorkedAt
<1>2. /\ receipts[d].phase # "ABSENT" /\ receipts[d].creator = p
      /\ receipts[d].attempt = orch[p].attempt /\ d \notin recovered
      /\ events[d] = {} /\ sup[d] = "none"
      /\ Owns(p) /\ Retries(p) /\ DispatchTrue(d)
      /\ orch[p] \in CallRecord
  BY <1>0, <1>1, WorkedAt, Types DEF IInv, CallTrue, Owns
<1>3. /\ stateLock = Free /\ task.state = "ready"
      /\ task' = [state |-> "dispatched", attempt |-> orch[p].attempt, dispatch |-> d]
      /\ events' = [events EXCEPT ![d] = {"TASK_DISPATCHED"}]
      /\ UNCHANGED <<platform, recovered, evidence, stateLock, processes>>
  BY <1>1 DEF ApplyDispatch
<1>4. /\ events' \in [Dispatches -> SUBSET EventTypes] /\ events'[d] = {"TASK_DISPATCHED"}
      /\ \A e \in Dispatches : e # d => events'[e] = events[e]
  BY <1>3, Types DEF IInv, EventTypes
<1>5. PICK new \in CallRecord : CallIs(p, new) /\ new = [orch[p] EXCEPT !.pc = "dispatched"]
  BY <1>0, CallGoes DEF IInv, ApplyDispatch
<1>6. /\ new.pc = "dispatched" /\ new.dispatch = d /\ new.attempt = orch[p].attempt
      /\ new.lifecycle = orch[p].lifecycle
      /\ new.outcome = orch[p].outcome /\ new.winner = orch[p].winner
  BY <1>1, <1>2, <1>5 DEF CallRecord
<1>7. task.dispatch = NoDispatch
  BY <1>3 DEF IInv, TaskTrue, OpenStates
<1>8. About(p, d)
  BY <1>0, <1>2, <1>3, <1>4, <1>5, <1>7 DEF About, CallIs
<1>9. TypeOK'
  BY <1>2, <1>3, <1>4, <1>5 DEF IInv, TypeOK, CallIs, CallRecord
<1>10. TaskTrue'
  BY <1>2, <1>3, <1>4, ConstantsAssumption DEF TaskTrue, OpenStates
<1>11. DispatchTrue(d)'
  <2>1. ProcessesTrue(d)'
    BY <1>2, <1>3, <1>4 DEF DispatchTrue, ProcessesTrue, Live
  <2>2. PipeTrue(d)'
    BY <1>2, <1>3 DEF DispatchTrue, PipeTrue
  <2>3. EvidenceTrue(d)'
    BY <1>2, <1>3, <1>4 DEF DispatchTrue, EvidenceTrue
  <2>4. RetryTrue(d)'
    BY <1>2, <1>3, <1>4 DEF DispatchTrue, RetryTrue, Closed
  <2> QED
    BY <2>1, <2>2, <2>3, <2>4 DEF DispatchTrue
<1>12. CallTrue(p)'
  <2>1. Owns(p)'
    BY <1>0, <1>2, <1>3, <1>5, <1>6 DEF Owns, CallIs, Starting
  <2>2. Knows(p)' /\ Recovers(p)'
    BY <1>5, <1>6 DEF Knows, Recovers, CallIs, Executing, Stopped
  <2>3. Retries(p)'
    BY <1>0, <1>1, <1>2, <1>3, <1>5, <1>6 DEF Retries, CallIs, Executing, NotRetired
  <2> QED
    BY <2>1, <2>2, <2>3 DEF CallTrue
<1> QED
  BY <1>8, <1>9, <1>10, <1>11, <1>12, WritesOwn

\* The supervisor is started.
LEMMA StartSupervisorKeeps ==
  ASSUME IInv, NEW p \in Orchestrators, StartSupervisor(p)
  PROVE  IInv'
<1> USE DEF ledger, evidence, processes
<1>0. orch[p].pc = "dispatched" /\ "dispatched" \in Cycling /\ "awaiting" \in PCs
  BY DEF StartSupervisor, Cycling, PCs
<1>1. PICK d \in Dispatches : d = orch[p].dispatch
  BY <1>0, WorkedAt
<1>2. /\ receipts[d].phase # "ABSENT" /\ receipts[d].creator = p
      /\ receipts[d].attempt = orch[p].attempt /\ d \notin recovered
      /\ sup[d] = "none" /\ task.dispatch = d /\ task.state = "dispatched"
      /\ Owns(p) /\ Retries(p) /\ DispatchTrue(d)
      /\ orch[p] \in CallRecord
  BY <1>0, <1>1, WorkedAt, Types DEF IInv, CallTrue, Owns
<1>3. /\ sup' = [sup EXCEPT ![d] = "starting"]
      /\ UNCHANGED <<platform, ledger, evidence, stateLock, worker, pipe>>
  BY <1>1 DEF StartSupervisor
<1>4. /\ sup' \in [Dispatches -> SupervisorStates] /\ sup'[d] = "starting"
      /\ \A e \in Dispatches : e # d => sup'[e] = sup[e]
  BY <1>3, Types DEF IInv, SupervisorStates
<1>5. PICK new \in CallRecord : CallIs(p, new) /\ new = [orch[p] EXCEPT !.pc = "awaiting"]
  BY <1>0, CallGoes DEF IInv, StartSupervisor
<1>6. /\ new.pc = "awaiting" /\ new.dispatch = d /\ new.attempt = orch[p].attempt
      /\ new.lifecycle = orch[p].lifecycle
      /\ new.outcome = orch[p].outcome /\ new.winner = orch[p].winner
  BY <1>1, <1>2, <1>5 DEF CallRecord
<1>8. About(p, d)
  BY <1>0, <1>2, <1>3, <1>4, <1>5 DEF About, CallIs
<1>9. TypeOK'
  BY <1>2, <1>3, <1>4, <1>5 DEF IInv, TypeOK, CallIs, CallRecord, SupervisorStates
<1>10. TaskTrue'
  BY <1>3 DEF IInv, TaskTrue
<1>11. DispatchTrue(d)'
  <2>0. receipts[d].phase = "RESERVED"
    BY <1>2 DEF DispatchTrue, ProcessesTrue
  <2>1. ProcessesTrue(d)'
    BY <1>2, <1>3, <1>4, <2>0 DEF DispatchTrue, ProcessesTrue, Live, OpenStates, NamesWorker, Over
  <2>2. PipeTrue(d)'
    BY <1>2, <1>3, <1>4 DEF DispatchTrue, PipeTrue
  <2>3. EvidenceTrue(d)'
    BY <1>2, <1>3, <1>4 DEF DispatchTrue, EvidenceTrue
  <2>4. RetryTrue(d)'
    BY <1>2, <1>3 DEF DispatchTrue, RetryTrue
  <2> QED
    BY <2>1, <2>2, <2>3, <2>4 DEF DispatchTrue
<1>12. CallTrue(p)'
  <2>1. Owns(p)'
    BY <1>0, <1>2, <1>3, <1>5, <1>6 DEF Owns, CallIs, Starting
  <2>2. Knows(p)' /\ Recovers(p)'
    BY <1>5, <1>6 DEF Knows, Recovers, CallIs, Executing, Stopped
  <2>3. Retries(p)'
    BY <1>0, <1>1, <1>2, <1>3, <1>5, <1>6 DEF Retries, CallIs, Executing, NotRetired, Cycling
  <2> QED
    BY <2>1, <2>2, <2>3 DEF CallTrue
<1> QED
  BY <1>8, <1>9, <1>10, <1>11, <1>12, WritesOwn

TaskStates ==
  {"ready", "dispatched", "in_progress", "review_ready", "cancelled", "superseded"}

\* A transition of the task.
LEMMA TransitionIs ==
  ASSUME IInv, NEW d \in Dispatches, NEW type \in EventTypes, NEW from, NEW to \in TaskStates,
         Transition(d, type, from, to)
  PROVE  /\ stateLock = Free /\ task.dispatch = d /\ task.state \in from
         /\ task' \in [state : TaskStates, attempt : 0 .. MaxAttempt,
                       dispatch : Dispatches \cup {NoDispatch}]
         /\ task'.state = to /\ task'.attempt = task.attempt
         /\ task'.dispatch = IF type \in {"DISPATCH_ACKNOWLEDGED", "DELIVERY_SUBMITTED"}
                               THEN d ELSE NoDispatch
         /\ events' \in [Dispatches -> SUBSET EventTypes]
         /\ events'[d] = events[d] \cup {type}
         /\ \A e \in Dispatches : e # d => events'[e] = events[e]
<1>1. task \in [state : TaskStates, attempt : 0 .. MaxAttempt,
                dispatch : Dispatches \cup {NoDispatch}]
  BY DEF IInv, TypeOK, TaskStates
<1> DEFINE next == IF type \in {"DISPATCH_ACKNOWLEDGED", "DELIVERY_SUBMITTED"}
                     THEN d ELSE NoDispatch
<1>2. task' = [task EXCEPT !.state = to, !.dispatch = next]
  BY DEF Transition
<1>3. next \in Dispatches \cup {NoDispatch}
  OBVIOUS
<1> HIDE DEF next
<1>4. /\ task' \in [state : TaskStates, attempt : 0 .. MaxAttempt,
                    dispatch : Dispatches \cup {NoDispatch}]
      /\ task'.state = to /\ task'.attempt = task.attempt /\ task'.dispatch = next
  BY <1>1, <1>2, <1>3
<1>5. events' = [events EXCEPT ![d] = events[d] \cup {type}]
  BY DEF Transition
<1>6. /\ events' \in [Dispatches -> SUBSET EventTypes]
      /\ events'[d] = events[d] \cup {type}
      /\ \A e \in Dispatches : e # d => events'[e] = events[e]
  BY <1>5, Types DEF IInv
<1> QED
  BY <1>4, <1>6 DEF Transition, next

\* DISPATCH_ACKNOWLEDGED, with the frame worker_started.
LEMMA AcknowledgeKeeps ==
  ASSUME IInv, NEW p \in Orchestrators, Acknowledge(p)
  PROVE  IInv'
<1> USE DEF ledger, evidence, processes
<1>0. /\ orch[p].pc = "awaiting" /\ "awaiting" \in Cycling /\ "acknowledged" \in PCs
      /\ "DISPATCH_ACKNOWLEDGED" \in EventTypes /\ "in_progress" \in TaskStates
  BY DEF Acknowledge, Cycling, PCs, EventTypes, TaskStates
<1>1. PICK d \in Dispatches : d = orch[p].dispatch
  BY <1>0, WorkedAt
<1>2. /\ receipts[d].phase # "ABSENT" /\ receipts[d].creator = p
      /\ receipts[d].attempt = orch[p].attempt /\ d \notin recovered
      /\ Owns(p) /\ Retries(p) /\ DispatchTrue(d) /\ orch[p] \in CallRecord
      /\ pipe[d] \in Seq({"worker_started", "ok", "error"})
  BY <1>0, <1>1, WorkedAt, Types DEF IInv, CallTrue
<1>3. /\ pipe[d] # <<>> /\ Head(pipe[d]) = "worker_started"
      /\ Transition(d, "DISPATCH_ACKNOWLEDGED", {"dispatched"}, "in_progress")
      /\ pipe' = [pipe EXCEPT ![d] = Tail(pipe[d])]
      /\ UNCHANGED <<platform, recovered, evidence, stateLock, sup, worker>>
  BY <1>1 DEF Acknowledge
<1>4. /\ stateLock = Free /\ task.dispatch = d /\ task.state = "dispatched"
      /\ task' \in [state : TaskStates, attempt : 0 .. MaxAttempt,
                    dispatch : Dispatches \cup {NoDispatch}]
      /\ task'.state = "in_progress" /\ task'.attempt = task.attempt /\ task'.dispatch = d
      /\ events' \in [Dispatches -> SUBSET EventTypes]
      /\ events'[d] = events[d] \cup {"DISPATCH_ACKNOWLEDGED"}
      /\ \A e \in Dispatches : e # d => events'[e] = events[e]
  BY <1>0, <1>3, TransitionIs
<1>5. PICK new \in CallRecord : CallIs(p, new) /\ new = [orch[p] EXCEPT !.pc = "acknowledged"]
  BY <1>0, CallGoes DEF IInv, Acknowledge
<1>6. /\ new.pc = "acknowledged" /\ new.dispatch = d /\ new.attempt = orch[p].attempt
      /\ new.lifecycle = orch[p].lifecycle
      /\ new.outcome = orch[p].outcome /\ new.winner = orch[p].winner
  BY <1>1, <1>2, <1>5 DEF CallRecord
<1>7. /\ pipe' \in [Dispatches -> Seq({"worker_started", "ok", "error"})]
      /\ pipe'[d] = Tail(pipe[d])
      /\ \A e \in Dispatches : e # d => pipe'[e] = pipe[e]
  <2>1. Tail(pipe[d]) \in Seq({"worker_started", "ok", "error"})
    BY <1>2, <1>3
  <2> QED
    BY <1>3, <2>1, Types DEF IInv
<1>8. /\ Len(pipe'[d]) = Len(pipe[d]) - 1 /\ Len(pipe[d]) \in Nat /\ Len(pipe[d]) >= 1
      /\ \A i \in 1 .. Len(pipe'[d]) :
           i + 1 \in 1 .. Len(pipe[d]) /\ pipe'[d][i] = pipe[d][i + 1] /\ i + 1 > 1
  BY <1>2, <1>3, <1>7
<1>9. receipts[d].phase \in NamesWorker
  <2>1. 1 \in 1 .. Len(pipe[d]) /\ pipe[d][1] = "worker_started"
    BY <1>2, <1>3
  <2> QED
    BY <1>2, <2>1 DEF DispatchTrue, PipeTrue
<1>10. events[d] = {"TASK_DISPATCHED"}
  BY <1>4, ConstantsAssumption DEF IInv, TaskTrue
<1>11. About(p, d)
  BY <1>0, <1>2, <1>3, <1>4, <1>5, <1>7 DEF About, CallIs
<1>12. TypeOK'
  BY <1>3, <1>4, <1>5, <1>7 DEF IInv, TypeOK, CallIs, CallRecord, TaskStates
<1>13. TaskTrue'
  BY <1>3, <1>4, <1>10, ConstantsAssumption DEF IInv, TaskTrue, OpenStates
<1>14. \A i \in 1 .. Len(pipe'[d]) :
         /\ pipe'[d][i] # "worker_started"
         /\ pipe'[d][i] = "ok" => receipts[d].phase \in Over
         /\ pipe'[d][i] \in {"ok", "error"} => sup[d] = "exited"
  BY <1>2, <1>8 DEF DispatchTrue, PipeTrue
<1>15. DispatchTrue(d)'
  <2>1. ProcessesTrue(d)'
    BY <1>2, <1>3, <1>4 DEF DispatchTrue, ProcessesTrue, Live, OpenStates
  <2>2. PipeTrue(d)'
    <3>1. sup[d] \notin {"none", "starting", "ready", "announced", "spawned"}
      BY <1>2, <1>3 DEF DispatchTrue, PipeTrue
    <3> QED
      BY <1>3, <1>14, <3>1 DEF PipeTrue
  <2>3. EvidenceTrue(d)'
    BY <1>2, <1>3, <1>4, <1>9 DEF DispatchTrue, EvidenceTrue
  <2>4. RetryTrue(d)'
    BY <1>2, <1>3, <1>4, <1>10 DEF DispatchTrue, RetryTrue, Closed
  <2> QED
    BY <2>1, <2>2, <2>3, <2>4 DEF DispatchTrue
<1>16. CallTrue(p)'
  <2>1. Owns(p)'
    BY <1>0, <1>2, <1>3, <1>5, <1>6 DEF Owns, CallIs, Starting
  <2>2. Knows(p)' /\ Recovers(p)'
    BY <1>4, <1>5, <1>6, <1>14 DEF Knows, Recovers, CallIs, Executing, Stopped
  <2>3. Retries(p)'
    <3>1. events'[d] \cap Closed = {}
      BY <1>4, <1>10 DEF Closed
    <3> QED
      BY <1>0, <1>1, <1>2, <1>3, <1>5, <1>6, <3>1
      DEF Retries, CallIs, Executing, NotRetired, Cycling
  <2> QED
    BY <2>1, <2>2, <2>3 DEF CallTrue
<1> QED
  BY <1>11, <1>12, <1>13, <1>15, <1>16, WritesOwn

\* DELIVERY_SUBMITTED.
LEMMA DeliverKeeps ==
  ASSUME IInv, NEW p \in Orchestrators, Deliver(p)
  PROVE  IInv'
<1> USE DEF ledger, evidence, processes
<1>0. /\ orch[p].pc = "delivering" /\ "delivering" \in Cycling /\ "releasing" \in PCs
      /\ "delivering" \in Executing /\ "delivering" \in Stopped /\ "delivering" \in NotRetired
      /\ "releasing" \in Executing
      /\ "DELIVERY_SUBMITTED" \in EventTypes /\ "review_ready" \in TaskStates
  BY DEF Deliver, Cycling, PCs, EventTypes, TaskStates, Executing, Stopped, NotRetired
<1>1. PICK d \in Dispatches : d = orch[p].dispatch
  BY <1>0, WorkedAt
<1>2. /\ receipts[d].phase # "ABSENT" /\ receipts[d].creator = p
      /\ receipts[d].attempt = orch[p].attempt /\ d \notin recovered
      /\ Owns(p) /\ Knows(p) /\ Retries(p) /\ DispatchTrue(d) /\ orch[p] \in CallRecord
  BY <1>0, <1>1, WorkedAt, Types DEF IInv, CallTrue
<1>3. /\ Transition(d, "DELIVERY_SUBMITTED", {"in_progress"}, "review_ready")
      /\ orch[p].outcome = "ok"
      /\ UNCHANGED <<platform, recovered, evidence, stateLock, processes>>
  BY <1>1 DEF Deliver
<1>4. /\ stateLock = Free /\ task.dispatch = d /\ task.state = "in_progress"
      /\ task' \in [state : TaskStates, attempt : 0 .. MaxAttempt,
                    dispatch : Dispatches \cup {NoDispatch}]
      /\ task'.state = "review_ready" /\ task'.attempt = task.attempt /\ task'.dispatch = d
      /\ events' \in [Dispatches -> SUBSET EventTypes]
      /\ events'[d] = events[d] \cup {"DELIVERY_SUBMITTED"}
      /\ \A e \in Dispatches : e # d => events'[e] = events[e]
  BY <1>0, <1>3, TransitionIs
<1>5. PICK new \in CallRecord : CallIs(p, new) /\ new = [orch[p] EXCEPT !.pc = "releasing"]
  BY <1>0, CallGoes DEF IInv, Deliver
<1>6. /\ new.pc = "releasing" /\ new.dispatch = d /\ new.attempt = orch[p].attempt
      /\ new.lifecycle = orch[p].lifecycle
      /\ new.outcome = orch[p].outcome /\ new.winner = orch[p].winner
  BY <1>1, <1>2, <1>5 DEF CallRecord
<1>7. sup[d] = "exited" /\ receipts[d].phase \in Over
  BY <1>0, <1>1, <1>2, <1>3 DEF Knows
<1>10. events[d] = {"TASK_DISPATCHED", "DISPATCH_ACKNOWLEDGED"}
  BY <1>4, ConstantsAssumption DEF IInv, TaskTrue
<1>11. About(p, d)
  BY <1>0, <1>2, <1>3, <1>4, <1>5 DEF About, CallIs
<1>12. TypeOK'
  BY <1>3, <1>4, <1>5 DEF IInv, TypeOK, CallIs, CallRecord, TaskStates
<1>13. TaskTrue'
  BY <1>3, <1>4, <1>10, ConstantsAssumption DEF IInv, TaskTrue, OpenStates
<1>15. DispatchTrue(d)'
  <2>1. ProcessesTrue(d)'
    BY <1>2, <1>3, <1>4, <1>7 DEF DispatchTrue, ProcessesTrue, Live
  <2>2. PipeTrue(d)'
    BY <1>2, <1>3 DEF DispatchTrue, PipeTrue
  <2>3. EvidenceTrue(d)'
    BY <1>2, <1>3, <1>4, <1>7 DEF DispatchTrue, EvidenceTrue
  <2>4. RetryTrue(d)'
    BY <1>2, <1>3, <1>4, <1>10 DEF DispatchTrue, RetryTrue, Closed
  <2> QED
    BY <2>1, <2>2, <2>3, <2>4 DEF DispatchTrue
<1>16. CallTrue(p)'
  <2>1. Owns(p)'
    BY <1>0, <1>2, <1>3, <1>5, <1>6 DEF Owns, CallIs, Starting
  <2>2. Knows(p)'
    BY <1>0, <1>1, <1>2, <1>3, <1>4, <1>5, <1>6, <1>7 DEF Knows, CallIs
  <2>3. Retries(p)'
    <3>1. events'[d] \cap Closed = {}
      BY <1>4, <1>10 DEF Closed
    <3> QED
      BY <1>0, <1>1, <1>2, <1>3, <1>5, <1>6, <3>1
      DEF Retries, CallIs
  <2>4. Recovers(p)'
    BY <1>5, <1>6 DEF Recovers, CallIs
  <2> QED
    BY <2>1, <2>2, <2>3, <2>4 DEF CallTrue
<1> QED
  BY <1>11, <1>12, <1>13, <1>15, <1>16, WritesOwn

\* TASK_CANCELLED or TASK_SUPERSEDED.
LEMMA CloseKeeps ==
  ASSUME IInv, NEW p \in Orchestrators, Close(p)
  PROVE  IInv'
<1> USE DEF ledger, evidence, processes
<1>0. /\ orch[p].pc = "closing" /\ "closing" \in Cycling /\ "retiring" \in PCs
      /\ "closing" \in Executing /\ "closing" \in Stopped /\ "closing" \in NotRetired
      /\ "retiring" \in Executing
      /\ Closed \subseteq EventTypes /\ {"cancelled", "superseded"} \subseteq TaskStates
  BY DEF Close, Cycling, PCs, EventTypes, TaskStates, Executing, Stopped, NotRetired, Closed
<1>1. PICK d \in Dispatches : d = orch[p].dispatch
  BY <1>0, WorkedAt
<1>2. /\ receipts[d].phase # "ABSENT" /\ receipts[d].creator = p
      /\ receipts[d].attempt = orch[p].attempt /\ d \notin recovered
      /\ Owns(p) /\ Knows(p) /\ Retries(p) /\ DispatchTrue(d) /\ orch[p] \in CallRecord
  BY <1>0, <1>1, WorkedAt, Types DEF IInv, CallTrue
<1>3. PICK type \in Closed, to \in {"cancelled", "superseded"} :
        Transition(d, type, {"dispatched", "in_progress"}, to)
  BY <1>1 DEF Close, CloseAs, Closed
<1>a. /\ orch[p].winner \in Terminations
      /\ UNCHANGED <<platform, recovered, evidence, stateLock, processes>>
      /\ type \notin {"DISPATCH_ACKNOWLEDGED", "DELIVERY_SUBMITTED"}
  BY DEF Close, MayClose, Closed
<1>4. /\ stateLock = Free /\ task.dispatch = d
      /\ task' \in [state : TaskStates, attempt : 0 .. MaxAttempt,
                    dispatch : Dispatches \cup {NoDispatch}]
      /\ task'.state = to /\ task'.dispatch = NoDispatch
      /\ events' \in [Dispatches -> SUBSET EventTypes]
      /\ events'[d] = events[d] \cup {type}
      /\ \A e \in Dispatches : e # d => events'[e] = events[e]
  <2>1. type \in EventTypes /\ to \in TaskStates
    BY <1>0
  <2> QED
    BY <1>3, <1>a, <2>1, TransitionIs
<1>5. PICK new \in CallRecord : CallIs(p, new) /\ new = [orch[p] EXCEPT !.pc = "retiring"]
  BY <1>0, CallGoes DEF IInv, Close
<1>6. /\ new.pc = "retiring" /\ new.dispatch = d /\ new.attempt = orch[p].attempt
      /\ new.lifecycle = orch[p].lifecycle
      /\ new.outcome = orch[p].outcome /\ new.winner = orch[p].winner
  BY <1>1, <1>2, <1>5 DEF CallRecord
<1>7. sup[d] \in {"none", "exited", "terminated"} /\ retries[d].phase \notin Retired
  BY <1>0, <1>1, <1>2, <1>a DEF Knows, Retries
<1>11. About(p, d)
  BY <1>0, <1>2, <1>a, <1>4, <1>5 DEF About, CallIs
<1>12. TypeOK'
  BY <1>a, <1>4, <1>5 DEF IInv, TypeOK, CallIs, CallRecord, TaskStates
<1>13. TaskTrue'
  BY <1>4 DEF IInv, TaskTrue, OpenStates
<1>15. DispatchTrue(d)'
  <2>1. ProcessesTrue(d)'
    BY <1>2, <1>a, <1>4, <1>7 DEF DispatchTrue, ProcessesTrue, Live
  <2>2. PipeTrue(d)'
    BY <1>2, <1>a DEF DispatchTrue, PipeTrue
  <2>3. EvidenceTrue(d)'
    BY <1>2, <1>a, <1>4 DEF DispatchTrue, EvidenceTrue
  <2>4. RetryTrue(d)'
    BY <1>2, <1>a, <1>4, <1>7 DEF DispatchTrue, RetryTrue
  <2> QED
    BY <2>1, <2>2, <2>3, <2>4 DEF DispatchTrue
<1>16. CallTrue(p)'
  <2>1. Owns(p)'
    BY <1>0, <1>2, <1>a, <1>5, <1>6 DEF Owns, CallIs, Starting
  <2>2. Knows(p)'
    BY <1>0, <1>1, <1>2, <1>a, <1>4, <1>5, <1>6, <1>7 DEF Knows, CallIs
  <2>3. Retries(p)'
    BY <1>0, <1>1, <1>2, <1>a, <1>5, <1>6 DEF Retries, CallIs, Terminations
  <2>4. Recovers(p)'
    BY <1>5, <1>6 DEF Recovers, CallIs
  <2> QED
    BY <2>1, <2>2, <2>3, <2>4 DEF CallTrue
<1> QED
  BY <1>11, <1>12, <1>13, <1>15, <1>16, WritesOwn

\* The receipt of an owner-loss retry advances.
LEMMA RetryAdvances ==
  ASSUME IInv, NEW l \in Dispatches, NEW from, NEW to \in RetryPhases, AdvanceRetry(l, from, to)
  PROVE  /\ retries[l].phase = from
         /\ retries' \in [Dispatches -> RetryRecord]
         /\ retries'[l].phase = to /\ retries'[l].failed = retries[l].failed
         /\ \A e \in Dispatches : e # l => retries'[e] = retries[e]
<1> DEFINE put == [retries[l] EXCEPT !.phase = to]
<1>1. retries[l] \in RetryRecord
  BY Types DEF IInv
<1>2. put \in RetryRecord /\ put.phase = to /\ put.failed = retries[l].failed
  BY <1>1 DEF RetryRecord
<1>3. retries' = [retries EXCEPT ![l] = put] /\ retries[l].phase = from
  BY DEF AdvanceRetry
<1> HIDE DEF put
<1> QED
  BY <1>2, <1>3, Types DEF IInv

\* The execution is active, and a retry is RETRY_STARTED.
LEMMA BecomeActiveKeeps ==
  ASSUME IInv, NEW p \in Orchestrators, BecomeActive(p)
  PROVE  IInv'
<1> USE DEF ledger, evidence, processes
<1>0. /\ orch[p].pc = "acknowledged" /\ "acknowledged" \in Cycling /\ "active" \in PCs
      /\ "acknowledged" \in NotRetired /\ "active" \in NotRetired
      /\ "acknowledged" \in Starting /\ "active" \notin Starting
      /\ "active" \notin Stopped /\ "acknowledged" \notin Executing /\ "active" \in Executing
      /\ {"RETRY_STARTED"} \cap Retired = {} /\ "RETRY_STARTED" \in RetryPhases
  BY DEF BecomeActive, Cycling, PCs, NotRetired, Starting, Stopped, Executing, Retired, RetryPhases
<1>1. PICK d \in Dispatches : d = orch[p].dispatch
  BY <1>0, WorkedAt
<1>2. /\ receipts[d].phase # "ABSENT" /\ receipts[d].creator = p
      /\ receipts[d].attempt = orch[p].attempt /\ d \notin recovered
      /\ Owns(p) /\ Knows(p) /\ Retries(p) /\ DispatchTrue(d) /\ orch[p] \in CallRecord
  BY <1>0, <1>1, WorkedAt, Types DEF IInv, CallTrue
<1>3. /\ orch[p].lifecycle \in {NoDispatch, d}
      /\ \/ orch[p].lifecycle = NoDispatch /\ UNCHANGED retries
         \/ orch[p].lifecycle = d /\ AdvanceRetry(d, "RETRY_RESERVED", "RETRY_STARTED")
      /\ UNCHANGED <<platform, ledger, receipts, tombstones, stateLock, processes>>
  BY <1>1 DEF BecomeActive, StartRetry
<1>4. /\ retries' \in [Dispatches -> RetryRecord]
      /\ \A e \in Dispatches : e # d => retries'[e] = retries[e]
      /\ retries'[d].failed = retries[d].failed
      /\ \/ retries'[d] = retries[d]
         \/ /\ orch[p].lifecycle = d /\ retries[d].phase = "RETRY_RESERVED"
            /\ retries'[d].phase = "RETRY_STARTED"
  <2>1. CASE UNCHANGED retries
    BY <2>1, Types DEF IInv
  <2>2. CASE orch[p].lifecycle = d /\ AdvanceRetry(d, "RETRY_RESERVED", "RETRY_STARTED")
    BY <1>0, <2>2, RetryAdvances
  <2> QED
    BY <1>3, <2>1, <2>2
<1>5. PICK new \in CallRecord : CallIs(p, new) /\ new = [orch[p] EXCEPT !.pc = "active"]
  BY <1>0, CallGoes DEF IInv, BecomeActive
<1>6. /\ new.pc = "active" /\ new.dispatch = d /\ new.attempt = orch[p].attempt
      /\ new.lifecycle = orch[p].lifecycle
      /\ new.outcome = orch[p].outcome /\ new.winner = orch[p].winner
  BY <1>1, <1>2, <1>5 DEF CallRecord
<1>7. /\ "DISPATCH_ACKNOWLEDGED" \in events[d] /\ new.outcome = "none" /\ new.winner = "none"
      /\ \A i \in 1 .. Len(pipe[d]) : pipe[d][i] # "worker_started"
      /\ retries[d].phase \notin Retired /\ events[d] \cap Closed = {}
  BY <1>0, <1>1, <1>2, <1>6 DEF Owns, Knows, Retries
<1>8. orch[p].lifecycle = d =>
        /\ retries[d].phase # "ABSENT"
        /\ receipts[d].attempt = receipts[retries[d].failed].attempt + 1
  BY <1>0, <1>1, <1>2, ConstantsAssumption DEF Retries
<1>11. About(p, d)
  BY <1>0, <1>2, <1>3, <1>4, <1>5 DEF About, CallIs
<1>12. TypeOK'
  BY <1>3, <1>4, <1>5 DEF IInv, TypeOK, CallIs, CallRecord, RetryRecord
<1>13. TaskTrue'
  BY <1>3 DEF IInv, TaskTrue
<1>15. DispatchTrue(d)'
  <2>1. ProcessesTrue(d)' /\ PipeTrue(d)'
    BY <1>2, <1>3 DEF DispatchTrue, ProcessesTrue, PipeTrue
  <2>2. EvidenceTrue(d)'
    BY <1>2, <1>3 DEF DispatchTrue, EvidenceTrue
  <2>3. RetryTrue(d)'
    BY <1>0, <1>2, <1>3, <1>4, <1>7, <1>8 DEF DispatchTrue, RetryTrue
  <2> QED
    BY <2>1, <2>2, <2>3 DEF DispatchTrue
<1>16. CallTrue(p)'
  <2>1. Owns(p)'
    BY <1>0, <1>2, <1>3, <1>5, <1>6 DEF Owns, CallIs
  <2>2. Knows(p)'
    BY <1>0, <1>3, <1>5, <1>6, <1>7 DEF Knows, CallIs
  <2>3. Retries(p)'
    BY <1>0, <1>2, <1>3, <1>4, <1>5, <1>6, <1>7, <1>8, ConstantsAssumption DEF Retries, CallIs
  <2>4. Recovers(p)'
    BY <1>5, <1>6 DEF Recovers, CallIs
  <2> QED
    BY <2>1, <2>2, <2>3, <2>4 DEF CallTrue
<1> QED
  BY <1>11, <1>12, <1>13, <1>15, <1>16, WritesOwn

\* RETRY_FINALIZING and RETRY_FINALIZED.
LEMMA RetryEnds ==
  ASSUME IInv, NEW p \in Orchestrators, RetryFinalizing(p) \/ RetryFinalized(p)
  PROVE  IInv'
<1> USE DEF ledger, evidence, processes
<1>0. PICK pc \in {"tombstone", "published"}, from \in {"RETRY_STARTED", "RETRY_FINALIZING"},
           to \in Retired :
        /\ orch[p].pc \in {"retiring", "retry_finalized"}
        /\ Goto(p, pc)
        /\ \/ /\ orch[p].lifecycle # NoDispatch
              /\ from = "RETRY_STARTED" => orch[p].pc = "retiring" /\ orch[p].winner = "completion"
              /\ AdvanceRetry(orch[p].lifecycle, from, to)
           \/ UNCHANGED retries
        /\ UNCHANGED <<platform, ledger, receipts, tombstones, stateLock, processes>>
  BY DEF RetryFinalizing, RetryFinalized, Retired
<1>1. /\ orch[p].pc \in Cycling /\ orch[p].pc \in Executing /\ orch[p].pc \in Stopped
      /\ pc \in PCs /\ pc \in Stopped \ {"advance"} /\ pc \notin NotRetired /\ pc \in Executing
      /\ pc \notin Starting /\ pc \in Cycling /\ to \in RetryPhases
      /\ from \in Retired <=> from = "RETRY_FINALIZING"
  BY <1>0 DEF Cycling, PCs, NotRetired, Starting, Stopped, Executing, Retired, RetryPhases
<1>2. CASE UNCHANGED retries
  BY <1>0, <1>1, <1>2, FinalizerPasses DEF Written
<1>3. CASE /\ orch[p].lifecycle # NoDispatch
           /\ from = "RETRY_STARTED" => orch[p].pc = "retiring" /\ orch[p].winner = "completion"
           /\ AdvanceRetry(orch[p].lifecycle, from, to)
  <2>1. PICK d \in Dispatches : d = orch[p].dispatch
    BY <1>1, WorkedAt
  <2>2. /\ receipts[d].phase # "ABSENT" /\ receipts[d].creator = p
        /\ receipts[d].attempt = orch[p].attempt /\ d \notin recovered /\ orch[p].pc # "dead"
        /\ Owns(p) /\ Knows(p) /\ Retries(p) /\ DispatchTrue(d) /\ orch[p] \in CallRecord
    BY <1>1, <2>1, WorkedAt, Types DEF IInv, CallTrue
  <2>3. orch[p].lifecycle = d
    BY <1>1, <1>3, <2>1, <2>2 DEF Retries
  <2>4. /\ retries[d].phase = from
        /\ retries' \in [Dispatches -> RetryRecord]
        /\ retries'[d].phase = to /\ retries'[d].failed = retries[d].failed
        /\ \A e \in Dispatches : e # d => retries'[e] = retries[e]
    BY <1>1, <1>3, <2>3, RetryAdvances
  <2>5. PICK new \in CallRecord : CallIs(p, new) /\ new = [orch[p] EXCEPT !.pc = pc]
    BY <1>0, <1>1, CallGoes DEF IInv
  <2>6. /\ new.pc = pc /\ new.dispatch = d /\ new.attempt = orch[p].attempt
        /\ new.lifecycle = orch[p].lifecycle
        /\ new.outcome = orch[p].outcome /\ new.winner = orch[p].winner
    BY <2>1, <2>2, <2>5 DEF CallRecord
  <2>7. events[d] \cap Closed = {}
    <3>1. CASE from = "RETRY_STARTED"
      BY <1>3, <2>1, <2>2, <3>1 DEF Retries
    <3>2. CASE from = "RETRY_FINALIZING"
      BY <1>1, <2>2, <2>4, <3>2 DEF DispatchTrue, RetryTrue
    <3> QED
      BY <3>1, <3>2
  <2>8. About(p, d)
    BY <1>0, <1>1, <2>2, <2>4, <2>5 DEF About, CallIs, Retired
  <2>9. TypeOK'
    BY <1>0, <2>4, <2>5 DEF IInv, TypeOK, CallIs, CallRecord, RetryRecord
  <2>10. TaskTrue'
    BY <1>0 DEF IInv, TaskTrue
  <2>11. DispatchTrue(d)'
    <3>1. ProcessesTrue(d)' /\ PipeTrue(d)'
      BY <1>0, <2>2 DEF DispatchTrue, ProcessesTrue, PipeTrue
    <3>2. EvidenceTrue(d)'
      BY <1>0, <2>2 DEF DispatchTrue, EvidenceTrue
    <3>3. RetryTrue(d)'
      BY <1>0, <2>2, <2>4, <2>7 DEF DispatchTrue, RetryTrue
    <3> QED
      BY <3>1, <3>2, <3>3 DEF DispatchTrue
  <2>12. CallTrue(p)'
    <3>1. Owns(p)'
      BY <1>0, <1>1, <2>2, <2>5, <2>6 DEF Owns, CallIs
    <3>2. Knows(p)'
      BY <1>0, <1>1, <2>1, <2>2, <2>5, <2>6 DEF Knows, CallIs
    <3>3. Retries(p)'
      BY <1>0, <1>1, <2>1, <2>2, <2>3, <2>4, <2>5, <2>6 DEF Retries, CallIs, Retired
    <3>4. Recovers(p)'
      BY <1>0, <2>5, <2>6 DEF Recovers, CallIs
    <3> QED
      BY <3>1, <3>2, <3>3, <3>4 DEF CallTrue
  <2> QED
    BY <2>8, <2>9, <2>10, <2>11, <2>12, WritesOwn
<1> QED
  BY <1>0, <1>2, <1>3

\* The tombstone.
LEMMA WriteTombstoneKeeps ==
  ASSUME IInv, NEW p \in Orchestrators, WriteTombstone(p)
  PROVE  IInv'
<1> USE DEF ledger, evidence, processes
<1>0. /\ orch[p].pc = "tombstone" /\ "tombstone" \in Cycling /\ "advance" \in PCs
      /\ "tombstone" \in Executing /\ "advance" \in Executing /\ "advance" \in Cycling
      /\ "tombstone" \in Stopped /\ "advance" \notin NotRetired /\ "advance" \notin Starting
  BY DEF WriteTombstone, Cycling, PCs, NotRetired, Starting, Stopped, Executing
<1>1. PICK d \in Dispatches : d = orch[p].dispatch
  BY <1>0, WorkedAt
<1>2. /\ receipts[d].phase # "ABSENT" /\ receipts[d].creator = p
      /\ receipts[d].attempt = orch[p].attempt /\ d \notin recovered
      /\ Owns(p) /\ Knows(p) /\ Retries(p) /\ DispatchTrue(d) /\ orch[p] \in CallRecord
  BY <1>0, <1>1, WorkedAt, Types DEF IInv, CallTrue
<1>3. /\ receipts[d].phase = "FINALIZING" /\ tombstones' = tombstones \cup {d}
      /\ UNCHANGED <<platform, ledger, receipts, retries, stateLock, processes>>
  BY <1>1 DEF WriteTombstone
<1>5. PICK new \in CallRecord : CallIs(p, new) /\ new = [orch[p] EXCEPT !.pc = "advance"]
  BY <1>0, CallGoes DEF IInv, WriteTombstone
<1>6. /\ new.pc = "advance" /\ new.dispatch = d /\ new.attempt = orch[p].attempt
      /\ new.lifecycle = orch[p].lifecycle
      /\ new.outcome = orch[p].outcome /\ new.winner = orch[p].winner
  BY <1>1, <1>2, <1>5 DEF CallRecord
<1>11. About(p, d)
  BY <1>0, <1>2, <1>3, <1>5 DEF About, CallIs
<1>12. TypeOK'
  BY <1>3, <1>5 DEF IInv, TypeOK, CallIs, CallRecord
<1>13. TaskTrue'
  BY <1>3 DEF IInv, TaskTrue
<1>15. DispatchTrue(d)'
  <2>1. ProcessesTrue(d)' /\ PipeTrue(d)'
    BY <1>2, <1>3 DEF DispatchTrue, ProcessesTrue, PipeTrue
  <2>2. EvidenceTrue(d)'
    BY <1>2, <1>3 DEF DispatchTrue, EvidenceTrue, Over
  <2>3. RetryTrue(d)'
    BY <1>2, <1>3 DEF DispatchTrue, RetryTrue
  <2> QED
    BY <2>1, <2>2, <2>3 DEF DispatchTrue
<1>16. CallTrue(p)'
  <2>1. Owns(p)'
    BY <1>0, <1>2, <1>3, <1>5, <1>6 DEF Owns, CallIs
  <2>2. Knows(p)'
    BY <1>0, <1>1, <1>2, <1>3, <1>5, <1>6 DEF Knows, CallIs
  <2>3. Retries(p)'
    BY <1>0, <1>1, <1>2, <1>3, <1>5, <1>6 DEF Retries, CallIs
  <2>4. Recovers(p)'
    BY <1>5, <1>6 DEF Recovers, CallIs
  <2> QED
    BY <2>1, <2>2, <2>3, <2>4 DEF CallTrue
<1> QED
  BY <1>11, <1>12, <1>13, <1>15, <1>16, WritesOwn

\* A receipt advances.
LEMMA ReceiptAdvances ==
  ASSUME IInv, NEW d \in Dispatches, NEW from, NEW to \in Phases, Advance(d, from, to)
  PROVE  /\ receipts[d].phase = from
         /\ receipts' \in [Dispatches -> ReceiptRecord]
         /\ receipts'[d].phase = to /\ receipts'[d].attempt = receipts[d].attempt
         /\ receipts'[d].creator = receipts[d].creator
         /\ \A e \in Dispatches : e # d => receipts'[e] = receipts[e]
<1> DEFINE put == [receipts[d] EXCEPT !.phase = to]
<1>1. receipts[d] \in ReceiptRecord
  BY Types DEF IInv
<1>2. /\ put \in ReceiptRecord /\ put.phase = to /\ put.attempt = receipts[d].attempt
      /\ put.creator = receipts[d].creator
  BY <1>1 DEF ReceiptRecord
<1>3. receipts' = [receipts EXCEPT ![d] = put] /\ receipts[d].phase = from
  BY DEF Advance
<1> HIDE DEF put
<1> QED
  BY <1>2, <1>3, Types DEF IInv

\* FINALIZED, after the tombstone.
LEMMA FinishReceiptKeeps ==
  ASSUME IInv, NEW p \in Orchestrators, FinishReceipt(p)
  PROVE  IInv'
<1> USE DEF ledger, evidence, processes
<1>0. /\ orch[p].pc = "advance" /\ "advance" \in Cycling /\ "retry_finalized" \in PCs
      /\ "advance" \in Executing /\ "retry_finalized" \in Executing
      /\ "retry_finalized" \in Cycling
      /\ "advance" \in Stopped /\ "retry_finalized" \notin NotRetired
      /\ "retry_finalized" \notin Starting
      /\ "FINALIZED" \in Phases /\ "FINALIZED" \in Over /\ "FINALIZING" \in Over
      /\ Over \subseteq NamesWorker /\ "FINALIZED" \notin {"ABSENT", "RESERVED"}
  BY DEF FinishReceipt, Cycling, PCs, NotRetired, Starting, Stopped, Executing, Phases, Over,
     NamesWorker
<1>1. PICK d \in Dispatches : d = orch[p].dispatch
  BY <1>0, WorkedAt
<1>2. /\ receipts[d].creator = p
      /\ receipts[d].attempt = orch[p].attempt /\ d \notin recovered
      /\ Owns(p) /\ Knows(p) /\ Retries(p) /\ DispatchTrue(d) /\ orch[p] \in CallRecord
  BY <1>0, <1>1, WorkedAt, Types DEF IInv, CallTrue
<1>3. /\ Advance(d, "FINALIZING", "FINALIZED")
      /\ UNCHANGED <<platform, ledger, tombstones, retries, stateLock, processes>>
  BY <1>1 DEF FinishReceipt
<1>4. /\ receipts[d].phase = "FINALIZING" /\ receipts' \in [Dispatches -> ReceiptRecord]
      /\ receipts'[d].phase = "FINALIZED" /\ receipts'[d].attempt = receipts[d].attempt
      /\ receipts'[d].creator = receipts[d].creator
      /\ \A e \in Dispatches : e # d => receipts'[e] = receipts[e]
  BY <1>0, <1>3, ReceiptAdvances
<1>5. PICK new \in CallRecord :
        CallIs(p, new) /\ new = [orch[p] EXCEPT !.pc = "retry_finalized"]
  BY <1>0, CallGoes DEF IInv, FinishReceipt
<1>6. /\ new.pc = "retry_finalized" /\ new.dispatch = d /\ new.attempt = orch[p].attempt
      /\ new.lifecycle = orch[p].lifecycle
      /\ new.outcome = orch[p].outcome /\ new.winner = orch[p].winner
  BY <1>1, <1>2, <1>5 DEF CallRecord
<1>7. d \in tombstones
  BY <1>0, <1>1, <1>2 DEF Knows
<1>11. About(p, d)
  BY <1>0, <1>2, <1>3, <1>4, <1>5 DEF About, CallIs
<1>12. TypeOK'
  BY <1>3, <1>4, <1>5 DEF IInv, TypeOK, CallIs, CallRecord, ReceiptRecord
<1>13. TaskTrue'
  BY <1>3, <1>4, Types DEF IInv, TaskTrue
<1>14. \A e \in Dispatches : retries[e].phase # "ABSENT" =>
         receipts'[retries[e].failed].attempt = receipts[retries[e].failed].attempt
  BY <1>11, FailedStays
<1>15. DispatchTrue(d)'
  <2>1. ProcessesTrue(d)' /\ PipeTrue(d)'
    BY <1>0, <1>2, <1>3, <1>4 DEF DispatchTrue, ProcessesTrue, PipeTrue
  <2>2. EvidenceTrue(d)'
    BY <1>0, <1>2, <1>3, <1>4, <1>7 DEF DispatchTrue, EvidenceTrue
  <2>3. RetryTrue(d)'
    BY <1>2, <1>3, <1>4, <1>14 DEF DispatchTrue, RetryTrue
  <2> QED
    BY <2>1, <2>2, <2>3 DEF DispatchTrue
<1>16. CallTrue(p)'
  <2>1. Owns(p)'
    BY <1>0, <1>2, <1>3, <1>4, <1>5, <1>6 DEF Owns, CallIs
  <2>2. Knows(p)'
    BY <1>0, <1>1, <1>2, <1>3, <1>4, <1>5, <1>6 DEF Knows, CallIs
  <2>3. Retries(p)'
    <3>1. orch[p].lifecycle # NoDispatch => retries[orch[p].lifecycle].phase # "ABSENT"
            /\ orch[p].lifecycle = d
      BY <1>0, <1>1, <1>2 DEF Retries
    <3> QED
      BY <1>0, <1>1, <1>2, <1>3, <1>5, <1>6, <1>14, <3>1 DEF Retries, CallIs
  <2>4. Recovers(p)'
    BY <1>5, <1>6 DEF Recovers, CallIs
  <2> QED
    BY <2>1, <2>2, <2>3, <2>4 DEF CallTrue
<1> QED
  BY <1>11, <1>12, <1>13, <1>15, <1>16, WritesOwn

\* DISPATCH_FAILED of a completed dispatch, and the next attempt.
LEMMA FailAndRetryKeeps ==
  ASSUME IInv, NEW p \in Orchestrators, FailAndRetry(p)
  PROVE  IInv'
<1> USE DEF ledger, evidence, processes
<1>0. /\ orch[p].pc = "published" /\ "published" \in Cycling
      /\ "published" \in Executing /\ "published" \in Stopped
      /\ "DISPATCH_FAILED" \in EventTypes /\ "ready" \in TaskStates
      /\ "DISPATCH_FAILED" \notin {"DISPATCH_ACKNOWLEDGED", "DELIVERY_SUBMITTED"}
  BY DEF FailAndRetry, Cycling, EventTypes, TaskStates, Executing, Stopped
<1>1. PICK d \in Dispatches : d = orch[p].dispatch
  BY <1>0, WorkedAt
<1>2. /\ receipts[d].phase # "ABSENT" /\ receipts[d].creator = p
      /\ receipts[d].attempt = orch[p].attempt /\ d \notin recovered
      /\ Knows(p) /\ Retries(p) /\ DispatchTrue(d) /\ orch[p] \in CallRecord
  BY <1>0, <1>1, WorkedAt, Types DEF IInv, CallTrue
<1>3. /\ Transition(d, "DISPATCH_FAILED", {"in_progress"}, "ready")
      /\ orch[p].winner = "completion"
      /\ UNCHANGED <<platform, recovered, evidence, stateLock, processes>>
  BY <1>1 DEF FailAndRetry
<1>4. /\ stateLock = Free /\ task.dispatch = d
      /\ task' \in [state : TaskStates, attempt : 0 .. MaxAttempt,
                    dispatch : Dispatches \cup {NoDispatch}]
      /\ task'.state = "ready" /\ task'.dispatch = NoDispatch
      /\ events' \in [Dispatches -> SUBSET EventTypes]
      /\ events'[d] = events[d] \cup {"DISPATCH_FAILED"}
      /\ \A e \in Dispatches : e # d => events'[e] = events[e]
  BY <1>0, <1>3, TransitionIs
<1>5. PICK new \in CallRecord :
        /\ CallIs(p, new)
        /\ \/ new = Idle
           \/ /\ new.pc = "starting" /\ new.outcome = "none" /\ new.winner = "none"
              /\ new.dispatch \in Dispatches /\ new.lifecycle = orch[p].lifecycle
              /\ retries[new.dispatch].phase = "ABSENT"
  <2>1. CASE Return(p)
    BY <2>1, CallBegins, CallSet DEF Return, IInv
  <2>2. CASE \E e \in Dispatches :
               /\ MayFollow(e, orch[p].dispatch, orch[p].attempt)
               /\ retries[e].phase = "ABSENT"
               /\ orch' = [orch EXCEPT ![p] = Cycle(e, orch[p].attempt + 1, orch[p].lifecycle)]
    <3>1. PICK e \in Dispatches :
               /\ orch[p].attempt < MaxAttempt
               /\ retries[e].phase = "ABSENT"
               /\ orch' = [orch EXCEPT ![p] = Cycle(e, orch[p].attempt + 1, orch[p].lifecycle)]
      BY <2>2 DEF MayFollow
    <3> DEFINE call == Cycle(e, orch[p].attempt + 1, orch[p].lifecycle)
    <3>2. orch[p].attempt + 1 \in 0 .. MaxAttempt
          /\ orch[p].lifecycle \in Dispatches \cup {NoDispatch}
      BY <1>2, <3>1, ConstantsAssumption DEF CallRecord
    <3>3. call \in CallRecord
      BY <3>2, CallBegins
    <3>4. call.pc = "starting" /\ call.outcome = "none" /\ call.winner = "none"
          /\ call.dispatch = e /\ call.lifecycle = orch[p].lifecycle
      BY DEF Cycle, Idle
    <3>5. orch' = [orch EXCEPT ![p] = call]
      BY <3>1
    <3> HIDE DEF call
    <3>6. CallIs(p, call)
      BY <3>3, <3>5, CallSet DEF IInv
    <3> QED
      BY <3>1, <3>3, <3>4, <3>6
  <2> QED
    BY <2>1, <2>2 DEF FailAndRetry
<1>7. sup[d] = "exited"
  BY <1>0, <1>1, <1>2, <1>3 DEF Knows
<1>11. About(p, d)
  BY <1>0, <1>2, <1>3, <1>4, <1>5 DEF About, CallIs
<1>12. TypeOK'
  BY <1>3, <1>4, <1>5 DEF IInv, TypeOK, CallIs, CallRecord, TaskStates
<1>13. TaskTrue'
  BY <1>4 DEF IInv, TaskTrue, OpenStates
<1>15. DispatchTrue(d)'
  <2>1. ProcessesTrue(d)'
    BY <1>2, <1>3, <1>4, <1>7 DEF DispatchTrue, ProcessesTrue, Live
  <2>2. PipeTrue(d)'
    BY <1>2, <1>3 DEF DispatchTrue, PipeTrue
  <2>3. EvidenceTrue(d)'
    BY <1>2, <1>3, <1>4 DEF DispatchTrue, EvidenceTrue
  <2>4. RetryTrue(d)'
    BY <1>2, <1>3, <1>4 DEF DispatchTrue, RetryTrue, Closed
  <2> QED
    BY <2>1, <2>2, <2>3, <2>4 DEF DispatchTrue
<1>16. CallTrue(p)'
  <2>1. CASE new = Idle
    BY <1>5, <2>1, NothingKnown
  <2>2. CASE /\ new.pc = "starting" /\ new.outcome = "none" /\ new.winner = "none"
             /\ new.dispatch \in Dispatches /\ new.lifecycle = orch[p].lifecycle
             /\ retries[new.dispatch].phase = "ABSENT"
    <3>0. /\ "starting" \notin Cycling /\ "starting" \notin Executing /\ "starting" \notin Stopped
          /\ "starting" \notin NotRetired
      BY DEF Cycling, Executing, Stopped, NotRetired
    <3>1. Owns(p)'
      BY <1>5, <2>2, <3>0 DEF Owns, CallIs
    <3>2. Knows(p)' /\ Recovers(p)'
      BY <1>5, <2>2, <3>0 DEF Knows, Recovers, CallIs
    <3>3. Retries(p)'
      BY <1>2, <1>3, <1>5, <2>2, <3>0 DEF Retries, CallIs
    <3> QED
      BY <3>1, <3>2, <3>3 DEF CallTrue
  <2> QED
    BY <1>5, <2>1, <2>2
<1> QED
  BY <1>11, <1>12, <1>13, <1>15, <1>16, WritesOwn

\* A recovery probes, and DISPATCH_FAILED of the lost dispatch.
LEMMA ProbeAndFailKeeps ==
  ASSUME IInv, NEW p \in Orchestrators, ProbeAndFail(p)
  PROVE  IInv'
<1> USE DEF ledger, evidence, processes
<1>0. orch[p].pc = "locked" /\ "reserving" \in PCs /\ "DISPATCH_FAILED" \in EventTypes
  BY DEF ProbeAndFail, PCs, EventTypes
<1>1. PICK d \in Dispatches : d = orch[p].dispatch
  BY <1>0 DEF IInv, CallTrue, Owns
<1>2. /\ stateLock = p /\ task.dispatch = d /\ task.state \in OpenStates
      /\ "DISPATCH_ACKNOWLEDGED" \in events[d] => orch[p].saw \in NamesWorker
      /\ Retries(p) /\ DispatchTrue(d) /\ orch[p] \in CallRecord
  BY <1>0, <1>1, Types DEF IInv, CallTrue, Recovers
<1>3. /\ orch[receipts[d].creator].pc = "dead" /\ TreeDead(d, orch[p].saw)
      /\ task' = [task EXCEPT !.state = "ready", !.dispatch = NoDispatch]
      /\ events' = [events EXCEPT ![d] = events[d] \cup {"DISPATCH_FAILED"}]
      /\ recovered' = recovered \cup {d}
      /\ stateLock' = Free
      /\ UNCHANGED <<platform, evidence, processes>>
  BY <1>1 DEF ProbeAndFail, CreatorLives
<1>4. /\ events' \in [Dispatches -> SUBSET EventTypes]
      /\ events'[d] = events[d] \cup {"DISPATCH_FAILED"}
      /\ \A e \in Dispatches : e # d => events'[e] = events[e]
      /\ task' \in [state : TaskStates, attempt : 0 .. MaxAttempt,
                    dispatch : Dispatches \cup {NoDispatch}]
      /\ task'.state = "ready" /\ task'.dispatch = NoDispatch
  <2>1. task \in [state : TaskStates, attempt : 0 .. MaxAttempt,
                  dispatch : Dispatches \cup {NoDispatch}]
    BY DEF IInv, TypeOK, TaskStates
  <2>2. "ready" \in TaskStates
    BY DEF TaskStates
  <2>3. /\ events' \in [Dispatches -> SUBSET EventTypes]
        /\ events'[d] = events[d] \cup {"DISPATCH_FAILED"}
        /\ \A e \in Dispatches : e # d => events'[e] = events[e]
    BY <1>0, <1>3, Types DEF IInv
  <2> QED
    BY <1>3, <2>1, <2>2, <2>3
<1>5. PICK new \in CallRecord :
        /\ CallIs(p, new)
        /\ \/ new = Idle
           \/ /\ new.pc = "reserving" /\ new.dispatch = d
              /\ new.lifecycle = orch[p].lifecycle
  <2>1. CASE Return(p)
    BY <2>1, CallBegins, CallSet DEF Return, IInv
  <2>2. CASE Goto(p, "reserving")
    <3>1. PICK new \in CallRecord :
            CallIs(p, new) /\ new = [orch[p] EXCEPT !.pc = "reserving"]
      BY <1>0, <2>2, CallGoes DEF IInv
    <3>2. new.pc = "reserving" /\ new.dispatch = d /\ new.lifecycle = orch[p].lifecycle
      BY <1>1, <1>2, <3>1 DEF CallRecord
    <3> QED
      BY <3>1, <3>2
  <2> QED
    BY <2>1, <2>2 DEF ProbeAndFail, Recovered
<1>6. /\ receipts[d].phase # "ABSENT" /\ sup[d] = "exited"
      /\ "DISPATCH_ACKNOWLEDGED" \in events[d] => worker[d] # "running"
      /\ receipts[d].creator \in Orchestrators /\ receipts[d].creator # p
  <2>1. receipts[d].phase # "ABSENT"
    BY <1>2, ConstantsAssumption DEF IInv, TaskTrue
  <2>2. receipts[d].creator \in Orchestrators
    BY <1>2, <2>1 DEF DispatchTrue, ProcessesTrue
  <2> QED
    BY <1>0, <1>2, <1>3, <2>1, <2>2 DEF TreeDead, JobDead, WorkerTreeDead
<1>11. About(p, d)
  BY <1>0, <1>2, <1>3, <1>4, <1>5 DEF About, CallIs
<1>12. TypeOK'
  BY <1>3, <1>4, <1>5 DEF IInv, TypeOK, CallIs, CallRecord, TaskStates
<1>13. TaskTrue'
  BY <1>4 DEF IInv, TaskTrue, OpenStates
<1>15. DispatchTrue(d)'
  <2>1. ProcessesTrue(d)'
    BY <1>2, <1>3, <1>4, <1>6 DEF DispatchTrue, ProcessesTrue, Live
  <2>2. PipeTrue(d)'
    BY <1>2, <1>3 DEF DispatchTrue, PipeTrue
  <2>3. EvidenceTrue(d)'
    <3>1. orch'[receipts[d].creator].pc = "dead"
      BY <1>3, <1>5, <1>6 DEF CallIs
    <3> QED
      BY <1>2, <1>3, <1>4, <1>6, <3>1, ConstantsAssumption DEF DispatchTrue, EvidenceTrue
  <2>4. RetryTrue(d)'
    BY <1>2, <1>3, <1>4 DEF DispatchTrue, RetryTrue, Closed
  <2> QED
    BY <2>1, <2>2, <2>3, <2>4 DEF DispatchTrue
<1>16. CallTrue(p)'
  <2>1. CASE new = Idle
    BY <1>5, <2>1, NothingKnown
  <2>2. CASE new.pc = "reserving" /\ new.dispatch = d /\ new.lifecycle = orch[p].lifecycle
    <3>0. /\ "reserving" \notin Cycling /\ "reserving" \notin Executing
          /\ "reserving" \notin Stopped /\ "reserving" \notin NotRetired
          /\ "reserving" \notin Starting
      BY DEF Cycling, Executing, Stopped, NotRetired, Starting
    <3>1. Owns(p)'
      BY <1>5, <2>2, <3>0 DEF Owns, CallIs
    <3>2. Knows(p)' /\ Recovers(p)'
      BY <1>3, <1>5, <2>2, <3>0 DEF Knows, Recovers, CallIs
    <3>3. Retries(p)'
      BY <1>2, <1>3, <1>5, <2>2, <3>0 DEF Retries, CallIs
    <3> QED
      BY <3>1, <3>2, <3>3 DEF CallTrue
  <2> QED
    BY <1>5, <2>1, <2>2
<1> QED
  BY <1>11, <1>12, <1>13, <1>15, <1>16, WritesOwn

\* The receipt of an owner-loss retry is reserved, for a dispatch that another
\* call may be working at.
LEMMA ReserveRetryKeeps ==
  ASSUME IInv, NEW p \in Orchestrators, NEW d \in Dispatches, ReserveRetry(p, d)
  PROVE  IInv'
<1> USE DEF ledger, evidence, processes
<1>1. PICK lost \in Dispatches : lost = orch[p].dispatch
  BY DEF IInv, CallTrue, Owns, ReserveRetry
<1>2. /\ orch[p].pc = "reserving" /\ lost \in recovered
      /\ task.attempt = receipts[lost].attempt /\ task.attempt < MaxAttempt
      /\ \/ retries[d].phase = "ABSENT"
         \/ retries[d] = RetryReserved(lost)
      /\ retries' = [retries EXCEPT ![d] = RetryReserved(lost)]
      /\ orch' = [orch EXCEPT ![p] = Cycle(d, task.attempt + 1, d)]
      /\ UNCHANGED <<platform, ledger, receipts, tombstones, stateLock, processes>>
  BY <1>1 DEF ReserveRetry, PutRetry, MayFollow, IInv, CallTrue, Recovers
<1>3. /\ RetryReserved(lost) \in RetryRecord
      /\ RetryReserved(lost).phase = "RETRY_RESERVED" /\ RetryReserved(lost).failed = lost
  BY DEF RetryReserved, RetryRecord, RetryPhases
<1>4. /\ retries' \in [Dispatches -> RetryRecord]
      /\ retries'[d].phase = "RETRY_RESERVED" /\ retries'[d].failed = lost
      /\ \A e \in Dispatches : e # d => retries'[e] = retries[e]
      /\ retries[d].phase # "ABSENT" => retries'[d] = retries[d]
  BY <1>2, <1>3, Types DEF IInv
<1>5. \E new \in CallRecord :
        /\ CallIs(p, new)
        /\ new.pc = "starting" /\ new.dispatch = d /\ new.attempt = task.attempt + 1
        /\ new.lifecycle = d /\ new.outcome = "none" /\ new.winner = "none"
  <2> DEFINE call == Cycle(d, task.attempt + 1, d)
  <2>1. task.attempt + 1 \in 0 .. MaxAttempt
    BY <1>2, Types, ConstantsAssumption DEF IInv
  <2>2. call \in CallRecord
    BY <2>1, CallBegins
  <2>3. /\ call.pc = "starting" /\ call.dispatch = d /\ call.attempt = task.attempt + 1
        /\ call.lifecycle = d /\ call.outcome = "none" /\ call.winner = "none"
    BY DEF Cycle, Idle
  <2>4. orch' = [orch EXCEPT ![p] = call]
    BY <1>2
  <2> HIDE DEF call
  <2>5. CallIs(p, call)
    BY <2>2, <2>4, CallSet DEF IInv
  <2> QED
    BY <2>2, <2>3, <2>5
<1>6. PICK new \in CallRecord :
        /\ CallIs(p, new)
        /\ new.pc = "starting" /\ new.dispatch = d /\ new.attempt = task.attempt + 1
        /\ new.lifecycle = d /\ new.outcome = "none" /\ new.winner = "none"
  BY <1>5
<1>7. TypeOK'
  BY <1>2, <1>4, <1>6 DEF IInv, TypeOK, CallIs, CallRecord, RetryRecord
<1>8. TaskTrue'
  BY <1>2 DEF IInv, TaskTrue
<1>9. ASSUME NEW e \in Dispatches PROVE DispatchTrue(e)'
  <2>1. ProcessesTrue(e) /\ PipeTrue(e) /\ EvidenceTrue(e) /\ RetryTrue(e)
    BY DEF IInv, DispatchTrue
  <2>2. ProcessesTrue(e)' /\ PipeTrue(e)'
    BY <1>2, <2>1 DEF ProcessesTrue, PipeTrue
  <2>3. EvidenceTrue(e)'
    <3>1. e \in recovered => receipts[e].creator \in Orchestrators
      BY <2>1 DEF ProcessesTrue, EvidenceTrue
    <3>2. e \in recovered => orch'[receipts[e].creator].pc = "dead"
      BY <1>2, <1>6, <2>1, <3>1 DEF EvidenceTrue, CallIs
    <3> QED
      BY <1>2, <2>1, <3>2 DEF EvidenceTrue
  <2>4. RetryTrue(e)'
    <3>1. CASE e = d
      BY <1>2, <1>4, <3>1 DEF RetryTrue, Retired
    <3>2. CASE e # d
      BY <1>2, <1>4, <2>1, <3>2 DEF RetryTrue
    <3> QED
      BY <3>1, <3>2
  <2> QED
    BY <2>2, <2>3, <2>4 DEF DispatchTrue
<1>10. ASSUME NEW q \in Orchestrators, q # p PROVE CallTrue(q)'
  <2>1. /\ Owns(q) /\ Knows(q) /\ Retries(q) /\ Recovers(q) /\ orch'[q] = orch[q]
        /\ orch[q] \in CallRecord
    BY <1>6, <1>10, Types DEF IInv, CallTrue, CallIs
  <2>2. Owns(q)' /\ Recovers(q)'
    BY <1>2, <2>1 DEF Owns, Recovers
  <2>3. Knows(q)'
    BY <1>2, <2>1 DEF Knows
  <2>4. Retries(q)'
    <3> DEFINE l == orch[q].lifecycle
               e == orch[q].dispatch
    <3>1. l # NoDispatch => retries'[l] = retries[l] /\ retries[l].phase # "ABSENT"
      BY <1>4, <2>1 DEF Retries, CallRecord
    <3>2. e \in Dispatches => retries'[e] = retries[e] \/ retries'[e].phase = "RETRY_RESERVED"
      BY <1>4
    <3>3. orch[q].pc \in NotRetired => e \in Dispatches
      BY <2>1 DEF Owns, NotRetired, Cycling, Executing
    <3>4. orch[q].pc \in NotRetired => retries'[e].phase \notin Retired
      BY <2>1, <3>2, <3>3 DEF Retries, Retired
    <3> QED
      BY <1>2, <2>1, <3>1, <3>4 DEF Retries
  <2> QED
    BY <2>1, <2>2, <2>3, <2>4 DEF CallTrue
<1>11. CallTrue(p)'
  <2>0. /\ "starting" \notin Cycling /\ "starting" \notin Executing /\ "starting" \notin Stopped
        /\ "starting" \notin NotRetired
    BY DEF Cycling, Executing, Stopped, NotRetired
  <2>1. Owns(p)'
    BY <1>6, <2>0 DEF Owns, CallIs
  <2>2. Knows(p)' /\ Recovers(p)'
    BY <1>6, <2>0 DEF Knows, Recovers, CallIs
  <2>3. Retries(p)'
    BY <1>2, <1>4, <1>6, <2>0 DEF Retries, CallIs
  <2> QED
    BY <2>1, <2>2, <2>3 DEF CallTrue
<1> QED
  BY <1>7, <1>8, <1>9, <1>10, <1>11 DEF IInv

-----------------------------------------------------------------------------
(* The supervisor and the worker. *)

\* A process ends.
LEMMA ProcessWinds ==
  ASSUME IInv, Winding, UNCHANGED <<Written, stateLock, orch>>
  PROVE  IInv'
<1>1. TaskTrue' /\ \A d \in Dispatches : DispatchTrue(d)'
  BY DispatchWinds
<1>2. \A q \in Orchestrators : CallTrue(q)'
  BY CallWinds
<1>3. TypeOK'
  BY DEF IInv, TypeOK, Winding, SupervisorStates, Written, ledger, evidence
<1> QED
  BY <1>1, <1>2, <1>3 DEF IInv

\* The worker's process ends, or the supervisor's before it has written.
LEMMA WorkerEndsKeeps ==
  ASSUME IInv, NEW d \in Dispatches, WorkerEnds(d) \/ SupervisorDies(d) \/ ReadyFails(d)
  PROVE  IInv'
<1> USE DEF Written, ledger, evidence
<1>1. CASE WorkerEnds(d)
  <2>1. \A e \in Dispatches : sup[e] = "exited" /\ platform = "win32" => worker[e] # "running"
    BY DEF IInv, DispatchTrue, ProcessesTrue
  <2>2. /\ worker' \in [Dispatches -> {"none", "running", "over"}]
        /\ worker[d] = "running" /\ worker'[d] = "over"
        /\ \A e \in Dispatches : e # d => worker'[e] = worker[e]
    BY <1>1, Types DEF WorkerEnds, IInv
  <2>3. Winding
    BY <1>1, <2>1, <2>2, Types DEF Winding, WorkerEnds, IInv
  <2> QED
    BY <1>1, <2>3, ProcessWinds DEF WorkerEnds
<1>2. CASE SupervisorDies(d) \/ ReadyFails(d)
  <2>1. Winding
    BY <1>2, SamePipe, EndWinds DEF SupervisorDies, ReadyFails
  <2> QED
    BY <1>2, <2>1, ProcessWinds DEF SupervisorDies, ReadyFails
<1> QED
  BY <1>1, <1>2

\* A supervisor that lives takes a step, and may write its receipt.
Forward(d) ==
  /\ UNCHANGED <<platform, ledger, tombstones, retries, stateLock, orch>>
  /\ receipts' \in [Dispatches -> ReceiptRecord]
  /\ sup' \in [Dispatches -> SupervisorStates]
  /\ worker' \in [Dispatches -> {"none", "running", "over"}]
  /\ pipe' \in [Dispatches -> Seq({"worker_started", "ok", "error"})]
  /\ \A e \in Dispatches : e # d =>
       /\ receipts'[e] = receipts[e] /\ sup'[e] = sup[e]
       /\ worker'[e] = worker[e] /\ pipe'[e] = pipe[e]
  /\ sup[d] \notin {"none", "exited"}
  /\ sup[d] = "terminated" => sup'[d] \in {"terminated", "exited"}
  /\ receipts'[d].attempt = receipts[d].attempt
  /\ receipts'[d].creator = receipts[d].creator
  /\ receipts'[d].phase \notin {"ABSENT", "FINALIZED"}
  /\ receipts[d].phase \in NamesWorker =>
       /\ receipts'[d].phase \in NamesWorker
       /\ \A i \in 1 .. Len(pipe'[d]) : pipe'[d][i] = "worker_started" =>
            i \in 1 .. Len(pipe[d]) /\ pipe[d][i] = "worker_started"

\* What the calls know stays true.
LEMMA CallsForward ==
  ASSUME IInv, NEW d \in Dispatches, Forward(d), NEW q \in Orchestrators
  PROVE  CallTrue(q)'
<1> USE DEF ledger
<1> DEFINE e == orch[q].dispatch
<1>0. /\ Owns(q) /\ Knows(q) /\ Retries(q) /\ Recovers(q) /\ orch'[q] = orch[q]
      /\ orch[q] \in CallRecord
      /\ UNCHANGED <<events, recovered, task, tombstones, retries, stateLock>>
  BY Types DEF IInv, CallTrue, Forward
<1>1. orch[q].pc \in Cycling => e \in Dispatches
  BY <1>0 DEF Owns, Cycling, Executing
<1>2. \A x \in Dispatches :
        /\ receipts'[x].attempt = receipts[x].attempt
        /\ receipts'[x].creator = receipts[x].creator
        /\ receipts[x].phase # "ABSENT" => receipts'[x].phase # "ABSENT"
        /\ sup[x] \in {"none", "exited"} => sup'[x] = sup[x] /\ receipts'[x] = receipts[x]
        /\ sup[x] = "terminated" => sup'[x] \in {"terminated", "exited"}
  BY DEF Forward
<1>3. Owns(q)'
  BY <1>0, <1>1, <1>2 DEF Owns, Cycling
<1>4. Knows(q)'
  <2>0. /\ orch[q].pc \in Executing \cup {"acknowledged", "active", "advance"} =>
             orch[q].pc \in Cycling
        /\ orch[q].pc \in Stopped => orch[q].pc \in Cycling
        /\ orch[q].pc \in {"acknowledged", "active"} =>
             orch[q].pc \in Executing \cup {"acknowledged"}
    BY DEF Executing, Cycling, Stopped
  <2>1. ASSUME orch[q].pc \in {"acknowledged", "active"}
        PROVE  \A i \in 1 .. Len(pipe'[e]) : pipe'[e][i] # "worker_started"
    <3>1. CASE e = d
      <4>1. "DISPATCH_ACKNOWLEDGED" \in events[d]
        BY <1>0, <2>0, <2>1, <3>1 DEF Knows
      <4>2. receipts[d].phase \in NamesWorker
        BY <4>1 DEF IInv, DispatchTrue, EvidenceTrue
      <4>3. \A i \in 1 .. Len(pipe[d]) : pipe[d][i] # "worker_started"
        BY <1>0, <2>1, <3>1 DEF Knows
      <4> QED
        BY <3>1, <4>2, <4>3 DEF Forward
    <3>2. CASE e # d
      <4>1. pipe'[e] = pipe[e]
        BY <1>1, <2>0, <2>1, <3>2 DEF Forward
      <4> QED
        BY <1>0, <2>1, <4>1 DEF Knows
    <3> QED
      BY <3>1, <3>2
  <2>2. /\ orch[q].pc \in Executing /\ orch[q].outcome # "none" =>
             sup'[e] = "exited" /\ receipts'[e] = receipts[e]
        /\ orch[q].pc \in Stopped /\ orch[q].winner \in Terminations =>
             sup'[e] \in {"none", "exited", "terminated"}
    BY <1>0, <1>1, <1>2, <2>0 DEF Knows
  <2> QED
    BY <1>0, <2>1, <2>2 DEF Knows
<1>5. Retries(q)'
  <2>1. \A x \in Dispatches : retries[x].phase # "ABSENT" => retries[x].failed \in Dispatches
    BY DEF IInv, TypeOK, DispatchTrue, RetryTrue
  <2>2. orch[q].lifecycle # NoDispatch =>
          orch[q].lifecycle \in Dispatches /\ retries[orch[q].lifecycle].phase # "ABSENT"
    BY <1>0 DEF Retries, CallRecord
  <2> QED
    BY <1>0, <1>2, <2>1, <2>2 DEF Retries
<1>6. Recovers(q)'
  BY <1>0 DEF Recovers
<1> QED
  BY <1>3, <1>4, <1>5, <1>6 DEF CallTrue

\* It is left to show that the receipt, the processes and the pipe go together
\* afterwards.
LEMMA ForwardKeeps ==
  ASSUME IInv, NEW d \in Dispatches, Forward(d), ProcessesTrue(d)', PipeTrue(d)'
  PROVE  IInv'
<1> USE DEF ledger
<1>0. UNCHANGED <<platform, events, recovered, task, tombstones, retries, stateLock, orch>>
  BY DEF Forward
<1>1. \A x \in Dispatches :
        /\ receipts'[x].attempt = receipts[x].attempt
        /\ receipts'[x].creator = receipts[x].creator
        /\ receipts[x].phase # "ABSENT" => receipts'[x].phase # "ABSENT"
        /\ sup[x] = "exited" =>
             sup'[x] = sup[x] /\ receipts'[x] = receipts[x] /\ worker'[x] = worker[x]
  BY DEF Forward
<1>2. \A x \in Dispatches : retries[x].phase # "ABSENT" => retries[x].failed \in Dispatches
  BY DEF IInv, TypeOK, DispatchTrue, RetryTrue
<1>3. TypeOK'
  <2>1. TypeOK
    BY DEF IInv
  <2>2. /\ receipts' \in [Dispatches -> ReceiptRecord]
        /\ sup' \in [Dispatches -> SupervisorStates]
        /\ worker' \in [Dispatches -> {"none", "running", "over"}]
        /\ pipe' \in [Dispatches -> Seq({"worker_started", "ok", "error"})]
    BY DEF Forward
  <2> QED
    BY <1>0, <2>1, <2>2 DEF TypeOK, ReceiptRecord, SupervisorStates
<1>4. TaskTrue'
  BY <1>0, <1>1, Types DEF IInv, TaskTrue
<1>5. ASSUME NEW e \in Dispatches PROVE DispatchTrue(e)'
  <2>1. ProcessesTrue(e) /\ PipeTrue(e) /\ EvidenceTrue(e) /\ RetryTrue(e)
    BY DEF IInv, DispatchTrue
  <2>2. RetryTrue(e)'
    BY <1>0, <1>1, <1>2, <2>1 DEF RetryTrue
  <2>3. e \in recovered => sup[e] = "exited" /\ receipts[e].creator \in Orchestrators
    BY <2>1 DEF EvidenceTrue, ProcessesTrue
  <2>4. CASE e = d
    <3>1. /\ receipts[d].phase \notin Over /\ d \notin recovered /\ d \notin tombstones
          /\ "DELIVERY_SUBMITTED" \notin events[d]
          /\ receipts'[d].phase # "FINALIZED"
          /\ receipts[d].phase \in NamesWorker => receipts'[d].phase \in NamesWorker
      BY <2>1, <2>3, <2>4 DEF ProcessesTrue, EvidenceTrue, Forward
    <3>2. EvidenceTrue(d)'
      BY <1>0, <2>1, <2>4, <3>1 DEF EvidenceTrue
    <3> QED
      BY <2>2, <2>4, <3>2 DEF DispatchTrue
  <2>5. CASE e # d
    <3>1. /\ receipts'[e] = receipts[e] /\ sup'[e] = sup[e]
          /\ worker'[e] = worker[e] /\ pipe'[e] = pipe[e]
      BY <2>5 DEF Forward
    <3>2. ProcessesTrue(e)' /\ PipeTrue(e)'
      BY <1>0, <2>1, <3>1 DEF ProcessesTrue, PipeTrue
    <3>3. EvidenceTrue(e)'
      BY <1>0, <2>1, <3>1 DEF EvidenceTrue
    <3> QED
      BY <2>2, <3>2, <3>3 DEF DispatchTrue
  <2> QED
    BY <2>4, <2>5
<1>6. \A q \in Orchestrators : CallTrue(q)'
  BY CallsForward
<1> QED
  BY <1>3, <1>4, <1>5, <1>6 DEF IInv

\* A frame is sent, or nobody reads.
LEMMA Emitted ==
  ASSUME IInv, NEW d \in Dispatches, NEW frame \in {"worker_started", "ok", "error"},
         Emit(d, frame) \/ UNCHANGED pipe
  PROVE  /\ pipe' \in [Dispatches -> Seq({"worker_started", "ok", "error"})]
         /\ \A e \in Dispatches : e # d => pipe'[e] = pipe[e]
         /\ pipe[d] = <<>> => pipe'[d] \in {<<>>, <<frame>>}
         /\ \A i \in 1 .. Len(pipe'[d]) :
              \/ i \in 1 .. Len(pipe[d]) /\ pipe'[d][i] = pipe[d][i]
              \/ pipe'[d][i] = frame
<1>1. pipe[d] \in Seq({"worker_started", "ok", "error"})
  BY Types DEF IInv
<1>2. pipe' = pipe \/ pipe' = [pipe EXCEPT ![d] = Append(pipe[d], frame)]
  BY Types DEF Emit, IInv
<1>3. CASE pipe' = pipe
  BY <1>1, <1>3, Types DEF IInv
<1>4. CASE pipe' = [pipe EXCEPT ![d] = Append(pipe[d], frame)]
  <2>1. Append(pipe[d], frame) \in Seq({"worker_started", "ok", "error"})
    BY <1>1
  <2>2. /\ pipe' \in [Dispatches -> Seq({"worker_started", "ok", "error"})]
        /\ pipe'[d] = Append(pipe[d], frame)
        /\ \A e \in Dispatches : e # d => pipe'[e] = pipe[e]
    BY <1>4, <2>1, Types DEF IInv
  <2>3. \A i \in 1 .. Len(pipe'[d]) :
          \/ i \in 1 .. Len(pipe[d]) /\ pipe'[d][i] = pipe[d][i]
          \/ pipe'[d][i] = frame
    BY <1>1, <2>2
  <2>4. pipe[d] = <<>> => pipe'[d] = <<frame>>
    BY <2>2
  <2> QED
    BY <2>2, <2>3, <2>4
<1> QED
  BY <1>2, <1>3, <1>4

\* A supervisor ends.
LEMMA SupervisorGoes ==
  ASSUME IInv, NEW d \in Dispatches, SupervisorEnds(d)
  PROVE  /\ sup' \in [Dispatches -> SupervisorStates]
         /\ worker' \in [Dispatches -> {"none", "running", "over"}]
         /\ sup'[d] = "exited"
         /\ worker'[d] = worker[d] \/ (worker[d] = "running" /\ worker'[d] = "over")
         /\ platform = "win32" => worker'[d] # "running"
         /\ \A e \in Dispatches : e # d => sup'[e] = sup[e] /\ worker'[e] = worker[e]
BY Types DEF IInv, SupervisorEnds, SupervisorStates

\* The supervisor prepares the worker and starts it.
LEMMA PreparesKeep ==
  ASSUME IInv, NEW d \in Dispatches, Ready(d) \/ Announce(d) \/ Spawn(d) \/ LaunchFails(d)
  PROVE  IInv'
<1> USE DEF ledger, evidence
<1>0. /\ ProcessesTrue(d) /\ PipeTrue(d) /\ receipts[d] \in ReceiptRecord
      /\ "SUPERVISOR_READY" \in Phases
      /\ {"SUPERVISOR_READY", "RESERVED"} \cap NamesWorker = {}
      /\ {"SUPERVISOR_READY", "RESERVED"} \cap Over = {}
      /\ {"starting", "ready", "announced", "spawned"} \subseteq Live
  BY Types DEF IInv, DispatchTrue, Phases, NamesWorker, Over, Live
<1>1. CASE Ready(d)
  <2>1. /\ receipts[d].phase = "RESERVED" /\ receipts' \in [Dispatches -> ReceiptRecord]
        /\ receipts'[d].phase = "SUPERVISOR_READY"
        /\ receipts'[d].attempt = receipts[d].attempt
        /\ receipts'[d].creator = receipts[d].creator
        /\ \A e \in Dispatches : e # d => receipts'[e] = receipts[e]
    BY <1>0, <1>1, ReceiptAdvances DEF Ready
  <2>2. /\ sup[d] = "starting" /\ sup' \in [Dispatches -> SupervisorStates] /\ sup'[d] = "ready"
        /\ \A e \in Dispatches : e # d => sup'[e] = sup[e]
    BY <1>1, Types DEF Ready, SupervisorStates, IInv
  <2>3. UNCHANGED <<platform, ledger, tombstones, retries, stateLock, orch, worker, pipe>>
    BY <1>1 DEF Ready
  <2>4. Forward(d)
    BY <1>0, <2>1, <2>2, <2>3, Types DEF Forward, IInv
  <2>5. ProcessesTrue(d)' /\ PipeTrue(d)'
    BY <1>0, <2>1, <2>2, <2>3 DEF ProcessesTrue, PipeTrue
  <2> QED
    BY <2>4, <2>5, ForwardKeeps
<1>2. CASE Announce(d) \/ Spawn(d)
  <2>1. PICK next \in {"announced", "spawned"} :
          /\ sup[d] = (IF next = "spawned" THEN "announced" ELSE "ready")
          /\ sup' = [sup EXCEPT ![d] = next]
          /\ IF next = "spawned" THEN worker' = [worker EXCEPT ![d] = "running"]
                                 ELSE worker' = worker
          /\ UNCHANGED <<platform, ledger, evidence, stateLock, orch, pipe>>
    BY <1>2 DEF Announce, Spawn
  <2>2. /\ sup' \in [Dispatches -> SupervisorStates] /\ sup'[d] = next
        /\ worker' \in [Dispatches -> {"none", "running", "over"}]
        /\ worker'[d] = (IF next = "spawned" THEN "running" ELSE worker[d])
        /\ \A e \in Dispatches : e # d => sup'[e] = sup[e] /\ worker'[e] = worker[e]
    BY <2>1, Types DEF SupervisorStates, IInv
  <2>3. receipts[d].phase = "SUPERVISOR_READY"
    BY <1>0, <2>1 DEF ProcessesTrue
  <2>4. Forward(d)
    BY <1>0, <2>1, <2>2, <2>3, Types DEF Forward, IInv
  <2>5. ProcessesTrue(d)' /\ PipeTrue(d)'
    BY <1>0, <2>1, <2>2, <2>3 DEF ProcessesTrue, PipeTrue
  <2> QED
    BY <2>4, <2>5, ForwardKeeps
<1>3. CASE LaunchFails(d)
  <2>1. /\ sup[d] = "announced" /\ SupervisorEnds(d) /\ (Emit(d, "error") \/ UNCHANGED pipe)
        /\ UNCHANGED <<platform, ledger, evidence, stateLock, orch>>
    BY <1>3 DEF LaunchFails
  <2>2. /\ sup' \in [Dispatches -> SupervisorStates] /\ sup'[d] = "exited"
        /\ worker' \in [Dispatches -> {"none", "running", "over"}]
        /\ worker'[d] = worker[d] \/ (worker[d] = "running" /\ worker'[d] = "over")
        /\ platform = "win32" => worker'[d] # "running"
        /\ \A e \in Dispatches : e # d => sup'[e] = sup[e] /\ worker'[e] = worker[e]
    BY <2>1, SupervisorGoes
  <2>3. /\ pipe' \in [Dispatches -> Seq({"worker_started", "ok", "error"})]
        /\ \A e \in Dispatches : e # d => pipe'[e] = pipe[e]
        /\ pipe[d] = <<>> => pipe'[d] \in {<<>>, <<"error">>}
    <3>1. "error" \in {"worker_started", "ok", "error"}
      OBVIOUS
    <3> QED
      BY <2>1, <3>1, Emitted
  <2>4. receipts[d].phase = "SUPERVISOR_READY" /\ pipe[d] = <<>> /\ worker[d] = "none"
    BY <1>0, <2>1 DEF ProcessesTrue, PipeTrue
  <2>5. pipe'[d] = <<>> \/ (Len(pipe'[d]) = 1 /\ pipe'[d][1] = "error")
    BY <2>3, <2>4
  <2>6. Forward(d)
    BY <1>0, <2>1, <2>2, <2>3, <2>4, Types DEF Forward, IInv
  <2>7. ProcessesTrue(d)'
    BY <1>0, <2>1, <2>2, <2>4 DEF ProcessesTrue, Live
  <2>8. PipeTrue(d)'
    BY <2>1, <2>2, <2>5 DEF PipeTrue
  <2> QED
    BY <2>6, <2>7, <2>8, ForwardKeeps
<1> QED
  BY <1>1, <1>2, <1>3

\* WORKER_STARTED is written, with its frame or without it.
LEMMA RecordKeeps ==
  ASSUME IInv, NEW d \in Dispatches, Record(d) \/ RecordFails(d)
  PROVE  IInv'
<1> USE DEF ledger, evidence
<1>0. /\ ProcessesTrue(d) /\ PipeTrue(d) /\ receipts[d] \in ReceiptRecord
      /\ sup[d] = "spawned" /\ "WORKER_STARTED" \in Phases
      /\ "WORKER_STARTED" \in NamesWorker /\ "SUPERVISOR_READY" \notin NamesWorker
      /\ {"SUPERVISOR_READY", "WORKER_STARTED"} \cap Over = {}
      /\ {"spawned", "watching"} \subseteq Live /\ "exited" \notin Live
      /\ "worker_started" \in {"worker_started", "ok", "error"}
  BY Types DEF IInv, DispatchTrue, Phases, NamesWorker, Over, Live, Record, RecordFails
<1>1. /\ receipts[d].phase = "SUPERVISOR_READY" /\ pipe[d] = <<>> /\ worker[d] # "none"
      /\ task.dispatch = d /\ task.state \in OpenStates
  BY <1>0 DEF ProcessesTrue, PipeTrue
<1>2. /\ Emit(d, "worker_started") \/ UNCHANGED pipe
      /\ UNCHANGED <<platform, ledger, tombstones, retries, stateLock, orch>>
  BY DEF Record, RecordFails
<1>3. /\ pipe' \in [Dispatches -> Seq({"worker_started", "ok", "error"})]
      /\ \A e \in Dispatches : e # d => pipe'[e] = pipe[e]
      /\ pipe'[d] \in {<<>>, <<"worker_started">>}
  BY <1>0, <1>1, <1>2, Emitted
<1>4. pipe'[d] = <<>> \/ (Len(pipe'[d]) = 1 /\ pipe'[d][1] = "worker_started")
  BY <1>3
<1>5. CASE Advance(d, "SUPERVISOR_READY", "WORKER_STARTED")
  <2>1. /\ receipts' \in [Dispatches -> ReceiptRecord]
        /\ receipts'[d].phase = "WORKER_STARTED"
        /\ receipts'[d].attempt = receipts[d].attempt
        /\ receipts'[d].creator = receipts[d].creator
        /\ \A e \in Dispatches : e # d => receipts'[e] = receipts[e]
    BY <1>0, <1>5, ReceiptAdvances
  <2>2. /\ sup' \in [Dispatches -> SupervisorStates] /\ sup'[d] \in {"watching", "exited"}
        /\ worker' \in [Dispatches -> {"none", "running", "over"}] /\ worker'[d] # "none"
        /\ sup'[d] = "exited" /\ platform = "win32" => worker'[d] # "running"
        /\ \A e \in Dispatches : e # d => sup'[e] = sup[e] /\ worker'[e] = worker[e]
    <3>1. CASE Record(d)
      BY <3>1, <1>1, Types DEF Record, SupervisorStates, IInv
    <3>2. CASE RecordFails(d)
      BY <3>2, <1>1, SupervisorGoes DEF RecordFails
    <3> QED
      BY <3>1, <3>2
  <2>3. Forward(d)
    BY <1>0, <1>1, <1>2, <1>3, <2>1, <2>2 DEF Forward
  <2>4. ProcessesTrue(d)'
    BY <1>0, <1>1, <1>2, <2>1, <2>2 DEF ProcessesTrue
  <2>5. PipeTrue(d)'
    BY <1>0, <1>4, <2>1, <2>2 DEF PipeTrue
  <2> QED
    BY <2>3, <2>4, <2>5, ForwardKeeps
<1>6. CASE RecordFails(d) /\ UNCHANGED receipts
  <2>1. Winding
    BY <1>0, <1>6, SamePipe, EndWinds DEF RecordFails
  <2> QED
    BY <1>6, <2>1, ProcessWinds DEF RecordFails, Written
<1> QED
  BY <1>5, <1>6 DEF Record, RecordFails

\* The supervisor sees the end of its worker.
LEMMA WatchKeeps ==
  ASSUME IInv, NEW d \in Dispatches, Watch(d) \/ Timeout(d)
  PROVE  IInv'
<1> USE DEF ledger, evidence
<1>0. /\ ProcessesTrue(d) /\ PipeTrue(d) /\ receipts[d] \in ReceiptRecord
      /\ sup[d] = "watching"
      /\ "WORKER_STARTED" \in NamesWorker
      /\ "WORKER_STARTED" \notin Over
      /\ {"watching", "succeeded", "failed"} \subseteq Live
  BY Types DEF IInv, DispatchTrue, NamesWorker, Over, Live, Watch, Timeout
<1>1. PICK next \in {"succeeded", "failed"} :
        /\ sup' = [sup EXCEPT ![d] = next]
        /\ \/ worker[d] = "over" /\ worker' = worker
           \/ worker' = [worker EXCEPT ![d] = "over"]
        /\ UNCHANGED <<platform, ledger, evidence, stateLock, orch, pipe>>
  BY DEF Watch, Timeout
<1>2. /\ sup' \in [Dispatches -> SupervisorStates] /\ sup'[d] = next
      /\ worker' \in [Dispatches -> {"none", "running", "over"}] /\ worker'[d] = "over"
      /\ \A e \in Dispatches : e # d => sup'[e] = sup[e] /\ worker'[e] = worker[e]
  BY <1>1, Types DEF SupervisorStates, IInv
<1>3. receipts[d].phase = "WORKER_STARTED" /\ task.dispatch = d /\ task.state \in OpenStates
  BY <1>0 DEF ProcessesTrue
<1>4. Forward(d)
  BY <1>0, <1>1, <1>2, <1>3, Types DEF Forward, IInv
<1>5. ProcessesTrue(d)'
  BY <1>0, <1>1, <1>2, <1>3 DEF ProcessesTrue
<1>6. PipeTrue(d)'
  BY <1>0, <1>1, <1>2, <1>3 DEF PipeTrue
<1> QED
  BY <1>4, <1>5, <1>6, ForwardKeeps

\* FINALIZING is written, with the result frame or without it.
LEMMA FinishKeeps ==
  ASSUME IInv, NEW d \in Dispatches, Finish(d) \/ FinishFails(d) \/ EndTerminated(d)
  PROVE  IInv'
<1> USE DEF ledger, evidence
<1>0. /\ ProcessesTrue(d) /\ PipeTrue(d) /\ receipts[d] \in ReceiptRecord
      /\ sup[d] \in {"succeeded", "failed", "terminated"} /\ "FINALIZING" \in Phases
      /\ {"WORKER_STARTED", "FINALIZING"} \subseteq NamesWorker
      /\ "FINALIZING" \in Over /\ "exited" \notin Live
      /\ {"ok", "error"} \subseteq {"worker_started", "ok", "error"}
  BY Types DEF IInv, DispatchTrue, Phases, NamesWorker, Over, Live, Finish, FinishFails,
     EndTerminated
<1>1. PICK frame \in {"ok", "error"} :
        /\ Emit(d, frame) \/ UNCHANGED pipe
        /\ UNCHANGED <<platform, ledger, tombstones, retries, stateLock, orch>>
        /\ SupervisorEnds(d)
  BY DEF Finish, FinishFails, EndTerminated
<1>2. /\ pipe' \in [Dispatches -> Seq({"worker_started", "ok", "error"})]
      /\ \A e \in Dispatches : e # d => pipe'[e] = pipe[e]
      /\ \A i \in 1 .. Len(pipe'[d]) :
           \/ i \in 1 .. Len(pipe[d]) /\ pipe'[d][i] = pipe[d][i]
           \/ pipe'[d][i] = frame
  BY <1>0, <1>1, Emitted
<1>3. CASE Advance(d, "WORKER_STARTED", "FINALIZING")
  <2>1. /\ receipts[d].phase = "WORKER_STARTED"
        /\ receipts' \in [Dispatches -> ReceiptRecord]
        /\ receipts'[d].phase = "FINALIZING"
        /\ receipts'[d].attempt = receipts[d].attempt
        /\ receipts'[d].creator = receipts[d].creator
        /\ \A e \in Dispatches : e # d => receipts'[e] = receipts[e]
    BY <1>0, <1>3, ReceiptAdvances
  <2>2. /\ sup' \in [Dispatches -> SupervisorStates] /\ sup'[d] = "exited"
        /\ worker' \in [Dispatches -> {"none", "running", "over"}]
        /\ worker'[d] = worker[d] \/ (worker[d] = "running" /\ worker'[d] = "over")
        /\ platform = "win32" => worker'[d] # "running"
        /\ \A e \in Dispatches : e # d => sup'[e] = sup[e] /\ worker'[e] = worker[e]
    BY <1>1, SupervisorGoes
  <2>3. worker'[d] = "over"
    <3>1. CASE sup[d] = "terminated"
      <4>1. EndTerminated(d)
        BY <3>1 DEF Finish, FinishFails
      <4>2. worker[d] = "over"
        BY <2>1, <4>1 DEF EndTerminated
      <4> QED
        BY <2>2, <4>2
    <3>2. CASE sup[d] \in {"succeeded", "failed"}
      BY <1>0, <2>2, <3>2 DEF ProcessesTrue
    <3> QED
      BY <1>0, <3>1, <3>2
  <2>4. Forward(d)
    BY <1>0, <1>1, <1>2, <2>1, <2>2 DEF Forward
  <2>5. ProcessesTrue(d)'
    BY <1>0, <1>1, <2>1, <2>2, <2>3 DEF ProcessesTrue
  <2>6. PipeTrue(d)'
    <3>1. \A i \in 1 .. Len(pipe'[d]) : i > 1 => pipe'[d][i] # "worker_started"
      BY <1>0, <1>2 DEF PipeTrue
    <3> QED
      BY <1>0, <2>1, <2>2, <3>1 DEF PipeTrue
  <2> QED
    BY <2>4, <2>5, <2>6, ForwardKeeps
<1>4. CASE (FinishFails(d) \/ EndTerminated(d)) /\ UNCHANGED receipts
  <2>1. Winding
    BY <1>0, <1>4, SamePipe, EndWinds DEF FinishFails, EndTerminated
  <2> QED
    BY <1>4, <2>1, ProcessWinds DEF FinishFails, EndTerminated, Written
<1> QED
  BY <1>3, <1>4 DEF Finish, FinishFails, EndTerminated

-----------------------------------------------------------------------------
(* The theorems. *)

\* Nothing is reserved, and nobody is doing anything.
LEMMA InitTrue ==
  ASSUME Init
  PROVE  IInv
<1>0. 0 \in 0 .. MaxAttempt
  BY ConstantsAssumption
<1>1. TypeOK
  <2>1. orch \in [Orchestrators -> CallRecord]
    BY CallBegins DEF Init
  <2>2. receipts \in [Dispatches -> ReceiptRecord]
    BY <1>0 DEF Init, ReceiptRecord, Phases
  <2>3. retries \in [Dispatches -> RetryRecord]
    BY DEF Init, RetryRecord, RetryPhases
  <2>4. task \in [state : TaskStates, attempt : 0 .. MaxAttempt,
                  dispatch : Dispatches \cup {NoDispatch}]
    BY <1>0 DEF Init, TaskStates
  <2>5. pipe \in [Dispatches -> Seq({"worker_started", "ok", "error"})]
    BY DEF Init
  <2> QED
    BY <2>1, <2>2, <2>3, <2>4, <2>5
    DEF Init, TypeOK, CallRecord, ReceiptRecord, RetryRecord, TaskStates
<1>2. TaskTrue
  BY DEF Init, TaskTrue, OpenStates
<1>3. ASSUME NEW d \in Dispatches PROVE DispatchTrue(d)
  <2>1. /\ receipts[d].phase = "ABSENT" /\ events[d] = {} /\ d \notin recovered
        /\ d \notin tombstones /\ retries[d].phase = "ABSENT" /\ sup[d] = "none"
        /\ worker[d] = "none" /\ pipe[d] = <<>>
    BY DEF Init
  <2>2. ProcessesTrue(d)
    BY <2>1 DEF ProcessesTrue, NamesWorker, Over, Live
  <2>3. PipeTrue(d) /\ EvidenceTrue(d)
    BY <2>1 DEF PipeTrue, EvidenceTrue
  <2>4. RetryTrue(d)
    BY <2>1 DEF RetryTrue, Retired
  <2> QED
    BY <2>2, <2>3, <2>4 DEF DispatchTrue
<1>4. ASSUME NEW p \in Orchestrators PROVE CallTrue(p)
  <2>1. orch[p].pc = "idle" /\ orch[p].lifecycle = NoDispatch
    BY DEF Init, Idle
  <2>2. /\ "idle" \notin Cycling /\ "idle" \notin Executing /\ "idle" \notin Stopped
        /\ "idle" \notin NotRetired /\ "idle" \notin Starting
    BY DEF Cycling, Executing, Stopped, NotRetired, Starting
  <2>3. Owns(p)
    BY <2>1, <2>2 DEF Owns
  <2>4. Knows(p) /\ Recovers(p)
    BY <2>1, <2>2 DEF Knows, Recovers
  <2>5. Retries(p)
    BY <2>1, <2>2 DEF Retries
  <2> QED
    BY <2>3, <2>4, <2>5 DEF CallTrue
<1> QED
  BY <1>1, <1>2, <1>3, <1>4 DEF IInv

\* Every step keeps the invariant.
LEMMA StepKeeps ==
  ASSUME IInv, [Next]_vars
  PROVE  IInv'
<1>1. ASSUME NEW p \in Orchestrators, Demand(p) PROVE IInv'
  BY <1>1, AskKeeps, StartFailsKeep, WinnerKeeps, DieKeeps DEF Demand
<1>2. ASSUME NEW p \in Orchestrators, OrchestratorStep(p) PROVE IInv'
  <2>1. CASE \/ Reserve(p) \/ ApplyDispatch(p) \/ StartSupervisor(p) \/ Acknowledge(p)
             \/ WorkerTaskFails(p) \/ BecomeActive(p) \/ StartFails(p) \/ CleanUp(p)
    BY <2>1, ReserveKeeps, ApplyDispatchKeeps, StartSupervisorKeeps, AcknowledgeKeeps,
       StartFailsKeep, BecomeActiveKeeps, ReturnsKeep
  <2>2. CASE \/ ReadResult(p) \/ Complete(p) \/ Stop(p) \/ Deliver(p) \/ DeliveryFails(p)
             \/ Release(p) \/ Close(p) \/ CloseNot(p)
    BY <2>2, ReadResultKeeps, WinnerKeeps, StopKeeps, DeliverKeeps, FinalizerKeeps, CloseKeeps
  <2>3. CASE \/ RetryFinalizing(p) \/ WriteTombstone(p) \/ FinishReceipt(p)
             \/ NoTombstone(p) \/ RetryFinalized(p) \/ Publish(p) \/ FailAndRetry(p)
    BY <2>3, RetryEnds, WriteTombstoneKeeps, FinishReceiptKeeps, FinalizerKeeps, ReturnsKeep,
       FailAndRetryKeeps
  <2>4. CASE \/ LockAndRead(p) \/ ProbeAndFail(p) \/ Refuse(p) \/ Replay(p)
             \/ \E d \in Dispatches : ReserveRetry(p, d)
             \/ Abandon(p)
    BY <2>4, LockAndReadKeeps, ProbeAndFailKeeps, ReturnsKeep, ReplayKeeps, ReserveRetryKeeps
  <2> QED
    BY <1>2, <2>1, <2>2, <2>3, <2>4 DEF OrchestratorStep
<1>3. ASSUME NEW d \in Dispatches, SupervisorStep(d) \/ WorkerEnds(d) \/ SupervisorDies(d)
      PROVE  IInv'
  BY <1>3, PreparesKeep, WorkerEndsKeeps, RecordKeeps, WatchKeeps, FinishKeeps
  DEF SupervisorStep
<1>4. CASE UNCHANGED vars
  <2>1. Winding
    BY <1>4, SamePipe, StillWinds DEF vars, processes
  <2> QED
    BY <1>4, <2>1, ProcessWinds DEF vars, Written
<1> QED
  BY <1>1, <1>2, <1>3, <1>4 DEF Next

\* The inductive invariant holds in every reachable state.
THEOREM Invariance == Spec => []IInv
<1>1. Init => IInv
  BY InitTrue
<1>2. IInv /\ [Next]_vars => IInv'
  BY StepKeeps
<1> QED
  BY <1>1, <1>2, PTL DEF Spec

\* The ledger, the evidence, the processes and what the Orchestrators have in
\* memory have their types.
THEOREM TypeCorrect == Spec => []TypeOK
<1>1. IInv => TypeOK
  BY DEF IInv
<1> QED
  BY <1>1, Invariance, PTL

\* No event of a dispatch is committed without the receipt that must come
\* first, though two processes write them: apply_transition in the
\* Orchestrator, _enforce_transition in the supervisor.
THEOREM EvidenceFirst == Spec => []EvidenceBacksLedger
<1>1. IInv => EvidenceBacksLedger
  <2> SUFFICES ASSUME IInv, NEW d \in Dispatches
               PROVE  /\ "TASK_DISPATCHED" \in events[d] => receipts[d].phase # "ABSENT"
                      /\ task.dispatch = d => receipts[d].attempt = task.attempt
                      /\ worker[d] # "none" => receipts[d].phase \notin {"ABSENT", "RESERVED"}
                      /\ "DISPATCH_ACKNOWLEDGED" \in events[d] =>
                           receipts[d].phase \in NamesWorker
                      /\ "DELIVERY_SUBMITTED" \in events[d] =>
                           receipts[d].phase \in {"FINALIZING", "FINALIZED"}
    BY DEF EvidenceBacksLedger
  <2>1. ProcessesTrue(d) /\ EvidenceTrue(d) /\ TaskTrue
    BY DEF IInv, DispatchTrue
  <2>2. task.dispatch = d => receipts[d].attempt = task.attempt
    BY <2>1, ConstantsAssumption DEF TaskTrue
  <2> QED
    BY <2>1, <2>2 DEF ProcessesTrue, EvidenceTrue, Over
<1> QED
  BY <1>1, Invariance, PTL

\* A tombstone proves the end of the worker and of the supervisor, and a
\* FINALIZED receipt has one: write_finalizer_tombstone writes the tombstone
\* first, and only over a receipt that says FINALIZING.
THEOREM TombstoneProves == Spec => []TombstoneIsFinal
<1>1. IInv => TombstoneIsFinal
  <2> SUFFICES ASSUME IInv, NEW d \in Dispatches
               PROVE  /\ d \in tombstones =>
                           /\ receipts[d].phase \in {"FINALIZING", "FINALIZED"}
                           /\ worker[d] # "running"
                           /\ sup[d] = "exited"
                      /\ receipts[d].phase = "FINALIZED" => d \in tombstones
    BY DEF TombstoneIsFinal
  <2>1. ProcessesTrue(d) /\ EvidenceTrue(d)
    BY DEF IInv, DispatchTrue
  <2> QED
    BY <2>1 DEF ProcessesTrue, EvidenceTrue, Over
<1> QED
  BY <1>1, Invariance, PTL

\* A recovery declares a dispatch failed only if its creator and its supervisor
\* are dead, and its worker once it was acknowledged:
\* apply_owner_loss_recovery_transition reads and probes under one lock.
THEOREM RecoveryIsSafe == Spec => []RecoveredWasDead
<1>1. IInv => RecoveredWasDead
  BY DEF IInv, DispatchTrue, EvidenceTrue, TypeOK, RecoveredWasDead, CreatorLives
<1> QED
  BY <1>1, Invariance, PTL

\* On Windows a worker of an earlier dispatch never runs beside the current
\* one, but for the moment that a terminated supervisor takes to end
\* (_DispatchJobOwner): a worker that runs has a supervisor that lives, and a
\* supervisor that lives and was not told to end has the current dispatch.
THEOREM OneRunningWorker == Spec => []OnlyCurrentWorkerRuns
<1>1. IInv => OnlyCurrentWorkerRuns
  <2> SUFFICES ASSUME IInv, NEW d \in Dispatches, platform = "win32", worker[d] = "running"
               PROVE  \/ task.dispatch = d /\ task.state \in {"dispatched", "in_progress"}
                      \/ sup[d] = "terminated"
    BY DEF OnlyCurrentWorkerRuns
  <2>1. ProcessesTrue(d) /\ sup[d] \in SupervisorStates
    BY Types DEF IInv, DispatchTrue
  <2>2. sup[d] \notin {"none", "exited"}
    BY <2>1 DEF ProcessesTrue
  <2>3. sup[d] \in Live \/ sup[d] = "terminated"
    BY <2>1, <2>2 DEF SupervisorStates, Live
  <2> QED
    BY <2>1, <2>3 DEF ProcessesTrue, OpenStates
<1> QED
  BY <1>1, Invariance, PTL

\* The receipt of an owner-loss retry says what happened: the dispatch that it
\* follows was recovered one attempt before, RETRY_STARTED was acknowledged,
\* and RETRY_FINALIZING was neither cancelled nor superseded
\* (advance_retry_to_finalizing).
THEOREM RetryIsTruthful == Spec => []RetryTruthful
<1>1. IInv => RetryTruthful
  <2> SUFFICES ASSUME IInv, NEW d \in Dispatches
               PROVE  /\ retries[d].phase # "ABSENT" => retries[d].failed \in recovered
                      /\ retries[d].phase \notin {"ABSENT", "RETRY_RESERVED"} =>
                           /\ "DISPATCH_ACKNOWLEDGED" \in events[d]
                           /\ receipts[d].attempt = receipts[retries[d].failed].attempt + 1
                      /\ retries[d].phase \in {"RETRY_FINALIZING", "RETRY_FINALIZED"} =>
                           {"TASK_CANCELLED", "TASK_SUPERSEDED"} \cap events[d] = {}
    BY DEF RetryTruthful
  <2>1. RetryTrue(d)
    BY DEF IInv, DispatchTrue
  <2> QED
    BY <2>1 DEF RetryTrue, Retired, Closed
<1> QED
  BY <1>1, Invariance, PTL
=============================================================================
