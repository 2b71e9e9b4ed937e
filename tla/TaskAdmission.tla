----------------------------- MODULE TaskAdmission -----------------------------
(***************************************************************************)
(* The admission of the cards of an approved plan, the caller of the       *)
(* scheduler.  A thread of the Dockyard runtime takes one card at a time   *)
(* through the composition (dockyard_task_admission_composition.py): its   *)
(* dependencies, the preparation (pm_task_admission_preparation.py), the   *)
(* handoff (pm_materialization_admission_handoff.py), whose last part is a *)
(* tick of module PortfolioScheduler, and the start of its worker.         *)
(*                                                                         *)
(* Each of the three keeps a receipt of its own, which says how far the    *)
(* card has come, in a store of its own, and writes it after the step it   *)
(* speaks of.  A thread may stop after any step, by an error, a refusal or *)
(* the end of its process; the card is taken up again from the receipts.   *)
(* A lock of the process keeps two threads from the same card.             *)
(***************************************************************************)
EXTENDS PortfolioScheduler

CONSTANTS
  MaxSeq,   \* bound: enqueue sequences
  MaxMoves  \* bound: commits on HEAD when others than the Dockyard still commit

ASSUME AdmissionBoundsAreNat == {MaxSeq, MaxMoves} \subseteq Nat

\* The receipts of the composition and of the handoff, from the first phase on.
Progress == <<"MATERIALIZED", "DEPENDENCIES_READY", "PREPARED", "HANDOFF_STARTED",
              "ADMITTED", "FINALIZED">>
Handoff == <<"MATERIALIZED", "GIT_EVIDENCE_COMMITTED", "CANONICAL_TASK_REGISTERED",
             "QUEUE_RESERVED", "ADMISSION_READY", "ADMISSION_SUBMITTED", "FINALIZED">>

\* A receipt has reached a phase.
Reached(phases, reached, phase) == \E i \in 1..reached : phases[i] = phase

VARIABLES
  needs,       \* the dependencies of the plan: <<card, card that it waits for>>
  integrated,  \* the cards whose change is integrated
  progress,    \* the composition's receipt: the number of its phase, 0 for none
  prepared,    \* the HEAD that the preparation of a card is bound to
  inputs,      \* the cards whose handoff inputs are stored
  handoff,     \* the handoff's receipt: the number of its phase, 0 for none
  sequence,    \* enqueue sequences given out
  queued,      \* the sequence of the queue entry
  claimed,     \* the sequence that the handoff's receipt names
  index,       \* the cards whose evidence is staged in the project's index
  tracked,     \* the cards whose evidence is in HEAD
  registered,  \* task_card_commit of the task
  grant,       \* snapshot_commit of the dispatch approval
  working,     \* the cards that a post-admission thread is at work for
  worker,      \* the worker's handoff record: none, reserved or finalized
  job          \* the threads

records == <<progress, prepared, inputs, handoff, claimed>>
effects == <<sequence, queued, index, tracked, registered, grant>>
after == <<integrated, working, worker>>
admissionVars == <<vars, needs, records, effects, after, job>>

\* A thread: the card it is at, the step before it, and the commit or the
\* sequence that it has in hand.
JobStep == {"none", "dependencies", "prepare", "inputs", "prepared", "start",
            "handoff", "bind", "add", "commit", "bound", "authorize", "register",
            "registered", "reserve", "enqueue", "queued", "plan", "ready", "submit",
            "tick", "submitted", "final", "admit", "post", "finish"}
Job == [card : Cards \cup {None}, at : JobStep, value : 0..MaxHead \cup 0..MaxSeq]
NoJob == [card |-> None, at |-> "none", value |-> 0]

AdmissionInit ==
  /\ Init
  /\ needs \in SUBSET {s \in Cards \X Cards : s[1] # s[2]}
  /\ \A c \in Cards, d \in Cards : ~(<<c, d>> \in needs /\ <<d, c>> \in needs)
  /\ integrated = {} /\ working = {}
  /\ progress = [c \in Cards |-> 0]
  /\ prepared = [c \in Cards |-> None]
  /\ inputs = {}
  /\ handoff = [c \in Cards |-> 0]
  /\ sequence = 0
  /\ queued = [c \in Cards |-> 0]
  /\ claimed = [c \in Cards |-> 0]
  /\ index = {} /\ tracked = {}
  /\ registered = [c \in Cards |-> None]
  /\ grant = [c \in Cards |-> None]
  /\ worker = [c \in Cards |-> "none"]
  /\ job = [p \in Processes |-> NoJob]

\* p, which is at step, does it for its card and goes on to next.
AtStep(p, step) == job[p].at = step
GoOn(p, next) == job' = [job EXCEPT ![p].at = next, ![p].value = 0]
GoOnWith(p, next, value) == job' = [job EXCEPT ![p].at = next, ![p].value = value]
EndJob(p) == job' = [job EXCEPT ![p] = NoJob]
Card(p) == job[p].card

\* save_progress: the same receipt or the phase after it.
Advance(c, phase) ==
  /\ Progress[progress[c] + 1] = phase
  /\ progress' = [progress EXCEPT ![c] = @ + 1]

-----------------------------------------------------------------------------
\* DockyardTaskAdmissionCompositionRuntime

\* Mutated form of DependenciesReady: delivered is enough.
DependenciesDelivered(c) == \A d \in Cards : <<c, d>> \in needs => worker[d] = "finalized"

\* _dependencies
DependenciesReady(c) == \A d \in Cards : <<c, d>> \in needs => d \in integrated

\* Mutated form of ResumedHandoff: the phase of the receipt is not looked at.
ResumedAsFinalized(c) == IF handoff[c] # 0 THEN "admit" ELSE "none"

\* Where the handoff goes on from its receipt.  _recover_handoff does not begin
\* one that has no receipt.
ResumedHandoff(c) ==
  IF Reached(Handoff, handoff[c], "FINALIZED") THEN "admit"
  ELSE IF handoff[c] # 0 /\ c \in inputs THEN "handoff" ELSE "none"

\* _execute, from the receipt it finds to the first thing it does.
NextStep(c) ==
  LET phase == IF progress[c] = 0 THEN "MATERIALIZED" ELSE Progress[progress[c]] IN
  IF phase = "HANDOFF_STARTED" THEN ResumedHandoff(c)
  ELSE IF phase = "FINALIZED" \/ ~DependenciesReady(c) THEN "none"
  ELSE IF phase = "MATERIALIZED" THEN "dependencies" ELSE "prepare"

Execute(p, c) ==
  /\ job[p] = NoJob
  /\ proc[p].pc = "idle"
  /\ \A q \in Processes : Card(q) # c
  /\ progress[c] = 0 \/ NextStep(c) # "none"
  /\ progress' = IF progress[c] = 0 THEN [progress EXCEPT ![c] = 1] ELSE progress
  /\ job' = IF NextStep(c) = "none" THEN job
            ELSE [job EXCEPT ![p] = [NoJob EXCEPT !.card = c, !.at = NextStep(c)]]
  /\ UNCHANGED <<vars, needs, prepared, inputs, handoff, claimed, effects, after>>

SaveDependenciesReady(p) ==
  /\ AtStep(p, "dependencies")
  /\ Advance(Card(p), "DEPENDENCIES_READY")
  /\ GoOn(p, "prepare")
  /\ UNCHANGED <<vars, needs, prepared, inputs, handoff, claimed, effects, after>>

\* prepare: the request is bound to the commit at HEAD and so is the receipt,
\* which refuses any other from then on.  Its phases up to the handoff inputs
\* are made again as they are.
Prepare(p) ==
  /\ AtStep(p, "prepare")
  /\ prepared[Card(p)] \in {None, head}
  /\ prepared' = [prepared EXCEPT ![Card(p)] = head]
  /\ GoOn(p, "inputs")
  /\ UNCHANGED <<vars, needs, progress, inputs, handoff, claimed, effects, after>>

BindInputs(p) ==
  /\ AtStep(p, "inputs")
  /\ inputs' = inputs \cup {Card(p)}
  /\ GoOn(p, "prepared")
  /\ UNCHANGED <<vars, needs, progress, prepared, handoff, claimed, effects, after>>

SavePrepared(p) ==
  /\ AtStep(p, "prepared")
  /\ IF Progress[progress[Card(p)]] = "DEPENDENCIES_READY"
     THEN Advance(Card(p), "PREPARED") ELSE UNCHANGED progress
  /\ GoOn(p, "start")
  /\ UNCHANGED <<vars, needs, prepared, inputs, handoff, claimed, effects, after>>

SaveHandoffStarted(p) ==
  /\ AtStep(p, "start")
  /\ Advance(Card(p), "HANDOFF_STARTED")
  /\ GoOn(p, "handoff")
  /\ UNCHANGED <<vars, needs, prepared, inputs, handoff, claimed, effects, after>>

SaveAdmitted(p) ==
  /\ AtStep(p, "admit")
  /\ Advance(Card(p), "ADMITTED")
  /\ GoOn(p, "post")
  /\ UNCHANGED <<vars, needs, prepared, inputs, handoff, claimed, effects, after>>

\* _start_post_admission: a thread of its own.
StartPostAdmission(p) ==
  /\ AtStep(p, "post")
  /\ working' = working \cup {Card(p)}
  /\ GoOn(p, "finish")
  /\ UNCHANGED <<vars, needs, records, effects, integrated, worker>>

SaveFinalized(p) ==
  /\ AtStep(p, "finish")
  /\ Advance(Card(p), "FINALIZED")
  /\ EndJob(p)
  /\ UNCHANGED <<vars, needs, prepared, inputs, handoff, claimed, effects, after>>

-----------------------------------------------------------------------------
\* MaterializationAdmissionRuntime.execute

HandoffIs(c, phase) == Reached(Handoff, handoff[c], phase)

\* _advance and save_receipt, of the phase after the one that is stored.
Save(p, phase) ==
  /\ Handoff[handoff[Card(p)] + 1] = phase
  /\ handoff' = [handoff EXCEPT ![Card(p)] = @ + 1]

\* The receipt, made when there is none.
BeginHandoff(p) ==
  /\ AtStep(p, "handoff")
  /\ IF handoff[Card(p)] = 0 THEN Save(p, "MATERIALIZED") ELSE UNCHANGED handoff
  /\ GoOn(p, IF HandoffIs(Card(p), "GIT_EVIDENCE_COMMITTED") THEN "authorize" ELSE "bind")
  /\ UNCHANGED <<vars, needs, progress, prepared, inputs, claimed, effects, after>>

\* _GitOwner.bind: evidence that HEAD has is bound to HEAD as it is; else it is
\* staged, when nothing else is.
Bind(p) ==
  /\ AtStep(p, "bind")
  /\ \/ Card(p) \in tracked /\ GoOnWith(p, "bound", head)
     \/ Card(p) \notin tracked /\ index \subseteq {Card(p)} /\ GoOn(p, "add")
  /\ UNCHANGED <<vars, needs, records, effects, after>>

\* git add, and a look at the index: what else has come into it is refused.
Add(p) ==
  /\ AtStep(p, "add")
  /\ index' = index \cup {Card(p)}
  /\ IF index' = {Card(p)} THEN GoOn(p, "commit") ELSE EndJob(p)
  /\ UNCHANGED <<vars, needs, records, sequence, queued, tracked, registered, grant,
                 after>>

\* git commit, of the index as it is now; then HEAD is read again.
Commit(p) ==
  /\ AtStep(p, "commit")
  /\ index # {}
  /\ head < MaxHead
  /\ head' = head + 1
  /\ tracked' = tracked \cup index
  /\ index' = {}
  /\ GoOn(p, "bind")
  /\ UNCHANGED <<commit, ledger, lease, files, lock, todo, proc, faults, needs,
                 records, sequence, queued, registered, grant, after>>

SaveGitEvidence(p) ==
  /\ AtStep(p, "bound")
  /\ Save(p, "GIT_EVIDENCE_COMMITTED")
  /\ commit' = [commit EXCEPT ![Card(p)] = job[p].value]
  /\ GoOn(p, "authorize")
  /\ UNCHANGED <<head, ledger, lease, files, lock, todo, proc, faults, needs, progress,
                 prepared, inputs, claimed, effects, after>>

\* Mutated form of Unauthorized: the card is queued first.
UnauthorizedQueuedFirst(c) ==
  IF HandoffIs(c, "FINALIZED") THEN "admit"
  ELSE IF HandoffIs(c, "QUEUE_RESERVED") THEN "plan" ELSE "reserve"

\* Where the handoff goes on when the approval and the worktree are there.
Unauthorized(c) ==
  IF HandoffIs(c, "FINALIZED") THEN "admit"
  ELSE IF HandoffIs(c, "QUEUE_RESERVED") THEN "plan"
  ELSE IF HandoffIs(c, "CANONICAL_TASK_REGISTERED") THEN "reserve" ELSE "register"

\* _ensure_dispatch_approval and _ensure_worktree
Authorize(p) ==
  /\ AtStep(p, "authorize")
  /\ grant[Card(p)] \in {None, commit[Card(p)]}
  /\ grant' = [grant EXCEPT ![Card(p)] = commit[Card(p)]]
  /\ GoOn(p, Unauthorized(Card(p)))
  /\ UNCHANGED <<vars, needs, records, sequence, queued, index, tracked, registered,
                 after>>

\* Mutated form of Register: the task is registered at HEAD as it is now.
RegisterAtHead(p) ==
  /\ AtStep(p, "register")
  /\ LET c == Card(p) IN
     /\ \/ task[c] = "none"
        \/ task[c] = "ready" /\ registered[c] = head
     /\ task' = [task EXCEPT ![c] = "ready"]
     /\ registered' = [registered EXCEPT ![c] = head]
  /\ GoOn(p, "registered")
  /\ UNCHANGED <<git, dispatch, events, lease, files, lock, todo, proc, faults, needs,
                 records, sequence, queued, index, tracked, grant, after>>

\* _CanonicalRegistry.register: a task that is there must be the one to register,
\* and still be as it was then.
Register(p) ==
  /\ AtStep(p, "register")
  /\ LET c == Card(p) IN
     /\ \/ task[c] = "none"
        \/ task[c] = "ready" /\ registered[c] = commit[c]
     /\ task' = [task EXCEPT ![c] = "ready"]
     /\ registered' = [registered EXCEPT ![c] = commit[c]]
  /\ GoOn(p, "registered")
  /\ UNCHANGED <<git, dispatch, events, lease, files, lock, todo, proc, faults, needs,
                 records, sequence, queued, index, tracked, grant, after>>

SaveRegistered(p) ==
  /\ AtStep(p, "registered")
  /\ Save(p, "CANONICAL_TASK_REGISTERED")
  /\ GoOn(p, "reserve")
  /\ UNCHANGED <<vars, needs, progress, prepared, inputs, claimed, effects, after>>

\* reserve_enqueue_sequence: a sequence is given out once.
ReserveSequence(p) ==
  /\ AtStep(p, "reserve")
  /\ lock = None
  /\ sequence < MaxSeq
  /\ sequence' = sequence + 1
  /\ GoOnWith(p, "enqueue", sequence + 1)
  /\ UNCHANGED <<vars, needs, records, queued, index, tracked, registered, grant, after>>

\* create_queue_entry: an entry that is there must be the same.
Enqueue(p) ==
  /\ AtStep(p, "enqueue")
  /\ lock = None
  /\ queued[Card(p)] \in {0, job[p].value}
  /\ Put(F("queue", Card(p), 1, "QUEUED"))
  /\ queued' = [queued EXCEPT ![Card(p)] = job[p].value]
  /\ GoOnWith(p, "queued", job[p].value)
  /\ UNCHANGED <<git, ledger, lease, lock, todo, proc, faults, needs, records, sequence,
                 index, tracked, registered, grant, after>>

SaveQueued(p) ==
  /\ AtStep(p, "queued")
  /\ Save(p, "QUEUE_RESERVED")
  /\ claimed' = [claimed EXCEPT ![Card(p)] = job[p].value]
  /\ GoOn(p, "plan")
  /\ UNCHANGED <<vars, needs, progress, prepared, inputs, effects, after>>

\* save_plan, whose bytes the receipt decides, and the receipt of it.
SavePlan(p) ==
  /\ AtStep(p, "plan")
  /\ IF HandoffIs(Card(p), "ADMISSION_READY") THEN UNCHANGED handoff
     ELSE Save(p, "ADMISSION_READY")
  /\ GoOn(p, "submit")
  /\ UNCHANGED <<vars, needs, progress, prepared, inputs, claimed, effects, after>>

\* submit: a tick.
SubmitPlan(p) ==
  /\ AtStep(p, "submit")
  /\ Submit(p, Card(p))
  /\ GoOn(p, "tick")
  /\ UNCHANGED <<needs, records, effects, after>>

TickOn(p) ==
  /\ AtStep(p, "tick")
  /\ \/ ReadQueue(p) \/ Decide(p) \/ Reserve(p)
     \/ LoadEntry(p) \/ LoadReceipt(p) \/ LoadCanonical(p)
     \/ AcquireSlot(p) \/ Transit(p) \/ AlignReceipt(p) \/ AlignQueue(p) \/ WriteOn(p)
  /\ UNCHANGED <<needs, records, effects, after, job>>

TickAdmits(p) ==
  /\ AtStep(p, "tick")
  /\ Admitted(p)
  /\ GoOn(p, "submitted")
  /\ UNCHANGED <<needs, records, effects, after>>

SaveSubmitted(p) ==
  /\ AtStep(p, "submitted")
  /\ IF HandoffIs(Card(p), "ADMISSION_SUBMITTED") THEN UNCHANGED handoff
     ELSE Save(p, "ADMISSION_SUBMITTED")
  /\ GoOn(p, "final")
  /\ UNCHANGED <<vars, needs, progress, prepared, inputs, claimed, effects, after>>

SaveHandoffFinalized(p) ==
  /\ AtStep(p, "final")
  /\ Save(p, "FINALIZED")
  /\ GoOn(p, "admit")
  /\ UNCHANGED <<vars, needs, progress, prepared, inputs, claimed, effects, after>>

-----------------------------------------------------------------------------
\* What else happens.

\* The thread stops where it is: refused, failed or with its process.
Stop(p) ==
  /\ job[p] # NoJob
  /\ EndJob(p)
  /\ \/ ~AtStep(p, "tick") /\ UNCHANGED vars
     \/ AtStep(p, "tick") /\ (GiveUp(p) \/ Fail(p) \/ Die(p) \/ TransitTorn(p))
  /\ UNCHANGED <<needs, records, effects, after>>

\* The post-admission thread: it wants the slot of the dispatch or the record
\* of an execution that is over, leaves its record, and finalizes it when the
\* worker has delivered and its slot is released; or it stops on the way.
WorkerReserves(c) ==
  /\ c \in working
  /\ worker[c] = "none"
  /\ <<c, 1>> \in lease
  /\ worker' = [worker EXCEPT ![c] = "reserved"]
  /\ UNCHANGED <<vars, needs, records, effects, integrated, working, job>>

WorkerFinishes(c) ==
  /\ c \in working
  /\ worker[c] = "reserved"
  /\ LeaseEnds(<<c, 1>>)
  /\ worker' = [worker EXCEPT ![c] = "finalized"]
  /\ working' = working \ {c}
  /\ UNCHANGED <<needs, records, effects, integrated, job>>

WorkerStops(c) ==
  /\ c \in working
  /\ working' = working \ {c}
  /\ UNCHANGED <<vars, needs, records, effects, integrated, worker, job>>

\* _resume_current_materialized_plan starts it again for a card that is
\* finalized while the worker's record is there and is not.
ResumeWorker(c) ==
  /\ Reached(Progress, progress[c], "FINALIZED")
  /\ worker[c] = "reserved"
  /\ c \notin working
  /\ working' = working \cup {c}
  /\ UNCHANGED <<vars, needs, records, effects, integrated, worker, job>>

\* The delivery is reviewed and integrated (module DeliveryReview).
Integrate(c) ==
  /\ worker[c] = "finalized"
  /\ c \notin integrated
  /\ head < MaxHead
  /\ head' = head + 1
  /\ integrated' = integrated \cup {c}
  /\ UNCHANGED <<commit, ledger, lease, files, lock, todo, proc, faults, needs, records,
                 effects, working, worker, job>>

Outside ==
  /\ \/ head < MaxMoves /\ MoveHead
     \/ \E c \in Cards : LeaseEnds(<<c, 1>>)
  /\ UNCHANGED <<needs, records, effects, after, job>>

Admit(p) ==
  \/ \E c \in Cards : Execute(p, c)
  \/ SaveDependenciesReady(p) \/ Prepare(p) \/ BindInputs(p) \/ SavePrepared(p)
  \/ SaveHandoffStarted(p) \/ BeginHandoff(p) \/ Bind(p) \/ Add(p) \/ Commit(p)
  \/ SaveGitEvidence(p) \/ Authorize(p) \/ Register(p) \/ SaveRegistered(p)
  \/ ReserveSequence(p) \/ Enqueue(p) \/ SaveQueued(p) \/ SavePlan(p)
  \/ SubmitPlan(p) \/ TickOn(p) \/ TickAdmits(p) \/ SaveSubmitted(p)
  \/ SaveHandoffFinalized(p) \/ SaveAdmitted(p) \/ StartPostAdmission(p)
  \/ SaveFinalized(p)

Work(c) ==
  WorkerReserves(c) \/ WorkerFinishes(c) \/ WorkerStops(c) \/ ResumeWorker(c) \/ Integrate(c)

AdmissionNext ==
  \/ \E p \in Processes : Admit(p) \/ Stop(p)
  \/ \E c \in Cards : Work(c)
  \/ Outside

AdmissionSpec == AdmissionInit /\ [][AdmissionNext]_admissionVars

-----------------------------------------------------------------------------
\* Properties.

AdmissionTypeOK ==
  /\ TypeOK
  /\ needs \subseteq Cards \X Cards
  /\ UNION {integrated, inputs, index, tracked, working} \subseteq Cards
  /\ progress \in [Cards -> 0..Len(Progress)]
  /\ handoff \in [Cards -> 0..Len(Handoff)]
  /\ {prepared, registered, grant} \subseteq [Cards -> 0..MaxHead \cup {None}]
  /\ sequence \in 0..MaxSeq
  /\ {queued, claimed} \subseteq [Cards -> 0..MaxSeq]
  /\ worker \in [Cards -> {"none", "reserved", "finalized"}]
  /\ job \in [Processes -> Job]
  /\ \A p, q \in Processes : Card(p) = Card(q) => p = q \/ Card(p) = None

\* Everything that is made for a card speaks of one commit, the one that the
\* handoff's receipt was bound to first, and the evidence of the card is in it:
\* the dispatch approval, the registered task and the admission plan, each made
\* by another owner and possibly by another thread, after HEAD has moved.
OneCommit ==
  \A c \in Cards :
    /\ {grant[c], registered[c], plan[<<c, 1>>]} \subseteq {None, commit[c]}
    /\ HandoffIs(c, "GIT_EVIDENCE_COMMITTED") => c \in tracked /\ prepared[c] <= commit[c]
    /\ grant[c] = None => registered[c] = None /\ plan[<<c, 1>>] = None

\* No receipt is ahead of what it speaks of, in another store: the composition's
\* of the handoff's, the handoff's of the task, of the queue and of the dispatch.
ReceiptsTruthful ==
  \A c \in Cards :
    /\ Reached(Progress, progress[c], "ADMITTED") => HandoffIs(c, "FINALIZED")
    /\ HandoffIs(c, "CANONICAL_TASK_REGISTERED") => registered[c] = commit[c]
    /\ HandoffIs(c, "QUEUE_RESERVED") => /\ entry[c].state # None
                                         /\ queued[c] = claimed[c]
    /\ HandoffIs(c, "ADMISSION_SUBMITTED") =>
         /\ dispatch[c] = 1
         /\ receipt[<<c, 1>>] = "DISPATCHED"
         /\ entry[c].state = "DISPATCHED"

\* A card is dispatched only when what it waits for is integrated, although the
\* composition looks at it once and the plan is submitted any time later; and a
\* worker runs, in one thread after another, only for a card that is dispatched.
InOrder ==
  \A c \in Cards :
    /\ \A d \in Cards : dispatch[c] # None /\ <<c, d>> \in needs => d \in integrated
    /\ c \in working \/ worker[c] # "none" => task[c] = "dispatched"

\* The scheduler sees a card that is in its queue, bound to a commit that HEAD
\* has had: what the threads do is what module PortfolioScheduler lets them do,
\* each handoff being one step of it, HandOver.
InQueue(c) == entry[c].state # None
Scheduler == INSTANCE PortfolioScheduler WITH
  task <- [c \in Cards |-> IF InQueue(c) THEN task[c] ELSE "none"],
  commit <- [c \in Cards |-> IF InQueue(c) THEN commit[c] ELSE 0]
ImplementsScheduler == Scheduler!Spec

\* dockyard-task-admission-composition-contract.md:197: "`ADMITTED`, before
\* finalization | finalize only".  The fairness: a step that can be taken again
\* and again is taken, so no thread gives up for ever at one and the same step.
FairSpec ==
  /\ AdmissionSpec
  /\ \A p \in Processes : SF_admissionVars(Admit(p))
AdmittedFinalizes ==
  \A c \in Cards : Reached(Progress, progress[c], "ADMITTED")
                     ~> Reached(Progress, progress[c], "FINALIZED")
=============================================================================
