------------------------- MODULE WorkerHandoffProofs -------------------------
(***************************************************************************)
(* Proofs about WorkerHandoff, for every set of runs, every set of         *)
(* managers and any number of faults.                                      *)
(***************************************************************************)
EXTENDS WorkerHandoff, FiniteSetTheorems, TLAPS

-----------------------------------------------------------------------------
(* The inductive invariant. *)

ManagerPlaces == {"idle", "create", "add", "verify", "publish", "receipt",
                  "probe", "release", "remove", "removed"}

RunPlaces == {"idle", "execute", "admitted", "evidence", "reserve", "handoff",
              "write", "start", "starting", "advance", "wait", "release",
              "close", "final", "report", "failed", "done"}

ManagerRecord == [pc : ManagerPlaces, saw : BOOLEAN, early : BOOLEAN]

RunRecord == [pc : RunPlaces, goal : HandoffPhases, end : Ends \cup {None},
              outcome : {None, "delivered", "replayed", "recovery"}]

Typed ==
  /\ TypeOK
  /\ manager \in [Managers -> ManagerRecord]
  /\ run \in [Runs -> RunRecord]

\* A release may have got past the receipt with leases of before the admission.
Overtaken == \E m \in Managers : manager[m].early

\* Until its lease is gone a tree that was verified stays, unless a release was
\* overtaken by the admission; a branch is for ever.
TreeKept ==
  /\ \A m \in Managers :
       /\ manager[m].pc = "receipt" => manager[m].saw \/ lease = "gone"
       /\ manager[m].pc \in {"probe", "release", "remove", "removed"} =>
            Overtaken \/ lease = "gone"
  /\ Overtaken => receipt # "NONE"
  /\ record \in {"RELEASING", "RELEASED"} => Overtaken \/ lease = "gone"
  /\ Leased => Overtaken \/ record = "READY"
  /\ /\ lease # "gone" /\ ~Overtaken
     /\ record = "READY" \/ \E m \in Managers : manager[m].pc = "publish"
     => HasEntry
  /\ HasEntry => branch
  /\ record \in {"READY", "RELEASING", "RELEASED"} => branch
  /\ \A m \in Managers : manager[m].pc = "publish" => branch
  /\ record = "RELEASED" => ~HasEntry

\* There are runs, and what they leave, only after the dispatch.
Begun ==
  /\ \A r \in Runs : run[r].pc # "idle" => lease # "none"
  /\ receipt # "NONE" => lease # "none"

\* The run has a supervisor that took the receipt from RESERVED.
Holder(r) == sup[r] = "ready" \/ worker[r] # "none"

\* A run that has started nothing yet.
Before(r) ==
  \/ run[r].pc \in {"idle", "execute", "admitted", "evidence", "reserve",
                    "handoff", "start"}
  \/ run[r].pc = "write" /\ run[r].goal = HandoffReserved

HeldOnce ==
  /\ \A r \in Runs : Holder(r) => receipt \notin {"NONE", "RESERVED"}
  /\ \A r, s \in Runs : Holder(r) /\ Holder(s) => r = s
  /\ \A r \in Runs : Before(r) => sup[r] = "none" /\ worker[r] = "none"

\* Between the two writes of the pair the run has the lock of the store.
PairLocked ==
  /\ pair.receipt \in {pair.handoff, pair.handoff - 1}
  /\ \A r \in Runs :
       run[r].pc = "write" => /\ lock = r
                              /\ run[r].goal = pair.handoff
                              /\ pair.receipt = pair.handoff - 1

\* The worker was started and recorded.
WorkerKnown == receipt \in Started /\ \E r \in Runs : worker[r] # "none"

\* The evidence for the phase that a run is about to write.
GoalBacked ==
  /\ tombstone # None => receipt = "FINALIZED" /\ lease = "gone"
  /\ pair.handoff >= HandoffReserved => receipt # "NONE"
  /\ pair.handoff >= SupervisorStarted => WorkerKnown
  /\ pair.handoff >= Finalizing => tombstone # None
  /\ \A r \in Runs :
       /\ run[r].pc = "handoff" => receipt # "NONE"
       /\ run[r].pc = "advance" =>
            /\ run[r].goal >= SupervisorStarted
            /\ run[r].goal = SupervisorStarted => WorkerKnown
            /\ run[r].goal = Finalizing => tombstone # None
       /\ run[r].pc \in {"close", "final"} => lease = "gone"

\* The run has acknowledged its worker and has not yet been to the end of it.
Executing(r) ==
  \/ run[r].pc \in {"advance", "write"} /\ run[r].goal \in SupervisorStarted..Acknowledged
  \/ run[r].pc \in {"wait", "release", "close"}

\* What a run that has acknowledged its worker knows of the end.
OutcomeTrue ==
  /\ \A r \in Runs :
       /\ Executing(r) \/ run[r].pc = "final" => run[r].outcome = "delivered"
       /\ run[r].outcome = "delivered" => worker[r] # "none" /\ ~Before(r) /\ run[r].pc # "starting"
       /\ run[r].pc = "starting" /\ Holder(r) => tombstone = None
       /\ Executing(r) => tombstone = None
       /\ run[r].pc \in {"release", "close"} /\ run[r].end = "delivered" =>
            task = "review_ready"
       /\ run[r].pc = "final" =>
            task = "review_ready" /\ tombstone \in {None, "delivered"}
       /\ run[r].outcome = "delivered" /\ run[r].pc \in {"advance", "write"}
            /\ run[r].goal >= Finalizing =>
            task = "review_ready" /\ tombstone = "delivered"
       /\ run[r].outcome = "delivered" /\ run[r].pc = "report" =>
            /\ task = "review_ready" /\ tombstone = "delivered"
            /\ pair = [handoff |-> Finalized, receipt |-> Finalized]
  /\ pmReceipt = "delivered" =>
       /\ tombstone = "delivered" /\ pair = [handoff |-> Finalized, receipt |-> Finalized]
       /\ task = "review_ready"

IInv ==
  /\ Typed
  /\ TreeKept
  /\ Begun
  /\ HeldOnce
  /\ PairLocked
  /\ GoalBacked
  /\ OutcomeTrue

-----------------------------------------------------------------------------
(* The actions, by what they touch. *)

\* What a process of Managers does leaves the evidence and the runs alone.
LEMMA ManagersAlone ==
  ASSUME NEW m \in Managers, ManagerStep(m)
  PROVE  UNCHANGED <<lease, task, evidence, run, processes>>
BY DEF ManagerStep, CreateRead, CreateRecord, AddWorktree, AddKilled, Verify,
       Publish, ReleaseLeases, ReleaseReceipt, ReleaseProbe, ReleaseMark, RemoveTree,
       ReleaseDone, ManagerStops

\* What a run does leaves the managers alone, and the worktree but for the
\* changes of its worker.
LEMMA RunsAlone ==
  ASSUME NEW r \in Runs, StartStep(r) \/ ExecutionStep(r)
  PROVE  /\ manager' = manager /\ record' = record /\ branch' = branch
         /\ \/ tree' = tree /\ moved' = moved
            \/ tree # "none" /\ tree' \in {"clean", "dirty"} /\ moved' \in {moved, TRUE}
         /\ lease' = lease \/ (lease' = "gone" /\ run[r].pc = "release")
BY DEF StartStep, ExecutionStep, worktree, Begin, Execute, EndpointRefused,
       CheckAdmission, ReadEvidence, ReserveReceipt, LockBusy, ReserveHandoff,
       AdvancePhase, WriteReceipt, WriteFails, Start, Ready, Spawn,
       RecordWorker, Work, HasEntry, WorkerEnds, SupervisorEnds, SupervisorDies,
       Acknowledge, StartFails, Complete, HeartbeatFails, Release, Close,
       CloseNot, CheckFinal, Report, RecordFailure, Crash

\* The changes of one run.
LEMMA RunSet ==
  ASSUME run \in [Runs -> RunRecord], NEW r \in Runs, NEW new \in RunRecord,
         run' = [run EXCEPT ![r] = new]
  PROVE  /\ run' \in [Runs -> RunRecord]
         /\ run'[r] = new
         /\ \A s \in Runs : s # r => run'[s] = run[s]
OBVIOUS

\* A run goes on.
LEMMA GoesTo ==
  ASSUME run \in [Runs -> RunRecord], NEW r \in Runs, NEW pc \in RunPlaces,
         Goto(r, pc)
  PROVE  /\ run' \in [Runs -> RunRecord]
         /\ run'[r].pc = pc /\ run'[r].goal = run[r].goal
         /\ run'[r].end = run[r].end /\ run'[r].outcome = run[r].outcome
         /\ \A s \in Runs : s # r => run'[s] = run[s]
<1> DEFINE new == [run[r] EXCEPT !.pc = pc]
<1>1. run' = [run EXCEPT ![r] = new]
  BY DEF Goto
<1>2. new \in RunRecord /\ new.pc = pc /\ new.goal = run[r].goal
      /\ new.end = run[r].end /\ new.outcome = run[r].outcome
  BY DEF RunRecord
<1> HIDE DEF new
<1> QED
  BY <1>1, <1>2, RunSet

\* A run goes on with a new goal.
LEMMA GoesFor ==
  ASSUME run \in [Runs -> RunRecord], NEW r \in Runs, NEW pc \in RunPlaces,
         NEW goal \in HandoffPhases,
         run' = [run EXCEPT ![r].pc = pc, ![r].goal = goal]
  PROVE  /\ run' \in [Runs -> RunRecord]
         /\ run'[r].pc = pc /\ run'[r].goal = goal
         /\ run'[r].end = run[r].end /\ run'[r].outcome = run[r].outcome
         /\ \A s \in Runs : s # r => run'[s] = run[s]
<1> DEFINE new == [run[r] EXCEPT !.pc = pc, !.goal = goal]
<1>1. run' = [run EXCEPT ![r] = new]
  OBVIOUS
<1>2. new \in RunRecord /\ new.pc = pc /\ new.goal = goal
      /\ new.end = run[r].end /\ new.outcome = run[r].outcome
  BY DEF RunRecord
<1> HIDE DEF new
<1> QED
  BY <1>1, <1>2, RunSet

\* A run goes on with a goal and what it will report.
LEMMA GoesToReport ==
  ASSUME run \in [Runs -> RunRecord], NEW r \in Runs, NEW pc \in RunPlaces,
         NEW goal \in HandoffPhases, NEW outcome \in {"delivered", "replayed", "recovery"},
         run' = [run EXCEPT ![r].pc = pc, ![r].goal = goal, ![r].outcome = outcome]
  PROVE  /\ run' \in [Runs -> RunRecord]
         /\ run'[r].pc = pc /\ run'[r].goal = goal
         /\ run'[r].end = run[r].end /\ run'[r].outcome = outcome
         /\ \A s \in Runs : s # r => run'[s] = run[s]
<1> DEFINE new == [run[r] EXCEPT !.pc = pc, !.goal = goal, !.outcome = outcome]
<1>1. run' = [run EXCEPT ![r] = new]
  OBVIOUS
<1>2. new \in RunRecord /\ new.pc = pc /\ new.goal = goal
      /\ new.end = run[r].end /\ new.outcome = outcome
  BY DEF RunRecord
<1> HIDE DEF new
<1> QED
  BY <1>1, <1>2, RunSet

\* A run has what it needs for its report.
LEMMA GoesWith ==
  ASSUME run \in [Runs -> RunRecord], NEW r \in Runs, NEW pc \in RunPlaces,
         NEW outcome \in {"delivered", "replayed", "recovery"},
         run' = [run EXCEPT ![r].pc = pc, ![r].outcome = outcome]
  PROVE  /\ run' \in [Runs -> RunRecord]
         /\ run'[r].pc = pc /\ run'[r].goal = run[r].goal
         /\ run'[r].end = run[r].end /\ run'[r].outcome = outcome
         /\ \A s \in Runs : s # r => run'[s] = run[s]
<1> DEFINE new == [run[r] EXCEPT !.pc = pc, !.outcome = outcome]
<1>1. run' = [run EXCEPT ![r] = new]
  OBVIOUS
<1>2. new \in RunRecord /\ new.pc = pc /\ new.goal = run[r].goal
      /\ new.end = run[r].end /\ new.outcome = outcome
  BY DEF RunRecord
<1> HIDE DEF new
<1> QED
  BY <1>1, <1>2, RunSet

\* A run has come to its end.
LEMMA GoesOver ==
  ASSUME run \in [Runs -> RunRecord], NEW r \in Runs, NEW pc \in RunPlaces,
         NEW end \in Ends,
         run' = [run EXCEPT ![r].pc = pc, ![r].end = end]
  PROVE  /\ run' \in [Runs -> RunRecord]
         /\ run'[r].pc = pc /\ run'[r].goal = run[r].goal
         /\ run'[r].end = end /\ run'[r].outcome = run[r].outcome
         /\ \A s \in Runs : s # r => run'[s] = run[s]
<1> DEFINE new == [run[r] EXCEPT !.pc = pc, !.end = end]
<1>1. run' = [run EXCEPT ![r] = new]
  OBVIOUS
<1>2. new \in RunRecord /\ new.pc = pc /\ new.goal = run[r].goal
      /\ new.end = end /\ new.outcome = run[r].outcome
  BY DEF RunRecord
<1> HIDE DEF new
<1> QED
  BY <1>1, <1>2, RunSet

-----------------------------------------------------------------------------
(* The steps preserve the invariant. *)

\* What no step of a run alone touches.
Quiet == UNCHANGED <<worktree, manager, lease, receipt, tombstone, pair, processes>>

\* A run that only goes on, or stops, and gives its lock back: it begins nothing
\* that it has left behind, and a delivery stays submitted.
LEMMA GoingOn ==
  ASSUME IInv, NEW r \in Runs,
         NEW pc \in {"execute", "admitted", "evidence", "reserve", "handoff", "start",
                     "failed", "done"},
         Goto(r, pc), Quiet,
         lease # "none",
         pc \notin {"failed", "done"} => Before(r),
         pc = "handoff" => receipt # "NONE",
         lock' = lock \/ (lock = r /\ lock' \in {None, "orphan"}),
         task' = task \/ (task = "in_progress" /\ task' = "ready"),
         pmReceipt' = pmReceipt,
         faults' \in 0 .. MaxFaults
  PROVE  IInv'
<1> USE DEF IInv
<1>1. /\ run \in [Runs -> RunRecord] /\ run' \in [Runs -> RunRecord]
      /\ run'[r].pc = pc /\ run'[r].goal = run[r].goal
      /\ run'[r].end = run[r].end /\ run'[r].outcome = run[r].outcome
      /\ \A s \in Runs : s # r => run'[s] = run[s]
  BY GoesTo, pc \in RunPlaces DEF Typed, RunPlaces
<1>2. Typed'
  BY <1>1 DEF Typed, TypeOK, Quiet, worktree, processes
<1>3. TreeKept'
  BY DEF TreeKept, Overtaken, Quiet, worktree, HasEntry, Leased
<1>4. Begun'
  BY <1>1 DEF Begun, Quiet
<1>5. \A s \in Runs : (Holder(s)' <=> Holder(s)) /\ (Before(s)' => Before(s))
  BY <1>1 DEF Holder, Before, Quiet, processes
<1>6. HeldOnce'
  BY <1>5 DEF HeldOnce, Quiet, processes
<1>7. PairLocked'
  BY <1>1 DEF PairLocked, Quiet
<1>8. GoalBacked'
  BY <1>1 DEF GoalBacked, Quiet, WorkerKnown, processes
<1>9. OutcomeTrue'
  <2>1. \A s \in Runs : s # r => (Executing(s)' <=> Executing(s))
    BY <1>1 DEF Executing
  <2>2. ~Executing(r)'
    BY <1>1 DEF Executing
  <2> QED
    BY <1>1, <1>5, <2>1, <2>2 DEF OutcomeTrue, Quiet, processes
<1> QED
  BY <1>2, <1>3, <1>4, <1>6, <1>7, <1>8, <1>9

\* The steps before the first write, and those that only end a run.
LEMMA ChecksKeep ==
  ASSUME IInv, NEW r \in Runs,
         Begin(r) \/ Execute(r) \/ EndpointRefused(r) \/ CheckAdmission(r) \/ LockBusy(r)
  PROVE  IInv'
<1> USE DEF worktree, evidence, processes, vars, Quiet
<1>0. run[r].pc # "idle" => lease # "none"
  BY DEF IInv, Begun
<1>1. faults \in 0 .. MaxFaults /\ faults' = faults
  BY DEF IInv, Typed, TypeOK, Begin, Execute, EndpointRefused, CheckAdmission, LockBusy
<1>2. CASE Begin(r)
  <2>1. lease # "none" /\ Before(r) /\ Goto(r, "execute")
    BY <1>2 DEF Begin, Before, Idle
  <2> QED
    BY <2>1, <1>1, <1>2, GoingOn DEF Begin
<1>3. CASE Execute(r)
  <2>1. lease # "none" /\ Before(r) /\ (Goto(r, "admitted") \/ Goto(r, "done"))
    BY <1>0, <1>3 DEF Execute, Before
  <2> QED
    BY <2>1, <1>1, <1>3, GoingOn DEF Execute
<1>4. CASE EndpointRefused(r)
  BY <1>0, <1>1, <1>4, GoingOn DEF EndpointRefused
<1>5. CASE CheckAdmission(r)
  <2>1. lease # "none" /\ Before(r) /\ (Goto(r, "evidence") \/ Goto(r, "failed"))
    BY <1>0, <1>5 DEF CheckAdmission, Before
  <2> QED
    BY <2>1, <1>1, <1>5, GoingOn DEF CheckAdmission
<1>6. CASE LockBusy(r)
  BY <1>0, <1>1, <1>6, GoingOn DEF LockBusy
<1> QED
  BY <1>2, <1>3, <1>4, <1>5, <1>6

\* The steps that only end a run, or give a failure to it.
LEMMA EndsKeep ==
  ASSUME IInv, NEW r \in Runs,
         WriteFails(r) \/ StartFails(r) \/ RecordFailure(r) \/ Crash(r)
  PROVE  IInv'
<1> USE DEF worktree, evidence, processes, vars, Quiet
<1>0. run[r].pc # "idle" => lease # "none"
  BY DEF IInv, Begun
<1>1. MaxFaults \in Nat /\ faults \in 0 .. MaxFaults
      /\ (run[r].pc = "write" => lock = r)
  BY WorkerHandoffAssumption DEF IInv, Typed, TypeOK, PairLocked
<1>2. Fault => faults' \in 0 .. MaxFaults
  BY <1>1 DEF Fault
<1>3. CASE WriteFails(r)
  BY <1>0, <1>1, <1>2, <1>3, GoingOn DEF WriteFails
<1>4. CASE StartFails(r)
  BY <1>0, <1>1, <1>4, GoingOn DEF StartFails
<1>5. CASE RecordFailure(r)
  <2>1. task' = task \/ (task = "in_progress" /\ task' = "ready")
    BY <1>5 DEF RecordFailure
  <2> QED
    BY <2>1, <1>0, <1>1, <1>5, GoingOn DEF RecordFailure
<1>6. CASE Crash(r)
  <2>1. lock' = lock \/ (lock = r /\ lock' \in {None, "orphan"})
    BY <1>6 DEF Crash
  <2> QED
    BY <2>1, <1>0, <1>1, <1>2, <1>6, GoingOn DEF Crash
<1> QED
  BY <1>3, <1>4, <1>5, <1>6

\* What is read of the evidence: a run goes back to what it has not begun, is
\* told what is there, or goes on where another one has stopped.
LEMMA ReadEvidenceKeeps ==
  ASSUME IInv, NEW r \in Runs, ReadEvidence(r)
  PROVE  IInv'
<1> USE DEF worktree, evidence, processes, vars
<1>1. lease # "none" /\ Before(r) /\ run[r].pc = "evidence" /\ faults' \in 0 .. MaxFaults
  BY DEF IInv, Begun, ReadEvidence, Before, Typed, TypeOK
<1>2. CASE \E pc \in {"failed", "reserve", "handoff"} :
             Goto(r, pc) /\ (pc = "handoff" => receipt # "NONE")
  <2>1. PICK pc \in {"failed", "reserve", "handoff"} :
             Goto(r, pc) /\ (pc = "handoff" => receipt # "NONE")
    BY <1>2
  <2> QED
    BY <1>1, <2>1, GoingOn DEF ReadEvidence, Quiet
<1>3. CASE \E outcome \in {"replayed", "recovery"} :
             run' = [run EXCEPT ![r].pc = "report", ![r].outcome = outcome]
  <2>1. PICK outcome \in {"replayed", "recovery"} :
             run' = [run EXCEPT ![r].pc = "report", ![r].outcome = outcome]
    BY <1>3
  <2>2. /\ run \in [Runs -> RunRecord] /\ run' \in [Runs -> RunRecord]
        /\ run'[r].pc = "report" /\ run'[r].goal = run[r].goal
        /\ run'[r].end = run[r].end /\ run'[r].outcome = outcome
        /\ \A s \in Runs : s # r => run'[s] = run[s]
    BY <2>1, GoesWith, "report" \in RunPlaces DEF IInv, Typed, RunPlaces
  <2>3. Typed' /\ TreeKept' /\ Begun' /\ PairLocked'
    BY <1>1, <2>2 DEF IInv, ReadEvidence, Typed, TypeOK, TreeKept, Overtaken, HasEntry, Leased, Begun,
       PairLocked
  <2>4. \A s \in Runs : (Holder(s)' <=> Holder(s)) /\ (Before(s)' => Before(s))
    BY <2>2 DEF Holder, Before, ReadEvidence
  <2>5. HeldOnce' /\ GoalBacked'
    BY <2>2, <2>4 DEF IInv, HeldOnce, GoalBacked, WorkerKnown, ReadEvidence
  <2>6. \A s \in Runs : IF s = r THEN ~Executing(s)' ELSE Executing(s)' <=> Executing(s)
    BY <2>2 DEF Executing
  <2>7. OutcomeTrue'
    BY <2>2, <2>4, <2>6 DEF IInv, OutcomeTrue, ReadEvidence
  <2> QED
    BY <2>3, <2>5, <2>7 DEF IInv
<1>4. CASE \E goal \in {Finalizing, Finalized} :
             /\ run' = [run EXCEPT ![r].pc = "advance", ![r].goal = goal,
                                   ![r].outcome = "replayed"]
             /\ tombstone # None
  <2>1. PICK goal \in {Finalizing, Finalized} :
             /\ run' = [run EXCEPT ![r].pc = "advance", ![r].goal = goal,
                                   ![r].outcome = "replayed"]
             /\ tombstone # None
    BY <1>4
  <2>0. goal \in 5 .. 6 /\ goal \in HandoffPhases
    BY DEF Finalizing, Finalized, HandoffPhases
  <2>2. /\ run \in [Runs -> RunRecord] /\ run' \in [Runs -> RunRecord]
        /\ run'[r].pc = "advance" /\ run'[r].goal = goal
        /\ run'[r].end = run[r].end /\ run'[r].outcome = "replayed"
        /\ \A s \in Runs : s # r => run'[s] = run[s]
    <3>1. run \in [Runs -> RunRecord] /\ "advance" \in RunPlaces
      BY DEF IInv, Typed, RunPlaces
    <3>2. run' = [run EXCEPT ![r].pc = "advance", ![r].goal = goal, ![r].outcome = "replayed"]
      BY <2>1
    <3> QED
      BY <2>0, <3>1, <3>2, GoesToReport
  <2>3. Typed' /\ TreeKept' /\ Begun' /\ PairLocked'
    BY <1>1, <2>2 DEF IInv, ReadEvidence, Typed, TypeOK, TreeKept, Overtaken, HasEntry, Leased, Begun,
       PairLocked
  <2>4. \A s \in Runs : (Holder(s)' <=> Holder(s)) /\ (Before(s)' => Before(s))
    BY <2>2 DEF Holder, Before, ReadEvidence
  <2>5. HeldOnce' /\ GoalBacked'
    BY <2>0, <2>1, <2>2, <2>4 DEF IInv, HeldOnce, GoalBacked, WorkerKnown, ReadEvidence,
       SupervisorStarted, Finalizing, Finalized
  <2>6. \A s \in Runs : IF s = r THEN ~Executing(s)' ELSE Executing(s)' <=> Executing(s)
    BY <2>0, <2>2 DEF Executing, SupervisorStarted, Acknowledged
  <2>7. OutcomeTrue'
    BY <2>2, <2>4, <2>6 DEF IInv, OutcomeTrue, ReadEvidence
  <2> QED
    BY <2>3, <2>5, <2>7 DEF IInv
<1> QED
  <2>1. \/ \E pc \in {"failed", "reserve", "handoff"} :
             Goto(r, pc) /\ (pc = "handoff" => receipt # "NONE")
        \/ \E outcome \in {"replayed", "recovery"} :
             run' = [run EXCEPT ![r].pc = "report", ![r].outcome = outcome]
        \/ \E goal \in {Finalizing, Finalized} :
             /\ run' = [run EXCEPT ![r].pc = "advance", ![r].goal = goal,
                                   ![r].outcome = "replayed"]
             /\ tombstone # None
    BY DEF ReadEvidence
  <2> QED
    BY <2>1, <1>2, <1>3, <1>4

\* RESERVED is reached from no receipt only.
LEMMA ReserveReceiptKeeps ==
  ASSUME IInv, NEW r \in Runs, ReserveReceipt(r)
  PROVE  IInv'
<1> USE DEF worktree, evidence, processes
<1>1. /\ lease # "none" /\ Before(r) /\ run[r].pc = "reserve"
      /\ faults \in 0 .. MaxFaults /\ faults' = faults
  BY DEF IInv, Begun, ReserveReceipt, Before, Typed, TypeOK
<1>2. CASE receipt = "NONE" /\ receipt' = "RESERVED" /\ Goto(r, "handoff")
  <2>1. /\ run \in [Runs -> RunRecord] /\ run' \in [Runs -> RunRecord]
        /\ run'[r].pc = "handoff" /\ run'[r].goal = run[r].goal
        /\ run'[r].end = run[r].end /\ run'[r].outcome = run[r].outcome
        /\ \A s \in Runs : s # r => run'[s] = run[s]
    BY <1>2, GoesTo, "handoff" \in RunPlaces DEF IInv, Typed, RunPlaces
  <2>2. Typed' /\ TreeKept' /\ Begun' /\ PairLocked'
    BY <1>1, <1>2, <2>1 DEF IInv, ReserveReceipt, Typed, TypeOK, ReceiptPhases, TreeKept, Overtaken,
       HasEntry, Leased, Begun, PairLocked
  <2>3. \A s \in Runs : (Holder(s)' <=> Holder(s)) /\ (Before(s)' => Before(s))
    BY <1>1, <2>1 DEF Holder, Before, ReserveReceipt
  <2>4. \A s \in Runs : ~Holder(s)
    BY <1>2 DEF IInv, HeldOnce
  <2>5. HeldOnce'
    BY <2>1, <2>3, <2>4 DEF IInv, HeldOnce, ReserveReceipt
  <2>6. tombstone = None /\ ~(pair.handoff >= HandoffReserved) /\ ~WorkerKnown
    BY <1>2 DEF IInv, GoalBacked, WorkerKnown, Started
  <2>7. GoalBacked'
    BY <1>1, <1>2, <2>1, <2>6 DEF IInv, GoalBacked, ReserveReceipt, WorkerKnown, Started,
       HandoffReserved, SupervisorStarted, Finalizing, Typed, TypeOK, HandoffPhases, Finalized
  <2>8. \A s \in Runs : IF s = r THEN ~Executing(s)' ELSE Executing(s)' <=> Executing(s)
    BY <2>1 DEF Executing
  <2>9. OutcomeTrue'
    BY <1>1, <2>1, <2>3, <2>8 DEF IInv, OutcomeTrue, ReserveReceipt, Before
  <2> QED
    BY <2>2, <2>5, <2>7, <2>9 DEF IInv
<1>3. CASE Goto(r, "failed") /\ UNCHANGED receipt
  BY <1>1, <1>3, GoingOn DEF ReserveReceipt, Quiet
<1> QED
  BY <1>2, <1>3 DEF ReserveReceipt

\* The first file of the handoff; a pair that is there is left alone.
LEMMA ReserveHandoffKeeps ==
  ASSUME IInv, NEW r \in Runs, ReserveHandoff(r)
  PROVE  IInv'
<1> USE DEF worktree, evidence, processes
<1>1. /\ lease # "none" /\ Before(r) /\ run[r].pc = "handoff" /\ receipt # "NONE"
      /\ faults \in 0 .. MaxFaults /\ faults' = faults
  BY DEF IInv, Begun, GoalBacked, ReserveHandoff, Before, Typed, TypeOK
<1>2. CASE /\ pair = [handoff |-> 0, receipt |-> 0]
           /\ pair' = [pair EXCEPT !.handoff = HandoffReserved]
           /\ lock' = r
           /\ run' = [run EXCEPT ![r].pc = "write", ![r].goal = HandoffReserved]
  <2>0. pair' = [handoff |-> 1, receipt |-> 0] /\ HandoffReserved = 1 /\ 1 \in HandoffPhases
        /\ 0 \in HandoffPhases
    BY <1>2 DEF HandoffReserved, HandoffPhases, Finalized
  <2>1. /\ run \in [Runs -> RunRecord] /\ run' \in [Runs -> RunRecord]
        /\ run'[r].pc = "write" /\ run'[r].goal = 1
        /\ run'[r].end = run[r].end /\ run'[r].outcome = run[r].outcome
        /\ \A s \in Runs : s # r => run'[s] = run[s]
    BY <1>2, <2>0, GoesFor, "write" \in RunPlaces DEF IInv, Typed, RunPlaces
  <2>2. Typed' /\ TreeKept' /\ Begun'
    BY <1>1, <1>2, <2>0, <2>1 DEF IInv, ReserveHandoff, Typed, TypeOK, TreeKept, Overtaken,
       HasEntry, Leased, Begun
  <2>3. PairLocked'
    BY <1>2, <2>0, <2>1, WorkerHandoffAssumption DEF IInv, PairLocked, ReserveHandoff
  <2>4. \A s \in Runs : (Holder(s)' <=> Holder(s)) /\ (Before(s)' => Before(s))
    BY <1>1, <2>1 DEF Holder, Before, ReserveHandoff
  <2>5. HeldOnce'
    BY <2>1, <2>4 DEF IInv, HeldOnce, ReserveHandoff
  <2>6. GoalBacked'
    BY <1>1, <2>0, <2>1 DEF IInv, GoalBacked, ReserveHandoff, WorkerKnown,
       HandoffReserved, SupervisorStarted, Finalizing
  <2>7. \A s \in Runs : IF s = r THEN ~Executing(s)' ELSE Executing(s)' <=> Executing(s)
    BY <2>1 DEF Executing, SupervisorStarted, Acknowledged
  <2>8. run[r].outcome # "delivered" /\ pmReceipt # "delivered"
    BY <1>1, <1>2 DEF IInv, OutcomeTrue, Finalized
  <2>9. OutcomeTrue'
    BY <1>1, <1>2, <2>1, <2>4, <2>7, <2>8 DEF IInv, OutcomeTrue, ReserveHandoff, Before, Finalized
  <2> QED
    BY <2>2, <2>3, <2>5, <2>6, <2>9 DEF IInv
<1>3. CASE UNCHANGED <<pair, lock>> /\ (Goto(r, "start") \/ Goto(r, "failed"))
  BY <1>1, <1>3, GoingOn DEF ReserveHandoff, Quiet
<1> QED
  BY <1>2, <1>3 DEF ReserveHandoff

\* What a run does when the handoff has reached a phase.
LEMMA AdvancedTo ==
  ASSUME run \in [Runs -> RunRecord], NEW r \in Runs, NEW g \in 1 .. Finalized,
         Advanced(r, g)
  PROVE  /\ run' \in [Runs -> RunRecord]
         /\ run'[r].pc = After(g)
         /\ run'[r].goal = IF After(g) = "advance" THEN g + 1 ELSE g
         /\ run'[r].end = run[r].end /\ run'[r].outcome = run[r].outcome
         /\ \A s \in Runs : s # r => run'[s] = run[s]
<1> DEFINE goal == IF After(g) = "advance" THEN g + 1 ELSE g
<1>1. After(g) \in RunPlaces /\ goal \in HandoffPhases
  BY DEF After, RunPlaces, HandoffPhases, Finalized, HandoffReserved, Acknowledged
<1>2. run' = [run EXCEPT ![r].pc = After(g), ![r].goal = goal]
  BY DEF Advanced
<1> HIDE DEF goal
<1>3. /\ run' \in [Runs -> RunRecord]
      /\ run'[r].pc = After(g) /\ run'[r].goal = goal
      /\ run'[r].end = run[r].end /\ run'[r].outcome = run[r].outcome
      /\ \A s \in Runs : s # r => run'[s] = run[s]
  BY <1>1, <1>2, GoesFor
<1> QED
  BY <1>3 DEF goal

\* The handoff is in the phase that the run was to advance it to, in both its
\* files, and the run goes on to the next.
LEMMA ArrivedKeeps ==
  ASSUME IInv, NEW r \in Runs, NEW g \in 1 .. Finalized,
         run[r].goal = g,
         run[r].pc = "advance" \/ (run[r].pc = "write" /\ pair.handoff = g),
         Advanced(r, g),
         pair' = [handoff |-> g, receipt |-> g],
         pair.handoff = g,
         run[r].pc = "advance" => pair.receipt = g /\ g # Finalizing,
         lock' = lock \/ (lock = r /\ lock' = None),
         UNCHANGED <<worktree, manager, lease, task, receipt, tombstone, pmReceipt,
                     processes, faults>>
  PROVE  IInv'
<1> USE DEF worktree, processes
<1>1. /\ run \in [Runs -> RunRecord] /\ run' \in [Runs -> RunRecord]
      /\ run'[r].pc = After(g)
      /\ run'[r].goal = (IF After(g) = "advance" THEN g + 1 ELSE g)
      /\ run'[r].end = run[r].end /\ run'[r].outcome = run[r].outcome
      /\ \A s \in Runs : s # r => run'[s] = run[s]
  BY AdvancedTo DEF IInv, Typed
<1>2. g \in HandoffPhases /\ pair'.handoff = g /\ pair'.receipt = g
      /\ pair.receipt \in Nat /\ g \in 1 .. 6
  BY DEF HandoffPhases, Finalized, IInv, Typed, TypeOK
<1>3. After(g) \in {"start", "advance", "wait", "report"}
  BY DEF After
<1>4. Typed' /\ TreeKept' /\ Begun'
  BY <1>1, <1>2, <1>3 DEF IInv, Typed, TypeOK, TreeKept, Overtaken, HasEntry, Leased, Begun
<1>5. PairLocked'
  <2>1. \A s \in Runs : s # r => run[s].pc # "write"
    BY <1>2 DEF IInv, PairLocked
  <2> QED
    BY <1>1, <1>2, <1>3, <2>1 DEF PairLocked
<1>6. \A s \in Runs : (Holder(s)' <=> Holder(s)) /\ (Before(s)' => Before(s))
  <2>1. run[r].pc = "advance" => g # 1
    BY DEF IInv, GoalBacked, SupervisorStarted
  <2>2. Before(r)' => Before(r)
    BY <1>1, <1>2, <2>1 DEF Before, After, HandoffReserved, Acknowledged, Finalized
  <2> QED
    BY <1>1, <2>2 DEF Holder, Before
<1>7. HeldOnce'
  BY <1>1, <1>6 DEF IInv, HeldOnce
<1>8. GoalBacked'
  <2>1. WorkerKnown' <=> WorkerKnown
    BY DEF WorkerKnown
  <2>2. After(g) = "advance" => run'[r].goal \in {3, 4, 6}
    BY <1>1, <1>2 DEF After, HandoffReserved, Acknowledged, Finalized
  <2>3. \A s \in Runs :
          /\ run'[s].pc = "handoff" => receipt # "NONE"
          /\ run'[s].pc = "advance" =>
               /\ run'[s].goal >= SupervisorStarted
               /\ run'[s].goal = SupervisorStarted => WorkerKnown
               /\ run'[s].goal = Finalizing => tombstone # None
          /\ run'[s].pc \in {"close", "final"} => lease = "gone"
    BY <1>1, <1>3, <2>2 DEF IInv, GoalBacked, SupervisorStarted, Finalizing
  <2>4. pair'.handoff = pair.handoff
    BY <1>2
  <2> QED
    BY <2>1, <2>3, <2>4 DEF IInv, GoalBacked
<1>9. OutcomeTrue'
  <2>1. /\ Executing(r)' => Executing(r)
        /\ run'[r].pc \notin {"release", "close", "final", "starting"}
    BY <1>1, <1>2, <1>3 DEF Executing, After, SupervisorStarted, Acknowledged,
       HandoffReserved, Finalized
  <2>2. \A s \in Runs : s # r => (Executing(s)' <=> Executing(s))
    BY <1>1 DEF Executing
  <2>3. run[r].outcome = "delivered" => worker[r] # "none" /\ ~Before(r)
    BY DEF IInv, OutcomeTrue
  <2>4. /\ run'[r].pc = "report" => g = 6
        /\ run'[r].pc = "advance" => run'[r].goal \in {3, 4, 6}
                                     /\ (run'[r].goal = 6 => g = 5)
    BY <1>1, <1>2 DEF After, HandoffReserved, Acknowledged, Finalized
  <2>5. run[r].outcome = "delivered" /\ g \in {5, 6} =>
          task = "review_ready" /\ tombstone = "delivered"
    BY DEF IInv, OutcomeTrue, Finalizing
  <2>6. pair = [handoff |-> 6, receipt |-> 6] => g = 6
    OBVIOUS
  <2> QED
    BY <1>1, <1>6, <2>1, <2>2, <2>3, <2>4, <2>5, <2>6 DEF IInv, OutcomeTrue, Finalizing,
       Finalized
<1> QED
  BY <1>4, <1>5, <1>7, <1>8, <1>9 DEF IInv

\* The first file of the next phase, a replay, or a conflict.
LEMMA AdvancePhaseKeeps ==
  ASSUME IInv, NEW r \in Runs, AdvancePhase(r)
  PROVE  IInv'
<1> USE DEF worktree, evidence, processes
<1> DEFINE g == run[r].goal
<1>1. /\ run[r].pc = "advance" /\ lease # "none" /\ faults \in 0 .. MaxFaults
      /\ run \in [Runs -> RunRecord] /\ g \in 0 .. 6 /\ g >= 2
      /\ pair \in [handoff : 0 .. 6, receipt : 0 .. 6]
  BY DEF AdvancePhase, IInv, Begun, GoalBacked, SupervisorStarted, Typed, TypeOK, RunRecord,
     HandoffPhases, Finalized
<1>2. CASE /\ Readable /\ pair.handoff + 1 = g
           /\ pair' = [pair EXCEPT !.handoff = g]
           /\ lock' = r
           /\ Goto(r, "write")
  <2>0. pair.receipt = g - 1 /\ pair' = [handoff |-> g, receipt |-> g - 1]
    BY <1>1, <1>2 DEF Readable
  <2>1. /\ run' \in [Runs -> RunRecord]
        /\ run'[r].pc = "write" /\ run'[r].goal = g
        /\ run'[r].end = run[r].end /\ run'[r].outcome = run[r].outcome
        /\ \A s \in Runs : s # r => run'[s] = run[s]
    BY <1>1, <1>2, GoesTo, "write" \in RunPlaces DEF RunPlaces
  <2> HIDE DEF g
  <2>2. Typed' /\ TreeKept' /\ Begun'
    BY <1>1, <1>2, <2>0, <2>1 DEF IInv, AdvancePhase, Typed, TypeOK, TreeKept, Overtaken, HasEntry,
       Leased, Begun, HandoffPhases, Finalized
  <2>3. PairLocked'
    <3>1. \A s \in Runs : run[s].pc # "write"
      BY <1>1, <2>0, <1>2 DEF IInv, PairLocked
    <3> QED
      BY <1>1, <1>2, <2>0, <2>1, <3>1 DEF PairLocked
  <2>4. \A s \in Runs : (Holder(s)' <=> Holder(s)) /\ (Before(s)' => Before(s))
    BY <1>1, <2>1 DEF Holder, Before, AdvancePhase, HandoffReserved
  <2>5. HeldOnce'
    BY <2>1, <2>4 DEF IInv, HeldOnce, AdvancePhase
  <2>6. WorkerKnown' <=> WorkerKnown
    BY DEF WorkerKnown, AdvancePhase
  <2>7. WorkerKnown /\ receipt # "NONE" /\ (g >= 5 => tombstone # None)
    BY <1>1, <1>2 DEF IInv, GoalBacked, SupervisorStarted, Finalizing, g, WorkerKnown, Started
  <2>8. GoalBacked'
    BY <1>1, <2>0, <2>1, <2>6, <2>7 DEF IInv, GoalBacked, AdvancePhase, Finalizing
  <2>9. \A s \in Runs : Executing(s)' <=> Executing(s)
    BY <1>1, <2>1 DEF Executing, g
  <2>10. pair # [handoff |-> Finalized, receipt |-> Finalized]
    BY <1>1, <1>2 DEF Finalized
  <2>11. OutcomeTrue'
    BY <1>1, <2>1, <2>4, <2>9, <2>10 DEF IInv, OutcomeTrue, AdvancePhase, g
  <2> QED
    BY <2>2, <2>3, <2>5, <2>8, <2>11 DEF IInv
<1>3. CASE /\ Readable /\ pair.handoff = g /\ g # Finalizing
           /\ Advanced(r, g)
           /\ UNCHANGED <<pair, lock>>
  <2>1. g \in 1 .. Finalized /\ pair' = [handoff |-> g, receipt |-> g] /\ pair.receipt = g
    BY <1>1, <1>3 DEF Readable, Finalized
  <2> QED
    BY <1>1, <1>3, <2>1, ArrivedKeeps DEF AdvancePhase
<1>4. CASE Goto(r, "failed") /\ UNCHANGED <<pair, lock>>
  BY <1>1, <1>4, GoingOn DEF AdvancePhase, Quiet
<1> QED
  BY <1>2, <1>3, <1>4 DEF AdvancePhase

\* The second file of the phase.
LEMMA WriteReceiptKeeps ==
  ASSUME IInv, NEW r \in Runs, WriteReceipt(r)
  PROVE  IInv'
<1> USE DEF worktree, evidence, processes
<1> DEFINE g == run[r].goal
<1>1. /\ run[r].pc = "write" /\ lock = r /\ pair.handoff = g /\ pair.receipt = g - 1
      /\ pair \in [handoff : 0 .. 6, receipt : 0 .. 6]
  BY DEF WriteReceipt, IInv, PairLocked, Typed, TypeOK, HandoffPhases, Finalized
<1>2. g \in 1 .. Finalized /\ pair' = [handoff |-> g, receipt |-> g]
  BY <1>1 DEF WriteReceipt, Finalized
<1> QED
  BY <1>1, <1>2, ArrivedKeeps DEF WriteReceipt

\* A supervisor is started for a receipt that is RESERVED.
LEMMA StartKeeps ==
  ASSUME IInv, NEW r \in Runs, Start(r)
  PROVE  IInv'
<1> USE DEF worktree, evidence, processes
<1>1. /\ run[r].pc = "start" /\ lease # "none" /\ faults \in 0 .. MaxFaults /\ Before(r)
      /\ run \in [Runs -> RunRecord] /\ sup[r] = "none" /\ worker[r] = "none"
      /\ sup \in [Runs -> {"none", "starting", "ready", "over"}]
  BY DEF Start, IInv, Begun, Typed, TypeOK, Before, HeldOnce
<1>2. CASE receipt = "RESERVED" /\ sup' = [sup EXCEPT ![r] = "starting"]
           /\ Goto(r, "starting")
  <2>1. /\ run' \in [Runs -> RunRecord]
        /\ run'[r].pc = "starting" /\ run'[r].goal = run[r].goal
        /\ run'[r].end = run[r].end /\ run'[r].outcome = run[r].outcome
        /\ \A s \in Runs : s # r => run'[s] = run[s]
    BY <1>1, <1>2, GoesTo, "starting" \in RunPlaces DEF RunPlaces
  <2>2. /\ sup' \in [Runs -> {"none", "starting", "ready", "over"}]
        /\ sup'[r] = "starting" /\ \A s \in Runs : s # r => sup'[s] = sup[s]
    BY <1>1, <1>2
  <2>3. Typed' /\ TreeKept' /\ Begun' /\ PairLocked'
    BY <1>1, <1>2, <2>1, <2>2 DEF IInv, Start, Typed, TypeOK, TreeKept, Overtaken, HasEntry,
       Leased, Begun, PairLocked
  <2>4. \A s \in Runs : /\ Holder(s)' <=> Holder(s)
                        /\ Before(s)' => Before(s) /\ s # r
    BY <1>1, <2>1, <2>2 DEF Holder, Before, Start
  <2>5. HeldOnce'
    BY <2>1, <2>2, <2>4 DEF IInv, HeldOnce, Start
  <2>6. GoalBacked'
    BY <1>1, <2>1 DEF IInv, GoalBacked, Start, WorkerKnown
  <2>7. \A s \in Runs : IF s = r THEN ~Executing(s)' ELSE Executing(s)' <=> Executing(s)
    BY <2>1 DEF Executing
  <2>8. run[r].outcome # "delivered" /\ tombstone = None
    BY <1>1, <1>2 DEF IInv, OutcomeTrue, GoalBacked
  <2>9. OutcomeTrue'
    BY <1>1, <2>1, <2>4, <2>7, <2>8 DEF IInv, OutcomeTrue, Start
  <2> QED
    BY <2>3, <2>5, <2>6, <2>9 DEF IInv
<1>3. CASE Goto(r, "failed") /\ UNCHANGED sup
  BY <1>1, <1>3, GoingOn DEF Start, Quiet
<1> QED
  BY <1>2, <1>3 DEF Start

\* The steps of _start_admitted_dispatch up to the execution.
LEMMA StartStepKeeps ==
  ASSUME IInv, NEW r \in Runs, StartStep(r)
  PROVE  IInv'
BY ChecksKeep, EndsKeep, ReadEvidenceKeeps, ReserveReceiptKeeps, ReserveHandoffKeeps,
   AdvancePhaseKeeps, WriteReceiptKeeps, StartKeeps DEF StartStep

\* A step of the supervisor or of its worker: the receipt goes on, and only a
\* supervisor that found it RESERVED becomes its holder.
LEMMA ProcessGoesOn ==
  ASSUME IInv, NEW r \in Runs, NEW s2 \in {"none", "starting", "ready", "over"},
         NEW w2 \in {"none", "running", "over"},
         sup' = [sup EXCEPT ![r] = s2], worker' = [worker EXCEPT ![r] = w2],
         ~Before(r),
         worker[r] # "none" => w2 # "none",
         UNCHANGED <<record, branch, manager, lease, task, tombstone, pair, lock,
                     pmReceipt, run>>,
         tree' \in {"none", "clean", "dirty"}, moved' \in BOOLEAN,
         HasEntry' <=> HasEntry,
         faults' \in 0 .. MaxFaults,
         receipt' \in ReceiptPhases,
         receipt' = "NONE" <=> receipt = "NONE",
         receipt \in Started => receipt' \in Started,
         receipt \notin {"NONE", "RESERVED"} => receipt' \notin {"NONE", "RESERVED"},
         tombstone # None => receipt' = receipt,
         s2 = "ready" \/ w2 # "none" =>
           /\ receipt' \notin {"NONE", "RESERVED"}
           /\ Holder(r) \/ (receipt = "RESERVED" /\ tombstone = None)
  PROVE  IInv'
<1>1. /\ sup' \in [Runs -> {"none", "starting", "ready", "over"}] /\ sup'[r] = s2
      /\ worker' \in [Runs -> {"none", "running", "over"}] /\ worker'[r] = w2
      /\ \A s \in Runs : s # r => sup'[s] = sup[s] /\ worker'[s] = worker[s]
  BY DEF IInv, Typed, TypeOK
<1>2. Typed' /\ TreeKept' /\ Begun' /\ PairLocked'
  BY <1>1 DEF IInv, Typed, TypeOK, TreeKept, Overtaken, HasEntry, Leased, Begun, PairLocked
<1>3. \A s \in Runs : s # r => (Holder(s)' <=> Holder(s))
  BY <1>1 DEF Holder
<1>4. \A s \in Runs : /\ Before(s)' <=> Before(s)
                      /\ Executing(s)' <=> Executing(s)
  BY DEF Before, Executing
<1>5. Holder(r)' => receipt' \notin {"NONE", "RESERVED"}
        /\ (Holder(r) \/ (receipt = "RESERVED" /\ tombstone = None))
  BY <1>1 DEF Holder
<1>6. HeldOnce'
  <2>1. receipt = "RESERVED" => \A s \in Runs : ~Holder(s)
    BY DEF IInv, HeldOnce
  <2>2. \A s, t \in Runs : Holder(s)' /\ Holder(t)' => s = t
    BY <1>3, <1>5, <2>1 DEF IInv, HeldOnce
  <2> QED
    BY <1>1, <1>3, <1>4, <1>5, <2>2 DEF IInv, HeldOnce
<1>7. WorkerKnown => WorkerKnown'
  BY <1>1 DEF WorkerKnown
<1>8. GoalBacked'
  BY <1>7 DEF IInv, GoalBacked
<1>9. \A s \in Runs : worker[s] # "none" => worker'[s] # "none"
  BY <1>1
<1>10. OutcomeTrue'
  BY <1>3, <1>4, <1>5, <1>9 DEF IInv, OutcomeTrue
<1> QED
  BY <1>2, <1>6, <1>8, <1>10 DEF IInv

\* The steps of the supervisor and of the worker.
LEMMA ProcessesKeep ==
  ASSUME IInv, NEW r \in Runs,
         \/ Ready(r) \/ Spawn(r) \/ RecordWorker(r) \/ Work(r) \/ WorkerEnds(r)
         \/ SupervisorEnds(r) \/ SupervisorDies(r)
  PROVE  IInv'
<1> USE DEF worktree, evidence, processes
<1>1. /\ sup \in [Runs -> {"none", "starting", "ready", "over"}]
      /\ worker \in [Runs -> {"none", "running", "over"}]
      /\ tree \in {"none", "clean", "dirty"} /\ moved \in BOOLEAN
      /\ faults \in 0 .. MaxFaults /\ MaxFaults \in Nat
      /\ receipt \in ReceiptPhases
      /\ (Fault => faults' \in 0 .. MaxFaults)
  BY WorkerHandoffAssumption DEF IInv, Typed, TypeOK, Fault
<1>2. /\ sup = [sup EXCEPT ![r] = sup[r]] /\ worker = [worker EXCEPT ![r] = worker[r]]
      /\ sup[r] \in {"none", "starting", "ready", "over"}
      /\ worker[r] \in {"none", "running", "over"}
  BY <1>1
<1>3. /\ Before(r) => sup[r] = "none" /\ worker[r] = "none"
      /\ sup[r] = "ready" \/ worker[r] # "none" => receipt \notin {"NONE", "RESERVED"}
      /\ tombstone # None => receipt = "FINALIZED"
      /\ tree # "none" <=> HasEntry
  BY DEF IInv, HeldOnce, GoalBacked, Holder, HasEntry
<1>4. CASE Ready(r)
  <2>1. CASE receipt = "RESERVED" /\ receipt' = "SUPERVISOR_READY"
             /\ sup' = [sup EXCEPT ![r] = "ready"]
    BY <1>1, <1>2, <1>3, <1>4, <2>1, ProcessGoesOn DEF Ready, HasEntry, Started, ReceiptPhases
  <2>2. CASE sup' = [sup EXCEPT ![r] = "over"] /\ UNCHANGED receipt
    BY <1>1, <1>2, <1>3, <1>4, <2>2, ProcessGoesOn DEF Ready, HasEntry, Holder
  <2> QED
    BY <1>4, <2>1, <2>2 DEF Ready
<1>5. CASE Spawn(r)
  <2>1. CASE worker' = [worker EXCEPT ![r] = "running"] /\ UNCHANGED sup
    BY <1>1, <1>2, <1>3, <1>5, <2>1, ProcessGoesOn DEF Spawn, HasEntry, Holder
  <2>2. CASE sup' = [sup EXCEPT ![r] = "over"] /\ UNCHANGED worker
    BY <1>1, <1>2, <1>3, <1>5, <2>2, ProcessGoesOn DEF Spawn, HasEntry, Holder
  <2> QED
    BY <1>5, <2>1, <2>2 DEF Spawn
<1>6. CASE RecordWorker(r)
  BY <1>1, <1>2, <1>3, <1>6, ProcessGoesOn DEF RecordWorker, HasEntry, Holder, Started,
     ReceiptPhases
<1>7. CASE Work(r)
  <2>1. tree' \in {"clean", "dirty"} /\ moved' \in BOOLEAN /\ HasEntry /\ HasEntry'
    BY <1>1, <1>7 DEF Work, HasEntry
  <2> QED
    BY <1>1, <1>2, <1>3, <1>7, <2>1, ProcessGoesOn DEF Work, Holder
<1>8. CASE WorkerEnds(r)
  BY <1>1, <1>2, <1>3, <1>8, ProcessGoesOn DEF WorkerEnds, HasEntry, Holder
<1>9. CASE SupervisorEnds(r)
  BY <1>1, <1>2, <1>3, <1>9, ProcessGoesOn DEF SupervisorEnds, HasEntry, Holder, Started,
     ReceiptPhases
<1>10. CASE SupervisorDies(r)
  <2>1. PICK w \in {worker[r], IF worker[r] = "running" THEN "over" ELSE worker[r]} :
          worker' = [worker EXCEPT ![r] = w]
    BY <1>10 DEF SupervisorDies
  <2>2. w \in {"none", "running", "over"} /\ (w # "none" <=> worker[r] # "none")
    BY <1>2
  <2> QED
    BY <1>1, <1>2, <1>3, <1>10, <2>1, <2>2, ProcessGoesOn DEF SupervisorDies, HasEntry, Holder
<1> QED
  BY <1>4, <1>5, <1>6, <1>7, <1>8, <1>9, <1>10

\* The acknowledgement of the worker that the run has started.
LEMMA AcknowledgeKeeps ==
  ASSUME IInv, NEW r \in Runs, Acknowledge(r)
  PROVE  IInv'
<1> USE DEF worktree, evidence, processes
<1>1. /\ run[r].pc = "starting" /\ lease # "none" /\ faults \in 0 .. MaxFaults /\ ~Before(r)
      /\ receipt \in Started /\ worker[r] # "none" /\ tombstone = None
      /\ task = "dispatched" /\ task' = "in_progress"
      /\ run \in [Runs -> RunRecord]
  BY DEF Acknowledge, IInv, Begun, Typed, TypeOK, Before, Started, ReceiptPhases, OutcomeTrue,
     Holder
<1>2. /\ run' \in [Runs -> RunRecord]
      /\ run'[r].pc = "advance" /\ run'[r].goal = 2
      /\ run'[r].end = run[r].end /\ run'[r].outcome = "delivered"
      /\ \A s \in Runs : s # r => run'[s] = run[s]
  <2>1. SupervisorStarted = 2 /\ 2 \in HandoffPhases /\ "advance" \in RunPlaces
    BY DEF RunPlaces, SupervisorStarted, HandoffPhases, Finalized
  <2> QED
    BY <1>1, <2>1, GoesToReport DEF Acknowledge
<1>3. Typed' /\ TreeKept' /\ Begun' /\ PairLocked'
  BY <1>1, <1>2 DEF Acknowledge, IInv, Typed, TypeOK, TreeKept, Overtaken, HasEntry, Leased, Begun, PairLocked
<1>4. \A s \in Runs : (Holder(s)' <=> Holder(s)) /\ (Before(s)' => Before(s) /\ s # r)
  BY <1>2 DEF Holder, Before, Acknowledge
<1>5. HeldOnce'
  BY <1>4 DEF IInv, HeldOnce, Acknowledge
<1>6. WorkerKnown /\ WorkerKnown'
  BY <1>1 DEF WorkerKnown, Acknowledge
<1>7. GoalBacked'
  BY <1>1, <1>2, <1>6 DEF IInv, GoalBacked, Acknowledge, SupervisorStarted, Finalizing
<1>8. \A s \in Runs : s # r => (Executing(s)' <=> Executing(s))
  BY <1>2 DEF Executing
<1>9. OutcomeTrue'
  BY <1>1, <1>2, <1>4, <1>8 DEF IInv, OutcomeTrue, Acknowledge, Finalizing
<1> QED
  BY <1>3, <1>5, <1>7, <1>9 DEF IInv

\* The end of the execution: a delivery that is submitted, or no delivery.
LEMMA ExecutionOver ==
  ASSUME IInv, NEW r \in Runs, Complete(r) \/ HeartbeatFails(r)
  PROVE  IInv'
<1> USE DEF worktree, evidence, processes
<1>1. PICK end \in Ends :
        /\ run' = [run EXCEPT ![r].pc = "release", ![r].end = end]
        /\ end = "delivered" => task' = "review_ready"
        /\ task' = task \/ (task = "in_progress" /\ task' = "review_ready")
  BY DEF Complete, HeartbeatFails, Ends
<1>2. /\ run[r].pc = "wait" /\ lease # "none" /\ faults \in 0 .. MaxFaults /\ ~Before(r)
      /\ Executing(r)
      /\ run[r].outcome = "delivered" /\ tombstone = None /\ worker[r] # "none"
      /\ run \in [Runs -> RunRecord]
      /\ sup \in [Runs -> {"none", "starting", "ready", "over"}]
      /\ worker \in [Runs -> {"none", "running", "over"}]
  BY DEF Complete, HeartbeatFails, IInv, Begun, Typed, TypeOK, Before, OutcomeTrue, Executing
<1>3. /\ run' \in [Runs -> RunRecord]
      /\ run'[r].pc = "release" /\ run'[r].goal = run[r].goal
      /\ run'[r].end = end /\ run'[r].outcome = "delivered"
      /\ \A s \in Runs : s # r => run'[s] = run[s]
  BY <1>1, <1>2, GoesOver, "release" \in RunPlaces DEF RunPlaces
<1>4. /\ sup' \in [Runs -> {"none", "starting", "ready", "over"}]
      /\ worker' \in [Runs -> {"none", "running", "over"}]
      /\ worker'[r] # "none"
      /\ \A s \in Runs : s # r => sup'[s] = sup[s] /\ worker'[s] = worker[s]
  <2>1. CASE Complete(r)
    BY <1>2, <2>1 DEF Complete
  <2>2. CASE HeartbeatFails(r)
    BY <1>2, <2>2 DEF HeartbeatFails
  <2> QED
    BY <2>1, <2>2
<1>5. /\ UNCHANGED <<worktree, manager, lease, evidence, faults>>
      /\ task' \in {"ready", "dispatched", "in_progress", "review_ready"}
  BY <1>1 DEF Complete, HeartbeatFails, IInv, Typed, TypeOK
<1>6. Typed' /\ TreeKept' /\ Begun' /\ PairLocked'
  BY <1>2, <1>3, <1>4, <1>5 DEF IInv, Typed, TypeOK, TreeKept, Overtaken, HasEntry, Leased, Begun, PairLocked
<1>7. \A s \in Runs : (Holder(s)' <=> Holder(s)) /\ (Before(s)' <=> Before(s) /\ s # r)
  BY <1>2, <1>3, <1>4 DEF Holder, Before
<1>8. HeldOnce'
  BY <1>4, <1>5, <1>7 DEF IInv, HeldOnce
<1>9. WorkerKnown => WorkerKnown'
  BY <1>4, <1>5 DEF WorkerKnown
<1>10. GoalBacked'
  BY <1>3, <1>5, <1>9 DEF IInv, GoalBacked
<1>11. \A s \in Runs : IF s = r THEN Executing(s)' ELSE Executing(s)' <=> Executing(s)
  BY <1>3 DEF Executing
<1>12. OutcomeTrue'
  BY <1>1, <1>2, <1>3, <1>4, <1>5, <1>7, <1>11 DEF IInv, OutcomeTrue
<1> QED
  BY <1>6, <1>8, <1>10, <1>12 DEF IInv

\* The release of the slot.
LEMMA ReleaseKeeps ==
  ASSUME IInv, NEW r \in Runs, Release(r)
  PROVE  IInv'
<1> USE DEF worktree, evidence, processes
<1>1. /\ run[r].pc = "release" /\ faults \in 0 .. MaxFaults /\ ~Before(r) /\ Executing(r)
      /\ run \in [Runs -> RunRecord]
  BY DEF Release, IInv, Typed, TypeOK, Before, Executing
<1>2. /\ run' \in [Runs -> RunRecord]
      /\ run'[r].pc = "close" /\ run'[r].goal = run[r].goal
      /\ run'[r].end = run[r].end /\ run'[r].outcome = run[r].outcome
      /\ \A s \in Runs : s # r => run'[s] = run[s]
  BY <1>1, GoesTo, "close" \in RunPlaces DEF Release, RunPlaces
<1>3. Typed' /\ TreeKept' /\ Begun' /\ PairLocked'
  BY <1>1, <1>2 DEF Release, IInv, Typed, TypeOK, TreeKept, Overtaken, HasEntry, Leased, Begun, PairLocked
<1>4. \A s \in Runs : (Holder(s)' <=> Holder(s)) /\ (Before(s)' <=> Before(s))
  BY <1>1, <1>2 DEF Holder, Before, Release
<1>5. HeldOnce'
  BY <1>4 DEF IInv, HeldOnce, Release
<1>6. GoalBacked'
  BY <1>2 DEF IInv, GoalBacked, Release, WorkerKnown
<1>7. \A s \in Runs : Executing(s)' <=> Executing(s)
  BY <1>1, <1>2 DEF Executing
<1>8. OutcomeTrue'
  BY <1>1, <1>2, <1>4, <1>7 DEF IInv, OutcomeTrue, Release
<1> QED
  BY <1>3, <1>5, <1>6, <1>8 DEF IInv

\* The tombstone.  No other run has acknowledged a worker.
LEMMA CloseKeeps ==
  ASSUME IInv, NEW r \in Runs, Close(r)
  PROVE  IInv'
<1> USE DEF worktree, evidence, processes
<1>1. /\ run[r].pc = "close" /\ lease = "gone" /\ faults \in 0 .. MaxFaults /\ ~Before(r)
      /\ Executing(r) /\ run[r].outcome = "delivered" /\ worker[r] # "none" /\ Holder(r)
      /\ run \in [Runs -> RunRecord] /\ receipt # "NONE"
  BY DEF Close, IInv, GoalBacked, Typed, TypeOK, Before, Executing, OutcomeTrue, HeldOnce, Holder
<1>2. \E pc \in {"final", "failed"} :
        Goto(r, pc) /\ (pc = "final" <=> run[r].end = "delivered")
  BY DEF Close
<1>3. PICK pc \in {"final", "failed"} :
        Goto(r, pc) /\ (pc = "final" <=> run[r].end = "delivered")
  BY <1>2
<1>4. /\ run' \in [Runs -> RunRecord]
      /\ run'[r].pc = pc /\ run'[r].goal = run[r].goal
      /\ run'[r].end = run[r].end /\ run'[r].outcome = run[r].outcome
      /\ \A s \in Runs : s # r => run'[s] = run[s]
  BY <1>1, <1>3, GoesTo, pc \in RunPlaces DEF RunPlaces
<1>5. tombstone' \in Ends \cup {None} /\ receipt' = "FINALIZED"
      /\ (run[r].end = "delivered" => tombstone' = "delivered")
  BY <1>1 DEF Close, RunRecord
<1>6. Typed' /\ TreeKept' /\ Begun' /\ PairLocked'
  BY <1>1, <1>4, <1>5 DEF Close, IInv, Typed, TypeOK, ReceiptPhases, TreeKept, Overtaken, HasEntry,
     Leased, Begun, PairLocked
<1>7. \A s \in Runs : (Holder(s)' <=> Holder(s)) /\ (Before(s)' <=> Before(s))
  BY <1>1, <1>4 DEF Holder, Before, Close
<1>8. HeldOnce'
  BY <1>5, <1>7 DEF IInv, HeldOnce, Close
<1>9. WorkerKnown' /\ ~(pair.handoff >= Finalizing)
  BY <1>1, <1>5 DEF WorkerKnown, Started, Close, IInv, GoalBacked
<1>10. GoalBacked'
  BY <1>1, <1>4, <1>5, <1>9 DEF IInv, GoalBacked, Close
<1>11. \A s \in Runs : IF s = r THEN ~Executing(s)' ELSE Executing(s)' <=> Executing(s)
  BY <1>4 DEF Executing
<1>12. \A s \in Runs : s # r => run[s].outcome # "delivered" /\ ~Holder(s)
  BY <1>1 DEF IInv, HeldOnce, OutcomeTrue, Holder
<1>13. OutcomeTrue'
  <2>1. tombstone # "delivered" /\ pmReceipt # "delivered"
    BY NoneAssumption DEF Close, Ends, IInv, OutcomeTrue
  <2> QED
    BY <1>1, <1>3, <1>4, <1>5, <1>7, <1>11, <1>12, <2>1 DEF IInv, OutcomeTrue, Close
<1> QED
  BY <1>6, <1>8, <1>10, <1>13 DEF IInv

\* A run whose tombstone was not written, or was written by another, goes on.
LEMMA CloseNotKeeps ==
  ASSUME IInv, NEW r \in Runs, CloseNot(r)
  PROVE  IInv'
<1> USE DEF worktree, evidence, processes
<1>1. /\ run[r].pc = "close" /\ lease = "gone" /\ ~Before(r)
      /\ Executing(r) /\ run[r].outcome = "delivered" /\ worker[r] # "none"
      /\ run \in [Runs -> RunRecord] /\ faults' \in 0 .. MaxFaults
  BY WorkerHandoffAssumption DEF CloseNot, IInv, GoalBacked, Typed, TypeOK, Before, Executing,
     OutcomeTrue
<1>2. CASE run[r].end = "delivered"
  <2>1. /\ run' \in [Runs -> RunRecord]
        /\ run'[r].pc = "final" /\ run'[r].goal = run[r].goal
        /\ run'[r].end = run[r].end /\ run'[r].outcome = run[r].outcome
        /\ \A s \in Runs : s # r => run'[s] = run[s]
    BY <1>1, <1>2, GoesTo, "final" \in RunPlaces DEF CloseNot, RunPlaces
  <2>2. Typed' /\ TreeKept' /\ Begun' /\ PairLocked'
    BY <1>1, <2>1 DEF CloseNot, IInv, Typed, TypeOK, TreeKept, Overtaken, HasEntry, Leased, Begun,
       PairLocked
  <2>3. \A s \in Runs : (Holder(s)' <=> Holder(s)) /\ (Before(s)' <=> Before(s))
    BY <1>1, <2>1 DEF Holder, Before, CloseNot
  <2>4. HeldOnce'
    BY <2>3 DEF IInv, HeldOnce, CloseNot
  <2>5. GoalBacked'
    BY <1>1, <2>1 DEF IInv, GoalBacked, CloseNot, WorkerKnown
  <2>6. \A s \in Runs : IF s = r THEN ~Executing(s)' ELSE Executing(s)' <=> Executing(s)
    BY <2>1 DEF Executing
  <2>7. OutcomeTrue'
    BY <1>1, <1>2, <2>1, <2>3, <2>6 DEF IInv, OutcomeTrue, CloseNot
  <2> QED
    BY <2>2, <2>4, <2>5, <2>7 DEF IInv
<1>3. CASE run[r].end # "delivered"
  BY <1>1, <1>3, GoingOn DEF CloseNot, Quiet
<1> QED
  BY <1>2, <1>3

\* The tombstone is there: the handoff is to be FINALIZING.
LEMMA CheckFinalKeeps ==
  ASSUME IInv, NEW r \in Runs, CheckFinal(r)
  PROVE  IInv'
<1> USE DEF worktree, evidence, processes
<1>1. /\ run[r].pc = "final" /\ lease = "gone" /\ ~Before(r)
      /\ run[r].outcome = "delivered" /\ worker[r] # "none"
      /\ task = "review_ready" /\ tombstone \in {None, "delivered"}
      /\ run \in [Runs -> RunRecord] /\ faults \in 0 .. MaxFaults
  BY DEF CheckFinal, IInv, GoalBacked, Typed, TypeOK, Before, OutcomeTrue
<1>2. PICK pc \in {"advance", "failed"} :
        /\ run' = [run EXCEPT ![r].pc = pc, ![r].goal = 5]
        /\ pc = "advance" <=> tombstone # None
  BY DEF CheckFinal, Finalizing
<1>3. /\ run' \in [Runs -> RunRecord]
      /\ run'[r].pc = pc /\ run'[r].goal = 5
      /\ run'[r].end = run[r].end /\ run'[r].outcome = run[r].outcome
      /\ \A s \in Runs : s # r => run'[s] = run[s]
  <2>1. 5 \in HandoffPhases /\ pc \in RunPlaces
    BY DEF RunPlaces, HandoffPhases, Finalized
  <2> QED
    BY <1>1, <1>2, <2>1, GoesFor
<1>4. Typed' /\ TreeKept' /\ Begun' /\ PairLocked'
  BY <1>1, <1>3 DEF CheckFinal, IInv, Typed, TypeOK, TreeKept, Overtaken, HasEntry, Leased, Begun,
     PairLocked
<1>5. \A s \in Runs : (Holder(s)' <=> Holder(s)) /\ (Before(s)' <=> Before(s))
  BY <1>1, <1>3 DEF Holder, Before, CheckFinal
<1>6. HeldOnce'
  BY <1>5 DEF IInv, HeldOnce, CheckFinal
<1>7. GoalBacked'
  BY <1>1, <1>2, <1>3 DEF IInv, GoalBacked, CheckFinal, WorkerKnown, SupervisorStarted
<1>8. \A s \in Runs : IF s = r THEN ~Executing(s)' ELSE Executing(s)' <=> Executing(s)
  BY <1>3 DEF Executing, SupervisorStarted, Acknowledged
<1>9. OutcomeTrue'
  BY <1>1, <1>2, <1>3, <1>5, <1>8 DEF IInv, OutcomeTrue, CheckFinal
<1> QED
  BY <1>4, <1>6, <1>7, <1>9 DEF IInv

\* The receipt that the PM gets.
LEMMA ReportKeeps ==
  ASSUME IInv, NEW r \in Runs, Report(r)
  PROVE  IInv'
<1> USE DEF worktree, evidence, processes
<1>1. /\ run[r].pc = "report" /\ lease # "none" /\ ~Before(r)
      /\ run \in [Runs -> RunRecord] /\ faults \in 0 .. MaxFaults
      /\ pmReceipt' \in {None, "delivered", "replayed", "recovery"}
  BY DEF Report, IInv, Begun, Typed, TypeOK, Before, RunRecord
<1>2. /\ run' \in [Runs -> RunRecord]
      /\ run'[r].pc = "done" /\ run'[r].goal = run[r].goal
      /\ run'[r].end = run[r].end /\ run'[r].outcome = run[r].outcome
      /\ \A s \in Runs : s # r => run'[s] = run[s]
  BY <1>1, GoesTo, "done" \in RunPlaces DEF Report, RunPlaces
<1>3. Typed' /\ TreeKept' /\ Begun' /\ PairLocked'
  BY <1>1, <1>2 DEF Report, IInv, Typed, TypeOK, TreeKept, Overtaken, HasEntry, Leased, Begun,
     PairLocked
<1>4. \A s \in Runs : (Holder(s)' <=> Holder(s)) /\ (Before(s)' <=> Before(s))
  BY <1>1, <1>2 DEF Holder, Before, Report
<1>5. HeldOnce'
  BY <1>4 DEF IInv, HeldOnce, Report
<1>6. GoalBacked'
  BY <1>2 DEF IInv, GoalBacked, Report, WorkerKnown
<1>7. \A s \in Runs : IF s = r THEN ~Executing(s)' ELSE Executing(s)' <=> Executing(s)
  BY <1>2 DEF Executing
<1>8. OutcomeTrue'
  BY <1>1, <1>2, <1>4, <1>7 DEF IInv, OutcomeTrue, Report
<1> QED
  BY <1>3, <1>5, <1>6, <1>8 DEF IInv

\* The steps of the supervisor and of the run that waits for it.
LEMMA ExecutionStepKeeps ==
  ASSUME IInv, NEW r \in Runs, ExecutionStep(r)
  PROVE  IInv'
BY ProcessesKeep, AcknowledgeKeeps, EndsKeep, ExecutionOver, ReleaseKeeps, CloseKeeps,
   CloseNotKeeps, CheckFinalKeeps, ReportKeeps DEF ExecutionStep

\* A process of Managers goes on.
LEMMA ManagerGoes ==
  ASSUME manager \in [Managers -> ManagerRecord], NEW m \in Managers,
         NEW pc \in ManagerPlaces, NEW saw \in BOOLEAN, ManagerGoto(m, pc, saw)
  PROVE  /\ manager' \in [Managers -> ManagerRecord]
         /\ manager'[m].pc = pc /\ manager'[m].saw = saw
         /\ manager'[m].early = manager[m].early
         /\ \A n \in Managers : n # m => manager'[n] = manager[n]
<1> DEFINE new == [manager[m] EXCEPT !.pc = pc, !.saw = saw]
<1>1. manager' = [manager EXCEPT ![m] = new]
  BY DEF ManagerGoto
<1>2. new \in ManagerRecord /\ new.pc = pc /\ new.saw = saw /\ new.early = manager[m].early
  BY DEF ManagerRecord
<1> HIDE DEF new
<1> QED
  BY <1>1, <1>2

\* A release comes to the receipt, with or without an admission in between.
LEMMA ReceiptRead ==
  ASSUME manager \in [Managers -> ManagerRecord], NEW m \in Managers, ReleaseReceipt(m)
  PROVE  /\ manager' \in [Managers -> ManagerRecord]
         /\ manager'[m].pc \in {"idle", "probe", "release"}
         /\ receipt = "NONE" => manager'[m].pc = "idle"
         /\ manager'[m].early <=>
              manager[m].early \/ (manager[m].saw /\ Leased /\ receipt # "NONE")
         /\ \A n \in Managers : n # m => manager'[n] = manager[n]
<1> DEFINE pc == CASE receipt = "NONE"     -> "idle"
                   [] receipt = "RESERVED" -> "release"
                   [] OTHER                -> "probe"
           early == manager[m].early \/ (manager[m].saw /\ Leased /\ receipt # "NONE")
           new == [pc |-> pc, saw |-> receipt \in Started, early |-> early]
<1>1. manager' = [manager EXCEPT ![m] = new]
  BY DEF ReleaseReceipt
<1>2. pc \in {"idle", "probe", "release"} /\ (receipt = "NONE" => pc = "idle") /\ early \in BOOLEAN
  OBVIOUS
<1> HIDE DEF pc, early
<1>3. new \in ManagerRecord /\ new.pc = pc /\ new.early = early
  BY <1>2 DEF ManagerRecord, ManagerPlaces
<1>4. manager'[m].pc = pc /\ manager'[m].early = early /\ manager' \in [Managers -> ManagerRecord]
      /\ \A n \in Managers : n # m => manager'[n] = manager[n]
  BY <1>1, <1>3
<1> QED
  BY <1>2, <1>4 DEF early

\* The worktree in the hands of its managers.
LEMMA TreeStaysKept ==
  ASSUME IInv, NEW m \in Managers, ManagerStep(m)
  PROVE  Typed' /\ TreeKept'
<1>0. /\ manager \in [Managers -> ManagerRecord]
      /\ faults \in 0 .. MaxFaults /\ MaxFaults \in Nat
      /\ TreeKept
  BY WorkerHandoffAssumption DEF IInv, Typed, TypeOK
<1>1. UNCHANGED <<lease, task, evidence, run, processes>>
  BY ManagersAlone
<1>2. /\ manager[m].saw \in BOOLEAN /\ FALSE \in BOOLEAN /\ HasEntry \in BOOLEAN
      /\ lease \in {"none", "held", "lapsed", "gone"}
      /\ tree \in {"none", "clean", "dirty"} /\ record \in RecordPhases
  BY <1>0 DEF ManagerRecord, HasEntry, IInv, Typed, TypeOK
<1>3. ReleaseReceipt(m) \/ \E pc \in ManagerPlaces, saw \in BOOLEAN : ManagerGoto(m, pc, saw)
  <2>1. Reconciled(record', manager[m].saw) \in ManagerPlaces
    BY DEF Reconciled, ManagerPlaces
  <2>2. {"idle", "create", "verify", "publish", "receipt", "release", "remove", "removed"}
          \subseteq ManagerPlaces /\ (lease = "none") \in BOOLEAN
    BY DEF ManagerPlaces
  <2> QED
    BY <1>2, <2>1, <2>2 DEF ManagerStep, CreateRead, CreateRecord, AddWorktree, AddKilled,
       Verify, Publish, ReleaseLeases, ReleaseProbe, ReleaseMark, RemoveTree, ReleaseDone,
       ManagerStops
<1>4. /\ manager' \in [Managers -> ManagerRecord]
      /\ \A n \in Managers : n # m => manager'[n] = manager[n]
  BY <1>0, <1>3, ManagerGoes, ReceiptRead
<1>5. Typed'
  <2>0. /\ record \in RecordPhases /\ branch \in BOOLEAN /\ moved \in BOOLEAN
        /\ tree \in {"none", "clean", "dirty"} /\ (Fault => faults' \in 0 .. MaxFaults)
    BY <1>0 DEF IInv, Typed, TypeOK, Fault
  <2>1. /\ record' \in RecordPhases /\ branch' \in BOOLEAN /\ moved' \in BOOLEAN
        /\ tree' \in {"none", "clean", "dirty"} /\ faults' \in 0 .. MaxFaults
    <3>1. CASE \/ CreateRead(m) \/ Verify(m) \/ ReleaseLeases(m) \/ ReleaseReceipt(m)
               \/ ReleaseProbe(m) \/ ManagerStops(m)
      BY <1>0, <2>0, <3>1 DEF CreateRead, Verify, ReleaseLeases, ReleaseReceipt, ReleaseProbe,
         ManagerStops, worktree
    <3>2. CASE CreateRecord(m) \/ Publish(m) \/ ReleaseMark(m) \/ ReleaseDone(m)
      BY <1>0, <2>0, <3>2 DEF CreateRecord, Publish, ReleaseMark, ReleaseDone, AdvanceRecord,
         RecordPhases
    <3>3. CASE AddWorktree(m) \/ AddKilled(m) \/ RemoveTree(m)
      BY <1>0, <2>0, <3>3 DEF AddWorktree, AddKilled, RemoveTree
    <3> QED
      BY <3>1, <3>2, <3>3 DEF ManagerStep
  <2> QED
    BY <1>1, <1>4, <2>1 DEF IInv, Typed, TypeOK, evidence, processes
<1>6. TreeKept'
  <2> USE DEF worktree, HasEntry, Leased, Exact, Clean
  <2>1. ASSUME NEW p2, NEW w2, ManagerGoto(m, p2, w2)
        PROVE  /\ manager'[m].pc = p2 /\ manager'[m].saw = w2
               /\ manager'[m].early = manager[m].early
    BY <1>0, <2>1 DEF ManagerGoto, ManagerRecord
  <2> USE <1>0, <1>1, <1>2, <1>4, <2>1 DEF TreeKept, Overtaken, evidence
  <2>2. CASE CreateRead(m)
    BY <2>2 DEF CreateRead
  <2>3. CASE CreateRecord(m)
    <3>1. /\ manager'[m].pc \in {"idle", "add", "verify"} /\ manager'[m].early = manager[m].early
          /\ record' = record \/ (record = "NONE" /\ record' = "CREATING")
          /\ UNCHANGED <<branch, tree, moved>>
      BY <2>3 DEF CreateRecord, Reconciled
    <3> QED
      BY <3>1
  <2>4. CASE AddWorktree(m)
    <3>1. /\ manager'[m].pc \in {"idle", "verify"} /\ record' = record
          /\ manager'[m].early = manager[m].early
          /\ \/ UNCHANGED <<branch, tree>>
             \/ ~branch /\ ~HasEntry /\ branch' = TRUE /\ tree' = "clean"
      BY <2>4 DEF AddWorktree
    <3> QED
      BY <3>1
  <2>5. CASE AddKilled(m)
    <3>1. /\ manager'[m].pc = "idle" /\ manager'[m].early = manager[m].early
          /\ UNCHANGED <<record, moved>> /\ ~HasEntry /\ ~branch /\ branch' = TRUE
      BY <2>5 DEF AddKilled
    <3> QED
      BY <3>1
  <2>6. CASE Verify(m)
    <3>1. PICK pc : pc = IF Exact /\ Clean THEN "publish" ELSE "idle"
      OBVIOUS
    <3>2. ManagerGoto(m, pc, FALSE) /\ UNCHANGED worktree
      BY <2>6, <3>1 DEF Verify
    <3>3. /\ manager'[m].pc = pc /\ manager'[m].early = manager[m].early
          /\ pc = "publish" => HasEntry
          /\ pc \in {"idle", "publish"}
      BY <3>1, <3>2
    <3> QED
      BY <3>2, <3>3
  <2>7. CASE Publish(m)
    <3>1. /\ manager'[m].pc = "idle" /\ manager[m].pc = "publish" /\ UNCHANGED <<branch, tree, moved>>
          /\ manager'[m].early = manager[m].early
          /\ \/ UNCHANGED record
             \/ record \in {"CREATING", "READY"} /\ record' = "READY"
      BY <2>7 DEF Publish, AdvanceRecord
    <3> QED
      BY <3>1
  <2>13. CASE ReleaseLeases(m)
    <3>1. /\ manager'[m].pc = "receipt" /\ (manager'[m].saw <=> lease = "none")
          /\ lease \in {"none", "gone"} /\ UNCHANGED worktree /\ manager'[m].early = manager[m].early
      BY <2>13 DEF ReleaseLeases
    <3> QED
      BY <3>1
  <2>14. CASE ReleaseReceipt(m)
    <3>1. /\ manager[m].pc = "receipt" /\ UNCHANGED worktree
          /\ manager'[m].pc \in {"idle", "probe", "release"}
          /\ receipt = "NONE" => manager'[m].pc = "idle"
          /\ manager'[m].early <=>
               manager[m].early \/ (manager[m].saw /\ Leased /\ receipt # "NONE")
      BY <2>14, ReceiptRead DEF ReleaseReceipt
    <3>2. receipt # "NONE" => lease # "none"
      BY DEF IInv, Begun
    <3>3. /\ Overtaken => Overtaken'
          /\ Overtaken' => receipt # "NONE"
      BY <3>1 DEF Overtaken
    <3>4. manager'[m].pc # "idle" => Overtaken' \/ lease = "gone"
      BY <3>1, <3>2 DEF Overtaken
    <3> QED
      BY <3>1, <3>3, <3>4
  <2>8. CASE ReleaseProbe(m)
    <3>1. /\ manager[m].pc = "probe" /\ manager'[m].pc \in {"idle", "release"}
          /\ UNCHANGED worktree /\ manager'[m].early = manager[m].early
      BY <2>8 DEF ReleaseProbe
    <3> QED
      BY <3>1
  <2>9. CASE ReleaseMark(m)
    <3>1. /\ (Overtaken \/ lease = "gone") /\ manager'[m].pc \in {"idle", "remove", "removed"}
          /\ UNCHANGED <<branch, tree, moved>> /\ manager'[m].early = manager[m].early
          /\ \/ UNCHANGED record
             \/ record \in {"READY", "RELEASING"} /\ record' = "RELEASING"
      BY <2>9 DEF ReleaseMark, Releasable
    <3> QED
      BY <3>1
  <2>10. CASE RemoveTree(m)
    <3>1. /\ (Overtaken \/ lease = "gone") /\ manager'[m].pc \in {"idle", "removed"}
          /\ UNCHANGED <<record, branch, moved>> /\ manager'[m].early = manager[m].early
          /\ UNCHANGED tree \/ tree' = "none"
      BY <2>10 DEF RemoveTree
    <3> QED
      BY <3>1
  <2>11. CASE ReleaseDone(m)
    <3>1. /\ (Overtaken \/ lease = "gone") /\ manager'[m].pc = "idle"
          /\ UNCHANGED <<branch, tree, moved>> /\ manager'[m].early = manager[m].early
          /\ \/ UNCHANGED record
             \/ ~HasEntry /\ record \in {"RELEASING", "RELEASED"} /\ record' = "RELEASED"
      BY <2>11 DEF ReleaseDone, AdvanceRecord
    <3> QED
      BY <3>1
  <2>12. CASE ManagerStops(m)
    BY <2>12 DEF ManagerStops
  <2> QED
    BY <2>2, <2>3, <2>4, <2>5, <2>6, <2>7, <2>8, <2>9, <2>10, <2>11, <2>12, <2>13, <2>14
    DEF ManagerStep
<1> QED
  BY <1>5, <1>6

\* What nobody but a run or a manager does.
LEMMA WorldKeeps ==
  ASSUME IInv, Dispatch \/ Lapse \/ Purge \/ RemoveOrphan
  PROVE  IInv'
<1> USE DEF worktree, evidence, processes
<1>1. Typed'
  BY DEF IInv, Typed, TypeOK, Dispatch, Lapse, Purge, RemoveOrphan
<1>2. TreeKept'
  BY DEF IInv, TreeKept, Overtaken, Dispatch, Lapse, Purge, RemoveOrphan, HasEntry, Leased
<1>3. Begun'
  BY DEF IInv, Begun, Dispatch, Lapse, Purge, RemoveOrphan
<1>4. HeldOnce' /\ (WorkerKnown' <=> WorkerKnown)
  BY DEF IInv, HeldOnce, Holder, Before, WorkerKnown, Dispatch, Lapse, Purge, RemoveOrphan
<1>5. PairLocked'
  <2>1. RemoveOrphan => lock \notin Runs
    BY WorkerHandoffAssumption DEF RemoveOrphan
  <2> QED
    BY <2>1 DEF IInv, PairLocked, Dispatch, Lapse, Purge, RemoveOrphan
<1>6. GoalBacked'
  BY <1>4 DEF IInv, GoalBacked, Dispatch, Lapse, Purge, RemoveOrphan
<1>7. OutcomeTrue'
  <2>1. Dispatch => pmReceipt # "delivered" /\ \A r \in Runs : run[r].outcome # "delivered"
    BY NoneAssumption DEF Dispatch, IInv, Begun, HeldOnce, Holder, GoalBacked, OutcomeTrue, Ends
  <2> QED
    BY <2>1 DEF IInv, OutcomeTrue, Executing, Holder, Before, Dispatch, Lapse, Purge, RemoveOrphan
<1> QED
  BY <1>1, <1>2, <1>3, <1>4, <1>5, <1>6, <1>7 DEF IInv

\* A step of a manager: what it does to the tree is all that it does.
LEMMA ManagerStepKeeps ==
  ASSUME IInv, NEW m \in Managers, ManagerStep(m)
  PROVE  IInv'
<1>1. UNCHANGED <<lease, task, evidence, run, processes>> /\ Typed' /\ TreeKept'
  BY ManagersAlone, TreeStaysKept
<1>2. Begun' /\ HeldOnce' /\ PairLocked' /\ GoalBacked'
  BY <1>1 DEF IInv, Begun, HeldOnce, Holder, Before, PairLocked, GoalBacked, WorkerKnown,
     evidence, processes
<1>3. OutcomeTrue'
  BY <1>1 DEF IInv, OutcomeTrue, Executing, Holder, Before, evidence, processes
<1> QED
  BY <1>1, <1>2, <1>3 DEF IInv

\* The recovery of a dispatch whose owner is lost, when no run is under way.
LEMMA RecoverLostKeeps ==
  ASSUME IInv, RecoverLost
  PROVE  IInv'
<1> USE DEF worktree, evidence, processes
<1>1. \A r \in Runs : run[r].pc \in {"idle", "done"} /\ ~Executing(r)
  BY DEF RecoverLost, Executing
<1>2. Typed' /\ TreeKept' /\ Begun' /\ PairLocked'
  BY DEF IInv, Typed, TypeOK, ReceiptPhases, Ends, TreeKept, Overtaken, HasEntry, Leased, Begun, PairLocked,
     RecoverLost
<1>3. \A r \in Runs : (Holder(r)' <=> Holder(r)) /\ (Before(r)' <=> Before(r))
                      /\ (Executing(r)' <=> Executing(r))
  BY DEF Holder, Before, Executing, RecoverLost
<1>4. HeldOnce'
  BY <1>3 DEF IInv, HeldOnce, RecoverLost
<1>5. WorkerKnown => WorkerKnown'
  BY DEF WorkerKnown, Started, RecoverLost
<1>6. GoalBacked'
  BY <1>1, <1>5 DEF IInv, GoalBacked, RecoverLost
<1>7. pmReceipt # "delivered"
  BY NoneAssumption DEF IInv, OutcomeTrue, RecoverLost, Ends
<1>8. OutcomeTrue'
  BY <1>1, <1>3, <1>7 DEF IInv, OutcomeTrue, RecoverLost
<1> QED
  BY <1>2, <1>4, <1>6, <1>8 DEF IInv

\* The initial states have the invariant.
LEMMA InitIInv == Init => IInv
<1> SUFFICES ASSUME Init PROVE IInv
  OBVIOUS
<1> USE DEF Init, Idle
<1>1. \A r \in Runs : run[r] = Idle /\ sup[r] = "none" /\ worker[r] = "none"
  OBVIOUS
<1>2. Idle \in RunRecord /\ 0 \in HandoffPhases
  BY DEF RunRecord, RunPlaces, HandoffPhases, Finalized
<1>3. Typed
  <2>1. run \in [Runs -> RunRecord]
    BY <1>2
  <2>2. manager \in [Managers -> ManagerRecord]
    BY DEF ManagerRecord, ManagerPlaces
  <2>3. 0 \in 0 .. MaxFaults
    BY WorkerHandoffAssumption
  <2> QED
    BY <1>2, <2>1, <2>2, <2>3 DEF Typed, TypeOK, RecordPhases, ReceiptPhases
<1>4. TreeKept
  BY DEF TreeKept, Overtaken, HasEntry, Leased
<1>5. Begun /\ HeldOnce
  BY <1>1 DEF Begun, HeldOnce, Holder
<1>6. PairLocked /\ GoalBacked
  BY <1>1 DEF PairLocked, GoalBacked, HandoffReserved, SupervisorStarted, Finalizing
<1>7. OutcomeTrue
  BY <1>1, NoneAssumption DEF OutcomeTrue, Executing, Holder, Ends
<1> QED
  BY <1>3, <1>4, <1>5, <1>6, <1>7 DEF IInv

\* Every step keeps the invariant.
LEMMA NextIInv == IInv /\ [Next]_vars => IInv'
<1> SUFFICES ASSUME IInv, [Next]_vars PROVE IInv'
  OBVIOUS
<1>1. CASE Next
  BY <1>1, ManagerStepKeeps, StartStepKeeps, ExecutionStepKeeps, WorldKeeps, RecoverLostKeeps
  DEF Next
<1>2. CASE UNCHANGED vars
  BY <1>2 DEF vars, worktree, evidence, processes, IInv, Typed, TypeOK, TreeKept, Overtaken, HasEntry,
     Leased, Begun, HeldOnce, Holder, Before, PairLocked, GoalBacked, WorkerKnown, OutcomeTrue,
     Executing
<1> QED
  BY <1>1, <1>2

\* The invariant of WorkerHandoff: the tree, the receipt, the pair of files and
\* what every run knows agree.
THEOREM Invariance == Spec => []IInv
<1> QED
  BY InitIInv, NextIInv, PTL DEF Spec

\* The worktree, the evidence and the ledger stay in their types.
THEOREM TypeCorrect == Spec => []TypeOK
<1>1. IInv => TypeOK
  BY DEF IInv, Typed
<1> QED
  BY <1>1, Invariance, PTL

\* However many runs execute the receipt of one admission, and wherever they and
\* their supervisors die, at most one worker is ever started.
THEOREM AtMostOneWorker == Spec => []OneWorker
<1>1. IInv => OneWorker
  <2> SUFFICES ASSUME IInv PROVE OneWorker
    OBVIOUS
  <2> DEFINE W == {r \in Runs : worker[r] # "none"}
  <2>1. \A r, s \in W : r = s
    BY DEF IInv, HeldOnce, Holder
  <2>2. CASE W = {}
    BY <2>2, FS_EmptySet DEF OneWorker
  <2>3. CASE \E r : W = {r}
    <3>1. PICK r : W = {r}
      BY <2>3
    <3>2. Cardinality(W) = 1
      BY <3>1, FS_Singleton
    <3> QED
      BY <3>2 DEF OneWorker
  <2> QED
    BY <2>1, <2>2, <2>3
<1> QED
  BY <1>1, Invariance, PTL

\* The handoff never runs ahead of what it summarises, its files are at most one
\* phase apart, and a delivery is reported only when all of it is final.
THEOREM HandoffTrue == Spec => []HandoffBacked
<1>1. IInv => HandoffBacked
  BY DEF IInv, HandoffBacked, PairLocked, GoalBacked, OutcomeTrue, WorkerKnown
<1> QED
  BY <1>1, Invariance, PTL

\* A dispatch with its lease has its worktree, but for a release that read the
\* leases before the admission and the receipt after the reservation; a record
\* that is RELEASED has none.
THEOREM TreeStays == Spec => []WorktreeKept
<1>1. IInv => WorktreeKept
  BY DEF IInv, WorktreeKept, TreeKept, Overtaken, HasEntry, Leased
<1> QED
  BY <1>1, Invariance, PTL
=============================================================================
