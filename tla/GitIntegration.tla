---------------------------- MODULE GitIntegration ----------------------------
(***************************************************************************)
(* The Git integration owner (git_integration_owner.py): integrate() takes *)
(* the report commit of one delivery into the target branch.  It leaves a  *)
(* request and a receipt file for each operation, takes a lock file for    *)
(* every access to them and runs all of git outside that lock, so two      *)
(* callers, of the same operation or of two, meet between any two steps    *)
(* and any of them may die.                                                *)
(*                                                                         *)
(* A commit is the sequence of the steps that lead to it from the commit   *)
(* all work started from: the work of an operation (its report commit is   *)
(* << work >>), the merge of an operation, or a push of a developer.  Git  *)
(* itself (rev-parse, merge-tree, update-ref) is external.                 *)
(***************************************************************************)
EXTENDS Naturals, Sequences, FiniteSets

CONSTANTS
  Ops,          \* the operations, one for each delivery
  Callers,      \* threads and processes that call integrate
  FastForward,  \* the operations whose request asks for FAST_FORWARD
  Clashes,      \* the pairs of operations whose changes conflict
  None,
  MaxPushes,    \* bound: developer commits on the target branch
  MaxFaults     \* bound: errors and crashes

ASSUME BoundsAreNat == MaxPushes \in Nat /\ MaxFaults \in Nat
ASSUME FastForwardOps == FastForward \subseteq Ops

Step == [kind : {"work", "merge"}, op : Ops] \cup {[kind |-> "push"]}
Commit == Seq(Step)

Work(op) == [kind |-> "work", op |-> op]
Merge(op) == [kind |-> "merge", op |-> op]
Push == [kind |-> "push"]

\* The report commit, and the commit the merge of an operation into h gives:
\* parents, message and date are those of the request, so every caller of the
\* operation makes the same commit of the same h.
Report(op) == <<Work(op)>>
MergeCommit(op, h) == Append(h, Merge(op))

\* git merge-base --is-ancestor <report> <commit>
HasReport(op, commit) ==
  \E i \in DOMAIN commit : commit[i] \in {Work(op), Merge(op)}

\* git merge-base --is-ancestor <commit> <report>
ReportHas(op, commit) == commit \in {<<>>, Report(op)}

\* git merge-tree exits with 1.
Conflicting(op, commit) ==
  \E other \in Ops : {op, other} \in Clashes /\ HasReport(other, commit)

Phase == {"RESERVED", "VALIDATED", "TREE_PREPARED", "REF_UPDATED", "FINALIZED"}
Outcome == {"RESERVED", "FAST_FORWARDED", "MERGED", "ALREADY_INTEGRATED",
            "CONFLICT", "FINALIZED"}
Receipt == [phase : Phase, outcome : Outcome, commit : Commit \cup {None},
            refUpdated : BOOLEAN]
NoReceipt == [phase |-> None]
NewReceipt == [phase |-> "RESERVED", outcome |-> "RESERVED", commit |-> None,
               refUpdated |-> FALSE]

ASSUME NoneAssumption ==
  None \notin Phase \cup Outcome \cup Commit

PCs == {"idle", "reserved", "validated", "marked", "prepared", "recorded",
        "updated"}

VARIABLES
  target,    \* the commit of refs/heads/<target_branch>
  request,   \* the durable request of an operation: its expected_target_head
  receipt,   \* the receipt file of each operation
  orphan,    \* a dead process left the lock file behind
  pc,        \* where each call of integrate is
  call,      \* the operation and the expected_target_head a caller asked for
  seen,      \* target_head, the target as the call read it
  result,    \* outcome and commit the call computed
  faults     \* errors and crashes so far

vars == <<target, request, receipt, orphan, pc, call, seen, result, faults>>
files == <<request, receipt, orphan>>
locals == <<call, seen, result>>

NoCall == [op |-> None, expected |-> None]
NoResult == [outcome |-> None, commit |-> None, refUpdated |-> FALSE]

Init ==
  /\ target = <<>>
  /\ request = [op \in Ops |-> None]
  /\ receipt = [op \in Ops |-> NoReceipt]
  /\ orphan = FALSE
  /\ pc = [c \in Callers |-> "idle"]
  /\ call = [c \in Callers |-> NoCall]
  /\ seen = [c \in Callers |-> None]
  /\ result = [c \in Callers |-> NoResult]
  /\ faults = 0

OpOf(c) == call[c].op

-----------------------------------------------------------------------------
(* One call of integrate.  What is done under the lock is one step: nothing *)
(* reads the two files without it.                                          *)

Goto(c, next) == pc' = [pc EXCEPT ![c] = next]

\* The call ends, by a return or by an exception.
Leave(c) ==
  /\ Goto(c, "idle")
  /\ call' = [call EXCEPT ![c] = NoCall]
  /\ seen' = [seen EXCEPT ![c] = None]
  /\ result' = [result EXCEPT ![c] = NoResult]

\* A request is divergent when the operation has another one on disk: the
\* expected_target_head is the only field callers of one operation differ in.
Divergent(op, expected) == request[op] \notin {None, expected}

\* The first critical section: request and receipt are made durable.
Reserve(c, op, expected) ==
  /\ pc[c] = "idle"
  /\ ~orphan
  /\ ~Divergent(op, expected)
  /\ receipt[op].phase # "FINALIZED"
  /\ request' = [request EXCEPT ![op] = expected]
  /\ receipt' = IF receipt[op] = NoReceipt
                THEN [receipt EXCEPT ![op] = NewReceipt] ELSE receipt
  /\ Goto(c, "reserved")
  /\ call' = [call EXCEPT ![c] = [op |-> op, expected |-> expected]]
  /\ UNCHANGED <<target, orphan, seen, result, faults>>

\* The process dies in that section, before or after the first of its files.
ReserveDies(c, op, expected) ==
  /\ pc[c] = "idle"
  /\ ~orphan
  /\ ~Divergent(op, expected)
  /\ faults < MaxFaults
  /\ faults' = faults + 1
  /\ orphan' = TRUE
  /\ request' \in {request, [request EXCEPT ![op] = expected]}
  /\ UNCHANGED <<target, receipt, pc, locals>>

\* The checks on source worktree, source branch and worktree list pass, and
\* target_head is read.
Validate(c) ==
  /\ pc[c] = "reserved"
  /\ seen' = [seen EXCEPT ![c] = target]
  /\ Goto(c, "validated")
  /\ UNCHANGED <<target, files, call, result, faults>>

\* The second critical section.
MarkValidated(c) ==
  /\ pc[c] = "validated"
  /\ ~orphan
  /\ receipt' = [receipt EXCEPT ![OpOf(c)].phase =
                   IF @ = "RESERVED" THEN "VALIDATED" ELSE @]
  /\ Goto(c, "marked")
  /\ UNCHANGED <<target, request, orphan, locals, faults>>

\* Mutated form of Computed: a target that has moved on is merged into.
ComputedStale(op, expected, h) ==
  IF HasReport(op, h) THEN {[outcome |-> "ALREADY_INTEGRATED", commit |-> h]}
  ELSE {[outcome |-> "MERGED", commit |-> MergeCommit(op, h)]}

\* The result for the target the call has read; there is none for a target
\* that is not the expected one, or that the method does not apply to.
Computed(op, expected, h) ==
  CASE HasReport(op, h) -> {[outcome |-> "ALREADY_INTEGRATED", commit |-> h]}
    [] ~HasReport(op, h) /\ h # expected -> {}
    [] ~HasReport(op, h) /\ h = expected /\ op \in FastForward ->
         {[outcome |-> "FAST_FORWARDED", commit |-> Report(op)] :
            x \in {y \in {h} : ReportHas(op, y)}}
    [] OTHER -> IF Conflicting(op, h)
                THEN {[outcome |-> "CONFLICT", commit |-> None]}
                ELSE {[outcome |-> "MERGED", commit |-> MergeCommit(op, h)]}

Prepare(c) ==
  /\ pc[c] = "marked"
  /\ \E r \in Computed(OpOf(c), call[c].expected, seen[c]) :
       result' = [result EXCEPT ![c] =
         [outcome |-> r.outcome, commit |-> r.commit, refUpdated |-> FALSE]]
  /\ Goto(c, "prepared")
  /\ UNCHANGED <<target, files, call, seen, faults>>

\* stale_target, method_not_applicable: an exception.
Reject(c) ==
  /\ pc[c] = "marked"
  /\ Computed(OpOf(c), call[c].expected, seen[c]) = {}
  /\ Leave(c)
  /\ UNCHANGED <<target, files, faults>>

\* The third critical section.
RecordTree(c) ==
  /\ pc[c] = "prepared"
  /\ ~orphan
  /\ receipt' = [receipt EXCEPT ![OpOf(c)] =
       IF @.phase \in {"VALIDATED", "TREE_PREPARED"}
       THEN [@ EXCEPT !.phase = "TREE_PREPARED",
                      !.outcome = result[c].outcome,
                      !.commit = result[c].commit]
       ELSE @]
  /\ Goto(c, "recorded")
  /\ UNCHANGED <<target, request, orphan, locals, faults>>

NeedsRef(c) == result[c].outcome \notin {"ALREADY_INTEGRATED", "CONFLICT"}

\* Mutated form of UpdateRef: the ref is set without an old value.
UpdateRefBlind(c) ==
  /\ pc[c] = "recorded"
  /\ NeedsRef(c)
  /\ target' = result[c].commit
  /\ result' = [result EXCEPT ![c].refUpdated = TRUE]
  /\ Goto(c, "updated")
  /\ UNCHANGED <<files, call, seen, faults>>

\* update-ref with the old value.  The reads before and after it decide the
\* same as the value at the time of the last of them.
UpdateRef(c) ==
  /\ pc[c] = "recorded"
  /\ NeedsRef(c)
  /\ target \in {result[c].commit, call[c].expected}
  /\ target' = result[c].commit
  /\ result' = [result EXCEPT ![c].refUpdated = TRUE]
  /\ Goto(c, "updated")
  /\ UNCHANGED <<files, call, seen, faults>>

NoRefNeeded(c) ==
  /\ pc[c] = "recorded"
  /\ ~NeedsRef(c)
  /\ Goto(c, "updated")
  /\ UNCHANGED <<target, files, locals, faults>>

\* ref_unknown: GitIntegrationRecoveryRequiredError.
RefUnknown(c) ==
  /\ pc[c] = "recorded"
  /\ NeedsRef(c)
  /\ target \notin {result[c].commit, call[c].expected}
  /\ Leave(c)
  /\ UNCHANGED <<target, files, faults>>

\* What the fourth critical section writes: REF_UPDATED, then FINALIZED,
\* whatever phase it finds.
RefUpdatedReceipt(c) ==
  [receipt[OpOf(c)] EXCEPT !.phase = "REF_UPDATED",
                           !.refUpdated = result[c].refUpdated]
\* Mutated form of FinalizedReceipt: the conflict is not told apart.
FinalizedWhateverOutcome(c) ==
  [RefUpdatedReceipt(c) EXCEPT !.phase = "FINALIZED", !.outcome = "FINALIZED"]

FinalizedReceipt(c) ==
  [RefUpdatedReceipt(c) EXCEPT
     !.phase = "FINALIZED",
     !.outcome = IF result[c].outcome = "CONFLICT" THEN "CONFLICT"
                                                   ELSE "FINALIZED"]

Finalize(c) ==
  /\ pc[c] = "updated"
  /\ ~orphan
  /\ receipt' = [receipt EXCEPT ![OpOf(c)] = FinalizedReceipt(c)]
  /\ Leave(c)
  /\ UNCHANGED <<target, request, orphan, faults>>

\* The process dies between the two writes of that section.
FinalizeDies(c) ==
  /\ pc[c] = "updated"
  /\ ~orphan
  /\ faults < MaxFaults
  /\ faults' = faults + 1
  /\ orphan' = TRUE
  /\ receipt' = [receipt EXCEPT ![OpOf(c)] = RefUpdatedReceipt(c)]
  /\ Leave(c)
  /\ UNCHANGED <<target, request>>

\* A git command or a check fails, the lock is not free within five seconds,
\* or the process dies outside the critical sections.
Fail(c) ==
  /\ pc[c] # "idle"
  /\ faults < MaxFaults
  /\ faults' = faults + 1
  /\ Leave(c)
  /\ UNCHANGED <<target, files>>

LockTimeout(c) ==
  /\ pc[c] \in {"validated", "prepared", "updated"}
  /\ orphan
  /\ Leave(c)
  /\ UNCHANGED <<target, files, faults>>

-----------------------------------------------------------------------------
(* The rest of the world. *)

\* A developer moves the target branch forward.
DeveloperPush ==
  /\ Cardinality({i \in DOMAIN target : target[i] = Push}) < MaxPushes
  /\ target' = Append(target, Push)
  /\ UNCHANGED <<files, pc, locals, faults>>

\* Nothing in the code removes the lock file of a dead process: a person does.
RemoveLock ==
  /\ orphan
  /\ orphan' = FALSE
  /\ UNCHANGED <<target, request, receipt, pc, locals, faults>>

\* Steps of a call that is under way.
Continue(c) ==
  \/ Validate(c) \/ MarkValidated(c) \/ Prepare(c) \/ Reject(c)
  \/ RecordTree(c) \/ UpdateRef(c) \/ NoRefNeeded(c) \/ RefUnknown(c)
  \/ Finalize(c) \/ FinalizeDies(c) \/ Fail(c) \/ LockTimeout(c)

\* A caller passes the request it has kept, with the target it read when it
\* made the request, or the current one.
Expectable(op) == {target} \cup ({request[op]} \ {None})

Call(c) ==
  \E op \in Ops : \E expected \in Expectable(op) :
    Reserve(c, op, expected) \/ ReserveDies(c, op, expected)

Next ==
  \/ \E c \in Callers : Call(c) \/ Continue(c)
  \/ DeveloperPush
  \/ RemoveLock

Spec == Init /\ [][Next]_vars

-----------------------------------------------------------------------------
(* Properties *)

TypeOK ==
  /\ target \in Commit
  /\ request \in [Ops -> Commit \cup {None}]
  /\ receipt \in [Ops -> Receipt \cup {NoReceipt}]
  /\ orphan \in BOOLEAN
  /\ pc \in [Callers -> PCs]
  /\ call \in [Callers -> [op : Ops, expected : Commit] \cup {NoCall}]
  /\ seen \in [Callers -> Commit \cup {None}]
  /\ result \in [Callers -> [outcome : Outcome \cup {None},
                             commit : Commit \cup {None},
                             refUpdated : BOOLEAN]]
  /\ faults \in 0..MaxFaults

IsPrefixOf(s, t) == Len(s) <= Len(t) /\ \A i \in DOMAIN s : s[i] = t[i]

\* A finalized receipt tells the truth for good: unless it reports a conflict,
\* its integrated commit holds the report and is part of the target branch.
FinalizedIsInTarget ==
  \A op \in Ops :
    /\ receipt[op].phase = "FINALIZED"
    /\ receipt[op].outcome # "CONFLICT"
    => /\ receipt[op].commit # None
       /\ HasReport(op, receipt[op].commit)
       /\ IsPrefixOf(receipt[op].commit, target)

\* A change that conflicts with one on the branch never gets there.
ClashesKeptApart ==
  \A op, other \in Ops :
    {op, other} \in Clashes /\ op # other =>
      ~(HasReport(op, target) /\ HasReport(other, target))

\* The branch only grows: no integration takes another one, or a developer's
\* commit, off the target branch.
NothingLost == [][IsPrefixOf(target, target')]_target
=============================================================================
