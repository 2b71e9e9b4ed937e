------------------------ MODULE DeliveryReviewProofs ------------------------
(***************************************************************************)
(* Proofs about GitIntegration and about DeliveryReview, which extends it, *)
(* for every set of operations, callers and conflicts and every bound.     *)
(***************************************************************************)
EXTENDS DeliveryReview, TLAPS

-----------------------------------------------------------------------------
(* The inductive invariant. *)

\* An operation whose request is on disk, and the commit that its calls can
\* bring into the target branch: it is one and the same for all of them.
Started(op) == request[op] \in Commit
Candidate(op) == IF op \in FastForward THEN Report(op)
                                       ELSE MergeCommit(op, request[op])

\* The candidate can be made of the expected target.
Fits(op) == IF op \in FastForward THEN request[op] = <<>>
                                  ELSE ~Conflicting(op, request[op])

\* What is on the branch of an operation got there by its candidate.
LandedAsCandidate ==
  \A op \in Ops : HasReport(op, target) =>
    Started(op) /\ Fits(op) /\ IsPrefixOf(Candidate(op), target)

\* What a call or a receipt may report of an operation.
Good(op, commit) ==
  /\ Fits(op)
  /\ commit \in Commit
  /\ HasReport(op, commit)
  /\ commit = Candidate(op) \/ IsPrefixOf(commit, target)

Late == {"TREE_PREPARED", "REF_UPDATED", "FINALIZED"}

ReceiptOK(op) ==
  /\ receipt[op].phase \in Late =>
       /\ Started(op)
       /\ receipt[op].outcome = "CONFLICT" => ~Fits(op)
       /\ receipt[op].outcome # "CONFLICT" => Good(op, receipt[op].commit)
  /\ /\ receipt[op].phase \in {"REF_UPDATED", "FINALIZED"}
     /\ receipt[op].outcome # "CONFLICT"
     => IsPrefixOf(receipt[op].commit, target)

\* The phase of the receipt that a call has brought about.
Reached(c) ==
  /\ pc[c] # "idle" => receipt[OpOf(c)].phase \in Phase
  /\ pc[c] \notin {"idle", "reserved", "validated"} =>
       receipt[OpOf(c)].phase # "RESERVED"
  /\ pc[c] \in {"recorded", "updated"} => receipt[OpOf(c)].phase \in Late

\* What a call has in memory.
CallOK(c) ==
  /\ pc[c] # "idle" =>
       /\ OpOf(c) \in Ops
       /\ Started(OpOf(c))
       /\ call[c].expected = request[OpOf(c)]
  /\ pc[c] \notin {"idle", "reserved"} =>
       seen[c] \in Commit /\ IsPrefixOf(seen[c], target)
  /\ pc[c] \in {"prepared", "recorded", "updated"} =>
       /\ result[c].outcome \in Outcome
       /\ result[c].outcome = "CONFLICT" => ~Fits(OpOf(c))
       /\ result[c].outcome # "CONFLICT" => Good(OpOf(c), result[c].commit)
       /\ result[c].outcome = "ALREADY_INTEGRATED" =>
            IsPrefixOf(result[c].commit, target)
       /\ NeedsRef(c) => result[c].commit = Candidate(OpOf(c))
  /\ pc[c] = "updated" /\ result[c].outcome # "CONFLICT" =>
       IsPrefixOf(result[c].commit, target)

IInv ==
  /\ TypeOK
  /\ LandedAsCandidate
  /\ \A op \in Ops : ReceiptOK(op)
  /\ \A c \in Callers : Reached(c) /\ CallOK(c)
  /\ ClashesKeptApart
-----------------------------------------------------------------------------
(* Commits. *)

\* The steps of a developer, of an operation's report and of its merge are
\* three different ones.
LEMMA StepsDiffer ==
  ASSUME NEW op \in Ops, NEW other \in Ops
  PROVE  /\ Push \in Step /\ Work(op) \in Step /\ Merge(op) \in Step
         /\ Push # Work(op) /\ Push # Merge(op)
         /\ Work(op) # Merge(other)
         /\ Work(op) = Work(other) => op = other
         /\ Merge(op) = Merge(other) => op = other
<1>1. Push.kind = "push" /\ Work(op).kind = "work" /\ Merge(op).kind = "merge"
      /\ Merge(other).kind = "merge"
  BY DEF Push, Work, Merge
<1>2. Work(op).op = op /\ Work(other).op = other
      /\ Merge(op).op = op /\ Merge(other).op = other
  BY DEF Work, Merge
<1>3. Push \in Step /\ Work(op) \in Step /\ Merge(op) \in Step
  BY DEF Step, Push, Work, Merge
<1> QED
  BY <1>1, <1>2, <1>3

\* The order of commits.
LEMMA PrefixOrder ==
  ASSUME NEW s \in Commit, NEW t \in Commit, NEW u \in Commit
  PROVE  /\ IsPrefixOf(s, s)
         /\ IsPrefixOf(<<>>, s)
         /\ IsPrefixOf(s, t) /\ IsPrefixOf(t, u) => IsPrefixOf(s, u)
BY DEF IsPrefixOf, Commit

\* One more step.
LEMMA AppendStep ==
  ASSUME NEW s \in Commit, NEW e \in Step, NEW op \in Ops
  PROVE  /\ Append(s, e) \in Commit
         /\ IsPrefixOf(s, Append(s, e))
         /\ HasReport(op, Append(s, e)) <=>
              HasReport(op, s) \/ e \in {Work(op), Merge(op)}
<1>1. Append(s, e) \in Seq(Step) /\ Len(Append(s, e)) = Len(s) + 1
      /\ Append(s, e)[Len(s) + 1] = e
      /\ \A i \in 1..Len(s) : Append(s, e)[i] = s[i]
  BY DEF Commit
<1>2. DOMAIN s = 1..Len(s) /\ DOMAIN Append(s, e) = 1..(Len(s) + 1)
      /\ Len(s) \in Nat
  BY <1>1 DEF Commit
<1>3. IsPrefixOf(s, Append(s, e))
  BY <1>1, <1>2 DEF IsPrefixOf
<1>4. ASSUME HasReport(op, Append(s, e))
      PROVE  HasReport(op, s) \/ e \in {Work(op), Merge(op)}
  BY <1>1, <1>2, <1>4 DEF HasReport
<1>5. ASSUME HasReport(op, s) \/ e \in {Work(op), Merge(op)}
      PROVE  HasReport(op, Append(s, e))
  BY <1>1, <1>2, <1>5 DEF HasReport
<1> QED
  BY <1>1, <1>3, <1>4, <1>5 DEF Commit

\* A branch that grows keeps what it has.
LEMMA HasReportKept ==
  ASSUME NEW s \in Commit, NEW t \in Commit, NEW op \in Ops,
         IsPrefixOf(s, t), HasReport(op, s)
  PROVE  HasReport(op, t)
BY DEF IsPrefixOf, HasReport, Commit

\* A report names a commit.
LEMMA ReportCommit ==
  ASSUME NEW op \in Ops, NEW other \in Ops
  PROVE  /\ Report(op) \in Commit
         /\ HasReport(op, Report(op))
         /\ HasReport(other, Report(op)) => other = op
         /\ ~HasReport(op, <<>>)
<1>1. Report(op) \in Seq(Step) /\ Len(Report(op)) = 1 /\ Report(op)[1] = Work(op)
  BY StepsDiffer DEF Report
<1>2. DOMAIN Report(op) = {1}
  BY <1>1
<1>3. HasReport(op, Report(op))
  BY <1>1, <1>2 DEF HasReport
<1>4. HasReport(other, Report(op)) => other = op
  BY <1>1, <1>2, StepsDiffer DEF HasReport
<1>5. ~HasReport(op, <<>>)
  BY DEF HasReport
<1> QED
  BY <1>1, <1>3, <1>4, <1>5 DEF Commit
-----------------------------------------------------------------------------
(* What every step keeps. *)

\* DeliveryReview calls integrate with a target that it has read earlier, and
\* has errors and crashes of its own.  The invariant survives both: a call may
\* come with any commit as the expected target.
AnyCall(c) ==
  \E op \in Ops : \E expected \in Commit :
    Reserve(c, op, expected) \/ ReserveDies(c, op, expected)

Elsewhere ==
  /\ faults < MaxFaults
  /\ faults' = faults + 1
  /\ UNCHANGED <<target, files, pc, locals>>

AnyNext ==
  \/ \E c \in Callers : AnyCall(c) \/ Continue(c)
  \/ DeveloperPush
  \/ RemoveLock
  \/ Elsewhere

USE NoneAssumption

\* What the calls of an operation compute, for the target that they read.
LEMMA ComputedResult ==
  ASSUME NEW op \in Ops, NEW h \in Commit, NEW expected \in Commit,
         NEW r \in Computed(op, expected, h)
  PROVE  \/ /\ r.outcome = "ALREADY_INTEGRATED"
            /\ r.commit = h
            /\ HasReport(op, h)
         \/ /\ h = expected
            /\ op \in FastForward
            /\ h = <<>>
            /\ r.outcome = "FAST_FORWARDED"
            /\ r.commit = Report(op)
         \/ /\ h = expected
            /\ op \notin FastForward
            /\ Conflicting(op, h)
            /\ r.outcome = "CONFLICT"
            /\ r.commit = None
         \/ /\ h = expected
            /\ op \notin FastForward
            /\ ~Conflicting(op, h)
            /\ r.outcome = "MERGED"
            /\ r.commit = MergeCommit(op, h)
<1>1. CASE HasReport(op, h)
  BY <1>1 DEF Computed
<1>2. CASE ~HasReport(op, h) /\ h # expected
  <2>1. Computed(op, expected, h) = {}
    BY <1>2 DEF Computed
  <2> QED
    BY <2>1
<1>3. CASE ~HasReport(op, h) /\ h = expected /\ op \in FastForward
  <2>1. Computed(op, expected, h) =
          {[outcome |-> "FAST_FORWARDED", commit |-> Report(op)] :
             x \in {y \in {h} : ReportHas(op, y)}}
    BY <1>3 DEF Computed
  <2>2. ReportHas(op, h) /\ r = [outcome |-> "FAST_FORWARDED", commit |-> Report(op)]
    BY <2>1
  <2>3. h = <<>>
    BY <1>3, <2>2, ReportCommit DEF ReportHas
  <2> QED
    BY <1>3, <2>2, <2>3
<1>4. CASE ~HasReport(op, h) /\ h = expected /\ op \notin FastForward
  <2>1. Computed(op, expected, h) =
          IF Conflicting(op, h)
            THEN {[outcome |-> "CONFLICT", commit |-> None]}
            ELSE {[outcome |-> "MERGED", commit |-> MergeCommit(op, h)]}
    BY <1>4 DEF Computed
  <2> QED
    BY <1>4, <2>1
<1> QED
  BY <1>1, <1>2, <1>3, <1>4

\* A receipt that a call has reached is one.
LEMMA ReceiptThere ==
  ASSUME NEW c \in Callers, TypeOK, Reached(c), OpOf(c) \in Ops, pc[c] # "idle"
  PROVE  receipt[OpOf(c)] \in Receipt
BY DEF TypeOK, Reached, NoReceipt, Receipt

\* The steps are those of the types.
LEMMA TypeStep ==
  ASSUME IInv, [AnyNext]_vars
  PROVE  TypeOK'
<1> USE DEF IInv
<1>1. ASSUME NEW c \in Callers, NEW op \in Ops, NEW expected \in Commit,
             Reserve(c, op, expected)
      PROVE  TypeOK'
  <2>1. expected \in Commit
    BY DEF TypeOK
  <2>2. NewReceipt \in Receipt
    BY DEF NewReceipt, Receipt, Phase, Outcome
  <2>3. receipt' \in [Ops -> Receipt \cup {NoReceipt}]
    BY <1>1, <2>2 DEF Reserve, TypeOK
  <2>4. /\ request' \in [Ops -> Commit \cup {None}]
        /\ pc' \in [Callers -> PCs]
        /\ call' \in [Callers -> [op : Ops, expected : Commit] \cup {NoCall}]
    BY <1>1, <2>1 DEF Reserve, TypeOK, Goto, PCs
  <2> QED
    BY <1>1, <2>3, <2>4 DEF Reserve, TypeOK
<1>2. ASSUME NEW c \in Callers, NEW op \in Ops, NEW expected \in Commit,
             ReserveDies(c, op, expected)
      PROVE  TypeOK'
  <2>1. expected \in Commit
    BY DEF TypeOK
  <2>2. request' \in [Ops -> Commit \cup {None}]
    BY <1>2, <2>1 DEF ReserveDies, TypeOK
  <2>3. faults' \in 0..MaxFaults
    BY <1>2, BoundsAreNat DEF ReserveDies, TypeOK
  <2> QED
    BY <1>2, <2>2, <2>3 DEF ReserveDies, TypeOK, locals
<1>3. ASSUME NEW c \in Callers, Leave(c)
      PROVE  /\ pc' \in [Callers -> PCs]
             /\ call' \in [Callers -> [op : Ops, expected : Commit] \cup {NoCall}]
             /\ seen' \in [Callers -> Commit \cup {None}]
             /\ result' \in [Callers -> [outcome : Outcome \cup {None},
                                         commit : Commit \cup {None},
                                         refUpdated : BOOLEAN]]
  BY <1>3 DEF Leave, Goto, TypeOK, PCs, NoResult
<1>4. ASSUME NEW c \in Callers, Validate(c) \/ NoRefNeeded(c)
      PROVE  TypeOK'
  BY <1>4 DEF Validate, NoRefNeeded, Goto, TypeOK, PCs, files, locals
<1>5. ASSUME NEW c \in Callers, MarkValidated(c)
      PROVE  TypeOK'
  <2>1. receipt[OpOf(c)] \in Receipt
    BY <1>5, ReceiptThere DEF MarkValidated, CallOK
  <2>2. receipt' \in [Ops -> Receipt \cup {NoReceipt}]
    BY <1>5, <2>1 DEF MarkValidated, TypeOK, Receipt, Phase
  <2> QED
    BY <1>5, <2>2 DEF MarkValidated, Goto, TypeOK, PCs, locals
<1>6. ASSUME NEW c \in Callers, Prepare(c)
      PROVE  TypeOK'
  <2>1. PICK r \in Computed(OpOf(c), call[c].expected, seen[c]) :
          result' = [result EXCEPT ![c] =
            [outcome |-> r.outcome, commit |-> r.commit, refUpdated |-> FALSE]]
    BY <1>6 DEF Prepare
  <2>2. /\ seen[c] \in Commit
        /\ OpOf(c) \in Ops
        /\ call[c].expected \in Commit
    BY <1>6 DEF Prepare, CallOK, Started
  <2>3. r.outcome \in Outcome /\ r.commit \in Commit \cup {None}
    <3>1. Report(OpOf(c)) \in Commit /\ MergeCommit(OpOf(c), seen[c]) \in Commit
      BY <2>2, ReportCommit, StepsDiffer, AppendStep DEF MergeCommit
    <3> QED
      BY <2>2, <3>1, ComputedResult DEF Outcome
  <2> QED
    BY <1>6, <2>1, <2>3 DEF Prepare, Goto, TypeOK, PCs, files
<1>7. ASSUME NEW c \in Callers, RecordTree(c)
      PROVE  TypeOK'
  <2>1. receipt[OpOf(c)] \in Receipt
    BY <1>7, ReceiptThere DEF RecordTree, CallOK
  <2>2. result[c].outcome \in Outcome /\ result[c].commit \in Commit \cup {None}
    BY <1>7 DEF RecordTree, CallOK, TypeOK
  <2>3. receipt' \in [Ops -> Receipt \cup {NoReceipt}]
    BY <1>7, <2>1, <2>2 DEF RecordTree, TypeOK, Receipt, Phase
  <2> QED
    BY <1>7, <2>3 DEF RecordTree, Goto, TypeOK, PCs, locals
<1>8. ASSUME NEW c \in Callers, UpdateRef(c)
      PROVE  TypeOK'
  <2>1. result[c].commit \in Commit
    BY <1>8 DEF UpdateRef, CallOK, NeedsRef, Good
  <2> QED
    BY <1>8, <2>1 DEF UpdateRef, Goto, TypeOK, PCs, files
<1>9. ASSUME NEW c \in Callers, Finalize(c) \/ FinalizeDies(c)
      PROVE  TypeOK'
  <2>1. receipt[OpOf(c)] \in Receipt
    BY <1>9, ReceiptThere DEF Finalize, FinalizeDies, CallOK
  <2>2. result[c].refUpdated \in BOOLEAN
    BY DEF TypeOK
  <2>3. RefUpdatedReceipt(c) \in Receipt /\ FinalizedReceipt(c) \in Receipt
    BY <2>1, <2>2 DEF RefUpdatedReceipt, FinalizedReceipt, Receipt, Phase, Outcome
  <2>4. receipt' \in [Ops -> Receipt \cup {NoReceipt}]
    BY <1>9, <2>3 DEF Finalize, FinalizeDies, TypeOK
  <2>5. faults' \in 0..MaxFaults
    BY <1>9, BoundsAreNat DEF Finalize, FinalizeDies, TypeOK
  <2> QED
    BY <1>3, <1>9, <2>4, <2>5 DEF Finalize, FinalizeDies, TypeOK
<1>10. ASSUME NEW c \in Callers,
              Reject(c) \/ RefUnknown(c) \/ Fail(c) \/ LockTimeout(c)
       PROVE  TypeOK'
  <2>1. Leave(c)
    BY <1>10 DEF Reject, RefUnknown, Fail, LockTimeout
  <2>2. faults' \in 0..MaxFaults
    BY <1>10, BoundsAreNat DEF Reject, RefUnknown, Fail, LockTimeout, TypeOK
  <2>3. UNCHANGED <<target, files>>
    BY <1>10 DEF Reject, RefUnknown, Fail, LockTimeout
  <2> QED
    BY <1>3, <2>1, <2>2, <2>3 DEF TypeOK, files
<1>11. CASE DeveloperPush
  <2>1. Append(target, Push) \in Commit
    BY DEF TypeOK, Commit, Push, Step
  <2> QED
    BY <1>11, <2>1 DEF DeveloperPush, TypeOK, files, locals
<1>12. CASE RemoveLock
  BY <1>12 DEF RemoveLock, TypeOK, locals
<1>14. CASE Elsewhere
  <2>1. faults' \in 0..MaxFaults
    BY <1>14, BoundsAreNat DEF Elsewhere, TypeOK
  <2> QED
    BY <1>14, <2>1 DEF Elsewhere, TypeOK, files, locals
<1>13. CASE UNCHANGED vars
  BY <1>13 DEF vars, TypeOK
<1> QED
  BY <1>1, <1>2, <1>4, <1>5, <1>6, <1>7, <1>8, <1>9, <1>10, <1>11, <1>12, <1>13, <1>14
  DEF AnyNext, AnyCall, Continue

\* Requests stay, and the branch only grows.
LEMMA GrowsStep ==
  ASSUME IInv, [AnyNext]_vars
  PROVE  /\ IsPrefixOf(target, target')
         /\ \A op \in Ops : Started(op) => request'[op] = request[op]
<1> USE DEF IInv
<1>0. target \in Commit
  BY DEF TypeOK
<1>1. ASSUME NEW c \in Callers, NEW op \in Ops, NEW expected \in Commit,
             Reserve(c, op, expected) \/ ReserveDies(c, op, expected)
      PROVE  /\ target' = target
             /\ \A o \in Ops : Started(o) => request'[o] = request[o]
  BY <1>1 DEF Reserve, ReserveDies, Divergent, TypeOK, Started
<1>2. ASSUME NEW c \in Callers, UpdateRef(c)
      PROVE  IsPrefixOf(target, target') /\ request' = request
  <2> DEFINE op == OpOf(c)
  <2>1. /\ op \in Ops
        /\ Started(op)
        /\ call[c].expected = request[op]
        /\ Fits(op)
        /\ result[c].commit = Candidate(op)
    BY <1>2 DEF UpdateRef, CallOK, NeedsRef, Good
  <2>2. Candidate(op) \in Commit /\ IsPrefixOf(request[op], Candidate(op))
    BY <2>1, StepsDiffer, ReportCommit, AppendStep, PrefixOrder
    DEF Candidate, Fits, Started, MergeCommit
  <2> QED
    BY <1>0, <1>2, <2>1, <2>2, PrefixOrder DEF UpdateRef, files
<1>3. CASE DeveloperPush
  <2>1. Push \in Step
    BY DEF Push, Step
  <2>2. ASSUME Ops = {}
        PROVE  IsPrefixOf(target, target')
    BY <1>0, <1>3, <2>1 DEF DeveloperPush, IsPrefixOf, Commit
  <2>3. IsPrefixOf(target, target')
    BY <1>0, <1>3, <2>1, <2>2, AppendStep DEF DeveloperPush
  <2> QED
    BY <1>3, <2>3 DEF DeveloperPush, files
<1>4. ASSUME target' = target
      PROVE  IsPrefixOf(target, target')
  BY <1>0, <1>4, PrefixOrder
<1>5. ASSUME NEW c \in Callers,
             \/ Validate(c) \/ MarkValidated(c) \/ Prepare(c) \/ Reject(c)
             \/ RecordTree(c) \/ NoRefNeeded(c) \/ RefUnknown(c)
             \/ Finalize(c) \/ FinalizeDies(c) \/ Fail(c) \/ LockTimeout(c)
      PROVE  target' = target /\ request' = request
  BY <1>5 DEF Validate, MarkValidated, Prepare, Reject, RecordTree,
              NoRefNeeded, RefUnknown, Finalize, FinalizeDies, Fail,
              LockTimeout, files
<1>6. CASE RemoveLock \/ Elsewhere \/ UNCHANGED vars
  BY <1>4, <1>6 DEF RemoveLock, Elsewhere, vars, files
<1> QED
  BY <1>1, <1>2, <1>3, <1>4, <1>5, <1>6 DEF AnyNext, AnyCall, Continue

\* What a request says of its operation stays with it.
LEMMA SameRequest ==
  ASSUME NEW op \in Ops, request'[op] = request[op]
  PROVE  /\ Started(op)' <=> Started(op)
         /\ Fits(op)' <=> Fits(op)
         /\ Candidate(op)' = Candidate(op)
BY DEF Started, Fits, Candidate

\* The candidate that is made of the expected target.
LEMMA CandidateFits ==
  ASSUME NEW op \in Ops, Started(op), Fits(op)
  PROVE  /\ Candidate(op) \in Commit
         /\ HasReport(op, Candidate(op))
         /\ \A other \in Ops : HasReport(other, Candidate(op)) =>
              other = op \/ HasReport(other, request[op])
<1>1. CASE op \in FastForward
  BY <1>1, ReportCommit DEF Candidate
<1>2. CASE op \notin FastForward
  BY <1>2, StepsDiffer, AppendStep DEF Candidate, MergeCommit, Started
<1> QED
  BY <1>1, <1>2

\* The branch: what lands on it lands as a candidate, and apart from what it
\* conflicts with.
LEMMA LandedStep ==
  ASSUME IInv, [AnyNext]_vars
  PROVE  LandedAsCandidate' /\ ClashesKeptApart'
<1> USE DEF IInv
<1>1. /\ target \in Commit /\ target' \in Commit
      /\ IsPrefixOf(target, target')
      /\ \A op \in Ops : Started(op) => request'[op] = request[op]
  BY TypeStep, GrowsStep DEF TypeOK
<1>2. ASSUME \A op \in Ops : HasReport(op, target') => HasReport(op, target)
      PROVE  LandedAsCandidate' /\ ClashesKeptApart'
  <2>1. ASSUME NEW op \in Ops, HasReport(op, target')
        PROVE  Started(op)' /\ Fits(op)' /\ IsPrefixOf(Candidate(op), target)'
    <3>1. Started(op) /\ Fits(op) /\ IsPrefixOf(Candidate(op), target)
      BY <1>2, <2>1 DEF LandedAsCandidate
    <3>2. Candidate(op) \in Commit /\ request'[op] = request[op]
      BY <1>1, <3>1, CandidateFits
    <3>3. IsPrefixOf(Candidate(op), target')
      BY <1>1, <3>1, <3>2, PrefixOrder
    <3> QED
      BY <3>1, <3>2, <3>3, SameRequest
  <2>2. LandedAsCandidate'
    BY <2>1 DEF LandedAsCandidate
  <2>3. ClashesKeptApart'
    BY <1>2 DEF ClashesKeptApart
  <2> QED
    BY <2>2, <2>3
<1>3. ASSUME NEW c \in Callers, UpdateRef(c)
      PROVE  LandedAsCandidate' /\ ClashesKeptApart'
  <2> DEFINE op == OpOf(c)
  <2>1. /\ op \in Ops
        /\ Started(op)
        /\ call[c].expected = request[op]
        /\ Fits(op)
        /\ result[c].commit = Candidate(op)
    BY <1>3 DEF UpdateRef, CallOK, NeedsRef, Good
  <2>2. target' = Candidate(op) /\ request' = request
    BY <1>3, <2>1 DEF UpdateRef, files
  <2>3. CASE target = Candidate(op)
    BY <1>2, <2>2, <2>3
  <2>4. CASE target = request[op]
    <3>1. ASSUME NEW other \in Ops, HasReport(other, target')
          PROVE  other = op \/ HasReport(other, target)
      BY <2>1, <2>2, <2>4, <3>1, CandidateFits
    <3>2. ASSUME NEW other \in Ops, HasReport(other, target')
          PROVE  /\ Started(other)' /\ Fits(other)'
                 /\ IsPrefixOf(Candidate(other), target)'
      <4>1. Started(other) /\ Fits(other)
        BY <2>1, <3>1, <3>2 DEF LandedAsCandidate
      <4>2. Candidate(other) \in Commit /\ request'[other] = request[other]
        BY <2>2, <4>1, CandidateFits
      <4>3. IsPrefixOf(Candidate(other), target')
        BY <1>1, <2>2, <3>1, <3>2, <4>2, PrefixOrder DEF LandedAsCandidate
      <4> QED
        BY <4>1, <4>2, <4>3, SameRequest
    <3>3. LandedAsCandidate'
      BY <3>2 DEF LandedAsCandidate
    <3>4. ASSUME NEW other \in Ops, {op, other} \in Clashes, other # op
          PROVE  ~HasReport(other, target)
      <4>1. CASE op \in FastForward
        BY <2>1, <2>4, <4>1, ReportCommit DEF Fits
      <4>2. CASE op \notin FastForward
        BY <2>1, <2>4, <3>4, <4>2 DEF Fits, Conflicting
      <4> QED
        BY <4>1, <4>2
    <3>5. ASSUME NEW o1 \in Ops, NEW o2 \in Ops, {o1, o2} \in Clashes, o1 # o2,
                 HasReport(o1, target'), HasReport(o2, target')
          PROVE  FALSE
      <4>1. {o2, o1} \in Clashes
        <5>1. {o2, o1} = {o1, o2}
          OBVIOUS
        <5> QED
          BY <3>5, <5>1
      <4>2. CASE o1 = op
        BY <3>1, <3>4, <3>5, <4>2
      <4>3. CASE o2 = op
        BY <3>1, <3>4, <3>5, <4>1, <4>3
      <4>4. CASE o1 # op /\ o2 # op
        BY <3>1, <3>5, <4>4 DEF ClashesKeptApart
      <4> QED
        BY <4>2, <4>3, <4>4
    <3>6. ClashesKeptApart'
      BY <3>5 DEF ClashesKeptApart
    <3> QED
      BY <3>3, <3>6
  <2> QED
    BY <1>3, <2>1, <2>3, <2>4 DEF UpdateRef
<1>4. CASE DeveloperPush
  <2>1. ASSUME NEW op \in Ops, HasReport(op, target')
        PROVE  HasReport(op, target)
    BY <1>1, <1>4, <2>1, StepsDiffer, AppendStep DEF DeveloperPush
  <2> QED
    BY <1>2, <2>1
<1>5. ASSUME target' = target
      PROVE  LandedAsCandidate' /\ ClashesKeptApart'
  BY <1>2, <1>5
<1>6. ASSUME NEW c \in Callers,
             \/ Validate(c) \/ MarkValidated(c) \/ Prepare(c) \/ Reject(c)
             \/ RecordTree(c) \/ NoRefNeeded(c) \/ RefUnknown(c)
             \/ Finalize(c) \/ FinalizeDies(c) \/ Fail(c) \/ LockTimeout(c)
      PROVE  target' = target
  BY <1>6 DEF Validate, MarkValidated, Prepare, Reject, RecordTree,
              NoRefNeeded, RefUnknown, Finalize, FinalizeDies, Fail, LockTimeout
<1>7. ASSUME NEW c \in Callers, AnyCall(c)
      PROVE  target' = target
  BY <1>7 DEF AnyCall, Reserve, ReserveDies
<1>8. CASE RemoveLock \/ Elsewhere \/ UNCHANGED vars
  BY <1>5, <1>8 DEF RemoveLock, Elsewhere, vars, files, locals
<1> QED
  BY <1>3, <1>4, <1>5, <1>6, <1>7, <1>8 DEF AnyNext, Continue

\* What is good of an operation stays good.
LEMMA GoodKept ==
  ASSUME IInv, [AnyNext]_vars, NEW op \in Ops, Started(op)
  PROVE  /\ request'[op] = request[op]
         /\ \A commit \in Commit :
              IsPrefixOf(commit, target) => IsPrefixOf(commit, target')
<1>1. target \in Commit /\ target' \in Commit /\ IsPrefixOf(target, target')
  BY TypeStep, GrowsStep DEF TypeOK, IInv
<1> QED
  BY <1>1, GrowsStep, PrefixOrder

\* A receipt that is not written stays true.
LEMMA ReceiptKept ==
  ASSUME IInv, [AnyNext]_vars, NEW op \in Ops, receipt'[op] = receipt[op]
  PROVE  ReceiptOK(op)'
<1>1. CASE receipt[op].phase \in Late
  <2>1. ReceiptOK(op) /\ Started(op)
    BY <1>1 DEF IInv, ReceiptOK
  <2>2. request'[op] = request[op]
    BY <2>1, GoodKept
  <2>3. ASSUME Good(op, receipt[op].commit)
        PROVE  /\ Good(op, receipt[op].commit)'
               /\ IsPrefixOf(receipt[op].commit, target) =>
                    IsPrefixOf(receipt[op].commit, target')
    BY <2>1, <2>2, <2>3, GoodKept, SameRequest DEF Good
  <2> QED
    BY <1>1, <2>1, <2>2, <2>3, SameRequest DEF ReceiptOK, Late
<1>2. CASE receipt[op].phase \notin Late
  BY <1>2 DEF ReceiptOK, Late
<1> QED
  BY <1>1, <1>2

\* A call that has its integration in the branch finds its receipt true of it.
LEMMA Landed ==
  ASSUME IInv, NEW c \in Callers, pc[c] = "updated"
  PROVE  LET op == OpOf(c) IN
         /\ op \in Ops
         /\ receipt[op].phase \in Late
         /\ Started(op)
         /\ receipt[op].outcome = "CONFLICT" => ~Fits(op)
         /\ receipt[op].outcome # "CONFLICT" =>
              /\ Good(op, receipt[op].commit)
              /\ IsPrefixOf(receipt[op].commit, target)
         /\ result[c].outcome = "CONFLICT" <=> receipt[op].outcome = "CONFLICT"
<1> DEFINE op == OpOf(c)
<1>1. op \in Ops /\ Started(op) /\ receipt[op].phase \in Late
  BY DEF IInv, CallOK, Reached
<1>2. /\ receipt[op].outcome = "CONFLICT" => ~Fits(op)
      /\ receipt[op].outcome # "CONFLICT" => Good(op, receipt[op].commit)
  BY <1>1 DEF IInv, ReceiptOK
<1>3. /\ result[c].outcome = "CONFLICT" => ~Fits(op)
      /\ result[c].outcome # "CONFLICT" => Good(op, result[c].commit)
  BY DEF IInv, CallOK
<1>4. result[c].outcome = "CONFLICT" <=> receipt[op].outcome = "CONFLICT"
  BY <1>2, <1>3 DEF Good
<1>5. ASSUME receipt[op].outcome # "CONFLICT"
      PROVE  IsPrefixOf(receipt[op].commit, target)
  <2>1. result[c].commit \in Commit /\ HasReport(op, result[c].commit)
        /\ IsPrefixOf(result[c].commit, target)
    BY <1>3, <1>4, <1>5 DEF IInv, CallOK, Good
  <2>2. HasReport(op, target)
    BY <1>1, <2>1, HasReportKept DEF IInv, TypeOK
  <2>3. IsPrefixOf(Candidate(op), target)
    BY <1>1, <2>2 DEF IInv, LandedAsCandidate
  <2> QED
    BY <1>2, <1>5, <2>3 DEF Good
<1> QED
  BY <1>1, <1>2, <1>4, <1>5

\* A step leaves every receipt true of the branch: this is where a second call
\* of the operation may write over what the first one wrote.
LEMMA ReceiptStep ==
  ASSUME IInv, [AnyNext]_vars, NEW op \in Ops
  PROVE  ReceiptOK(op)'
<1> SUFFICES ASSUME receipt'[op] # receipt[op]
             PROVE  ReceiptOK(op)'
  BY ReceiptKept
<1>0. receipt \in [Ops -> Receipt \cup {NoReceipt}]
  BY DEF IInv, TypeOK
<1>1. ASSUME NEW c \in Callers, AnyCall(c)
      PROVE  ReceiptOK(op)'
  <2>1. receipt'[op] = NewReceipt
    BY <1>0, <1>1 DEF AnyCall, Reserve, ReserveDies
  <2> QED
    BY <2>1 DEF ReceiptOK, NewReceipt, Late
<1>2. ASSUME NEW c \in Callers, MarkValidated(c)
      PROVE  ReceiptOK(op)'
  <2>1. receipt[OpOf(c)] \in Receipt /\ op = OpOf(c)
    BY <1>0, <1>2, ReceiptThere DEF MarkValidated, IInv, CallOK
  <2>2. receipt'[op].phase = "VALIDATED"
    BY <1>0, <1>2, <2>1 DEF MarkValidated, Receipt
  <2> QED
    BY <2>2 DEF ReceiptOK, Late
<1>3. ASSUME NEW c \in Callers, RecordTree(c)
      PROVE  ReceiptOK(op)'
  <2>1. receipt[OpOf(c)] \in Receipt /\ op = OpOf(c)
    BY <1>0, <1>3, ReceiptThere DEF RecordTree, IInv, CallOK
  <2>2. /\ receipt'[op].phase = "TREE_PREPARED"
        /\ receipt'[op].outcome = result[c].outcome
        /\ receipt'[op].commit = result[c].commit
    BY <1>0, <1>3, <2>1 DEF RecordTree, Receipt
  <2>3. /\ Started(op)
        /\ result[c].outcome = "CONFLICT" => ~Fits(op)
        /\ result[c].outcome # "CONFLICT" => Good(op, result[c].commit)
    BY <1>3, <2>1 DEF RecordTree, IInv, CallOK
  <2>4. target' = target /\ request' = request
    BY <1>3 DEF RecordTree
  <2>5. Started(op)' /\ (Fits(op)' <=> Fits(op)) /\ Candidate(op)' = Candidate(op)
    BY <2>3, <2>4, SameRequest
  <2> QED
    BY <2>2, <2>3, <2>4, <2>5 DEF ReceiptOK, Good
<1>4. ASSUME NEW c \in Callers, Finalize(c) \/ FinalizeDies(c)
      PROVE  ReceiptOK(op)'
  <2>1. pc[c] = "updated" /\ target' = target /\ request' = request
    BY <1>4 DEF Finalize, FinalizeDies
  <2>2. receipt[OpOf(c)] \in Receipt /\ op = OpOf(c)
    BY <1>0, <1>4, <2>1, ReceiptThere DEF Finalize, FinalizeDies, IInv, CallOK
  <2>3. /\ receipt'[op].commit = receipt[op].commit
        /\ receipt'[op].outcome = "CONFLICT" <=> receipt[op].outcome = "CONFLICT"
    <3>1. receipt'[op] \in {RefUpdatedReceipt(c), FinalizedReceipt(c)}
      BY <1>0, <1>4, <2>2 DEF Finalize, FinalizeDies
    <3>2. result[c].outcome = "CONFLICT" <=> receipt[op].outcome = "CONFLICT"
      BY <2>1, <2>2, Landed
    <3> QED
      BY <2>2, <3>1, <3>2 DEF RefUpdatedReceipt, FinalizedReceipt, Receipt
  <2>4. /\ Started(op)
        /\ receipt[op].outcome = "CONFLICT" => ~Fits(op)
        /\ receipt[op].outcome # "CONFLICT" =>
             Good(op, receipt[op].commit) /\ IsPrefixOf(receipt[op].commit, target)
    BY <2>1, <2>2, Landed
  <2>5. Started(op)' /\ (Fits(op)' <=> Fits(op)) /\ Candidate(op)' = Candidate(op)
    BY <2>1, <2>4, SameRequest
  <2> QED
    BY <2>1, <2>3, <2>4, <2>5 DEF ReceiptOK, Good
<1>5. ASSUME NEW c \in Callers,
             \/ Validate(c) \/ Prepare(c) \/ Reject(c) \/ UpdateRef(c)
             \/ NoRefNeeded(c) \/ RefUnknown(c) \/ Fail(c) \/ LockTimeout(c)
      PROVE  FALSE
  BY <1>5 DEF Validate, Prepare, Reject, UpdateRef, NoRefNeeded, RefUnknown,
              Fail, LockTimeout, files
<1>6. CASE DeveloperPush \/ RemoveLock \/ Elsewhere \/ UNCHANGED vars
  BY <1>6 DEF DeveloperPush, RemoveLock, Elsewhere, vars, files
<1> QED
  BY <1>1, <1>2, <1>3, <1>4, <1>5, <1>6 DEF AnyNext, Continue

\* A receipt never falls back behind a call that goes on with it.
NotBack(op) ==
  /\ receipt[op].phase \in Phase => receipt'[op].phase \in Phase
  /\ receipt[op].phase \in Phase \ {"RESERVED"} =>
       receipt'[op].phase \in Phase \ {"RESERVED"}
  /\ receipt[op].phase \in Late => receipt'[op].phase \in Late

\* A finished push or read of the target is never undone by a later step.
LEMMA NeverBack ==
  ASSUME IInv, [AnyNext]_vars, NEW op \in Ops
  PROVE  NotBack(op)
<1> SUFFICES ASSUME receipt'[op] # receipt[op], receipt[op].phase \in Phase
             PROVE  NotBack(op)
  BY DEF NotBack, Late, Phase
<1>0. receipt \in [Ops -> Receipt \cup {NoReceipt}] /\ receipt[op] \in Receipt
  BY DEF IInv, TypeOK, NoReceipt, Receipt
<1>1. ASSUME NEW c \in Callers, AnyCall(c)
      PROVE  FALSE
  BY <1>0, <1>1 DEF AnyCall, Reserve, ReserveDies, NoReceipt
<1>2. ASSUME NEW c \in Callers, MarkValidated(c)
      PROVE  NotBack(op)
  BY <1>0, <1>2 DEF MarkValidated, NotBack, Late, Phase, Receipt
<1>3. ASSUME NEW c \in Callers, RecordTree(c)
      PROVE  NotBack(op)
  BY <1>0, <1>3 DEF RecordTree, NotBack, Late, Phase, Receipt
<1>4. ASSUME NEW c \in Callers, Finalize(c) \/ FinalizeDies(c)
      PROVE  NotBack(op)
  <2>1. receipt'[op] \in {RefUpdatedReceipt(c), FinalizedReceipt(c)} /\ op = OpOf(c)
    BY <1>0, <1>4 DEF Finalize, FinalizeDies
  <2>2. receipt'[op].phase \in {"REF_UPDATED", "FINALIZED"}
    BY <1>0, <2>1 DEF RefUpdatedReceipt, FinalizedReceipt, Receipt
  <2> QED
    BY <2>2 DEF NotBack, Late, Phase
<1>5. ASSUME NEW c \in Callers,
             \/ Validate(c) \/ Prepare(c) \/ Reject(c) \/ UpdateRef(c)
             \/ NoRefNeeded(c) \/ RefUnknown(c) \/ Fail(c) \/ LockTimeout(c)
      PROVE  FALSE
  BY <1>5 DEF Validate, Prepare, Reject, UpdateRef, NoRefNeeded, RefUnknown,
              Fail, LockTimeout, files
<1>6. CASE DeveloperPush \/ RemoveLock \/ Elsewhere \/ UNCHANGED vars
  BY <1>6 DEF DeveloperPush, RemoveLock, Elsewhere, vars, files
<1> QED
  BY <1>1, <1>2, <1>3, <1>4, <1>5, <1>6 DEF AnyNext, Continue

\* A call that does not move is as it was.
LEMMA CallKept ==
  ASSUME IInv, [AnyNext]_vars, NEW c \in Callers,
         pc'[c] = pc[c], call'[c] = call[c], seen'[c] = seen[c],
         result'[c] = result[c]
  PROVE  Reached(c)' /\ CallOK(c)'
<1>1. CASE pc[c] = "idle"
  BY <1>1 DEF Reached, CallOK
<1>2. CASE pc[c] # "idle"
  <2> DEFINE op == OpOf(c)
  <2>1. /\ op \in Ops /\ op' = op
        /\ Started(op)
        /\ call[c].expected = request[op]
    BY <1>2 DEF IInv, CallOK, OpOf
  <2>2. NotBack(op)
    BY <2>1, NeverBack
  <2>3. Reached(c)'
    BY <1>2, <2>1, <2>2 DEF IInv, Reached, NotBack
  <2>4. request'[op] = request[op]
    BY <2>1, GoodKept
  <2>5. \A commit \in Commit :
          IsPrefixOf(commit, target) => IsPrefixOf(commit, target')
    BY <2>1, GoodKept
  <2>6. Started(op)' /\ (Fits(op)' <=> Fits(op)) /\ Candidate(op)' = Candidate(op)
    BY <2>1, <2>4, SameRequest
  <2>7. NeedsRef(c)' <=> NeedsRef(c)
    BY DEF NeedsRef
  <2>8. CallOK(c)
    BY DEF IInv
  <2>9. Good(op, result[c].commit) => Good(op, result[c].commit)'
    BY <2>1, <2>5, <2>6 DEF Good
  <2>10. Good(op, result[c].commit) => result[c].commit \in Commit
    BY DEF Good
  <2>11. CallOK(c)'
    BY <1>2, <2>1, <2>4, <2>5, <2>6, <2>7, <2>8, <2>9, <2>10 DEF CallOK
  <2> QED
    BY <2>3, <2>11
<1> QED
  BY <1>1, <1>2

\* A call that does move.
LEMMA CallStep ==
  ASSUME IInv, [AnyNext]_vars, NEW c \in Callers
  PROVE  Reached(c)' /\ CallOK(c)'
<1> SUFFICES ASSUME ~ /\ pc'[c] = pc[c]
                      /\ call'[c] = call[c]
                      /\ seen'[c] = seen[c]
                      /\ result'[c] = result[c]
             PROVE  Reached(c)' /\ CallOK(c)'
  BY CallKept
<1> DEFINE op == OpOf(c)
<1>0. TypeOK /\ Reached(c) /\ CallOK(c)
  BY DEF IInv
<1>1. ASSUME NEW d \in Callers, AnyCall(d)
      PROVE  Reached(c)' /\ CallOK(c)'
  <2>0. PICK o \in Ops : \E expected \in Commit : Reserve(c, o, expected)
    BY <1>0, <1>1 DEF AnyCall, Reserve, ReserveDies, Goto, locals, TypeOK
  <2>1. PICK expected \in Commit : Reserve(c, o, expected)
    BY <2>0
  <2>2. expected \in Commit
    BY <1>0 DEF TypeOK
  <2>3. /\ pc'[c] = "reserved"
        /\ call'[c] = [op |-> o, expected |-> expected]
        /\ request'[o] = expected
    BY <1>0, <2>1 DEF Reserve, Goto, TypeOK
  <2>4. receipt'[o].phase \in Phase
    BY <1>0, <2>1 DEF Reserve, TypeOK, NewReceipt, Receipt, Phase
  <2> QED
    BY <2>2, <2>3, <2>4 DEF Reached, CallOK, OpOf, Started
<1>2. ASSUME NEW d \in Callers, Leave(d)
      PROVE  Reached(c)' /\ CallOK(c)'
  <2>1. pc'[c] = "idle"
    BY <1>0, <1>2 DEF Leave, Goto, TypeOK
  <2> QED
    BY <2>1 DEF Reached, CallOK
<1>3. ASSUME NEW d \in Callers,
             \/ Validate(d) \/ MarkValidated(d) \/ Prepare(d)
             \/ RecordTree(d) \/ UpdateRef(d) \/ NoRefNeeded(d)
      PROVE  /\ d = c
             /\ pc[c] # "idle" /\ pc'[c] # "idle"
             /\ op \in Ops /\ op' = op
             /\ call'[c] = call[c]
             /\ request' = request
             /\ Started(op) /\ Started(op)' /\ call'[c].expected = request'[op]
             /\ Fits(op)' <=> Fits(op)
             /\ Candidate(op)' = Candidate(op)
             /\ \A commit \in Commit :
                  IsPrefixOf(commit, target) => IsPrefixOf(commit, target')
             /\ NotBack(op)
  <2>1. /\ d = c /\ pc[c] # "idle" /\ pc'[c] # "idle"
        /\ call'[c] = call[c]
        /\ request' = request
    BY <1>0, <1>3 DEF Validate, MarkValidated, Prepare, RecordTree, UpdateRef,
                      NoRefNeeded, Goto, TypeOK, files, locals
  <2>2. op \in Ops /\ op' = op /\ Started(op) /\ call[c].expected = request[op]
    BY <1>0, <2>1 DEF CallOK, OpOf
  <2> QED
    BY <2>1, <2>2, GoodKept, SameRequest, NeverBack
<1>4. ASSUME NEW d \in Callers, Validate(d)
      PROVE  Reached(c)' /\ CallOK(c)'
  <2>1. d = c /\ op \in Ops /\ op' = op /\ NotBack(op)
        /\ Started(op)' /\ call'[c].expected = request'[op]
    BY <1>3, <1>4
  <2>2. /\ pc[c] = "reserved" /\ pc'[c] = "validated"
        /\ seen'[c] = target /\ target' = target /\ target \in Commit
    BY <1>0, <1>4, <2>1 DEF Validate, Goto, TypeOK
  <2> QED
    BY <1>0, <2>1, <2>2, PrefixOrder DEF Reached, CallOK, NotBack
<1>5. ASSUME NEW d \in Callers, MarkValidated(d)
      PROVE  Reached(c)' /\ CallOK(c)'
  <2>1. d = c /\ op \in Ops /\ op' = op /\ NotBack(op)
        /\ Started(op)' /\ call'[c].expected = request'[op]
    BY <1>3, <1>5
  <2>2. /\ pc[c] = "validated" /\ pc'[c] = "marked"
        /\ seen'[c] = seen[c] /\ target' = target
    BY <1>0, <1>5, <2>1 DEF MarkValidated, Goto, TypeOK, locals
  <2>3. receipt[op] \in Receipt
    BY <1>0, <2>1, <2>2, ReceiptThere
  <2>4. receipt'[op].phase \in Phase \ {"RESERVED"}
    BY <1>0, <1>5, <2>1, <2>3 DEF MarkValidated, TypeOK, Receipt, Phase
  <2> QED
    BY <1>0, <2>1, <2>2, <2>4 DEF Reached, CallOK
<1>6. ASSUME NEW d \in Callers, Prepare(d)
      PROVE  Reached(c)' /\ CallOK(c)'
  <2>1. /\ d = c /\ op \in Ops /\ op' = op /\ NotBack(op)
        /\ Started(op) /\ Started(op)' /\ call'[c].expected = request'[op]
        /\ Fits(op)' <=> Fits(op)
        /\ Candidate(op)' = Candidate(op)
        /\ request' = request
    BY <1>3, <1>6
  <2>2. /\ pc[c] = "marked" /\ pc'[c] = "prepared"
        /\ seen'[c] = seen[c] /\ target' = target
        /\ seen[c] \in Commit /\ IsPrefixOf(seen[c], target)
        /\ call[c].expected = request[op] /\ request[op] \in Commit
    BY <1>0, <1>6, <2>1 DEF Prepare, Goto, TypeOK, CallOK, Started
  <2>3. PICK r \in Computed(op, call[c].expected, seen[c]) :
          result'[c] = [outcome |-> r.outcome, commit |-> r.commit,
                        refUpdated |-> FALSE]
    BY <1>0, <1>6, <2>1 DEF Prepare, TypeOK
  <2>4. result'[c].outcome = r.outcome /\ result'[c].commit = r.commit
    BY <2>3
  <2>5. \/ /\ r.outcome = "ALREADY_INTEGRATED"
           /\ r.commit = seen[c]
           /\ HasReport(op, seen[c])
        \/ /\ r.outcome = "CONFLICT"
           /\ ~Fits(op)
        \/ /\ r.outcome \in {"FAST_FORWARDED", "MERGED"}
           /\ Fits(op)
           /\ r.commit = Candidate(op)
    BY <2>1, <2>2, ComputedResult DEF Fits, Candidate
  <2>6. HasReport(op, seen[c]) => Fits(op)
    BY <1>0, <2>1, <2>2, HasReportKept DEF IInv, LandedAsCandidate, TypeOK
  <2>7. Fits(op) => Candidate(op) \in Commit /\ HasReport(op, Candidate(op))
    BY <2>1, CandidateFits
  <2>8. r.outcome # "CONFLICT" => Good(op, r.commit)
    BY <2>2, <2>5, <2>6, <2>7 DEF Good
  <2>9. NeedsRef(c)' <=> r.outcome \notin {"ALREADY_INTEGRATED", "CONFLICT"}
    BY <2>4 DEF NeedsRef
  <2>10. /\ Started(OpOf(c))'
         /\ Fits(OpOf(c))' <=> Fits(op)
         /\ Candidate(OpOf(c))' = Candidate(op)
    BY <2>1
  <2>11. result'[c].outcome # "CONFLICT" => Good(OpOf(c), result[c].commit)'
    BY <2>1, <2>2, <2>4, <2>8 DEF Good
  <2> QED
    BY <1>0, <2>1, <2>2, <2>4, <2>5, <2>9, <2>11
    DEF Reached, CallOK, NotBack, Outcome
<1>7. ASSUME NEW d \in Callers, RecordTree(d) \/ NoRefNeeded(d)
      PROVE  Reached(c)' /\ CallOK(c)'
  <2>1. /\ d = c /\ op \in Ops /\ op' = op /\ NotBack(op)
        /\ Started(op) /\ Started(op)' /\ call'[c].expected = request'[op]
        /\ Fits(op)' <=> Fits(op)
        /\ Candidate(op)' = Candidate(op)
    BY <1>3, <1>7
  <2>2. /\ \/ pc[c] = "prepared" /\ pc'[c] = "recorded"
           \/ pc[c] = "recorded" /\ pc'[c] = "updated" /\ ~NeedsRef(c)
        /\ seen'[c] = seen[c] /\ target' = target /\ result'[c] = result[c]
    BY <1>0, <1>7, <2>1 DEF RecordTree, NoRefNeeded, Goto, TypeOK, locals
  <2>3. NeedsRef(c)' <=> NeedsRef(c)
    BY <2>2 DEF NeedsRef
  <2>4. Good(op, result[c].commit) => Good(OpOf(c), result[c].commit)'
    BY <2>1, <2>2 DEF Good
  <2>5. receipt'[op].phase \in Late
    <3>1. CASE RecordTree(c)
      <4>1. receipt[op] \in Receipt /\ receipt[op].phase # "RESERVED"
        BY <1>0, <2>1, <3>1, ReceiptThere DEF RecordTree, Reached
      <4> QED
        BY <1>0, <2>1, <3>1, <4>1 DEF RecordTree, TypeOK, Receipt, Late, Phase
    <3>2. CASE NoRefNeeded(c)
      BY <1>0, <2>1, <3>2 DEF NoRefNeeded, Reached, NotBack
    <3> QED
      BY <1>7, <2>1, <3>1, <3>2
  <2> QED
    BY <1>0, <2>1, <2>2, <2>3, <2>4, <2>5
    DEF Reached, CallOK, NeedsRef, Late, Phase
<1>8. ASSUME NEW d \in Callers, UpdateRef(d)
      PROVE  Reached(c)' /\ CallOK(c)'
  <2>1. /\ d = c /\ op \in Ops /\ op' = op /\ NotBack(op)
        /\ Started(op)' /\ call'[c].expected = request'[op]
        /\ Fits(op)' <=> Fits(op)
        /\ Candidate(op)' = Candidate(op)
        /\ \A commit \in Commit :
             IsPrefixOf(commit, target) => IsPrefixOf(commit, target')
    BY <1>3, <1>8
  <2>2. /\ pc[c] = "recorded" /\ pc'[c] = "updated" /\ NeedsRef(c)
        /\ seen'[c] = seen[c] /\ target' = result[c].commit
        /\ result'[c].outcome = result[c].outcome
        /\ result'[c].commit = result[c].commit
    BY <1>0, <1>8, <2>1 DEF UpdateRef, Goto, TypeOK
  <2>3. NeedsRef(c)' <=> NeedsRef(c)
    BY <2>2 DEF NeedsRef
  <2>4. Good(op, result[c].commit) /\ result[c].commit \in Commit
    BY <1>0, <2>2 DEF CallOK, NeedsRef, Good
  <2>5. Good(OpOf(c), result[c].commit)'
    BY <2>1, <2>2, <2>4 DEF Good
  <2>6. IsPrefixOf(result[c].commit, target)'
    BY <2>2, <2>4, PrefixOrder
  <2> QED
    BY <1>0, <2>1, <2>2, <2>3, <2>5, <2>6
    DEF Reached, CallOK, NotBack, Late, Phase
<1>9. ASSUME NEW d \in Callers,
             \/ Reject(d) \/ RefUnknown(d) \/ Finalize(d) \/ FinalizeDies(d)
             \/ Fail(d) \/ LockTimeout(d)
      PROVE  Leave(d)
  BY <1>9 DEF Reject, RefUnknown, Finalize, FinalizeDies, Fail, LockTimeout
<1>10. CASE DeveloperPush \/ RemoveLock \/ Elsewhere \/ UNCHANGED vars
  BY <1>10 DEF DeveloperPush, RemoveLock, Elsewhere, vars, locals
<1> QED
  BY <1>1, <1>2, <1>4, <1>5, <1>6, <1>7, <1>8, <1>9, <1>10 DEF AnyNext, Continue
-----------------------------------------------------------------------------
(* The theorems. *)

\* The invariant holds at the start.
LEMMA InitIInv == Init => IInv
<1> SUFFICES ASSUME Init
             PROVE  IInv
  OBVIOUS
<1>1. <<>> \in Commit
  BY DEF Commit
<1>2. TypeOK
  <2>1. /\ target \in Commit
        /\ request \in [Ops -> Commit \cup {None}]
        /\ receipt \in [Ops -> Receipt \cup {NoReceipt}]
        /\ orphan \in BOOLEAN
        /\ pc \in [Callers -> PCs]
        /\ seen \in [Callers -> Commit \cup {None}]
    BY <1>1 DEF Init, PCs
  <2>2. call \in [Callers -> [op : Ops, expected : Commit] \cup {NoCall}]
    BY DEF Init
  <2>3. NoResult \in [outcome : Outcome \cup {None}, commit : Commit \cup {None},
                     refUpdated : BOOLEAN]
    BY DEF NoResult
  <2>4. faults \in 0..MaxFaults
    BY BoundsAreNat DEF Init
  <2> QED
    BY <2>1, <2>2, <2>3, <2>4 DEF Init, TypeOK
<1>3. \A op \in Ops : ~HasReport(op, target)
  BY DEF Init, HasReport
<1>4. LandedAsCandidate /\ ClashesKeptApart
  BY <1>3 DEF LandedAsCandidate, ClashesKeptApart
<1>5. ASSUME NEW op \in Ops
      PROVE  ReceiptOK(op)
  <2>1. receipt[op].phase = None
    BY DEF Init, NoReceipt
  <2> QED
    BY <2>1 DEF ReceiptOK, Late, Phase
<1>6. ASSUME NEW c \in Callers
      PROVE  Reached(c) /\ CallOK(c)
  BY DEF Init, Reached, CallOK
<1> QED
  BY <1>2, <1>4, <1>5, <1>6 DEF IInv

\* Every step of that kind keeps the invariant.
LEMMA AnyStep == IInv /\ [AnyNext]_vars => IInv'
<1> SUFFICES ASSUME IInv, [AnyNext]_vars
             PROVE  IInv'
  OBVIOUS
<1>1. \A op \in Ops : ReceiptOK(op)'
  BY ReceiptStep
<1>2. \A c \in Callers : Reached(c)' /\ CallOK(c)'
  BY CallStep
<1> QED
  BY <1>1, <1>2, TypeStep, LandedStep DEF IInv

\* The steps of GitIntegration are of that kind.
LEMMA NextIsAny == IInv /\ [Next]_vars => [AnyNext]_vars
<1>1. ASSUME IInv, NEW op \in Ops
      PROVE  Expectable(op) \subseteq Commit
  BY <1>1 DEF Expectable, IInv, TypeOK
<1> QED
  BY <1>1 DEF Next, AnyNext, Call, AnyCall

\* The invariant that the properties follow from: what a receipt, a call and
\* the branch say of an operation is one and the same candidate commit.
THEOREM Invariance == Spec => []IInv
<1>1. IInv /\ [Next]_vars => IInv'
  BY NextIsAny, AnyStep
<1> QED
  BY <1>1, InitIInv, PTL DEF Spec

\* The variables stay in their types.
THEOREM TypeCorrect == Spec => []TypeOK
<1>1. IInv => TypeOK
  BY DEF IInv
<1> QED
  BY <1>1, Invariance, PTL

\* A finalized receipt tells the truth for good, however many callers of one
\* operation have written it and wherever one of them died.
THEOREM FinalizedTrue == Spec => []FinalizedIsInTarget
<1>1. IInv => FinalizedIsInTarget
  <2> SUFFICES ASSUME IInv, NEW op \in Ops,
                      receipt[op].phase = "FINALIZED",
                      receipt[op].outcome # "CONFLICT"
               PROVE  /\ receipt[op].commit # None
                      /\ HasReport(op, receipt[op].commit)
                      /\ IsPrefixOf(receipt[op].commit, target)
    BY DEF FinalizedIsInTarget
  <2>1. ReceiptOK(op)
    BY DEF IInv
  <2> QED
    BY <2>1 DEF ReceiptOK, Good, Late
<1> QED
  BY <1>1, Invariance, PTL

\* Changes that conflict never meet on the branch.
THEOREM ClashesApart == Spec => []ClashesKeptApart
<1>1. IInv => ClashesKeptApart
  BY DEF IInv
<1> QED
  BY <1>1, Invariance, PTL

\* Nobody's commit is taken off the branch.
THEOREM BranchGrows == Spec => NothingLost
<1>1. IInv /\ [Next]_vars => [IsPrefixOf(target, target')]_target
  BY NextIsAny, GrowsStep
<1> QED
  BY <1>1, Invariance, PTL DEF Spec, NothingLost
-----------------------------------------------------------------------------
(* DeliveryReview: the inductive invariant. *)

\* The stages of a call before the verdict, after a verdict "pass" (those past
\* the advance of the review, and of them those past the integration), and
\* after a verdict "fail".
Fresh == {"deliver", "audit"}
Closing == {"close", "closing", "finalize", "finalizing"}
Merging == {"integrate", "complete", "publish"} \cup Closing
Accepting == {"accept", "apply", "applying"} \cup Merging
Requeued == {"apply_return", "applying_return", "close_return",
             "closing_return"}
Returning == {"return", "requeue"} \cup Requeued

\* The phases of a review before its verdict, and after the verdict has been
\* carried out.
Auditing == {"DELIVERY_BOUND", "REVIEW_RESERVED", "MAD_STARTED"}
Applied == {"REVIEW_APPLIED", "INTEGRATION_APPLIED", "FINALIZED"}

\* What a call at stage s, with the evidence b, may rely on: the task is t and
\* the review r, whatever others have done since the call has looked.
Holds(s, b, t, r) ==
  /\ s \in Fresh => t = "review_ready"
  /\ s = "deliver" => r = NoReview
  /\ s = "audit" => r.phase \in Auditing
  /\ s \in Accepting => b \in Evidence /\ r.verdict = "pass"
  /\ s \in Accepting \ {"accept"} => t \in {"accepted", "integrated"}
  /\ s \in Merging => r.phase \in Applied
  /\ s \in Closing => t = "integrated"
  /\ s \in Returning => b \in Evidence /\ r.verdict = "fail"
  /\ s = "requeue" => t \in {"returned", "ready"}
  /\ s \in Requeued => t = "ready"

StageOK(c) ==
  stage[c] # "idle" =>
    /\ delivery[c] \in Ops
    /\ Holds(stage[c], bound[c], task[delivery[c]], review[delivery[c]])

\* A call of integrate is made at its stage, for the delivery of the review.
GitCallOK(c) ==
  pc[c] # "idle" => stage[c] = "integrate" /\ OpOf(c) = delivery[c]

\* A delivery has one call before its verdict.  After it there may be several,
\* and each of them may have advanced the review.
OneFresh ==
  \A c, d \in Callers :
    c # d /\ delivery[c] = delivery[d] =>
      ~(stage[c] \in Fresh /\ stage[d] \in Fresh)

\* What a task and its review say agrees.
Agree(t, r) ==
  /\ r.phase \in Auditing \cup {None} <=> r.verdict = None
  /\ t = "none" => r = NoReview
  /\ t = "integrated" => r.phase \in Applied
  /\ r.verdict = None => t \in {"none", "review_ready"}
  /\ r.verdict = "pass" => t \in {"review_ready", "accepted", "integrated"}
  /\ r.verdict = "fail" => t \in {"review_ready", "returned", "ready"}
  /\ r.verdict = "blocked" => t = "review_ready" /\ r.phase = "MAD_COMPLETED"
  /\ r.phase \in Applied /\ r.verdict = "pass" => t \in {"accepted", "integrated"}
  /\ r.phase \in Applied /\ r.verdict = "fail" => t = "ready"
  /\ r.phase \in {"INTEGRATION_APPLIED", "FINALIZED"} /\ r.verdict = "pass" =>
       t = "integrated"

\* The git receipt of a delivery still says what the receipt g, returned by a
\* call of integrate, has said, though other calls may have written it again
\* and one of them may have died over it.
Settled(op, g) ==
  /\ g.commit # None
  /\ receipt[op].commit = g.commit
  /\ receipt[op].outcome = "FINALIZED"
  /\ receipt[op].phase \in {"REF_UPDATED", "FINALIZED"}

Recorded ==
  /\ \A c \in Callers :
       stage[c] \in {"complete", "publish"} => Settled(delivery[c], gitReceipt[c])
  /\ \A op \in Ops :
       task[op] = "integrated" => Settled(op, integratedAs[op])

ReviewIInv ==
  /\ IInv
  /\ ReviewTypeOK
  /\ \A c \in Callers : StageOK(c) /\ GitCallOK(c)
  /\ OneFresh
  /\ \A op \in Ops : Agree(task[op], review[op])
  /\ Recorded
  /\ MergedWasAccepted

-----------------------------------------------------------------------------
(* DeliveryReview: every step is one of GitIntegration, or none. *)

\* The phases by name.
LEMMA PhasesByName ==
  /\ ReviewPhases = {"MAD_COMPLETED"} \cup Auditing \cup Applied
  /\ ReviewPhase[1] = "DELIVERY_BOUND" /\ ReviewPhase[2] = "REVIEW_RESERVED"
  /\ ReviewPhase[3] = "MAD_STARTED"
<1>1. DOMAIN ReviewPhase = 1..7
  BY DEF ReviewPhase
<1>2. /\ ReviewPhase[1] = "DELIVERY_BOUND" /\ ReviewPhase[2] = "REVIEW_RESERVED"
      /\ ReviewPhase[3] = "MAD_STARTED" /\ ReviewPhase[4] = "MAD_COMPLETED"
      /\ ReviewPhase[5] = "REVIEW_APPLIED"
      /\ ReviewPhase[6] = "INTEGRATION_APPLIED" /\ ReviewPhase[7] = "FINALIZED"
  BY DEF ReviewPhase
<1> QED
  BY <1>1, <1>2 DEF ReviewPhases, Auditing, Applied

\* A call of integrate that review makes comes with a commit that review has
\* frozen, which is why AnyNext lets it be any commit.
LEMMA ReviewIsAny ==
  ASSUME ReviewIInv, [ReviewNext]_<<vars, rvars>>
  PROVE  [AnyNext]_vars
<1>1. ASSUME NEW c \in Callers, BeginIntegrate(c)
      PROVE  [AnyNext]_vars
  <2>1. delivery[c] \in Ops /\ bound[c].target \in Commit
    BY <1>1 DEF BeginIntegrate, ReviewIInv, StageOK, Holds, Accepting, Merging,
                Evidence
  <2> QED
    BY <1>1, <2>1 DEF BeginIntegrate, AnyNext, AnyCall
<1>2. ASSUME NEW c \in Callers, Integrate(c)
      PROVE  [AnyNext]_vars
  BY <1>2 DEF Integrate, Continue, AnyNext
<1>3. ASSUME NEW c \in Callers, ReserveReviewDies(c) \/ Die(c)
      PROVE  [AnyNext]_vars
  BY <1>3 DEF ReserveReviewDies, Die, AnyNext, Elsewhere
<1>4. CASE Others
  BY <1>4 DEF Others, AnyNext
<1>5. ASSUME NEW c \in Callers, NEW op \in Ops,
             Deliver(c, op) \/ Redeliver(c, op) \/ BeginAccept(c, op) \/ BeginReturn(c, op)
      PROVE  UNCHANGED vars
  BY <1>5 DEF Deliver, Redeliver, Delivered, BeginAccept, BeginReturn
<1>6. ASSUME NEW c \in Callers,
             \/ ReserveReview(c) \/ StartAudit(c) \/ CompleteAudit(c)
             \/ ApplyAccepted(c) \/ AdvanceAccepted(c) \/ ReadHead(c)
             \/ ApplyIntegrated(c) \/ CloseAccepted(c) \/ ApplyReturned(c)
             \/ ApplyRequeued(c) \/ CloseReturned(c) \/ Refused(c)
      PROVE  UNCHANGED vars
  BY <1>6 DEF ReserveReview, StartAudit, CompleteAudit, ApplyAccepted,
              AdvanceAccepted, ReadHead, ApplyIntegrated, CloseAccepted,
              ApplyReturned, ApplyRequeued, CloseReturned, ReadReview,
              WriteReview, Refused
<1>7. CASE MoveHead \/ UNCHANGED <<vars, rvars>>
  BY <1>7 DEF MoveHead
<1> QED
  BY <1>1, <1>2, <1>3, <1>4, <1>5, <1>6, <1>7 DEF ReviewNext, CallerStep

\* A step of one call of integrate moves no other.
LEMMA GitMovesOne ==
  ASSUME TypeOK, NEW c \in Callers, NEW d \in Callers \ {c},
         \/ Continue(c)
         \/ \E op \in Ops, expected \in Commit :
              Reserve(c, op, expected) \/ ReserveDies(c, op, expected)
  PROVE  pc'[d] = pc[d] /\ call'[d] = call[d]
<1>1. ASSUME Leave(c)
      PROVE  pc'[d] = pc[d] /\ call'[d] = call[d]
  BY <1>1 DEF Leave, Goto, TypeOK
<1>2. ASSUME \E op \in Ops, expected \in Commit :
               Reserve(c, op, expected) \/ ReserveDies(c, op, expected)
      PROVE  pc'[d] = pc[d] /\ call'[d] = call[d]
  BY <1>2 DEF Reserve, ReserveDies, Goto, TypeOK, locals
<1>3. ASSUME \/ Validate(c) \/ MarkValidated(c) \/ Prepare(c) \/ RecordTree(c)
             \/ UpdateRef(c) \/ NoRefNeeded(c)
      PROVE  pc'[d] = pc[d] /\ call'[d] = call[d]
  BY <1>3 DEF Validate, MarkValidated, Prepare, RecordTree, UpdateRef,
              NoRefNeeded, Goto, TypeOK, locals
<1>4. ASSUME \/ Reject(c) \/ RefUnknown(c) \/ Finalize(c) \/ FinalizeDies(c)
             \/ Fail(c) \/ LockTimeout(c)
      PROVE  Leave(c)
  BY <1>4 DEF Reject, RefUnknown, Finalize, FinalizeDies, Fail, LockTimeout
<1> QED
  BY <1>1, <1>2, <1>3, <1>4 DEF Continue

\* What a step of c leaves of the other calls.
Alone(c) ==
  \A d \in Callers \ {c} :
    /\ stage'[d] = stage[d]
    /\ delivery'[d] = delivery[d]
    /\ bound'[d] = bound[d]
    /\ pc'[d] = pc[d]
    /\ call'[d] = call[d]

\* The other calls keep what they rely on if the change of the records lets
\* them, and no two come to be at one place.
LEMMA OthersKept ==
  ASSUME ReviewIInv, NEW c \in Callers, Alone(c),
         \A d \in Callers \ {c} : stage[d] # "idle" =>
           Holds(stage[d], bound[d], task'[delivery[d]], review'[delivery[d]]),
         StageOK(c)', GitCallOK(c)',
         stage'[c] \in Fresh =>
           \A d \in Callers \ {c} : delivery[d] = delivery'[c] => stage[d] \notin Fresh
  PROVE  (\A d \in Callers : StageOK(d)' /\ GitCallOK(d)') /\ OneFresh'
<1>1. ASSUME NEW d \in Callers \ {c}
      PROVE  StageOK(d)' /\ GitCallOK(d)'
  <2>1. /\ stage'[d] = stage[d] /\ delivery'[d] = delivery[d]
        /\ bound'[d] = bound[d] /\ pc'[d] = pc[d] /\ OpOf(d)' = OpOf(d)
    BY DEF Alone, OpOf
  <2>2. StageOK(d) /\ GitCallOK(d)
    BY DEF ReviewIInv
  <2>3. stage[d] # "idle" =>
          Holds(stage[d], bound[d], task'[delivery[d]], review'[delivery[d]])
    OBVIOUS
  <2>4. StageOK(d)'
    BY <2>1, <2>2, <2>3 DEF StageOK
  <2>5. GitCallOK(d)'
    BY <2>1, <2>2 DEF GitCallOK
  <2> QED
    BY <2>4, <2>5
<1>2. OneFresh'
  <2> SUFFICES ASSUME NEW a \in Callers, NEW b \in Callers, a # b,
                      delivery'[a] = delivery'[b]
               PROVE  ~(stage'[a] \in Fresh /\ stage'[b] \in Fresh)
    BY DEF OneFresh
  <2>1. CASE a # c /\ b # c
    BY <2>1 DEF Alone, ReviewIInv, OneFresh
  <2>2. CASE a = c
    BY <2>2 DEF Alone
  <2>3. CASE b = c
    BY <2>3 DEF Alone
  <2> QED
    BY <2>1, <2>2, <2>3
<1> QED
  BY <1>1, <1>2

-----------------------------------------------------------------------------
(* DeliveryReview: what a step does to a task and its review. *)

USE NoneIsNoVerdict

\* A verdict tells the stages that a call may be at.
LEMMA StageByVerdict ==
  ASSUME NEW s \in Stages \ {"idle"}, NEW b, NEW t, NEW r, Holds(s, b, t, r), Agree(t, r)
  PROVE  /\ r.verdict = None => s \in Fresh
         /\ r.verdict = "pass" => s \in Accepting
         /\ r.verdict = "fail" => s \in Returning
         /\ r.verdict \notin {None, "pass", "fail"} => FALSE
<1>1. s \in Fresh \cup Accepting \cup Returning
  BY DEF Stages, Fresh, Accepting, Merging, Closing, Returning, Requeued
<1>2. s \in Fresh => r.verdict = None
  BY DEF Holds, Fresh, Agree, NoReview
<1>3. s \in Accepting => r.verdict = "pass"
  BY DEF Holds
<1>4. s \in Returning => r.verdict = "fail"
  BY DEF Holds
<1>5. None \notin {"pass", "fail"}
  BY DEF Verdict
<1> QED
  BY <1>1, <1>2, <1>3, <1>4, <1>5

\* What remains to be shown of a step of a call that changes one record.
LEMMA StepKept ==
  ASSUME ReviewIInv, NEW c \in Callers, NEW op \in Ops, Alone(c),
         \A o \in Ops \ {op} : task'[o] = task[o] /\ review'[o] = review[o],
         Agree(task'[op], review'[op]),
         \A d \in Callers \ {c} : stage[d] # "idle" /\ delivery[d] = op =>
           Holds(stage[d], bound[d], task'[op], review'[op]),
         StageOK(c)', GitCallOK(c)',
         stage'[c] \in Fresh =>
           \A d \in Callers \ {c} : delivery[d] = delivery'[c] => stage[d] \notin Fresh
  PROVE  /\ \A d \in Callers : StageOK(d)' /\ GitCallOK(d)'
         /\ OneFresh'
         /\ \A o \in Ops : Agree(task'[o], review'[o])
<1>1. ASSUME NEW d \in Callers \ {c}, stage[d] # "idle"
      PROVE  Holds(stage[d], bound[d], task'[delivery[d]], review'[delivery[d]])
  <2>1. delivery[d] \in Ops
        /\ Holds(stage[d], bound[d], task[delivery[d]], review[delivery[d]])
    BY <1>1 DEF ReviewIInv, StageOK
  <2>2. CASE delivery[d] = op
    BY <1>1, <2>2
  <2>3. CASE delivery[d] # op
    <3>1. task'[delivery[d]] = task[delivery[d]] /\ review'[delivery[d]] = review[delivery[d]]
      BY <2>1, <2>3
    <3> QED
      BY <2>1, <3>1
  <2> QED
    BY <2>2, <2>3
<1>2. (\A d \in Callers : StageOK(d)' /\ GitCallOK(d)') /\ OneFresh'
  BY <1>1, OthersKept
<1>3. ASSUME NEW o \in Ops
      PROVE  Agree(task'[o], review'[o])
  <2>1. CASE o = op
    BY <2>1
  <2>2. CASE o # op
    <3>1. task'[o] = task[o] /\ review'[o] = review[o]
      BY <2>2
    <3> QED
      BY <3>1 DEF ReviewIInv
  <2> QED
    BY <2>1, <2>2
<1> QED
  BY <1>2, <1>3

\* The part of the invariant that a step of review has to keep.
Parts ==
  /\ ReviewTypeOK
  /\ \A c \in Callers : StageOK(c) /\ GitCallOK(c)
  /\ OneFresh
  /\ \A op \in Ops : Agree(task[op], review[op])

\* The receipts that a review may have.
Receipts == [phase : ReviewPhases, verdict : Verdict \cup {None}] \cup {NoReview}

\* Call c may go to stage s with evidence b for delivery op and leave the task
\* at t and the review at r: the other calls for the delivery can live with
\* that, and no two are before the verdict.
CanGo(c, op, s, b, t, r) ==
  /\ s # "idle" => Holds(s, b, t, r)
  /\ Agree(t, r)
  /\ \A d \in Callers \ {c} : stage[d] # "idle" /\ delivery[d] = op =>
       /\ Holds(stage[d], bound[d], t, r)
       /\ ~(s \in Fresh /\ stage[d] \in Fresh)

\* Where a step takes a call, whatever receipt it holds.
Goes(c, op, s, b) ==
  /\ stage' = [stage EXCEPT ![c] = s]
  /\ delivery' = [delivery EXCEPT ![c] = op]
  /\ bound' = [bound EXCEPT ![c] = b]

SetReview(op, r) == review' = [review EXCEPT ![op] = r]

\* The records that are only written down.
Filed ==
  /\ head' \in 0..MaxHead
  /\ integratedAs' \in [Ops -> Receipt \cup {NoReceipt}]
  /\ reviewRequest' \in [Ops -> Evidence \cup {NoEvidence}]

Held == gitReceipt' \in [Callers -> Receipt \cup {NoReceipt}]

GitAlone(c) ==
  /\ GitCallOK(c)'
  /\ \A d \in Callers \ {c} : pc'[d] = pc[d] /\ call'[d] = call[d]

\* A step of a call to where it can go keeps the invariant.
LEMMA CallStepKept ==
  ASSUME ReviewIInv, TypeOK', NEW c \in Callers, NEW op \in Ops,
         NEW s \in Stages, NEW o \in {op, None},
         NEW b \in Evidence \cup {NoEvidence}, NEW t \in TaskState,
         NEW r \in Receipts,
         Goes(c, o, s, b), SetTask(op, t), SetReview(op, r), Filed, Held,
         GitAlone(c), s # "idle" => o = op,
         CanGo(c, op, s, b, t, r)
  PROVE  Parts'
<1>1. ReviewTypeOK
  BY DEF ReviewIInv
<1>2. /\ stage' = [stage EXCEPT ![c] = s]
      /\ delivery' = [delivery EXCEPT ![c] = o]
      /\ bound' = [bound EXCEPT ![c] = b]
      /\ task' = [task EXCEPT ![op] = t]
      /\ review' = [review EXCEPT ![op] = r]
  BY DEF Goes, SetTask, SetReview
<1>0. /\ s # "idle" => Holds(s, b, t, r)
      /\ Agree(t, r)
      /\ \A d \in Callers \ {c} : stage[d] # "idle" /\ delivery[d] = op =>
           /\ Holds(stage[d], bound[d], t, r)
           /\ ~(s \in Fresh /\ stage[d] \in Fresh)
  BY DEF CanGo
<1>3. stage'[c] = s /\ delivery'[c] = o /\ bound'[c] = b /\ Alone(c)
  BY <1>1, <1>2 DEF ReviewTypeOK, Alone, GitAlone
<1>4. /\ task'[op] = t /\ review'[op] = r
      /\ \A q \in Ops \ {op} : task'[q] = task[q] /\ review'[q] = review[q]
  BY <1>1, <1>2 DEF ReviewTypeOK
<1>5. ReviewTypeOK'
  <2>1. /\ stage' \in [Callers -> Stages]
        /\ delivery' \in [Callers -> Ops \cup {None}]
        /\ bound' \in [Callers -> Evidence \cup {NoEvidence}]
    BY <1>1, <1>2 DEF ReviewTypeOK
  <2>2. task' \in [Ops -> TaskState]
    BY <1>1, <1>2 DEF ReviewTypeOK
  <2>3. review' \in [Ops -> [phase : ReviewPhases, verdict : Verdict \cup {None}]
                            \cup {NoReview}]
    BY <1>1, <1>2 DEF ReviewTypeOK, Receipts
  <2> QED
    BY <2>1, <2>2, <2>3 DEF ReviewTypeOK, Filed, Held
<1>6. StageOK(c)'
  <2>1. CASE s = "idle"
    BY <1>3, <2>1 DEF StageOK
  <2>2. CASE s # "idle"
    BY <1>0, <1>3, <1>4, <2>2 DEF StageOK
  <2> QED
    BY <2>1, <2>2
<1>7. "idle" \notin Fresh /\ \A d \in Callers : stage[d] \in Fresh => stage[d] # "idle"
  BY DEF Fresh
<1>8. ASSUME NEW d \in Callers \ {c}, delivery[d] = delivery'[c], stage'[c] \in Fresh
      PROVE  stage[d] \notin Fresh
  BY <1>0, <1>3, <1>7, <1>8
<1>9. \A d \in Callers \ {c} : stage[d] # "idle" /\ delivery[d] = op =>
        Holds(stage[d], bound[d], task'[op], review'[op])
  BY <1>0, <1>4
<1>10. Agree(task'[op], review'[op])
  BY <1>0, <1>4
<1>11. /\ \A d \in Callers : StageOK(d)' /\ GitCallOK(d)'
       /\ OneFresh'
       /\ \A q \in Ops : Agree(task'[q], review'[q])
  BY <1>3, <1>4, <1>6, <1>8, <1>9, <1>10, StepKept DEF GitAlone
<1> QED
  BY <1>5, <1>11 DEF Parts

\* The same for what does not change.
LEMMA SameRecords ==
  ASSUME ReviewTypeOK
  PROVE  /\ \A c \in Callers : \A s :
              To(c, s) => Goes(c, delivery[c], s, bound[c]) /\ Held
         /\ \A op \in Ops :
              /\ task' = task => SetTask(op, task[op])
              /\ review' = review => SetReview(op, review[op])
              /\ task[op] \in TaskState
              /\ review[op] \in Receipts
<1>1. ASSUME NEW c \in Callers, NEW s, To(c, s)
      PROVE  Goes(c, delivery[c], s, bound[c]) /\ Held
  BY <1>1 DEF To, Goes, Held, ReviewTypeOK
<1>2. ASSUME NEW op \in Ops
      PROVE  /\ task' = task => SetTask(op, task[op])
             /\ review' = review => SetReview(op, review[op])
             /\ task[op] \in TaskState
             /\ review[op] \in Receipts
  BY DEF SetTask, SetReview, Receipts, ReviewTypeOK
<1> QED
  BY <1>1, <1>2

\* A call that begins or ends holds no receipt.
LEMMA EnterKept ==
  ASSUME ReviewTypeOK, NEW c \in Callers, NEW op, NEW s, NEW b, Enter(c, op, s, b)
  PROVE  Goes(c, op, s, b) /\ Held
BY DEF Enter, Goes, Held, ReviewTypeOK

\* A call outside integrate is in no call of it afterwards.
LEMMA NoGitCall ==
  ASSUME ReviewIInv, NEW c \in Callers, stage[c] # "integrate", UNCHANGED <<pc, call>>
  PROVE  GitAlone(c)
BY DEF ReviewIInv, GitCallOK, GitAlone, OpOf

\* The end of a worker.
LEMMA DeliveredStep ==
  ASSUME ReviewIInv, TypeOK', NEW c \in Callers, NEW op \in Ops, Delivered(c, op)
  PROVE  Parts'
<1>1. /\ ReviewTypeOK
      /\ Agree(task[op], review[op])
      /\ stage[c] = "idle" /\ task[op] = "none"
      /\ UNCHANGED <<pc, call>> /\ review' = review /\ head' = head
      /\ integratedAs' = integratedAs /\ reviewRequest' = reviewRequest
      /\ SetTask(op, "review_ready") /\ Enter(c, op, "deliver", NoEvidence)
  BY DEF ReviewIInv, Delivered, vars
<1>2. review[op] = NoReview
  BY <1>1 DEF Agree
<1>3. NoReview.verdict = None /\ NoReview.phase = None
  BY DEF NoReview
<1>4. Agree("review_ready", NoReview)
  BY <1>3, PhasesByName DEF Agree, Verdict, Applied, Auditing
<1>5. \A d \in Callers \ {c} : stage[d] # "idle" => delivery[d] # op
  <2> SUFFICES ASSUME NEW d \in Callers \ {c}, stage[d] # "idle", delivery[d] = op
               PROVE  FALSE
    OBVIOUS
  <2>1. Holds(stage[d], bound[d], "none", NoReview) /\ stage[d] \in Stages
    BY <1>1, <1>2 DEF ReviewIInv, StageOK, ReviewTypeOK
  <2>2. stage[d] \in Fresh
    BY <1>1, <1>2, <1>3, <2>1, StageByVerdict
  <2> QED
    BY <2>1, <2>2 DEF Holds
<1>6. Holds("deliver", NoEvidence, "review_ready", NoReview)
  BY DEF Holds, Fresh, Accepting, Merging, Closing, Returning, Requeued
<1>7. CanGo(c, op, "deliver", NoEvidence, "review_ready", NoReview)
  BY <1>4, <1>5, <1>6 DEF CanGo
<1>8. SetReview(op, NoReview) /\ NoReview \in Receipts
  BY <1>1, <1>2, SameRecords
<1>9. "deliver" \in Stages /\ "review_ready" \in TaskState
  BY DEF Stages, TaskState
<1>10. GitAlone(c)
  BY <1>1, NoGitCall
<1>11. Filed
  BY <1>1 DEF ReviewTypeOK, Filed
<1>12. Goes(c, op, "deliver", NoEvidence) /\ Held
  BY <1>1, EnterKept
<1> QED
  BY <1>1, <1>7, <1>8, <1>9, <1>10, <1>11, <1>12, CallStepKept

\* The facts of a call at a stage, for the steps that it takes.
LEMMA AtStage ==
  ASSUME ReviewIInv, NEW c \in Callers, stage[c] # "idle"
  PROVE  /\ delivery[c] \in Ops
         /\ Holds(stage[c], bound[c], task[delivery[c]], review[delivery[c]])
         /\ Agree(task[delivery[c]], review[delivery[c]])
         /\ task[delivery[c]] \in TaskState
         /\ \A p : [review[delivery[c]] EXCEPT !.phase = p] =
                     [phase |-> p, verdict |-> review[delivery[c]].verdict]
         /\ \A d \in Callers \ {c} : stage[d] # "idle" /\ delivery[d] = delivery[c] =>
              /\ stage[d] \in Stages \ {"idle"}
              /\ Holds(stage[d], bound[d], task[delivery[c]], review[delivery[c]])
              /\ ~(stage[c] \in Fresh /\ stage[d] \in Fresh)
<1>1. delivery[c] \in Ops
      /\ Holds(stage[c], bound[c], task[delivery[c]], review[delivery[c]])
  BY DEF ReviewIInv, StageOK
<1>2. Agree(task[delivery[c]], review[delivery[c]]) /\ task[delivery[c]] \in TaskState
  BY <1>1 DEF ReviewIInv, ReviewTypeOK
<1>3. review[delivery[c]] \in [phase : ReviewPhases, verdict : Verdict \cup {None}]
                              \cup {NoReview}
  BY <1>1 DEF ReviewIInv, ReviewTypeOK
<1>4. \A p : [review[delivery[c]] EXCEPT !.phase = p] =
               [phase |-> p, verdict |-> review[delivery[c]].verdict]
  BY <1>3 DEF NoReview
<1>5. ASSUME NEW d \in Callers \ {c}, stage[d] # "idle", delivery[d] = delivery[c]
      PROVE  /\ stage[d] \in Stages \ {"idle"}
             /\ Holds(stage[d], bound[d], task[delivery[c]], review[delivery[c]])
             /\ ~(stage[c] \in Fresh /\ stage[d] \in Fresh)
  <2>1. stage[d] \in Stages
    BY DEF ReviewIInv, ReviewTypeOK
  <2>2. Holds(stage[d], bound[d], task[delivery[d]], review[delivery[d]])
    BY <1>5 DEF ReviewIInv, StageOK
  <2> QED
    BY <1>5, <2>1, <2>2 DEF ReviewIInv, OneFresh
<1> QED
  BY <1>1, <1>2, <1>4, <1>5

\* Before a verdict, and after one, the other calls for a delivery are of one
\* kind.
LEMMA OthersByVerdict ==
  ASSUME ReviewIInv, NEW c \in Callers, stage[c] # "idle",
         NEW d \in Callers \ {c}, stage[d] # "idle", delivery[d] = delivery[c]
  PROVE  /\ stage[c] \notin Fresh
         /\ stage[c] \in Accepting => stage[d] \in Accepting
         /\ stage[c] \in Returning => stage[d] \in Returning
<1> DEFINE t == task[delivery[c]]
           r == review[delivery[c]]
<1>1. /\ stage[c] \in Stages \ {"idle"}
      /\ stage[d] \in Stages \ {"idle"}
      /\ Agree(t, r)
      /\ Holds(stage[c], bound[c], t, r)
      /\ Holds(stage[d], bound[d], t, r)
      /\ ~(stage[c] \in Fresh /\ stage[d] \in Fresh)
  BY AtStage DEF ReviewIInv, ReviewTypeOK
<1>2. /\ r.verdict = None => stage[d] \in Fresh
      /\ r.verdict = "pass" => stage[d] \in Accepting
      /\ r.verdict = "fail" => stage[d] \in Returning
  BY <1>1, StageByVerdict
<1>3. /\ stage[c] \in Fresh => r.verdict = None
      /\ stage[c] \in Accepting => r.verdict = "pass"
      /\ stage[c] \in Returning => r.verdict = "fail"
  BY <1>1 DEF Holds, Fresh, Agree, NoReview
<1> QED
  BY <1>1, <1>2, <1>3

\* A step of a call at a stage outside integrate, to another stage.
LEMMA OwnStep ==
  ASSUME ReviewIInv, TypeOK', NEW c \in Callers, stage[c] \notin {"idle", "integrate"},
         pc' = pc, call' = call, Filed,
         NEW s \in Stages, To(c, s),
         NEW t \in TaskState, SetTask(delivery[c], t),
         NEW r \in Receipts, SetReview(delivery[c], r),
         CanGo(c, delivery[c], s, bound[c], t, r)
  PROVE  Parts'
<1>1. delivery[c] \in Ops /\ ReviewTypeOK
  BY AtStage DEF ReviewIInv
<1>2. GitAlone(c)
  BY NoGitCall
<1>3. bound[c] \in Evidence \cup {NoEvidence}
  BY <1>1 DEF ReviewTypeOK
<1>4. Goes(c, delivery[c], s, bound[c]) /\ Held
  BY <1>1, SameRecords
<1> QED
  BY <1>1, <1>2, <1>3, <1>4, CallStepKept

\* The last step of a call.
LEMMA LastStep ==
  ASSUME ReviewIInv, TypeOK', NEW c \in Callers, stage[c] # "idle",
         GitAlone(c), Filed, End(c),
         NEW t \in TaskState, SetTask(delivery[c], t),
         NEW r \in Receipts, SetReview(delivery[c], r),
         CanGo(c, delivery[c], "idle", bound[c], t, r)
  PROVE  Parts'
<1>1. delivery[c] \in Ops /\ "idle" \in Stages
  BY AtStage DEF Stages
<1>2. Goes(c, None, "idle", NoEvidence) /\ Held
  BY EnterKept DEF End, ReviewIInv
<1>3. CanGo(c, delivery[c], "idle", NoEvidence, t, r)
  BY DEF CanGo
<1> QED
  BY <1>1, <1>2, <1>3, CallStepKept

\* The reservation of a review, and its audit.
LEMMA AuditStep ==
  ASSUME ReviewIInv, TypeOK', NEW c \in Callers,
         ReserveReview(c) \/ StartAudit(c) \/ CompleteAudit(c)
  PROVE  Parts'
<1> DEFINE op == delivery[c]
<1>1. /\ stage[c] \in Fresh
      /\ pc' = pc /\ call' = call /\ head' = head /\ task' = task
      /\ integratedAs' = integratedAs
  BY DEF ReserveReview, StartAudit, CompleteAudit, Fresh, vars
<1>2. stage[c] \notin {"idle", "integrate"}
  BY <1>1 DEF Fresh
<1>3. /\ op \in Ops /\ ReviewTypeOK
      /\ Holds(stage[c], bound[c], task[op], review[op])
      /\ Agree(task[op], review[op])
  BY <1>2, AtStage DEF ReviewIInv
<1>4. /\ task[op] = "review_ready" /\ SetTask(op, "review_ready")
      /\ "review_ready" \in TaskState
  BY <1>1, <1>3, SameRecords DEF Holds, TaskState
<1>5. reviewRequest' \in [Ops -> Evidence \cup {NoEvidence}] => Filed
  BY <1>1, <1>3 DEF ReviewTypeOK, Filed
<1>6. \A d \in Callers \ {c} : stage[d] # "idle" => delivery[d] # op
  BY <1>1, <1>2, OthersByVerdict
<1>7. ASSUME NEW p \in Auditing, NEW r, r = [phase |-> p, verdict |-> None]
      PROVE  r \in Receipts /\ CanGo(c, op, "audit", bound[c], "review_ready", r)
  <2>1. r \in Receipts
    BY <1>7, PhasesByName DEF Receipts
  <2>2. r.phase = p /\ r.verdict = None /\ r # NoReview
    BY <1>7, PhasesByName DEF NoReview
  <2>3. Agree("review_ready", r)
    BY <2>2, PhasesByName DEF Agree, Verdict, Applied, Auditing
  <2>4. Holds("audit", bound[c], "review_ready", r)
    BY <2>2 DEF Holds, Fresh, Accepting, Merging, Closing, Returning, Requeued
  <2> QED
    BY <1>6, <2>1, <2>3, <2>4 DEF CanGo
<1>8. "audit" \in Stages /\ "idle" \in Stages
  BY DEF Stages
<1>9. CASE ReserveReview(c)
  <2>1. /\ SetReview(op, NewReview)
        /\ reviewRequest' = [reviewRequest EXCEPT ![op] = Now]
        /\ To(c, "audit")
    BY <1>9 DEF ReserveReview, SetReview
  <2>2. NewReview = [phase |-> "DELIVERY_BOUND", verdict |-> None]
        /\ "DELIVERY_BOUND" \in Auditing
    BY DEF NewReview, Auditing
  <2>3. NewReview \in Receipts /\ CanGo(c, op, "audit", bound[c], "review_ready", NewReview)
    BY <1>7, <2>2
  <2>4. Now \in Evidence
    BY <1>3 DEF Now, Evidence, ReviewTypeOK, TypeOK
  <2>5. Filed
    BY <1>3, <1>5, <2>1, <2>4 DEF ReviewTypeOK
  <2> QED
    BY <1>1, <1>2, <1>4, <1>8, <2>1, <2>3, <2>5, OwnStep
<1>10. CASE StartAudit(c)
  <2>1. PICK i \in 1..2 : /\ review[op].phase = ReviewPhase[i]
                          /\ SetPhase(op, ReviewPhase[i + 1])
    BY <1>10 DEF StartAudit
  <2>2. ReviewPhase[i] \in Auditing /\ ReviewPhase[i + 1] \in Auditing
    <3>1. i = 1 \/ i = 2
      OBVIOUS
    <3>2. CASE i = 1
      BY <3>2, PhasesByName DEF Auditing
    <3>3. CASE i = 2
      BY <3>3, PhasesByName DEF Auditing
    <3> QED
      BY <3>1, <3>2, <3>3
  <2> DEFINE r == [phase |-> ReviewPhase[i + 1], verdict |-> None]
  <2>3. review[op].verdict = None
    BY <1>3, <2>1, <2>2 DEF Agree
  <2>4. SetReview(op, r)
    <3>1. [review[op] EXCEPT !.phase = ReviewPhase[i + 1]] = r
      BY <1>2, <2>3, AtStage
    <3> QED
      BY <1>3, <2>1, <3>1 DEF SetPhase, SetReview, ReviewTypeOK
  <2>5. r \in Receipts /\ CanGo(c, op, "audit", bound[c], "review_ready", r)
    BY <1>7, <2>2
  <2>6. To(c, "audit") /\ Filed
    <3>1. stage[c] = "audit" /\ UNCHANGED <<stage, delivery, bound, gitReceipt, reviewRequest>>
      BY <1>10 DEF StartAudit
    <3> QED
      BY <1>3, <1>5, <3>1 DEF To, ReviewTypeOK
  <2> HIDE DEF r
  <2> QED
    BY <1>1, <1>2, <1>4, <1>8, <2>4, <2>5, <2>6, OwnStep
<1>11. CASE CompleteAudit(c)
  <2>1. PICK v \in Verdict :
          review' = [review EXCEPT ![op] = [phase |-> "MAD_COMPLETED", verdict |-> v]]
    BY <1>11 DEF CompleteAudit
  <2> DEFINE r == [phase |-> "MAD_COMPLETED", verdict |-> v]
  <2>2. r \in Receipts /\ SetReview(op, r)
    BY <2>1, PhasesByName DEF Receipts, SetReview
  <2>3. Agree("review_ready", r)
    BY PhasesByName DEF Agree, Verdict, Applied, Auditing
  <2>4. CanGo(c, op, "idle", bound[c], "review_ready", r)
    BY <1>6, <2>3 DEF CanGo
  <2>5. End(c) /\ Filed
    BY <1>3, <1>5, <1>11 DEF CompleteAudit, ReviewTypeOK
  <2>6. GitAlone(c)
    BY <1>1, <1>2, NoGitCall
  <2> HIDE DEF r
  <2> QED
    BY <1>2, <1>4, <2>2, <2>4, <2>5, <2>6, LastStep
<1> QED
  BY <1>9, <1>10, <1>11

\* DELIVERY_ACCEPTED, CHANGE_INTEGRATED, DELIVERY_RETURNED, TASK_REQUEUED: the
\* task goes on, its review stays.
LEMMA TransitionStep ==
  ASSUME ReviewIInv, TypeOK', NEW c \in Callers,
         \/ ApplyAccepted(c) \/ ApplyIntegrated(c)
         \/ ApplyReturned(c) \/ ApplyRequeued(c)
  PROVE  Parts'
<1> DEFINE op == delivery[c]
<1>1. /\ stage[c] \in {"accept", "publish", "return", "requeue"}
      /\ pc' = pc /\ call' = call /\ head' = head /\ review' = review
      /\ reviewRequest' = reviewRequest
  BY DEF ApplyAccepted, ApplyIntegrated, ApplyReturned, ApplyRequeued, vars
<1>2. stage[c] \notin {"idle", "integrate"}
  BY <1>1
<1> DEFINE r == review[op]
<1>3. /\ op \in Ops /\ ReviewTypeOK
      /\ Holds(stage[c], bound[c], task[op], r)
      /\ Agree(task[op], r)
      /\ r \in Receipts /\ SetReview(op, r)
  BY <1>1, <1>2, AtStage, SameRecords DEF ReviewIInv
<1>4. Filed
  <2>1. reviewRequest' \in [Ops -> Evidence \cup {NoEvidence}]
    BY <1>1, <1>3 DEF ReviewTypeOK
  <2>2. integratedAs' = integratedAs
        \/ integratedAs' = [integratedAs EXCEPT ![op] = gitReceipt[c]]
    BY DEF ApplyAccepted, ApplyIntegrated, ApplyReturned, ApplyRequeued
  <2> QED
    BY <1>1, <1>3, <2>1, <2>2 DEF ReviewTypeOK, TypeOK, Filed
<1>5. ASSUME NEW d \in Callers \ {c}, stage[d] # "idle", delivery[d] = op
      PROVE  /\ Holds(stage[d], bound[d], task[op], r)
             /\ stage[c] \in Accepting => stage[d] \in Accepting
             /\ stage[c] \in Returning => stage[d] \in Returning
  BY <1>2, <1>5, AtStage, OthersByVerdict
<1>6. {"apply", "close", "requeue", "apply_return"} \subseteq Stages
      /\ {"accepted", "integrated", "returned", "ready"} \subseteq TaskState
  BY DEF Stages, TaskState
<1>7. /\ Accepting \cap Returning = {} /\ Accepting \cap Fresh = {}
      /\ Returning \cap Fresh = {}
      /\ "accept" \in Accepting /\ "apply" \in Accepting \ Merging
      /\ "publish" \in Merging /\ "close" \in Merging /\ Merging \subseteq Accepting
      /\ {"return", "requeue", "apply_return"} \subseteq Returning
  BY DEF Accepting, Returning, Requeued, Merging, Closing, Fresh
<1> HIDE DEF r
<1>8. CASE ApplyAccepted(c)
  <2>1. stage[c] = "accept" /\ task[op] \in {"review_ready", "accepted"}
        /\ SetTask(op, "accepted") /\ To(c, "apply")
    BY <1>8 DEF ApplyAccepted, Transits
  <2>2. r.verdict = "pass" /\ bound[c] \in Evidence
    BY <1>3, <1>7, <2>1 DEF Holds
  <2>3. Agree("accepted", r)
    BY <1>3, <2>1, <2>2 DEF Agree, Verdict
  <2>4. Holds("apply", bound[c], "accepted", r)
    BY <1>7, <2>2 DEF Holds, Merging, Closing, Fresh, Returning, Requeued
  <2>5. ASSUME NEW d \in Callers \ {c}, stage[d] # "idle", delivery[d] = op
        PROVE  Holds(stage[d], bound[d], "accepted", r) /\ stage[d] \notin Fresh
    <3>1. stage[d] \in Accepting /\ stage[d] \notin Returning /\ stage[d] \notin Fresh
      BY <1>5, <1>7, <2>1, <2>5
    <3>2. Holds(stage[d], bound[d], task[op], r)
      BY <1>5, <2>5
    <3> QED
      BY <2>1, <3>1, <3>2
      DEF Holds, Accepting, Merging, Closing, Fresh, Returning, Requeued
  <2>6. CanGo(c, op, "apply", bound[c], "accepted", r)
    BY <1>7, <2>3, <2>4, <2>5 DEF CanGo
  <2> QED
    BY <1>1, <1>2, <1>3, <1>4, <1>6, <2>1, <2>6, OwnStep
<1>9. CASE ApplyIntegrated(c)
  <2>1. stage[c] = "publish" /\ SetTask(op, "integrated") /\ To(c, "close")
    BY <1>9 DEF ApplyIntegrated, Transits
  <2>2. r.verdict = "pass" /\ bound[c] \in Evidence /\ r.phase \in Applied
    BY <1>3, <1>7, <2>1 DEF Holds
  <2>3. Agree("integrated", r)
    BY <1>3, <2>1, <2>2 DEF Agree, Verdict, Applied
  <2>4. Holds("close", bound[c], "integrated", r)
    BY <1>7, <2>2 DEF Holds, Merging, Closing, Fresh, Returning, Requeued
  <2>5. ASSUME NEW d \in Callers \ {c}, stage[d] # "idle", delivery[d] = op
        PROVE  Holds(stage[d], bound[d], "integrated", r) /\ stage[d] \notin Fresh
    <3>1. stage[d] \in Accepting /\ stage[d] \notin Returning /\ stage[d] \notin Fresh
      BY <1>5, <1>7, <2>1, <2>5
    <3>2. Holds(stage[d], bound[d], task[op], r)
      BY <1>5, <2>5
    <3> QED
      BY <2>1, <3>1, <3>2
      DEF Holds, Accepting, Merging, Closing, Fresh, Returning, Requeued
  <2>6. CanGo(c, op, "close", bound[c], "integrated", r)
    BY <1>7, <2>3, <2>4, <2>5 DEF CanGo
  <2> QED
    BY <1>1, <1>2, <1>3, <1>4, <1>6, <2>1, <2>6, OwnStep
<1>10. CASE ApplyReturned(c)
  <2>1. stage[c] = "return" /\ task[op] \in {"review_ready", "returned"}
        /\ SetTask(op, "returned") /\ To(c, "requeue")
    BY <1>10 DEF ApplyReturned, Transits
  <2>2. r.verdict = "fail" /\ bound[c] \in Evidence
    BY <1>3, <1>7, <2>1 DEF Holds
  <2>3. Agree("returned", r)
    BY <1>3, <2>1, <2>2 DEF Agree, Verdict
  <2>4. Holds("requeue", bound[c], "returned", r)
    BY <1>7, <2>2 DEF Holds, Accepting, Merging, Closing, Fresh, Requeued
  <2>5. ASSUME NEW d \in Callers \ {c}, stage[d] # "idle", delivery[d] = op
        PROVE  Holds(stage[d], bound[d], "returned", r) /\ stage[d] \notin Fresh
    <3>1. stage[d] \in Returning /\ stage[d] \notin Accepting /\ stage[d] \notin Fresh
      BY <1>5, <1>7, <2>1, <2>5
    <3>2. Holds(stage[d], bound[d], task[op], r)
      BY <1>5, <2>5
    <3> QED
      BY <2>1, <3>1, <3>2
      DEF Holds, Accepting, Merging, Closing, Fresh, Returning, Requeued
  <2>6. CanGo(c, op, "requeue", bound[c], "returned", r)
    BY <1>7, <2>3, <2>4, <2>5 DEF CanGo
  <2> QED
    BY <1>1, <1>2, <1>3, <1>4, <1>6, <2>1, <2>6, OwnStep
<1>11. CASE ApplyRequeued(c)
  <2>1. stage[c] = "requeue" /\ SetTask(op, "ready") /\ To(c, "apply_return")
    BY <1>11 DEF ApplyRequeued, Transits
  <2>2. r.verdict = "fail" /\ bound[c] \in Evidence
    BY <1>3, <1>7, <2>1 DEF Holds
  <2>3. Agree("ready", r)
    BY <1>3, <2>1, <2>2 DEF Agree, Verdict
  <2>4. Holds("apply_return", bound[c], "ready", r)
    BY <1>7, <2>2 DEF Holds, Accepting, Merging, Closing, Fresh, Requeued
  <2>5. ASSUME NEW d \in Callers \ {c}, stage[d] # "idle", delivery[d] = op
        PROVE  Holds(stage[d], bound[d], "ready", r) /\ stage[d] \notin Fresh
    <3>1. stage[d] \in Returning /\ stage[d] \notin Accepting /\ stage[d] \notin Fresh
      BY <1>5, <1>7, <2>1, <2>5
    <3>2. Holds(stage[d], bound[d], task[op], r)
      BY <1>5, <2>5
    <3> QED
      BY <2>1, <3>1, <3>2
      DEF Holds, Accepting, Merging, Closing, Fresh, Returning, Requeued
  <2>6. CanGo(c, op, "apply_return", bound[c], "ready", r)
    BY <1>7, <2>3, <2>4, <2>5 DEF CanGo
  <2> QED
    BY <1>1, <1>2, <1>3, <1>4, <1>6, <2>1, <2>6, OwnStep
<1> QED
  BY <1>8, <1>9, <1>10, <1>11

\* A call reads the review that it is about to advance.
LEMMA ReadStep ==
  ASSUME ReviewIInv, TypeOK', NEW c \in Callers, NEW at, NEW p,
         NEW s \in Stages \ Fresh, stage[c] \notin {"idle", "integrate"},
         ReadReview(c, at, p, s),
         Holds(s, bound[c], task[delivery[c]], review[delivery[c]])
  PROVE  Parts'
<1> DEFINE op == delivery[c]
<1>1. /\ pc' = pc /\ call' = call /\ head' = head /\ task' = task
      /\ review' = review /\ integratedAs' = integratedAs
      /\ reviewRequest' = reviewRequest /\ To(c, s)
  BY DEF ReadReview, vars, records
<1>2. /\ op \in Ops /\ ReviewTypeOK /\ Agree(task[op], review[op])
      /\ task[op] \in TaskState /\ SetTask(op, task[op])
      /\ review[op] \in Receipts /\ SetReview(op, review[op])
  BY <1>1, AtStage, SameRecords DEF ReviewIInv
<1>3. Filed
  BY <1>1, <1>2 DEF ReviewTypeOK, Filed
<1>4. CanGo(c, op, s, bound[c], task[op], review[op])
  BY <1>2, AtStage DEF CanGo
<1> QED
  BY <1>1, <1>2, <1>3, <1>4, OwnStep

\* A call writes the phase it has advanced a review to, over whatever phase the
\* review has come to since it was read.
LEMMA WriteStep ==
  ASSUME ReviewIInv, TypeOK', NEW c \in Callers, NEW at, NEW p \in Applied,
         NEW s \in Stages \ Fresh, NEW v \in {"pass", "fail"}, NEW t, NEW r,
         stage[c] \notin {"idle", "integrate"},
         WriteReview(c, at, p, s),
         t = task[delivery[c]], review[delivery[c]].verdict = v,
         r = [phase |-> p, verdict |-> v],
         v = "pass" => t \in {"accepted", "integrated"},
         v = "pass" /\ p # "REVIEW_APPLIED" => t = "integrated",
         v = "fail" => t = "ready",
         s # "idle" => Holds(s, bound[c], t, r)
  PROVE  Parts'
<1> DEFINE op == delivery[c]
<1>1. /\ pc' = pc /\ call' = call /\ head' = head /\ task' = task
      /\ integratedAs' = integratedAs /\ reviewRequest' = reviewRequest
      /\ SetPhase(op, p) /\ IF s = "idle" THEN End(c) ELSE To(c, s)
  BY DEF WriteReview, vars
<1>2. /\ op \in Ops /\ ReviewTypeOK /\ Agree(t, review[op])
      /\ t \in TaskState /\ SetTask(op, t)
  BY <1>1, AtStage, SameRecords DEF ReviewIInv
<1>3. Filed /\ GitAlone(c)
  BY <1>1, <1>2, NoGitCall DEF ReviewTypeOK, Filed
<1>4. None # "pass" /\ None # "fail" /\ v # None
  BY DEF Verdict
<1>5. r \in Receipts /\ SetReview(op, r)
  <2>1. [review[op] EXCEPT !.phase = p] = r
    BY AtStage
  <2>2. SetReview(op, r)
    BY <1>1, <1>2, <2>1 DEF SetPhase, SetReview, ReviewTypeOK
  <2> QED
    BY <2>2, PhasesByName DEF Receipts, Verdict
<1>6. r.phase = p /\ r.verdict = v /\ r # NoReview
  BY <1>4 DEF NoReview
<1>7. Agree(t, r)
  BY <1>4, <1>6, PhasesByName DEF Agree, Applied, Auditing, Verdict
<1>8. ASSUME NEW d \in Callers \ {c}, stage[d] # "idle", delivery[d] = op
      PROVE  Holds(stage[d], bound[d], t, r)
  <2>1. Holds(stage[d], bound[d], t, review[op]) /\ stage[d] \in Stages \ {"idle"}
    BY <1>8, AtStage
  <2>2. /\ v = "pass" => stage[d] \in Accepting
        /\ v = "fail" => stage[d] \in Returning
    BY <1>2, <2>1, StageByVerdict
  <2>3. /\ Accepting \cap Returning = {} /\ Accepting \cap Fresh = {}
        /\ Returning \cap Fresh = {} /\ "deliver" \in Fresh /\ "audit" \in Fresh
        /\ Merging \subseteq Accepting
    BY DEF Accepting, Returning, Requeued, Merging, Closing, Fresh
  <2> QED
    BY <1>6, <2>1, <2>2, <2>3 DEF Holds
<1>9. CanGo(c, op, s, bound[c], t, r)
  BY <1>7, <1>8 DEF CanGo
<1>10. CASE s = "idle"
  BY <1>1, <1>2, <1>3, <1>5, <1>9, <1>10, LastStep
<1>11. CASE s # "idle"
  BY <1>1, <1>2, <1>3, <1>5, <1>9, <1>11, OwnStep
<1> QED
  BY <1>10, <1>11

\* REVIEW_APPLIED, INTEGRATION_APPLIED, FINALIZED: the review goes on, its task
\* stays.
LEMMA AdvanceStep ==
  ASSUME ReviewIInv, TypeOK', NEW c \in Callers,
         AdvanceAccepted(c) \/ CloseAccepted(c) \/ CloseReturned(c)
  PROVE  Parts'
<1> DEFINE op == delivery[c]
           t == task[op]
<1>1. stage[c] \in ({"apply", "applying"} \cup Closing) \cup Requeued
  BY DEF AdvanceAccepted, CloseAccepted, CloseReturned, ReadReview, WriteReview,
         Closing, Requeued
<1>2. stage[c] \notin {"idle", "integrate"}
  BY <1>1 DEF Closing, Requeued
<1>3. Holds(stage[c], bound[c], t, review[op]) /\ Agree(t, review[op])
  BY <1>2, AtStage
<1>4. ({"integrate"} \cup Closing) \cup (Requeued \cup {"idle", "applying"})
        \subseteq Stages \ Fresh
  BY DEF Stages, Fresh, Closing, Requeued
<1>5. Applied = {"REVIEW_APPLIED", "INTEGRATION_APPLIED", "FINALIZED"}
  BY DEF Applied
<1>6. CASE stage[c] \in {"apply", "applying"} \cup Closing
  <2>1. /\ bound[c] \in Evidence /\ review[op].verdict = "pass"
        /\ t \in {"accepted", "integrated"}
        /\ stage[c] \in Closing => t = "integrated" /\ review[op].phase \in Applied
    BY <1>3, <1>6 DEF Holds, Accepting, Merging, Closing
  <2>2. ASSUME NEW s \in {"applying"} \cup Closing, s \in Closing => stage[c] \in Closing
        PROVE  Holds(s, bound[c], t, review[op])
    BY <2>1, <2>2 DEF Holds, Fresh, Accepting, Merging, Closing, Returning, Requeued
  <2>3. ASSUME NEW s \in {"integrate"} \cup Closing, s \in Closing => t = "integrated",
               NEW p \in Applied, NEW r, r = [phase |-> p, verdict |-> "pass"]
        PROVE  Holds(s, bound[c], t, r)
    <3>1. r.phase = p /\ r.verdict = "pass"
      BY <2>3
    <3> QED
      BY <2>1, <2>3, <3>1
      DEF Holds, Fresh, Accepting, Merging, Closing, Returning, Requeued
  <2>4. CASE ReadReview(c, "apply", "MAD_COMPLETED", "applying")
    BY <1>2, <1>4, <2>2, <2>4, ReadStep DEF Closing
  <2>5. CASE WriteReview(c, "applying", "REVIEW_APPLIED", "integrate")
    <3>1. Holds("integrate", bound[c], t, [phase |-> "REVIEW_APPLIED", verdict |-> "pass"])
      BY <1>5, <2>3 DEF Closing
    <3> QED
      BY <1>2, <1>4, <1>5, <2>1, <2>5, <3>1, WriteStep
  <2>6. CASE ReadReview(c, "close", "REVIEW_APPLIED", "closing")
             \/ ReadReview(c, "finalize", "INTEGRATION_APPLIED", "finalizing")
    <3>0. PICK s \in {"closing", "finalizing"} : \E p, at : ReadReview(c, at, p, s)
      BY <2>6
    <3>1. PICK p, at : ReadReview(c, at, p, s)
      BY <3>0
    <3>2. s \in Closing /\ stage[c] \in Closing
      BY <2>6, <3>1 DEF ReadReview, Closing
    <3>3. Holds(s, bound[c], t, review[op])
      BY <2>2, <3>2
    <3> QED
      BY <1>2, <1>4, <3>1, <3>2, <3>3, ReadStep
  <2>7. CASE WriteReview(c, "closing", "INTEGRATION_APPLIED", "finalize")
    <3>1. stage[c] \in Closing /\ "finalize" \in Closing
      BY <2>7 DEF WriteReview, Closing
    <3>2. Holds("finalize", bound[c], t,
                [phase |-> "INTEGRATION_APPLIED", verdict |-> "pass"])
      BY <1>5, <2>1, <2>3, <3>1
    <3> QED
      BY <1>2, <1>4, <1>5, <2>1, <2>7, <3>1, <3>2, WriteStep
  <2>8. CASE WriteReview(c, "finalizing", "FINALIZED", "idle")
    <3>1. stage[c] \in Closing
      BY <2>8 DEF WriteReview, Closing
    <3> QED
      BY <1>2, <1>4, <1>5, <2>1, <2>8, <3>1, WriteStep
  <2>9. ~CloseReturned(c)
    BY <1>6 DEF CloseReturned, ReadReview, WriteReview, Closing
  <2> QED
    BY <2>4, <2>5, <2>6, <2>7, <2>8, <2>9 DEF AdvanceAccepted, CloseAccepted
<1>7. CASE stage[c] \in Requeued
  <2>1. bound[c] \in Evidence /\ review[op].verdict = "fail" /\ t = "ready"
    BY <1>3, <1>7 DEF Holds, Returning
  <2>2. ASSUME NEW s \in Requeued, NEW r, r.verdict = "fail"
        PROVE  Holds(s, bound[c], t, r)
    BY <2>1, <2>2 DEF Holds, Fresh, Accepting, Merging, Closing, Returning, Requeued
  <2>3. {"applying_return", "close_return", "closing_return"} \subseteq Requeued
    BY DEF Requeued
  <2>4. CASE ReadReview(c, "apply_return", "MAD_COMPLETED", "applying_return")
    BY <1>2, <1>4, <2>1, <2>2, <2>3, <2>4, ReadStep
  <2>5. CASE WriteReview(c, "applying_return", "REVIEW_APPLIED", "close_return")
    <3>1. Holds("close_return", bound[c], t,
                [phase |-> "REVIEW_APPLIED", verdict |-> "fail"])
      BY <2>2, <2>3
    <3> QED
      BY <1>2, <1>4, <1>5, <2>1, <2>3, <2>5, <3>1, WriteStep
  <2>6. CASE ReadReview(c, "close_return", "REVIEW_APPLIED", "closing_return")
    BY <1>2, <1>4, <2>1, <2>2, <2>3, <2>6, ReadStep
  <2>7. CASE WriteReview(c, "closing_return", "FINALIZED", "idle")
    BY <1>2, <1>4, <1>5, <2>1, <2>7, WriteStep
  <2>8. ~AdvanceAccepted(c) /\ ~CloseAccepted(c)
    BY <1>7 DEF AdvanceAccepted, CloseAccepted, ReadReview, WriteReview, Requeued
  <2> QED
    BY <2>4, <2>5, <2>6, <2>7, <2>8 DEF CloseReturned
<1> QED
  BY <1>1, <1>6, <1>7

\* A step that only ends the call, whatever it does in git.
LEMMA EndStep ==
  ASSUME ReviewIInv, TypeOK', NEW c \in Callers, stage[c] # "idle",
         End(c), GitAlone(c),
         head' = head, task' = task, review' = review, integratedAs' = integratedAs,
         reviewRequest' \in [Ops -> Evidence \cup {NoEvidence}]
  PROVE  Parts'
<1> DEFINE op == delivery[c]
<1>1. /\ op \in Ops /\ ReviewTypeOK /\ Agree(task[op], review[op])
      /\ task[op] \in TaskState /\ SetTask(op, task[op])
      /\ review[op] \in Receipts /\ SetReview(op, review[op])
  BY AtStage, SameRecords DEF ReviewIInv
<1>2. Filed
  BY <1>1 DEF Filed, ReviewTypeOK
<1>3. CanGo(c, op, "idle", bound[c], task[op], review[op])
  BY <1>1, AtStage DEF CanGo, Fresh
<1> QED
  BY <1>1, <1>2, <1>3, LastStep

\* ReserveReviewDies, Refused, Die: a call ends.
LEMMA StopStep ==
  ASSUME ReviewIInv, TypeOK', NEW c \in Callers,
         ReserveReviewDies(c) \/ Refused(c) \/ Die(c)
  PROVE  Parts'
<1>1. /\ stage[c] # "idle" /\ End(c)
      /\ head' = head /\ task' = task /\ review' = review
      /\ integratedAs' = integratedAs
      /\ pc' = pc /\ call' = call
  BY DEF ReserveReviewDies, Refused, Die, vars, locals, records
<1>2. stage[c] # "integrate" \/ pc[c] = "idle"
  BY DEF ReserveReviewDies, Refused, Die
<1>3. GitAlone(c)
  <2>1. pc[c] = "idle"
    BY <1>2 DEF ReviewIInv, GitCallOK
  <2> QED
    BY <1>1, <2>1 DEF GitAlone, GitCallOK
<1>4. reviewRequest' \in [Ops -> Evidence \cup {NoEvidence}]
  <2>1. ReviewTypeOK /\ delivery[c] \in Ops
    BY <1>1, AtStage DEF ReviewIInv
  <2>2. Now \in Evidence
    BY <2>1 DEF Now, Evidence, ReviewTypeOK, TypeOK
  <2>3. reviewRequest' \in {reviewRequest, [reviewRequest EXCEPT ![delivery[c]] = Now]}
    BY DEF ReserveReviewDies, Refused, Die, records
  <2> QED
    BY <2>1, <2>2, <2>3 DEF ReviewTypeOK
<1> QED
  BY <1>1, <1>3, <1>4, EndStep

\* A user accepts or returns a delivery, of which there may be two calls.
LEMMA BeginStep ==
  ASSUME ReviewIInv, TypeOK', NEW c \in Callers, NEW op \in Ops,
         BeginAccept(c, op) \/ BeginReturn(c, op)
  PROVE  Parts'
<1>1. /\ stage[c] = "idle" /\ pc' = pc /\ call' = call /\ head' = head
      /\ task' = task /\ review' = review /\ integratedAs' = integratedAs
      /\ reviewRequest' = reviewRequest
  BY DEF BeginAccept, BeginReturn, vars, records
<1>2. /\ ReviewTypeOK /\ Agree(task[op], review[op])
      /\ task[op] \in TaskState /\ SetTask(op, task[op])
      /\ review[op] \in Receipts /\ SetReview(op, review[op])
  BY <1>1, SameRecords DEF ReviewIInv
<1>3. Filed /\ GitAlone(c)
  BY <1>1, <1>2, NoGitCall DEF Filed, ReviewTypeOK
<1>4. Now \in Evidence
  BY <1>2 DEF Now, Evidence, ReviewTypeOK, TypeOK
<1>5. PICK s \in {"accept", "return"} : /\ Enter(c, op, s, Now)
                                        /\ Holds(s, Now, task[op], review[op])
  <2>1. CASE BeginAccept(c, op)
    <3>1. Enter(c, op, "accept", Now) /\ review[op].verdict = "pass"
      BY <2>1 DEF BeginAccept, Pending
    <3> QED
      BY <1>4, <3>1
      DEF Holds, Fresh, Accepting, Merging, Closing, Returning, Requeued
  <2>2. CASE BeginReturn(c, op)
    <3>1. Enter(c, op, "return", Now) /\ review[op].verdict = "fail"
      BY <2>2 DEF BeginReturn, Pending
    <3> QED
      BY <1>4, <3>1
      DEF Holds, Fresh, Accepting, Merging, Closing, Returning, Requeued
  <2> QED
    BY <2>1, <2>2
<1>6. s \in Stages \ Fresh /\ Goes(c, op, s, Now) /\ Held
  BY <1>2, <1>5, EnterKept DEF Stages, Fresh
<1>7. ASSUME NEW d \in Callers \ {c}, stage[d] # "idle", delivery[d] = op
      PROVE  Holds(stage[d], bound[d], task[op], review[op])
  BY <1>7 DEF ReviewIInv, StageOK
<1>8. CanGo(c, op, s, Now, task[op], review[op])
  BY <1>2, <1>5, <1>6, <1>7 DEF CanGo
<1> QED
  BY <1>2, <1>3, <1>4, <1>5, <1>6, <1>8, CallStepKept

\* HEAD is read again.
LEMMA ReadHeadStep ==
  ASSUME ReviewIInv, TypeOK', NEW c \in Callers, ReadHead(c)
  PROVE  Parts'
<1> DEFINE op == delivery[c]
           b == [bound[c] EXCEPT !.head = head]
<1>1. /\ stage[c] = "complete" /\ pc' = pc /\ call' = call /\ head' = head
      /\ task' = task /\ review' = review /\ integratedAs' = integratedAs
      /\ reviewRequest' = reviewRequest /\ gitReceipt' = gitReceipt
      /\ stage' = [stage EXCEPT ![c] = "publish"] /\ delivery' = delivery
      /\ bound' = [bound EXCEPT ![c].head = head]
  BY DEF ReadHead, vars, records
<1>2. /\ op \in Ops /\ ReviewTypeOK /\ Agree(task[op], review[op])
      /\ Holds("complete", bound[c], task[op], review[op])
      /\ task[op] \in TaskState /\ SetTask(op, task[op])
      /\ review[op] \in Receipts /\ SetReview(op, review[op])
  BY <1>1, AtStage, SameRecords DEF ReviewIInv
<1>3. Filed /\ GitAlone(c)
  BY <1>1, <1>2, NoGitCall DEF Filed, ReviewTypeOK
<1>4. b \in Evidence
  BY <1>2 DEF Holds, Accepting, Merging, Evidence, ReviewTypeOK
<1>5. Goes(c, op, "publish", b) /\ Held
  BY <1>1, <1>2 DEF Goes, Held, ReviewTypeOK
<1> HIDE DEF b
<1>6. "publish" \in Stages /\ "publish" \notin Fresh
  BY DEF Stages, Fresh
<1>7. Holds("publish", b, task[op], review[op])
  BY <1>2, <1>4 DEF Holds, Fresh, Accepting, Merging, Closing, Returning, Requeued
<1>8. CanGo(c, op, "publish", b, task[op], review[op])
  BY <1>1, <1>2, <1>6, <1>7, AtStage DEF CanGo
<1> QED
  BY <1>2, <1>3, <1>4, <1>5, <1>6, <1>8, CallStepKept

\* The receipt that a call of integrate writes at last.
LEMMA Finalizes ==
  ASSUME IInv, NEW c \in Callers, pc[c] = "updated"
  PROVE  /\ receipt[OpOf(c)] \in Receipt
         /\ FinalizedReceipt(c) \in Receipt
         /\ FinalizedReceipt(c).phase = "FINALIZED"
<1>1. receipt[OpOf(c)] \in Receipt /\ result[c].refUpdated \in BOOLEAN
  BY ReceiptThere DEF IInv, CallOK, TypeOK
<1> QED
  BY <1>1 DEF FinalizedReceipt, RefUpdatedReceipt, Receipt, Phase, Outcome

\* A call of the Git integration owner.
LEMMA IntegrateStep ==
  ASSUME ReviewIInv, TypeOK', NEW c \in Callers, BeginIntegrate(c) \/ Integrate(c)
  PROVE  Parts'
<1> DEFINE op == delivery[c]
<1>1. /\ stage[c] = "integrate"
      /\ head' = head /\ task' = task /\ review' = review
      /\ integratedAs' = integratedAs /\ reviewRequest' = reviewRequest
  BY DEF BeginIntegrate, Integrate, records
<1>2. /\ op \in Ops /\ ReviewTypeOK /\ Agree(task[op], review[op])
      /\ Holds("integrate", bound[c], task[op], review[op])
      /\ task[op] \in TaskState /\ SetTask(op, task[op])
      /\ review[op] \in Receipts /\ SetReview(op, review[op])
      /\ TypeOK
  BY <1>1, AtStage, SameRecords DEF ReviewIInv, ReviewTypeOK
<1>3. Filed
  BY <1>1, <1>2 DEF Filed, ReviewTypeOK
<1>4. bound[c] \in Evidence /\ bound[c].target \in Commit
  BY <1>2 DEF Holds, Accepting, Merging, Evidence
<1>5. \A d \in Callers \ {c} : pc'[d] = pc[d] /\ call'[d] = call[d]
  <2>1. CASE UNCHANGED vars
    BY <2>1 DEF vars
  <2>2. CASE Continue(c) \/ Reserve(c, op, bound[c].target)
             \/ ReserveDies(c, op, bound[c].target)
    BY <1>2, <1>4, <2>2, GitMovesOne
  <2> QED
    BY <2>1, <2>2 DEF BeginIntegrate, Integrate, Continue
<1> DEFINE Done == Goes(c, op, "complete", bound[c]) /\ Held
<1>0. ASSUME NEW r \in Receipt \cup {NoReceipt}, Returned(c, r)
      PROVE  End(c) \/ Done
  BY <1>0, <1>2 DEF Returned, Goes, Held, ReviewTypeOK
<1>6. \/ pc'[c] = "idle" /\ End(c)
      \/ pc'[c] = "idle" /\ Done
      \/ OpOf(c)' = op /\ To(c, "integrate")
  <2>1. CASE BeginIntegrate(c)
    <3>1. CASE Reserve(c, op, bound[c].target) /\ To(c, "integrate")
      BY <1>2, <3>1 DEF Reserve, OpOf, TypeOK
    <3>2. CASE ReserveDies(c, op, bound[c].target) /\ End(c)
      BY <3>2 DEF ReserveDies
    <3>3. CASE End(c) /\ UNCHANGED vars
      BY <2>1, <3>3 DEF BeginIntegrate, vars
    <3>4. CASE Returned(c, receipt[op]) /\ UNCHANGED vars
      <4>1. receipt[op] \in Receipt \cup {NoReceipt} /\ pc'[c] = "idle"
        BY <1>2, <2>1, <3>4 DEF BeginIntegrate, vars, TypeOK
      <4> QED
        BY <1>0, <3>4, <4>1
    <3> QED
      BY <2>1, <3>1, <3>2, <3>3, <3>4 DEF BeginIntegrate
  <2>2. CASE Integrate(c)
    <3>1. CASE Finalize(c) /\ Returned(c, FinalizedReceipt(c))
      <4>1. pc[c] = "updated" /\ pc'[c] = "idle"
        BY <1>2, <3>1 DEF Finalize, Leave, Goto, TypeOK
      <4>2. FinalizedReceipt(c) \in Receipt
        BY <4>1, Finalizes DEF ReviewIInv
      <4> QED
        BY <1>0, <3>1, <4>1, <4>2
    <3>2. CASE pc'[c] = "idle" /\ End(c)
      BY <3>2
    <3>3. CASE pc'[c] # "idle" /\ To(c, "integrate")
      <4>1. pc[c] # "idle" /\ call' = call
        BY <1>2, <2>2, <3>3
        DEF Integrate, Continue, Validate, MarkValidated, Prepare, Reject,
            RecordTree, UpdateRef, NoRefNeeded, RefUnknown, Finalize,
            FinalizeDies, Fail, LockTimeout, Leave, Goto, TypeOK, locals
      <4> QED
        BY <3>3, <4>1 DEF ReviewIInv, GitCallOK, OpOf
    <3> QED
      BY <2>2, <3>1, <3>2, <3>3 DEF Integrate
  <2> QED
    BY <2>1, <2>2
<1>7. {"integrate", "complete"} \subseteq Stages \ Fresh
  BY DEF Stages, Fresh
<1>8. ASSUME NEW s \in {"integrate", "complete"}
      PROVE  CanGo(c, op, s, bound[c], task[op], review[op])
  <2>1. Holds(s, bound[c], task[op], review[op])
    BY <1>2 DEF Holds, Fresh, Accepting, Merging, Closing, Returning, Requeued
  <2> QED
    BY <1>1, <1>2, <1>7, <2>1, AtStage DEF CanGo
<1>9. CASE pc'[c] = "idle" /\ End(c)
  <2>1. GitAlone(c)
    BY <1>5, <1>9 DEF GitAlone, GitCallOK
  <2>2. reviewRequest' \in [Ops -> Evidence \cup {NoEvidence}]
    BY <1>3 DEF Filed
  <2> QED
    BY <1>1, <1>9, <2>1, <2>2, EndStep
<1>10. ASSUME NEW s \in {"integrate", "complete"}, Goes(c, op, s, bound[c]), Held,
              GitCallOK(c)'
       PROVE  Parts'
  <2>1. GitAlone(c)
    BY <1>5, <1>10 DEF GitAlone
  <2> QED
    BY <1>2, <1>3, <1>4, <1>7, <1>8, <1>10, <2>1, CallStepKept
<1>12. CASE pc'[c] = "idle" /\ Done
  BY <1>10, <1>12 DEF GitCallOK
<1>13. CASE OpOf(c)' = op /\ To(c, "integrate")
  <2>1. Goes(c, op, "integrate", bound[c]) /\ Held
    BY <1>2, <1>13, SameRecords
  <2>2. GitCallOK(c)'
    BY <1>2, <1>13, <2>1 DEF GitCallOK, Goes, ReviewTypeOK
  <2> QED
    BY <1>10, <2>1, <2>2
<1> QED
  BY <1>6, <1>9, <1>12, <1>13

\* Steps that move no call.
LEMMA RestStep ==
  ASSUME ReviewIInv, TypeOK', MoveHead \/ Others \/ UNCHANGED <<vars, rvars>>
  PROVE  Parts'
<1>1. /\ UNCHANGED <<task, integratedAs, reviewRequest, review, stage, delivery,
                      bound, gitReceipt>>
      /\ pc' = pc /\ call' = call
  BY DEF MoveHead, Others, DeveloperPush, RemoveLock, rvars, records, vars, locals
<1>2. head' \in 0..MaxHead
  BY HeadIsBounded DEF MoveHead, Others, rvars, ReviewIInv, ReviewTypeOK
<1>3. ReviewTypeOK'
  BY <1>1, <1>2 DEF ReviewIInv, ReviewTypeOK
<1>4. \A c \in Callers : StageOK(c)' /\ GitCallOK(c)'
  BY <1>1 DEF ReviewIInv, StageOK, GitCallOK, OpOf
<1>5. OneFresh' /\ \A op \in Ops : Agree(task'[op], review'[op])
  BY <1>1 DEF ReviewIInv, OneFresh
<1> QED
  BY <1>3, <1>4, <1>5 DEF Parts

-----------------------------------------------------------------------------
(* DeliveryReview: the branch, and what the ledger records of it. *)

\* Only a call of integrate for a delivery brings it to the branch.
LEMMA NewlyMerged ==
  ASSUME ReviewIInv, [ReviewNext]_<<vars, rvars>>, NEW op \in Ops,
         HasReport(op, target'), ~HasReport(op, target)
  PROVE  \E c \in Callers : stage[c] = "integrate" /\ delivery[c] = op
<1>0. IInv /\ target \in Commit
  BY DEF ReviewIInv, IInv, TypeOK
<1>1. ASSUME NEW c \in Callers, UpdateRef(c)
      PROVE  pc[c] # "idle" /\ op = OpOf(c)
  <2> DEFINE q == OpOf(c)
  <2>1. /\ q \in Ops
        /\ Started(q)
        /\ call[c].expected = request[q]
        /\ Fits(q)
        /\ result[c].commit = Candidate(q)
    BY <1>0, <1>1 DEF IInv, UpdateRef, CallOK, NeedsRef, Good
  <2>2. target' = Candidate(q) /\ target \in {Candidate(q), request[q]}
    BY <1>1, <2>1 DEF UpdateRef
  <2>3. op = q \/ HasReport(op, request[q])
    BY <2>1, <2>2, CandidateFits
  <2> QED
    BY <1>1, <2>2, <2>3 DEF UpdateRef
<1>2. CASE DeveloperPush
  BY <1>0, <1>2, StepsDiffer, AppendStep DEF DeveloperPush
<1>3. ASSUME NEW c \in Callers, Integrate(c)
      PROVE  stage[c] = "integrate" /\ delivery[c] = op
  <2>1. stage[c] = "integrate" /\ Continue(c)
    BY <1>3 DEF Integrate, Continue
  <2>2. UpdateRef(c)
    BY <2>1
    DEF Continue, Validate, MarkValidated, Prepare, Reject, RecordTree,
        NoRefNeeded, RefUnknown, Finalize, FinalizeDies, Fail, LockTimeout
  <2> QED
    BY <1>1, <2>1, <2>2 DEF ReviewIInv, GitCallOK
<1>4. ASSUME NEW c \in Callers, CallerStep(c), ~Integrate(c)
      PROVE  FALSE
  BY <1>4
  DEF CallerStep, Deliver, Redeliver, Delivered, BeginAccept, BeginReturn,
      ReserveReview, ReserveReviewDies, StartAudit, CompleteAudit, ApplyAccepted,
      AdvanceAccepted, BeginIntegrate, Reserve, ReserveDies, ReadHead,
      ApplyIntegrated, CloseAccepted, ApplyReturned, ApplyRequeued, CloseReturned,
      ReadReview, WriteReview, Refused, Die, vars
<1>5. CASE MoveHead \/ RemoveLock \/ UNCHANGED <<vars, rvars>>
  BY <1>5 DEF MoveHead, RemoveLock, vars
<1> QED
  BY <1>2, <1>3, <1>4, <1>5 DEF ReviewNext, Others

\* An acceptance is final.
LEMMA AcceptedStays ==
  ASSUME ReviewIInv, [ReviewNext]_<<vars, rvars>>, NEW op \in Ops,
         task[op] \in {"accepted", "integrated"}, review[op].verdict = "pass"
  PROVE  task'[op] \in {"accepted", "integrated"} /\ review'[op].verdict = "pass"
<1>0. ReviewTypeOK /\ Agree(task[op], review[op])
  BY DEF ReviewIInv
<1>1. task'[op] \in {"accepted", "integrated"}
  <2>1. ASSUME NEW c \in Callers, NEW q \in Ops, Delivered(c, q)
        PROVE  task'[op] = task[op]
    BY <1>0, <2>1 DEF Delivered, SetTask, ReviewTypeOK
  <2>2. ASSUME NEW c \in Callers,
               \/ ApplyAccepted(c) \/ ApplyIntegrated(c)
               \/ ApplyReturned(c) \/ ApplyRequeued(c)
        PROVE  task'[op] \in {"accepted", "integrated"}
    <3>1. delivery[c] = op => task'[op] \in {"accepted", "integrated"}
      BY <1>0, <2>2
      DEF ApplyAccepted, ApplyIntegrated, ApplyReturned, ApplyRequeued, Transits,
          SetTask, ReviewTypeOK
    <3>2. delivery[c] # op => task'[op] = task[op]
      BY <1>0, <2>2
      DEF ApplyAccepted, ApplyIntegrated, ApplyReturned, ApplyRequeued, Transits,
          SetTask, ReviewTypeOK
    <3> QED
      BY <3>1, <3>2
  <2>3. CASE task' = task
    BY <2>3
  <2> QED
    BY <2>1, <2>2, <2>3
    DEF ReviewNext, CallerStep, Deliver, Redeliver, BeginAccept, BeginReturn,
        ReserveReview, ReserveReviewDies, StartAudit, CompleteAudit,
        AdvanceAccepted, BeginIntegrate, Integrate, ReadHead, CloseAccepted,
        CloseReturned, ReadReview, WriteReview, Refused, Die, MoveHead, Others,
        records, rvars
<1>2. review'[op].verdict = "pass"
  <2>1. ASSUME NEW c \in Callers, NEW q, NEW p, SetPhase(q, p)
        PROVE  review'[op].verdict = review[op].verdict
    BY <1>0, <2>1 DEF SetPhase, ReviewTypeOK, NoReview
  <2>2. ASSUME NEW c \in Callers, ReserveReview(c) \/ CompleteAudit(c)
        PROVE  review'[op] = review[op]
    <3>1. stage[c] \in Fresh
          /\ Holds(stage[c], bound[c], task[delivery[c]], review[delivery[c]])
      BY <2>2, AtStage DEF ReserveReview, CompleteAudit, Fresh
    <3>2. delivery[c] # op
      BY <3>1 DEF Holds
    <3> QED
      BY <1>0, <2>2, <3>2 DEF ReserveReview, CompleteAudit, ReviewTypeOK
  <2>3. ASSUME NEW c \in Callers,
               StartAudit(c) \/ AdvanceAccepted(c) \/ CloseAccepted(c) \/ CloseReturned(c)
        PROVE  review'[op].verdict = review[op].verdict
    <3>1. review' = review \/ \E q, p : SetPhase(q, p)
      BY <2>3 DEF StartAudit, AdvanceAccepted, CloseAccepted, CloseReturned,
                  ReadReview, WriteReview, records
    <3> QED
      BY <2>1, <3>1
  <2>4. CASE review' = review
    BY <2>4
  <2> QED
    BY <2>2, <2>3, <2>4
    DEF ReviewNext, CallerStep, Deliver, Redeliver, Delivered, BeginAccept,
        BeginReturn, ReserveReviewDies, ApplyAccepted, ApplyIntegrated,
        ApplyReturned, ApplyRequeued, BeginIntegrate, Integrate, ReadHead,
        Refused, Die, MoveHead, Others, records, rvars
<1> QED
  BY <1>1, <1>2

\* What is merged was accepted: the call that merges is for an accepted
\* delivery, and brings nothing else along.
LEMMA MergedStep ==
  ASSUME ReviewIInv, [ReviewNext]_<<vars, rvars>>
  PROVE  MergedWasAccepted'
<1> SUFFICES ASSUME NEW op \in Ops, HasReport(op, target')
             PROVE  task'[op] \in {"accepted", "integrated"} /\ review'[op].verdict = "pass"
  BY DEF MergedWasAccepted
<1>1. task[op] \in {"accepted", "integrated"} /\ review[op].verdict = "pass"
  <2>1. CASE HasReport(op, target)
    BY <2>1 DEF ReviewIInv, MergedWasAccepted
  <2>2. CASE ~HasReport(op, target)
    <3>1. PICK c \in Callers : stage[c] = "integrate" /\ delivery[c] = op
      BY <2>2, NewlyMerged
    <3>2. Holds("integrate", bound[c], task[op], review[op])
      BY <3>1, AtStage
    <3> QED
      BY <3>2 DEF Holds, Accepting, Merging
  <2> QED
    BY <2>1, <2>2
<1> QED
  BY <1>1, AcceptedStays

\* Where calls go, and which of them come to hold a receipt.
LEMMA StageSteps ==
  ASSUME ReviewIInv, [ReviewNext]_<<vars, rvars>>, NEW d \in Callers,
         stage'[d] \in {"complete", "publish"}
  PROVE  \/ /\ stage[d] \in {"complete", "publish"}
            /\ delivery'[d] = delivery[d] /\ gitReceipt'[d] = gitReceipt[d]
         \/ /\ delivery'[d] \in Ops
            /\ GitDone(gitReceipt'[d])
            /\ receipt'[delivery'[d]] = gitReceipt'[d]
<1> DEFINE Kept(c) == stage'[c] = stage[c] /\ delivery'[c] = delivery[c]
                      /\ gitReceipt'[c] = gitReceipt[c]
<1>1. ReviewTypeOK
  BY DEF ReviewIInv
<1>2. ASSUME NEW c \in Callers, NEW s, To(c, s), s \notin {"complete", "publish"}
      PROVE  Kept(d)
  BY <1>1, <1>2 DEF To, ReviewTypeOK
<1>3. ASSUME NEW c \in Callers, NEW op, NEW s, NEW e, Enter(c, op, s, e),
             s \notin {"complete", "publish"}
      PROVE  Kept(d)
  BY <1>1, <1>3 DEF Enter, ReviewTypeOK
<1>4. ASSUME NEW c \in Callers, End(c)
      PROVE  Kept(d)
  BY <1>3, <1>4 DEF End
<1>5. ASSUME NEW c \in Callers, NEW op \in Ops,
             Deliver(c, op) \/ Redeliver(c, op) \/ BeginAccept(c, op) \/ BeginReturn(c, op)
      PROVE  Kept(d)
  <2>1. \E s \in {"deliver", "accept", "return"}, e \in {NoEvidence, Now} :
          Enter(c, op, s, e)
    BY <1>5 DEF Deliver, Redeliver, Delivered, BeginAccept, BeginReturn
  <2> QED
    BY <1>3, <2>1
<1>6. ASSUME NEW c \in Callers,
             \/ ReserveReviewDies(c) \/ CompleteAudit(c) \/ Refused(c) \/ Die(c)
      PROVE  Kept(d)
  BY <1>4, <1>6 DEF ReserveReviewDies, CompleteAudit, Refused, Die
<1>7. ASSUME NEW c \in Callers,
             \/ ReserveReview(c) \/ ApplyAccepted(c) \/ ApplyIntegrated(c)
             \/ ApplyReturned(c) \/ ApplyRequeued(c)
      PROVE  Kept(d)
  <2>1. \E s \in {"audit", "apply", "close", "requeue", "apply_return"} : To(c, s)
    BY <1>7 DEF ReserveReview, ApplyAccepted, ApplyIntegrated, ApplyReturned,
                ApplyRequeued
  <2> QED
    BY <1>2, <2>1
<1>8. ASSUME NEW c \in Callers,
             AdvanceAccepted(c) \/ CloseAccepted(c) \/ CloseReturned(c)
      PROVE  Kept(d)
  <2>1. \/ End(c)
        \/ \E s \in {"applying", "integrate", "closing", "finalize", "finalizing",
                    "applying_return", "close_return", "closing_return"} : To(c, s)
    BY <1>8 DEF AdvanceAccepted, CloseAccepted, CloseReturned, ReadReview, WriteReview
  <2> QED
    BY <1>2, <1>4, <2>1
<1>9. ASSUME NEW c \in Callers, NEW r, Returned(c, r), delivery[c] \in Ops,
             receipt'[delivery[c]] = r
      PROVE  Kept(d) \/ /\ delivery'[d] \in Ops
                        /\ GitDone(gitReceipt'[d])
                        /\ receipt'[delivery'[d]] = gitReceipt'[d]
  <2>1. CASE GitDone(r)
    <3>1. /\ gitReceipt' = [gitReceipt EXCEPT ![c] = r] /\ delivery' = delivery
          /\ stage' = [stage EXCEPT ![c] = "complete"]
      BY <1>9, <2>1 DEF Returned
    <3>2. CASE d = c
      BY <1>1, <1>9, <2>1, <3>1, <3>2 DEF ReviewTypeOK
    <3>3. CASE d # c
      BY <1>1, <3>1, <3>3 DEF ReviewTypeOK
    <3> QED
      BY <3>2, <3>3
  <2>2. CASE ~GitDone(r)
    BY <1>4, <1>9, <2>2 DEF Returned
  <2> QED
    BY <2>1, <2>2
<1> DEFINE Came == /\ delivery'[d] \in Ops
                   /\ GitDone(gitReceipt'[d])
                   /\ receipt'[delivery'[d]] = gitReceipt'[d]
<1>10. ASSUME NEW c \in Callers, BeginIntegrate(c)
       PROVE  Kept(d) \/ Came
  <2>1. delivery[c] \in Ops
    BY <1>10, AtStage DEF BeginIntegrate
  <2>2. CASE Returned(c, receipt[delivery[c]]) /\ UNCHANGED vars
    <3>1. receipt'[delivery[c]] = receipt[delivery[c]]
      BY <2>2 DEF vars
    <3> QED
      BY <1>9, <2>1, <2>2, <3>1
  <2>3. CASE End(c) \/ To(c, "integrate")
    BY <1>2, <1>4, <2>3
  <2> QED
    BY <1>10, <2>2, <2>3 DEF BeginIntegrate
<1>11. ASSUME NEW c \in Callers, Integrate(c)
       PROVE  Kept(d) \/ Came
  <2>1. CASE Finalize(c) /\ Returned(c, FinalizedReceipt(c))
    <3>1. /\ pc[c] = "updated"
          /\ receipt' = [receipt EXCEPT ![OpOf(c)] = FinalizedReceipt(c)]
      BY <2>1 DEF Finalize
    <3>2. OpOf(c) = delivery[c] /\ delivery[c] \in Ops
      BY <1>11, <3>1, AtStage DEF Integrate, ReviewIInv, GitCallOK
    <3>3. receipt'[delivery[c]] = FinalizedReceipt(c)
      BY <1>1, <3>1, <3>2 DEF ReviewTypeOK, TypeOK
    <3> QED
      BY <1>9, <2>1, <3>2, <3>3
  <2>2. CASE End(c) \/ To(c, "integrate")
    BY <1>2, <1>4, <2>2
  <2> QED
    BY <1>11, <2>1, <2>2 DEF Integrate
<1>12. ASSUME NEW c \in Callers, ReadHead(c)
       PROVE  /\ stage[d] \in {"complete", "publish"}
              /\ delivery'[d] = delivery[d] /\ gitReceipt'[d] = gitReceipt[d]
  BY <1>1, <1>12 DEF ReadHead, ReviewTypeOK
<1>13. ASSUME NEW c \in Callers, StartAudit(c)
       PROVE  Kept(d)
  BY <1>13 DEF StartAudit
<1>14. CASE MoveHead \/ Others \/ UNCHANGED <<vars, rvars>>
  BY <1>14 DEF MoveHead, Others, rvars
<1> HIDE DEF Came
<1>15. Kept(d) => stage[d] \in {"complete", "publish"}
  OBVIOUS
<1> QED
  BY <1>5, <1>6, <1>7, <1>8, <1>10, <1>11, <1>12, <1>13, <1>14, <1>15
  DEF ReviewNext, CallerStep, Came

\* How a task comes to be integrated.
LEMMA IntegratedBy ==
  ASSUME ReviewIInv, [ReviewNext]_<<vars, rvars>>, NEW op \in Ops,
         task'[op] = "integrated"
  PROVE  \/ task[op] = "integrated" /\ integratedAs'[op] = integratedAs[op]
         \/ \E c \in Callers : ApplyIntegrated(c) /\ delivery[c] = op
<1>0. ReviewTypeOK
  BY DEF ReviewIInv
<1>1. ASSUME NEW c \in Callers, ApplyIntegrated(c)
      PROVE  \/ task[op] = "integrated" /\ integratedAs'[op] = integratedAs[op]
             \/ delivery[c] = op
  <2> SUFFICES ASSUME delivery[c] # op
               PROVE  task[op] = "integrated" /\ integratedAs'[op] = integratedAs[op]
    OBVIOUS
  <2>1. task' = [task EXCEPT ![delivery[c]] = "integrated"]
        /\ integratedAs' = [integratedAs EXCEPT ![delivery[c]] = gitReceipt[c]]
    BY <1>1 DEF ApplyIntegrated, Transits, SetTask
  <2> QED
    BY <1>0, <2>1 DEF ReviewTypeOK
<1>2. ASSUME NEW c \in Callers, NEW q, NEW t \in TaskState \ {"integrated"}, SetTask(q, t)
      PROVE  task[op] = "integrated"
  BY <1>0, <1>2 DEF SetTask, ReviewTypeOK
<1>3. {"review_ready", "accepted", "returned", "ready"} \subseteq TaskState \ {"integrated"}
  BY DEF TaskState
<1>4. ASSUME NEW c \in Callers, NEW q \in Ops, Delivered(c, q)
      PROVE  task[op] = "integrated" /\ integratedAs' = integratedAs
  BY <1>2, <1>3, <1>4 DEF Delivered
<1>5. ASSUME NEW c \in Callers, ApplyAccepted(c) \/ ApplyReturned(c) \/ ApplyRequeued(c)
      PROVE  task[op] = "integrated" /\ integratedAs' = integratedAs
  BY <1>2, <1>3, <1>5 DEF ApplyAccepted, ApplyReturned, ApplyRequeued, Transits
<1>6. CASE task' = task /\ integratedAs' = integratedAs
  BY <1>6
<1> QED
  BY <1>1, <1>4, <1>5, <1>6
  DEF ReviewNext, CallerStep, Deliver, Redeliver, BeginAccept, BeginReturn,
      ReserveReview, ReserveReviewDies, StartAudit, CompleteAudit,
      AdvanceAccepted, BeginIntegrate, Integrate, ReadHead, CloseAccepted,
      CloseReturned, ReadReview, WriteReview, Refused, Die, MoveHead, Others,
      records, rvars

\* What a receipt has told a call stays so, whoever goes on with the operation:
\* the tree that is recorded is not recorded again, and a call that finds an
\* integration finds no conflict.
LEMMA SettledStays ==
  ASSUME IInv, [AnyNext]_vars, NEW op \in Ops, NEW g, Settled(op, g)
  PROVE  Settled(op, g)'
<1> SUFFICES ASSUME receipt'[op] # receipt[op]
             PROVE  Settled(op, g)'
  BY DEF Settled
<1>0. /\ receipt \in [Ops -> Receipt \cup {NoReceipt}]
      /\ receipt[op] \in Receipt /\ receipt[op].phase \in {"REF_UPDATED", "FINALIZED"}
  BY DEF IInv, TypeOK, NoReceipt, Phase, Settled
<1>1. ASSUME NEW c \in Callers, AnyCall(c)
      PROVE  FALSE
  BY <1>0, <1>1 DEF AnyCall, Reserve, ReserveDies, NoReceipt, Receipt
<1>2. ASSUME NEW c \in Callers, MarkValidated(c)
      PROVE  FALSE
  BY <1>0, <1>2 DEF MarkValidated, Receipt
<1>3. ASSUME NEW c \in Callers, RecordTree(c)
      PROVE  FALSE
  BY <1>0, <1>3 DEF RecordTree
<1>4. ASSUME NEW c \in Callers, Finalize(c) \/ FinalizeDies(c)
      PROVE  Settled(op, g)'
  <2>1. pc[c] = "updated" /\ op = OpOf(c)
        /\ receipt'[op] \in {RefUpdatedReceipt(c), FinalizedReceipt(c)}
    BY <1>0, <1>4 DEF Finalize, FinalizeDies
  <2>2. result[c].outcome # "CONFLICT"
    BY <2>1, Landed DEF Settled
  <2>3. /\ receipt'[op].commit = receipt[op].commit
        /\ receipt'[op].outcome = "FINALIZED"
        /\ receipt'[op].phase \in {"REF_UPDATED", "FINALIZED"}
    BY <1>0, <2>1, <2>2 DEF RefUpdatedReceipt, FinalizedReceipt, Receipt, Settled
  <2> QED
    BY <2>3 DEF Settled
<1>5. ASSUME NEW c \in Callers,
             \/ Validate(c) \/ Prepare(c) \/ Reject(c) \/ UpdateRef(c)
             \/ NoRefNeeded(c) \/ RefUnknown(c) \/ Fail(c) \/ LockTimeout(c)
      PROVE  FALSE
  BY <1>5 DEF Validate, Prepare, Reject, UpdateRef, NoRefNeeded, RefUnknown,
              Fail, LockTimeout, files
<1>6. CASE DeveloperPush \/ RemoveLock \/ Elsewhere \/ UNCHANGED vars
  BY <1>6 DEF DeveloperPush, RemoveLock, Elsewhere, vars, files
<1> QED
  BY <1>1, <1>2, <1>3, <1>4, <1>5, <1>6 DEF AnyNext, Continue

\* The ledger records a receipt that stays settled.
LEMMA RecordedStep ==
  ASSUME ReviewIInv, [ReviewNext]_<<vars, rvars>>
  PROVE  Recorded'
<1>0. ReviewTypeOK /\ Recorded /\ IInv /\ [AnyNext]_vars
  BY ReviewIsAny DEF ReviewIInv
<1>1. ASSUME NEW d \in Callers, stage'[d] \in {"complete", "publish"}
      PROVE  Settled(delivery[d], gitReceipt[d])'
  <2> DEFINE op == delivery[d]
             g == gitReceipt[d]
  <2>1. CASE /\ stage[d] \in {"complete", "publish"}
             /\ delivery'[d] = delivery[d] /\ gitReceipt'[d] = gitReceipt[d]
    <3>1. op \in Ops /\ Settled(op, g)
      BY <1>0, <2>1, AtStage DEF Recorded
    <3>2. PICK o, r : o = op /\ r = g
      OBVIOUS
    <3>3. Settled(o, r)'
      BY <1>0, <3>1, <3>2, SettledStays
    <3> QED
      BY <2>1, <3>2, <3>3 DEF Settled
  <2>2. CASE /\ delivery'[d] \in Ops
             /\ GitDone(gitReceipt'[d])
             /\ receipt'[delivery'[d]] = gitReceipt'[d]
    BY <2>2 DEF Settled, GitDone
  <2> QED
    BY <1>1, <2>1, <2>2, StageSteps
<1>2. ASSUME NEW op \in Ops, task'[op] = "integrated"
      PROVE  Settled(op, integratedAs[op])'
  <2>1. PICK g : g = integratedAs'[op]
    OBVIOUS
  <2>2. Settled(op, g)
    <3>1. CASE task[op] = "integrated" /\ integratedAs'[op] = integratedAs[op]
      BY <1>0, <2>1, <3>1 DEF Recorded
    <3>2. ASSUME NEW c \in Callers, ApplyIntegrated(c), delivery[c] = op
          PROVE  Settled(op, g)
      <4>1. stage[c] = "publish" /\ g = gitReceipt[c]
        BY <1>0, <2>1, <3>2 DEF ApplyIntegrated, ReviewTypeOK
      <4> QED
        BY <1>0, <3>2, <4>1 DEF Recorded
    <3> QED
      BY <1>2, <3>1, <3>2, IntegratedBy
  <2>3. Settled(op, g)'
    BY <1>0, <2>2, SettledStays
  <2> QED
    BY <2>1, <2>3 DEF Settled
<1> QED
  BY <1>1, <1>2 DEF Recorded

-----------------------------------------------------------------------------
(* DeliveryReview: the theorems. *)

\* The invariant holds at the start.
LEMMA InitReview == ReviewInit => ReviewIInv
<1> SUFFICES ASSUME ReviewInit
             PROVE  ReviewIInv
  OBVIOUS
<1>1. IInv /\ TypeOK
  BY InitIInv DEF ReviewInit, IInv
<1>2. ReviewTypeOK
  <2>1. head \in 0..MaxHead
    BY HeadIsBounded DEF ReviewInit
  <2>2. "none" \in TaskState /\ "idle" \in Stages
    BY DEF TaskState, Stages
  <2> QED
    BY <1>1, <2>1, <2>2 DEF ReviewInit, ReviewTypeOK
<1>3. ASSUME NEW c \in Callers
      PROVE  StageOK(c) /\ GitCallOK(c)
  BY <1>3 DEF ReviewInit, Init, StageOK, GitCallOK
<1>4. OneFresh
  BY DEF ReviewInit, OneFresh, Fresh
<1>5. ASSUME NEW op \in Ops
      PROVE  /\ task[op] = "none" /\ Agree(task[op], review[op])
             /\ ~HasReport(op, target)
  <2>1. task[op] = "none" /\ review[op] = NoReview
    BY DEF ReviewInit
  <2>2. NoReview.phase = None /\ NoReview.verdict = None
    BY DEF NoReview
  <2>3. Agree("none", NoReview)
    BY <2>2, PhasesByName DEF Agree, Verdict, Applied, Auditing
  <2>4. ~HasReport(op, target)
    BY DEF ReviewInit, Init, HasReport
  <2> QED
    BY <2>1, <2>3, <2>4
<1>6. Recorded
  BY <1>5 DEF ReviewInit, Recorded
<1>7. MergedWasAccepted
  BY <1>5 DEF MergedWasAccepted
<1> QED
  BY <1>1, <1>2, <1>3, <1>4, <1>5, <1>6, <1>7 DEF ReviewIInv

\* Every step keeps the invariant.
LEMMA ReviewStep ==
  ASSUME ReviewIInv, [ReviewNext]_<<vars, rvars>>
  PROVE  ReviewIInv'
<1>1. IInv'
  BY ReviewIsAny, AnyStep DEF ReviewIInv
<1>2. TypeOK'
  BY <1>1 DEF IInv
<1>3. ASSUME NEW c \in Callers, CallerStep(c)
      PROVE  Parts'
  <2>1. ASSUME NEW op \in Ops, Deliver(c, op) \/ Redeliver(c, op)
        PROVE  Parts'
    <3>1. Delivered(c, op)
      BY <2>1 DEF Deliver, Redeliver
    <3> QED
      BY <1>2, <3>1, DeliveredStep
  <2>2. ASSUME NEW op \in Ops, BeginAccept(c, op) \/ BeginReturn(c, op)
        PROVE  Parts'
    BY <1>2, <2>2, BeginStep
  <2>3. CASE ReserveReview(c) \/ StartAudit(c) \/ CompleteAudit(c)
    BY <1>2, <2>3, AuditStep
  <2>4. CASE \/ ApplyAccepted(c) \/ ApplyIntegrated(c)
             \/ ApplyReturned(c) \/ ApplyRequeued(c)
    BY <1>2, <2>4, TransitionStep
  <2>5. CASE AdvanceAccepted(c) \/ CloseAccepted(c) \/ CloseReturned(c)
    BY <1>2, <2>5, AdvanceStep
  <2>6. CASE ReserveReviewDies(c) \/ Refused(c) \/ Die(c)
    BY <1>2, <2>6, StopStep
  <2>7. CASE ReadHead(c)
    BY <1>2, <2>7, ReadHeadStep
  <2>8. CASE BeginIntegrate(c) \/ Integrate(c)
    BY <1>2, <2>8, IntegrateStep
  <2> QED
    BY <1>3, <2>1, <2>2, <2>3, <2>4, <2>5, <2>6, <2>7, <2>8 DEF CallerStep
<1>4. ASSUME MoveHead \/ Others \/ UNCHANGED <<vars, rvars>>
      PROVE  Parts'
  BY <1>2, <1>4, RestStep
<1>5. Parts'
  BY <1>3, <1>4 DEF ReviewNext
<1> QED
  BY <1>1, <1>5, RecordedStep, MergedStep DEF Parts, ReviewIInv

\* The invariant of the whole: what the stage of a call tells of its delivery is
\* true of the task, the review and the git receipt, whatever calls of other
\* processes write between its read of a review and its write.
THEOREM ReviewInvariance == ReviewSpec => []ReviewIInv
<1>1. ReviewIInv /\ [ReviewNext]_<<vars, rvars>> => ReviewIInv'
  BY ReviewStep
<1> QED
  BY <1>1, InitReview, PTL DEF ReviewSpec

\* Nothing gets to the target branch that was not reviewed, passed and
\* accepted, whoever died or was refused on the way.
THEOREM MergedAccepted == ReviewSpec => []MergedWasAccepted
<1>1. ReviewIInv => MergedWasAccepted
  BY DEF ReviewIInv
<1> QED
  BY <1>1, ReviewInvariance, PTL

\* Each phase that a review has reached is backed by the ledger.
THEOREM ReviewBacked == ReviewSpec => []ReviewFollowsLedger
<1>1. ASSUME ReviewIInv, NEW op \in Ops, review[op].phase \in Applied
      PROVE  /\ Agree(task[op], review[op])
             /\ review[op].verdict \in {"pass", "fail"}
  <2>1. Agree(task[op], review[op]) /\ ReviewTypeOK
    BY <1>1 DEF ReviewIInv
  <2>2. review[op] # NoReview
    BY <1>1, PhasesByName DEF NoReview
  <2>3. review[op].verdict \in Verdict \cup {None}
    BY <2>1, <2>2 DEF ReviewTypeOK
  <2>4. review[op].phase \notin Auditing \cup {None} /\ review[op].phase # "MAD_COMPLETED"
    BY <1>1, PhasesByName DEF Applied, Auditing
  <2> QED
    BY <2>1, <2>3, <2>4 DEF Agree, Verdict
<1>2. ReviewIInv => ReviewFollowsLedger
  <2> SUFFICES ASSUME ReviewIInv, NEW op \in Ops, review[op].phase \in Applied
               PROVE  /\ CASE review[op].verdict = "pass" ->
                                task[op] \in {"accepted", "integrated"}
                           [] review[op].verdict = "fail" -> task[op] = "ready"
                           [] OTHER -> FALSE
                      /\ /\ review[op].phase \in {"INTEGRATION_APPLIED", "FINALIZED"}
                         /\ review[op].verdict = "pass"
                         => task[op] = "integrated"
    BY DEF ReviewFollowsLedger, Applied
  <2>1. CASE review[op].verdict = "pass"
    BY <1>1, <2>1 DEF Agree
  <2>2. CASE review[op].verdict = "fail"
    BY <1>1, <2>2 DEF Agree
  <2> QED
    BY <1>1, <2>1, <2>2
<1> QED
  BY <1>2, ReviewInvariance, PTL

\* A task that the ledger calls integrated is on the branch, at the commit that
\* the ledger records and the git receipt names, although calls of accept in
\* other processes may go on after it was recorded.
THEOREM IntegratedTrue == ReviewSpec => []IntegratedIsInTarget
<1>1. ASSUME ReviewIInv, NEW op \in Ops, task[op] = "integrated"
      PROVE  /\ integratedAs[op].commit # None
             /\ HasReport(op, integratedAs[op].commit)
             /\ IsPrefixOf(integratedAs[op].commit, target)
             /\ receipt[op].commit = integratedAs[op].commit
             /\ receipt[op].outcome = "FINALIZED"
  <2>1. Settled(op, integratedAs[op]) /\ ReceiptOK(op)
    BY <1>1 DEF ReviewIInv, Recorded, IInv
  <2> QED
    BY <2>1 DEF Settled, ReceiptOK, Late, Good
<1>2. ReviewIInv => IntegratedIsInTarget
  BY <1>1 DEF IntegratedIsInTarget
<1> QED
  BY <1>2, ReviewInvariance, PTL

\* What GitIntegration promises holds of the whole: reviews call integrate
\* with commits that they have frozen long before, and faults elsewhere
\* count, and no call of it is any the worse for either.
THEOREM IntegratesTruly ==
  ReviewSpec => [](FinalizedIsInTarget /\ ClashesKeptApart) /\ NothingLost
<1>1. IInv => FinalizedIsInTarget /\ ClashesKeptApart
  <2>1. IInv => ClashesKeptApart
    BY DEF IInv
  <2>2. ASSUME IInv, NEW op \in Ops, receipt[op].phase = "FINALIZED",
               receipt[op].outcome # "CONFLICT"
        PROVE  /\ receipt[op].commit # None
               /\ HasReport(op, receipt[op].commit)
               /\ IsPrefixOf(receipt[op].commit, target)
    BY <2>2 DEF IInv, ReceiptOK, Good, Late
  <2> QED
    BY <2>1, <2>2 DEF FinalizedIsInTarget
<1>2. ReviewIInv => FinalizedIsInTarget /\ ClashesKeptApart
  BY <1>1 DEF ReviewIInv
<1>3. ReviewIInv /\ [ReviewNext]_<<vars, rvars>> => [IsPrefixOf(target, target')]_target
  BY ReviewIsAny, GrowsStep DEF ReviewIInv
<1> QED
  BY <1>2, <1>3, ReviewInvariance, PTL DEF ReviewSpec, NothingLost
=============================================================================
