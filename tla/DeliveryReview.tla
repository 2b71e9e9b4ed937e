---------------------------- MODULE DeliveryReview ----------------------------
(***************************************************************************)
(* What becomes of a delivery (dockyard_terminal_owner_composition.py and  *)
(* the stores it uses): a review is reserved for it, MAD audits it, a user *)
(* accepts or returns it, and an accepted delivery is integrated with the  *)
(* Git integration owner of module GitIntegration.  A returned delivery    *)
(* may be followed by another one of the same task.                        *)
(*                                                                         *)
(* The four stores a review moves through (task ledger, review receipts,   *)
(* git receipts, the target branch) have a lock each and no step takes two *)
(* of them.  The lock of the review store is one of threads: processes     *)
(* meet between the read and the write of its advance.  An operation of    *)
(* GitIntegration is a delivery.  A transition of the task ledger is one   *)
(* step here, as TaskLog promises it to be; approvals and slot leases are  *)
(* in modules of their own.                                                *)
(***************************************************************************)
EXTENDS GitIntegration

CONSTANTS
  Rework,   \* Rework[op]: the returned delivery op is the next attempt of
  MaxHead   \* bound: commits on HEAD that are not of this system

First == {op \in Ops : Rework[op] = None}

ASSUME ReworkOfOthers == Rework \in [Ops -> Ops \cup {None}]
ASSUME HeadIsBounded == MaxHead \in Nat

\* "none": the worker of the delivery has not ended.
TaskState == {"none", "review_ready", "accepted", "integrated", "returned",
              "ready"}
Verdict == {"pass", "fail", "blocked"}
ReviewPhase == <<"DELIVERY_BOUND", "REVIEW_RESERVED", "MAD_STARTED",
                 "MAD_COMPLETED", "REVIEW_APPLIED", "INTEGRATION_APPLIED",
                 "FINALIZED">>
ReviewPhases == {ReviewPhase[i] : i \in DOMAIN ReviewPhase}

ASSUME NoneIsNoVerdict == None \notin ReviewPhases \cup Verdict

NoReview == [phase |-> None, verdict |-> None]
NewReview == [phase |-> "DELIVERY_BOUND", verdict |-> None]

\* What a review request freezes of the world it is reserved in: HEAD, in the
\* digests of the acceptance and of the return, and the target commit, in the
\* digest of the git request.
Evidence == [head : 0..MaxHead, target : Commit]
NoEvidence == [head |-> None, target |-> None]

\* Where a call is; the stages in -ing have read the review receipt and write
\* it next.
Stages == {"idle", "deliver", "audit",
           "accept", "apply", "applying", "integrate", "complete", "publish",
           "close", "closing", "finalize", "finalizing",
           "return", "requeue", "apply_return", "applying_return",
           "close_return", "closing_return"}

VARIABLES
  head,           \* commits on HEAD of the project's own checkout
  task,           \* the task a delivery is of, as far as it concerns it
  integratedAs,   \* the git receipt CHANGE_INTEGRATED has recorded
  reviewRequest,  \* the review request files
  review,         \* the review receipt files
  stage,          \* where each call of the composition is
  delivery,       \* the delivery the call is about
  bound,          \* HEAD and target as the call has read them
  gitReceipt      \* the receipt that integrate has returned to the call

rvars == <<head, task, integratedAs, reviewRequest, review, stage, delivery,
           bound, gitReceipt>>
records == <<task, integratedAs, reviewRequest, review>>

ReviewInit ==
  /\ Init
  /\ head = 0
  /\ task = [op \in Ops |-> "none"]
  /\ integratedAs = [op \in Ops |-> NoReceipt]
  /\ reviewRequest = [op \in Ops |-> NoEvidence]
  /\ review = [op \in Ops |-> NoReview]
  /\ stage = [c \in Callers |-> "idle"]
  /\ delivery = [c \in Callers |-> None]
  /\ bound = [c \in Callers |-> NoEvidence]
  /\ gitReceipt = [c \in Callers |-> NoReceipt]

Enter(c, op, s, evidence) ==
  /\ stage' = [stage EXCEPT ![c] = s]
  /\ delivery' = [delivery EXCEPT ![c] = op]
  /\ bound' = [bound EXCEPT ![c] = evidence]
  /\ gitReceipt' = [gitReceipt EXCEPT ![c] = NoReceipt]

To(c, s) ==
  /\ stage' = [stage EXCEPT ![c] = s]
  /\ UNCHANGED <<delivery, bound, gitReceipt>>

End(c) == Enter(c, None, "idle", NoEvidence)

Now == [head |-> head, target |-> target]

SetTask(op, s) == task' = [task EXCEPT ![op] = s]
SetPhase(op, p) == review' = [review EXCEPT ![op].phase = p]

-----------------------------------------------------------------------------
(* execute and execute_redispatch: from the end of a worker to the verdict. *)

\* A worker ends with a delivery.
Delivered(c, op) ==
  /\ stage[c] = "idle"
  /\ task[op] = "none"
  /\ SetTask(op, "review_ready")
  /\ Enter(c, op, "deliver", NoEvidence)
  /\ UNCHANGED <<vars, head, integratedAs, reviewRequest, review>>

Deliver(c, op) ==
  /\ op \in First
  /\ Delivered(c, op)

\* The redispatch of a task takes a finalized review with verdict fail, and the
\* task requeued.
Redeliver(c, op) ==
  /\ op \notin First
  /\ task[Rework[op]] = "ready"
  /\ review[Rework[op]] = [phase |-> "FINALIZED", verdict |-> "fail"]
  /\ Delivered(c, op)

\* HEAD and the target commit are read and the review is reserved.  Nobody
\* looks at a review that is not MAD_COMPLETED, so reads and writes are one.
ReserveReview(c) ==
  /\ stage[c] = "deliver"
  /\ task[delivery[c]] = "review_ready"
  /\ reviewRequest' = [reviewRequest EXCEPT ![delivery[c]] = Now]
  /\ review' = [review EXCEPT ![delivery[c]] = NewReview]
  /\ To(c, "audit")
  /\ UNCHANGED <<vars, head, task, integratedAs>>

\* The process dies between the two files of reserve: the request stays alone,
\* and nothing can reserve or read the review any more.
ReserveReviewDies(c) ==
  /\ stage[c] = "deliver"
  /\ faults < MaxFaults
  /\ faults' = faults + 1
  /\ reviewRequest' = [reviewRequest EXCEPT ![delivery[c]] = Now]
  /\ End(c)
  /\ UNCHANGED <<target, files, pc, locals, head, task, integratedAs, review>>

\* REVIEW_RESERVED, MAD_STARTED.
StartAudit(c) ==
  /\ stage[c] = "audit"
  /\ \E i \in 1..2 :
       /\ review[delivery[c]].phase = ReviewPhase[i]
       /\ SetPhase(delivery[c], ReviewPhase[i + 1])
  /\ UNCHANGED <<vars, head, task, integratedAs, reviewRequest, stage,
                 delivery, bound, gitReceipt>>

\* MAD has returned a verdict: result file, then MAD_COMPLETED.
CompleteAudit(c) ==
  /\ stage[c] = "audit"
  /\ review[delivery[c]].phase = "MAD_STARTED"
  /\ \E v \in Verdict :
       review' = [review EXCEPT ![delivery[c]] =
                    [phase |-> "MAD_COMPLETED", verdict |-> v]]
  /\ End(c)
  /\ UNCHANGED <<vars, head, task, integratedAs, reviewRequest>>

-----------------------------------------------------------------------------
(* accept and return_delivery: what a user may do with a verdict. *)

\* pending_review finds one review of the task at MAD_COMPLETED.
Pending(op, verdict) == review[op] = [phase |-> "MAD_COMPLETED",
                                      verdict |-> verdict]

\* The acceptance, return and git requests are made anew from HEAD and the
\* target of now, and project_post_delivery_owner_plan compares their digests
\* with the ones the review has frozen.
Projectable(op) == reviewRequest[op] = Now

BeginAccept(c, op) ==
  /\ stage[c] = "idle"
  /\ Pending(op, "pass")
  /\ Projectable(op)
  /\ Enter(c, op, "accept", Now)
  /\ UNCHANGED <<vars, head, records>>

\* advance, of a review that is past its audit: the receipt is read ...
ReadReview(c, at, phase, next) ==
  /\ stage[c] = at
  /\ review[delivery[c]].phase = phase
  /\ To(c, next)
  /\ UNCHANGED <<vars, head, records>>

\* ... and replaced by its next phase; the verdict is that of the read, which
\* nobody changes any more.
WriteReview(c, at, phase, next) ==
  /\ stage[c] = at
  /\ SetPhase(delivery[c], phase)
  /\ IF next = "idle" THEN End(c) ELSE To(c, next)
  /\ UNCHANGED <<vars, head, task, integratedAs, reviewRequest>>

\* A transition to a state it is in already is a replay, the event file of
\* which is found; else the task and HEAD are compared with the request.
Transits(c, from, to) ==
  /\ task[delivery[c]] \in {from, to}
  /\ task[delivery[c]] = from => head = bound[c].head
  /\ SetTask(delivery[c], to)

\* Mutated form of ApplyAccepted: the result of the transition is not awaited.
AcceptUnrecorded(c) ==
  /\ stage[c] = "accept"
  /\ To(c, "apply")
  /\ UNCHANGED <<vars, head, records>>

\* DELIVERY_ACCEPTED, under a review lease.
ApplyAccepted(c) ==
  /\ stage[c] = "accept"
  /\ Transits(c, "review_ready", "accepted")
  /\ To(c, "apply")
  /\ UNCHANGED <<vars, head, integratedAs, reviewRequest, review>>

\* REVIEW_APPLIED, with outcome ACCEPTED: advance refuses to apply an event a
\* second time, so that one thread goes on; but two processes may.
AdvanceAccepted(c) ==
  \/ ReadReview(c, "apply", "MAD_COMPLETED", "applying")
  \/ WriteReview(c, "applying", "REVIEW_APPLIED", "integrate")

\* Mutated form of GitDone: the outcome of the receipt is not looked at.
GitEnded(r) == r.phase = "FINALIZED"

\* What accept wants of integrate: anything else is terminal:git_recovery or an
\* exception.
GitDone(r) == r.phase = "FINALIZED" /\ r.outcome = "FINALIZED" /\ r.commit # None

\* integrate has returned the receipt r.
Returned(c, r) ==
  IF GitDone(r)
  THEN /\ stage' = [stage EXCEPT ![c] = "complete"]
       /\ gitReceipt' = [gitReceipt EXCEPT ![c] = r]
       /\ UNCHANGED <<delivery, bound>>
  ELSE End(c)

\* The first critical section of integrate: it goes on, dies, does not get the
\* lock, or finds that the integration is finalized.
BeginIntegrate(c) ==
  LET op == delivery[c]
      expected == bound[c].target IN
  /\ stage[c] = "integrate"
  /\ pc[c] = "idle"
  /\ \/ Reserve(c, op, expected) /\ To(c, "integrate")
     \/ ReserveDies(c, op, expected) /\ End(c)
     \/ /\ orphan
        /\ End(c)
        /\ UNCHANGED vars
     \/ /\ ~orphan /\ ~Divergent(op, expected)
        /\ receipt[op].phase = "FINALIZED"
        /\ Returned(c, receipt[op])
        /\ UNCHANGED vars
  /\ UNCHANGED <<head, records>>

Integrate(c) ==
  /\ stage[c] = "integrate"
  /\ \/ Continue(c) /\ pc'[c] # "idle" /\ To(c, "integrate")
     \/ Finalize(c) /\ Returned(c, FinalizedReceipt(c))
     \/ Continue(c) /\ pc'[c] = "idle" /\ ~Finalize(c) /\ End(c)
  /\ UNCHANGED <<head, records>>

\* HEAD is read again, for the INTEGRATE grant and the last transition.
ReadHead(c) ==
  /\ stage[c] = "complete"
  /\ bound' = [bound EXCEPT ![c].head = head]
  /\ stage' = [stage EXCEPT ![c] = "publish"]
  /\ UNCHANGED <<vars, head, records, delivery, gitReceipt>>

\* CHANGE_INTEGRATED records the integrated commit and the receipt's digest;
\* with other ones it is no replay.
ApplyIntegrated(c) ==
  /\ stage[c] = "publish"
  /\ Transits(c, "accepted", "integrated")
  /\ task[delivery[c]] = "integrated" => integratedAs[delivery[c]] = gitReceipt[c]
  /\ integratedAs' = [integratedAs EXCEPT ![delivery[c]] = gitReceipt[c]]
  /\ To(c, "close")
  /\ UNCHANGED <<vars, head, reviewRequest, review>>

\* INTEGRATION_APPLIED, FINALIZED.
CloseAccepted(c) ==
  \/ ReadReview(c, "close", "REVIEW_APPLIED", "closing")
  \/ WriteReview(c, "closing", "INTEGRATION_APPLIED", "finalize")
  \/ ReadReview(c, "finalize", "INTEGRATION_APPLIED", "finalizing")
  \/ WriteReview(c, "finalizing", "FINALIZED", "idle")

BeginReturn(c, op) ==
  /\ stage[c] = "idle"
  /\ Pending(op, "fail")
  /\ Projectable(op)
  /\ Enter(c, op, "return", Now)
  /\ UNCHANGED <<vars, head, records>>

\* DELIVERY_RETURNED, under a lease.
ApplyReturned(c) ==
  /\ stage[c] = "return"
  /\ Transits(c, "review_ready", "returned")
  /\ To(c, "requeue")
  /\ UNCHANGED <<vars, head, integratedAs, reviewRequest, review>>

\* Mutated form of ApplyRequeued: the second transition is forgotten.
RequeueForgotten(c) ==
  /\ stage[c] = "requeue"
  /\ To(c, "apply_return")
  /\ UNCHANGED <<vars, head, records>>

\* TASK_REQUEUED.
ApplyRequeued(c) ==
  /\ stage[c] = "requeue"
  /\ Transits(c, "returned", "ready")
  /\ To(c, "apply_return")
  /\ UNCHANGED <<vars, head, integratedAs, reviewRequest, review>>

\* REVIEW_APPLIED with outcome RETURNED, FINALIZED.
CloseReturned(c) ==
  \/ ReadReview(c, "apply_return", "MAD_COMPLETED", "applying_return")
  \/ WriteReview(c, "applying_return", "REVIEW_APPLIED", "close_return")
  \/ ReadReview(c, "close_return", "REVIEW_APPLIED", "closing_return")
  \/ WriteReview(c, "closing_return", "FINALIZED", "idle")

\* A guard refuses the step of a call: an exception, and the call has ended.
\* A replay is refused too when its event would have another time.  A review
\* that is FINALIZED already is no error, but ends the call as well.
Refused(c) ==
  LET t == task[delivery[c]]
      r == review[delivery[c]] IN
  /\ \/ stage[c] = "accept" /\ (t = "review_ready" => head # bound[c].head)
     \/ stage[c] = "publish" /\ (t = "accepted" => head # bound[c].head)
     \/ stage[c] = "return" /\ (t = "review_ready" => head # bound[c].head)
     \/ stage[c] = "requeue" /\ (t = "returned" => head # bound[c].head)
     \/ /\ stage[c] \in {"apply", "apply_return"}
        /\ r.phase # "MAD_COMPLETED"
     \/ stage[c] \in {"close", "close_return"} /\ r.phase # "REVIEW_APPLIED"
     \/ stage[c] = "finalize" /\ r.phase # "INTEGRATION_APPLIED"
  /\ End(c)
  /\ UNCHANGED <<vars, head, records>>

\* The process dies, MAD or a write fails, no slot is free.
Die(c) ==
  /\ stage[c] # "idle"
  /\ pc[c] = "idle"
  /\ faults < MaxFaults
  /\ faults' = faults + 1
  /\ End(c)
  /\ UNCHANGED <<target, files, pc, locals, head, records>>

-----------------------------------------------------------------------------
(* The rest of the world. *)

\* Somebody commits to the branch HEAD is on.
MoveHead ==
  /\ head < MaxHead
  /\ head' = head + 1
  /\ UNCHANGED <<vars, records, stage, delivery, bound, gitReceipt>>

Others ==
  /\ DeveloperPush \/ RemoveLock
  /\ UNCHANGED rvars

CallerStep(c) ==
  \/ \E op \in Ops :
       Deliver(c, op) \/ Redeliver(c, op) \/ BeginAccept(c, op) \/ BeginReturn(c, op)
  \/ ReserveReview(c) \/ ReserveReviewDies(c) \/ StartAudit(c)
  \/ CompleteAudit(c)
  \/ ApplyAccepted(c) \/ AdvanceAccepted(c) \/ BeginIntegrate(c)
  \/ Integrate(c) \/ ReadHead(c) \/ ApplyIntegrated(c) \/ CloseAccepted(c)
  \/ ApplyReturned(c) \/ ApplyRequeued(c) \/ CloseReturned(c)
  \/ Refused(c) \/ Die(c)

ReviewNext ==
  \/ \E c \in Callers : CallerStep(c)
  \/ MoveHead
  \/ Others

ReviewSpec == ReviewInit /\ [][ReviewNext]_<<vars, rvars>>

-----------------------------------------------------------------------------
(* Properties *)

ReviewTypeOK ==
  /\ TypeOK
  /\ head \in 0..MaxHead
  /\ task \in [Ops -> TaskState]
  /\ integratedAs \in [Ops -> Receipt \cup {NoReceipt}]
  /\ reviewRequest \in [Ops -> Evidence \cup {NoEvidence}]
  /\ review \in [Ops -> [phase : ReviewPhases, verdict : Verdict \cup {None}]
                        \cup {NoReview}]
  /\ stage \in [Callers -> Stages]
  /\ delivery \in [Callers -> Ops \cup {None}]
  /\ bound \in [Callers -> Evidence \cup {NoEvidence}]
  /\ gitReceipt \in [Callers -> Receipt \cup {NoReceipt}]

\* A task that the ledger calls integrated is: the commit it records holds the
\* report of the delivery, is on the target branch, and is the one that the git
\* receipt names, which calls it final, although a second call of accept may
\* write that receipt after the first has recorded it.
IntegratedIsInTarget ==
  \A op \in Ops :
    task[op] = "integrated" =>
      /\ integratedAs[op].commit # None
      /\ HasReport(op, integratedAs[op].commit)
      /\ IsPrefixOf(integratedAs[op].commit, target)
      /\ receipt[op].commit = integratedAs[op].commit
      /\ receipt[op].outcome = "FINALIZED"

\* Nothing gets to the target branch that was not reviewed, passed and
\* accepted by a user.
MergedWasAccepted ==
  \A op \in Ops :
    HasReport(op, target) =>
      /\ task[op] \in {"accepted", "integrated"}
      /\ review[op].verdict = "pass"

\* A review never runs ahead of the ledger: each phase it has reached is
\* backed by the transition the phase stands for, whoever died where.
ReviewFollowsLedger ==
  \A op \in Ops :
    /\ review[op].phase \in {"REVIEW_APPLIED", "INTEGRATION_APPLIED",
                             "FINALIZED"} =>
         CASE review[op].verdict = "pass" -> task[op] \in {"accepted", "integrated"}
           [] review[op].verdict = "fail" -> task[op] = "ready"
           [] OTHER -> FALSE
    /\ /\ review[op].phase \in {"INTEGRATION_APPLIED", "FINALIZED"}
       /\ review[op].verdict = "pass"
       => task[op] = "integrated"

\* pending_review: "Return the one user-actionable review for a task".  A user
\* can act on what it returns; but see the run that checks it.
UserActionable ==
  \A op \in Ops :
    /\ Pending(op, "pass") \/ Pending(op, "fail")
    /\ task[op] = "review_ready"
    => Projectable(op)
=============================================================================
