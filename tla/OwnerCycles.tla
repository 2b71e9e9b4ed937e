----------------------------- MODULE OwnerCycles -----------------------------
(***************************************************************************)
(* What the Workflow Orchestrator does with a delivery once its worker has *)
(* ended: scripts/workflow_orchestrator.py from run_acceptance_cycle to    *)
(* supersede_quiescent_task.                                               *)
(*                                                                         *)
(* Every operation is a cycle of one or two transitions.  The requests of  *)
(* both are built before the cycle starts, from what the caller knows      *)
(* then; the cycle validates them against the delivery they are about and  *)
(* the results of earlier cycles, which callers keep and pass on, and      *)
(* never against the ledger.  A result names the task and no attempt, so   *)
(* that of one delivery is good for the cycle of another.  A verdict is    *)
(* carried out under the worker slot of the dispatch it is about; the      *)
(* other transitions have no slot, and no dispatch to compare.  A cycle    *)
(* that is stopped may be run again with the same requests.                *)
(*                                                                         *)
(* A transition is one step here, as module TaskLog allows; what it        *)
(* compares and what it changes are the definitions of module              *)
(* ControlPlaneTransition.  There is one dispatch for an attempt, so the   *)
(* attempt stands for the dispatch, its delivery and its commit.           *)
(***************************************************************************)
EXTENDS Naturals, FiniteSets

CONSTANTS
  Callers,      \* the processes that run cycles
  Kinds,        \* the worker kinds that a first dispatch may ask for
  MaxAttempt,   \* bound: how often the task is dispatched
  MaxRevision,  \* bound: the revisions of the task
  MaxAudits,    \* bound: how many audit results there are
  NoCycle,      \* the caller has no cycle that it may run again
  Free          \* nobody holds the slot

Attempts == 1..MaxAttempt
None == 0

\* _PROGRESSION: the next kind of worker; after the expert the user decides.
Progression ==
  [BASIC_AGENT    |-> "STANDARD_AGENT",
   STANDARD_AGENT |-> "ADVANCED_AGENT",
   ADVANCED_AGENT |-> "EXPERT_AGENT"]

ASSUME CyclesAssumption ==
  /\ Kinds \subseteq DOMAIN Progression \cup {"EXPERT_AGENT"}
  /\ MaxAttempt \in Nat /\ MaxRevision \in Nat /\ MaxAudits \in Nat
  /\ Free \notin Callers

\* The transition a cycle starts with ...
First ==
  [accept     |-> "DELIVERY_ACCEPTED",  remediate |-> "DELIVERY_RETURNED",
   block      |-> "TASK_BLOCKED",       redispatch |-> "BLOCKER_RESOLVED",
   fail       |-> "INTEGRATION_FAILED", complete |-> "CHANGE_INTEGRATED",
   rescope    |-> "BLOCKER_RESCOPED",   cancelBlocked |-> "BLOCKER_CANCELLED",
   cancel     |-> "TASK_CANCELLED",     supersede |-> "TASK_SUPERSEDED"]

\* ... and the one that may follow it.
Second ==
  [accept |-> "CHANGE_INTEGRATED", remediate |-> "TASK_REQUEUED",
   redispatch |-> "TASK_DISPATCHED"]

Leased == {"accept", "remediate"}
Quiescent == {"cancel", "supersede"}

\* The transitions that answer a delivery.
Answers == {"DELIVERY_ACCEPTED", "DELIVERY_RETURNED", "TASK_BLOCKED",
            "INTEGRATION_FAILED"}

VARIABLES
  ledger,       \* the task in tasks.yaml
  acceptances,  \* the acceptance records
  dispatched,   \* for each attempt the kind of worker, the revision, the cycle
                \* that made it and whether it was delivered
  slot,         \* for each dispatch the caller that holds its worker slot
  audits,       \* MadAuditGatewayResults; the delivery they are `of' is history
  accepted,     \* there is an AcceptanceCycleResult, accepted, not integrated
  blocks,       \* the worker kinds of the EscalationDecisions of
                \* BlockedAuditResults
  cycle,        \* the cycle each caller runs or has not finished, with its
                \* requests and the events that they have written
  pc,           \* where each caller is in its cycle
  integrated,   \* the dispatch whose commit is integrated_commit
  verdicts      \* history: the answers that moved the task, and the attempt
                \* that was its last then

vars == <<ledger, acceptances, dispatched, slot, audits, accepted, blocks,
          cycle, pc, integrated, verdicts>>

results == <<audits, accepted, blocks>>
project == <<ledger, acceptances, dispatched, integrated, verdicts>>

T == INSTANCE ControlPlaneTransition WITH
       Types <- {}, BlockValid <- [t \in {} |-> {}], ResumeTo <- {"ready"}, Reviews <- {1},
       MaxEvents <- MaxAttempt, MaxHead <- 0, NoFile <- None,
       NoRequest <- NoCycle, NotRead <- NoCycle, head <- 0, events <- <<>>,
       outbox <- <<>>, lock <- Free, req <- <<>>, seen <- <<>>, lastId <- 0,
       committed <- {}

NoDispatch == [kind |-> "none", revision |-> 0, by |-> "none",
               delivered |-> FALSE]

Init ==
  /\ ledger = T!FirstTask
  /\ acceptances = {}
  /\ dispatched = [a \in Attempts |-> NoDispatch]
  /\ slot = [a \in Attempts |-> Free]
  /\ audits = {} /\ accepted = FALSE /\ blocks = {}
  /\ cycle = [c \in Callers |-> NoCycle]
  /\ pc = [c \in Callers |-> "idle"]
  /\ integrated = None
  /\ verdicts = {}
-----------------------------------------------------------------------------
(* The task outside the cycles: it is specified, dispatched for the first  *)
(* time or again, and its worker acknowledges, delivers or fails.          *)

\* A TransitionRequest.
Request(type, revision, from, to, dispatch, attempt, valid) ==
  [type |-> type, id |-> None, head |-> 0, revision |-> revision,
   from |-> from, to |-> to, dispatch |-> dispatch, attempt |-> attempt,
   valid |-> valid, commit |-> dispatch,
   review |-> IF type = "DELIVERY_ACCEPTED" THEN 1 ELSE None]

\* apply_transition finds that the ledger is as the request expects it.
Applies(r) ==
  /\ T!CAS(r, [head |-> 0, task |-> ledger])
  /\ T!PayloadFits(r, ledger)
  /\ ledger.state # r.to

\* A transition made at once, from the ledger as it is.
Now(type) ==
  \E to \in T!To[type] :
    LET r == Request(type, ledger.revision, ledger.state, to, ledger.dispatch,
                     ledger.attempt, FALSE) IN
    /\ Applies(r)
    /\ ledger' = T!Mutated(ledger, r)

Specify ==
  /\ Now("TASK_SPECIFIED")
  /\ UNCHANGED <<acceptances, dispatched, slot, results, cycle, pc, integrated,
                 verdicts>>

\* The dispatch that a request asks for becomes the current one.
DispatchedBy(by, kind, r) ==
  dispatched' = [dispatched EXCEPT ![r.attempt] =
    [kind |-> kind, revision |-> r.revision, by |-> by, delivered |-> FALSE]]

\* A dispatch cycle of its own (module ActiveDispatch).
Dispatch ==
  /\ ledger.attempt < MaxAttempt
  /\ LET next == ledger.attempt + 1
         r == Request("TASK_DISPATCHED", ledger.revision, ledger.state,
                      "dispatched", next, next, FALSE) IN
     /\ Applies(r)
     /\ ledger' = T!Mutated(ledger, r)
     /\ \E kind \in Kinds : DispatchedBy("dispatch", kind, r)
  /\ UNCHANGED <<acceptances, slot, results, cycle, pc, integrated,
                 verdicts>>

\* The worker's transitions; a worker that has submitted leaves a
\* DeliveryReceipt.
Work ==
  /\ \E type \in {"DISPATCH_ACKNOWLEDGED", "DELIVERY_SUBMITTED",
                  "DISPATCH_FAILED"} :
       /\ Now(type)
       /\ dispatched' = [dispatched EXCEPT ![ledger.attempt].delivered =
                           type = "DELIVERY_SUBMITTED"]
  /\ UNCHANGED <<acceptances, slot, results, cycle, pc, integrated,
                 verdicts>>

Delivered == {a \in Attempts : dispatched[a].delivered}

\* run_audit_gateway, or run_durable_audit_cycle: a delivery may be audited
\* again, at any time and with another verdict.
Audit ==
  /\ Cardinality(audits) < MaxAudits
  /\ \E a \in Delivered, verdict \in {"pass", "fail", "blocked"} :
       audits' = audits \cup {[of |-> a, verdict |-> verdict]}
  /\ UNCHANGED <<project, slot, accepted, blocks, cycle, pc>>
-----------------------------------------------------------------------------
(* A cycle is begun: what its validation demands.                          *)

\* The cycle of an operation, about the delivery of an attempt; `kind' is the
\* worker kind that a redispatch asks for.
Cycle(op, a, revision, from, valid, kind, second) ==
  [op |-> op, of |-> a, revision |-> revision, from |-> from,
   valid |-> valid, kind |-> kind, second |-> second, made |-> {}]

Begin(c, y) ==
  /\ pc[c] = "idle"
  /\ cycle' = [cycle EXCEPT ![c] = y]
  /\ pc' = [pc EXCEPT ![c] = IF y.op \in Leased THEN "acquire" ELSE "first"]
  /\ UNCHANGED <<project, slot, results>>

\* The revisions of requests that are not compared with the delivery's: the
\* caller takes the delivery's own or the one it reads in the ledger.
Revisions(a) == {dispatched[a].revision, ledger.revision}

\* _validate_durable_owner_result and its like: the caller has an audit result
\* of the task with this verdict.
Audited(verdict) == \E x \in audits : x.verdict = verdict

\* Mutated form of AcceptPassed: the verdict is not looked at.
AcceptAudited(c) ==
  \E a \in Delivered, second \in BOOLEAN : \E revision \in Revisions(a) :
    /\ audits # {}
    /\ Begin(c, Cycle("accept", a, revision, "review_ready", FALSE, "none",
                      second))

\* resume_durable_acceptance_cycle, and run_acceptance_cycle and
\* run_durable_acceptance_cycle once their audit is there, with the verdict
\* `pass'; the others end with the audit.
AcceptPassed(c) ==
  \E a \in Delivered, second \in BOOLEAN : \E revision \in Revisions(a) :
    /\ Audited("pass")
    /\ Begin(c, Cycle("accept", a, revision, "review_ready", FALSE, "none",
                      second))

\* run_delivery_remediation and run_durable_delivery_remediation
Remediate(c) ==
  \E a \in Delivered : \E revision \in Revisions(a) :
    /\ Audited("fail")
    /\ Begin(c, Cycle("remediate", a, revision, "review_ready", FALSE, "none",
                      TRUE))

\* run_blocked_audit_cycle and run_durable_blocked_audit; whether the attempt
\* is valid is the caller's word.
Block(c) ==
  \E a \in Delivered, valid \in BOOLEAN : \E revision \in Revisions(a) :
    /\ Audited("blocked")
    /\ Begin(c, Cycle("block", a, revision, "review_ready", valid, "none",
                      FALSE))

\* evaluate_escalation
MayEscalate(kind) == kind \in DOMAIN Progression

\* The BlockedAuditRequest that the next three operations take beside a
\* BlockedAuditResult is the caller's: that it is about the same task and
\* worker kind is compared, its delivery and its payload are what the caller
\* puts there.

\* run_escalated_redispatch
Redispatch(c) ==
  \E kind \in blocks, a \in Delivered : \E revision \in Revisions(a) :
    /\ MayEscalate(kind)
    /\ Begin(c, Cycle("redispatch", a, revision, "blocked", FALSE,
                      Progression[kind], TRUE))

\* record_blocked_rescope
Rescope(c) ==
  \E kind \in blocks, a \in Delivered :
    /\ ~MayEscalate(kind)
    /\ dispatched[a].revision < MaxRevision
    /\ Begin(c, Cycle("rescope", a, dispatched[a].revision, "blocked", FALSE,
                      "none", FALSE))

\* record_blocked_cancellation
CancelBlocked(c) ==
  \E kind \in blocks, a \in Delivered :
    /\ ~MayEscalate(kind)
    /\ Begin(c, Cycle("cancelBlocked", a, dispatched[a].revision, "blocked",
                      FALSE, "none", FALSE))

\* record_integration_failure, for an acceptance without integration.
IntegrationFailed(c) ==
  \E a \in Delivered : \E revision \in Revisions(a) :
    /\ accepted
    /\ Begin(c, Cycle("fail", a, revision, "accepted", TRUE, "none", FALSE))

\* run_durable_integration_completion, with the Git evidence of the delivery.
Complete(c) ==
  \E a \in Delivered :
    /\ accepted
    /\ Begin(c, Cycle("complete", a, dispatched[a].revision, "accepted", FALSE,
                      "none", FALSE))

\* Mutated form of Stoppable: the current dispatch is not looked at.
NotEnded == ledger.state \notin T!Terminal

\* The checks of the two quiescent operations on the StateProvider's snapshot.
Stoppable ==
  /\ ledger.dispatch = None
  /\ ledger.state \notin T!Terminal

\* cancel_quiescent_task and supersede_quiescent_task, up to the checks; the
\* transition comes later.
StopQuiescent(c) ==
  \E op \in Quiescent :
    /\ Stoppable
    /\ Begin(c, Cycle(op, None, ledger.revision, ledger.state, FALSE, "none",
                      FALSE))

\* A caller runs its last cycle again, with the same requests.
Retry(c) ==
  /\ cycle[c] # NoCycle
  /\ cycle[c].op \in Quiescent =>
       /\ Stoppable
       /\ ledger.state = cycle[c].from /\ ledger.revision = cycle[c].revision
  /\ pc[c] = "idle"
  /\ pc' = [pc EXCEPT ![c] = IF cycle[c].op \in Leased THEN "acquire"
                             ELSE "first"]
  /\ UNCHANGED <<project, slot, results, cycle>>
-----------------------------------------------------------------------------
(* The steps of a cycle.                                                   *)

\* acquire_worker_slot: the dispatch has no slot.
Acquire(c) ==
  /\ pc[c] = "acquire"
  /\ slot[cycle[c].of] = Free
  /\ slot' = [slot EXCEPT ![cycle[c].of] = c]
  /\ pc' = [pc EXCEPT ![c] = "first"]
  /\ UNCHANGED <<project, results, cycle>>

\* The request of the first transition ...
FirstRequest(y) ==
  LET type == First[y.op] IN
  Request(type, y.revision, y.from, CHOOSE to \in T!To[type] : TRUE,
          y.of, y.of, y.valid)

\* Mutated form of SecondRequest: the next dispatch is for the attempt that
\* the ledger is due for.
SecondForLedger(y) ==
  IF y.op = "redispatch"
  THEN Request("TASK_DISPATCHED", ledger.revision, "ready", "dispatched",
               ledger.attempt + 1, ledger.attempt + 1, FALSE)
  ELSE Request(Second[y.op], y.revision,
               IF y.op = "accept" THEN "accepted" ELSE "returned",
               IF y.op = "accept" THEN "integrated" ELSE "ready", y.of, y.of,
               FALSE)

\* ... and of the second: _validate_next_dispatch_cycle_for_redispatch wants
\* the attempt after that of the blocked delivery.
SecondRequest(y) ==
  CASE y.op = "redispatch" ->
         Request("TASK_DISPATCHED", dispatched[y.of].revision, "ready",
                 "dispatched", y.of + 1, y.of + 1, FALSE)
    [] y.op = "accept" ->
         Request("CHANGE_INTEGRATED", y.revision, "accepted", "integrated",
                 y.of, y.of, FALSE)
    [] y.op = "remediate" ->
         Request("TASK_REQUEUED", y.revision, "returned", "ready", y.of, y.of,
                 FALSE)

\* A commit is integrated that is the accepted one, or that the request calls
\* equivalent to it, as the completion of a Git merge does.
Integrates(y) == y.of = ledger.accepted \/ y.op = "complete"

\* The cycle goes on, or returns.
Goes(c, next, event) ==
  /\ pc' = [pc EXCEPT ![c] = next]
  /\ cycle' = [cycle EXCEPT ![c] = IF next = "idle" THEN NoCycle
                                   ELSE [cycle[c] EXCEPT
                                           !.made = cycle[c].made \cup event]]

\* apply_transition carries the request out ...
Apply(c, r, next) ==
  LET y == cycle[c] IN
  /\ \A e \in y.made : e.type # r.type
  /\ Applies(r)
  /\ r.type = "CHANGE_INTEGRATED" => Integrates(y)
  /\ ledger' = T!Mutated(ledger, r)
  /\ Goes(c, next, {T!EventOf(r, ledger)})
  /\ acceptances' = IF r.type = "DELIVERY_ACCEPTED"
                    THEN acceptances \cup {T!AcceptanceOf(r)} ELSE acceptances
  /\ integrated' = IF r.type = "CHANGE_INTEGRATED" THEN y.of ELSE integrated
  /\ verdicts' = IF r.type \in Answers
                 THEN verdicts \cup {[of |-> ledger.attempt, type |-> r.type]}
                 ELSE verdicts
  /\ IF r.type = "TASK_DISPATCHED"
     THEN DispatchedBy("redispatch", y.kind, r)
     ELSE UNCHANGED dispatched

\* ... or finds that it has done so before.
Replayed(c, r, next) ==
  /\ T!EventOf(r, ledger) \in cycle[c].made
  /\ ledger.state = r.to
  /\ Goes(c, next, {})
  /\ UNCHANGED project

\* The first transition, under the slot where the cycle has one.
ApplyFirst(c) ==
  LET y == cycle[c]
      next == IF y.op \in Leased THEN "release"
              ELSE IF y.second THEN "second" ELSE "idle" IN
  /\ pc[c] = "first"
  /\ y.op \in Leased => slot[y.of] = c
  /\ Apply(c, FirstRequest(y), next) \/ Replayed(c, FirstRequest(y), next)
  /\ blocks' = IF y.op = "block" THEN blocks \cup {dispatched[y.of].kind}
               ELSE blocks
  /\ UNCHANGED <<slot, audits, accepted>>

\* release_worker_slot; an acceptance that nothing follows returns its result.
Release(c) ==
  LET y == cycle[c] IN
  /\ pc[c] = "release"
  /\ slot[y.of] = c
  /\ slot' = [slot EXCEPT ![y.of] = Free]
  /\ Goes(c, IF y.second THEN "second" ELSE "idle", {})
  /\ accepted' = (accepted \/ (y.op = "accept" /\ ~y.second))
  /\ UNCHANGED <<project, audits, blocks>>

\* The second transition.
ApplySecond(c) ==
  LET y == cycle[c] IN
  /\ pc[c] = "second"
  /\ y.op = "redispatch" => y.of < MaxAttempt
  /\ \/ Apply(c, SecondRequest(y), "idle")
     \/ Replayed(c, SecondRequest(y), "idle")
  /\ UNCHANGED <<slot, results>>

\* A slot, a transition or a release is refused, or the process dies: the
\* slot is given back unless that fails too.
Stop(c) ==
  /\ pc[c] # "idle"
  /\ pc' = [pc EXCEPT ![c] = "idle"]
  /\ slot' \in {slot, [a \in Attempts |-> IF slot[a] = c THEN Free ELSE slot[a]]}
  /\ UNCHANGED <<project, results, cycle>>

\* The time of a slot is over.
SlotEnds ==
  /\ \E a \in Attempts : slot[a] # Free /\ slot' = [slot EXCEPT ![a] = Free]
  /\ UNCHANGED <<project, results, cycle, pc>>

Next ==
  \/ Specify \/ Dispatch \/ Work \/ Audit \/ SlotEnds
  \/ \E c \in Callers :
       \/ AcceptPassed(c) \/ Remediate(c) \/ Block(c) \/ Redispatch(c)
       \/ Rescope(c) \/ CancelBlocked(c) \/ IntegrationFailed(c) \/ Complete(c)
       \/ StopQuiescent(c) \/ Retry(c)
       \/ Acquire(c) \/ ApplyFirst(c) \/ Release(c) \/ ApplySecond(c)
       \/ Stop(c)

Spec == Init /\ [][Next]_vars
-----------------------------------------------------------------------------
(* Properties.                                                             *)

\* A delivery is answered once, although callers may run several cycles about
\* it at a time, with results of any age: it is accepted, returned or blocked,
\* and only an accepted one is ever answered again, by the failure of its
\* integration.  It is accepted on a `pass' and returned on a `fail' of the
\* task, of this delivery or an earlier one (verdict routing, the slot, the
\* DispatchCAS and the states in the requests).
VerdictCarriedOut ==
  \A v \in verdicts :
    /\ v.type = "DELIVERY_ACCEPTED" =>
         \E x \in audits : x.verdict = "pass" /\ x.of <= v.of
    /\ v.type = "DELIVERY_RETURNED" =>
         \E x \in audits : x.verdict = "fail" /\ x.of <= v.of
    /\ \A w \in verdicts :
         w.of = v.of =>
           \/ w = v
           \/ {v.type, w.type} = {"DELIVERY_ACCEPTED", "INTEGRATION_FAILED"}

\* A redispatch answers the task's last attempt: that one was blocked, under
\* review or on its way into the project, was for the same revision, and the
\* next kind of worker is the one after that of a blocked delivery
\* (run_escalated_redispatch), however many cycles of old results are tried.
EscalatesLast ==
  \A a \in Attempts :
    dispatched[a].by = "redispatch" =>
      /\ a > 1
      /\ \E type \in T!Blocking : [of |-> a - 1, type |-> type] \in verdicts
      /\ \E kind \in blocks :
           MayEscalate(kind) /\ dispatched[a].kind = Progression[kind]
      /\ dispatched[a].revision = dispatched[a - 1].revision

\* What an audit is for: a delivery is accepted or returned on a verdict about
\* itself.  The code does not keep it: see the run that checks it.
VerdictOfDelivery ==
  \A v \in verdicts :
    /\ v.type = "DELIVERY_ACCEPTED" =>
         [of |-> v.of, verdict |-> "pass"] \in audits
    /\ v.type = "DELIVERY_RETURNED" =>
         [of |-> v.of, verdict |-> "fail"] \in audits

\* What an escalation is for: the worker that is asked for is the next one
\* after that of the attempt before.  The code does not keep it either.
EscalatesKind ==
  \A a \in Attempts :
    dispatched[a].by = "redispatch" =>
      /\ MayEscalate(dispatched[a - 1].kind)
      /\ dispatched[a].kind = Progression[dispatched[a - 1].kind]

\* The quiescent operations never end a task whose worker may be running or
\* whose delivery waits for its review: "Must NOT cancel a running Worker".
NeverCancelsRunning ==
  [][ledger'.state \in {"cancelled", "superseded"} /\ ledger' # ledger =>
       ledger.state \notin {"dispatched", "in_progress", "review_ready"}]_vars

\* What the two quiescent operations say of themselves: the task they end has
\* no active dispatch.  The code does not keep it: see the run that checks it.
EndsQuiescent ==
  [][ledger'.state \in {"cancelled", "superseded"} /\ ledger' # ledger =>
       \E c \in Callers : /\ pc[c] = "first" /\ pc'[c] = "idle"
                          /\ cycle[c].op \in Quiescent => ledger.dispatch = None
     ]_vars

\* The commit in integrated_commit is that of the accepted delivery.
IntegratesAccepted ==
  ledger.state = "integrated" => integrated = ledger.accepted
=============================================================================
