--------------------------- MODULE SchedulerRecovery ---------------------------
(***************************************************************************)
(* The recovery of the scheduler's evidence: a decision                    *)
(* (portfolio_scheduler_recovery.py) is made from the entry, the receipt   *)
(* and the ledger as somebody read them, and carried out later             *)
(* (portfolio_scheduler_recovery_executor.py) under the lock of the store. *)
(* The recovery runs next to the ticks of module PortfolioScheduler.       *)
(*                                                                         *)
(* Nothing in the repository but its tests calls the executor, nor the     *)
(* store operations that retire an entry and finalize a receipt: this      *)
(* module says what the calls do whenever they are made.                   *)
(***************************************************************************)
EXTENDS PortfolioScheduler

CONSTANT Recoverers  \* processes that recover

ASSUME NobodyRecovers == {None, Orphan} \cap Recoverers = {}

\* What a decision is made from: the entry, the receipt of its generation, or
\* none, and the dispatch that the ledger shows the task to have had.
Evidence == [entry : Entry, receipt : ReceiptPhase \cup {None},
             event : Gens \cup {None}]

VARIABLES
  request,  \* the decision that a recoverer has in hand
  decided   \* what the recovery action of an entry and generation was for

recoveryVars == <<vars, request, decided>>
NoRequest == [card |-> None]

RecoveryInit ==
  /\ Init
  /\ request = [r \in Recoverers |-> NoRequest]
  /\ decided = [s \in Cards \X Gens |-> None]

\* _find_dispatched_for_attempt: an event counts only for the attempt that the
\* task is at, which its own transition has set.
CanonicalEvent(c) ==
  IF task[c] = "dispatched" THEN dispatch[c] ELSE None

EvidenceOf(c) == [entry |-> entry[c], receipt |-> receipt[<<c, entry[c].gen>>],
                  event |-> CanonicalEvent(c)]

\* _run_defense
PhasesAgree(e) ==
  /\ e.receipt = "SELECTED" => e.entry.state \in {"QUEUED", "SELECTED"}
  /\ e.receipt = "DISPATCHED" => e.entry.state \in {"DISPATCHED", "RETIRED"}

\* decide_reconciliation, for an execution owner that is dead or not asked
\* about, without evidence of the worker.  The answers that write nothing
\* (NO_OP, FAIL_CLOSED, WAIT_FOR_EXECUTION_OWNER and the defence against
\* phases that do not agree) are all "none".
ActionFor(e) ==
  LET state == e.entry.state IN
  IF state = None \/ ~PhasesAgree(e) THEN "none" ELSE
  CASE e.event # None /\ state \in {"QUEUED", "SELECTED"} -> "ADOPT_CANONICAL_DISPATCH"
    [] e.event # None /\ state \in {"DISPATCHED", "RETIRED"} -> "RETIRE_QUEUE_ENTRY"
    [] e.event = None /\ state = "QUEUED" -> "RESUME"
    [] e.event = None /\ state = "SELECTED" /\ e.receipt = "SELECTED" -> "REQUEUE_SELECTED"
    [] OTHER -> "none"

-----------------------------------------------------------------------------
\* A recoverer reads the evidence, without a lock.
Examine(r, c) ==
  /\ request[r] = NoRequest
  /\ lock # r
  /\ ActionFor(EvidenceOf(c)) # "none"
  /\ ActionFor(EvidenceOf(c)) = "REQUEUE_SELECTED" => entry[c].gen < MaxGen
  /\ request' = [request EXCEPT ![r] = [card |-> c, evidence |-> EvidenceOf(c)]]
  /\ UNCHANGED <<vars, decided>>

ActionOf(r) == ActionFor(request[r].evidence)

\* _read_live and _validate_initial_live: the entry has not moved, or it is
\* where the action would have left it.
StillLive(r) ==
  LET e == request[r].evidence
      c == request[r].card
      g == e.entry.gen IN
  /\ e.receipt # None => receipt[<<c, g>>] # None
  /\ \/ entry[c] = e.entry
     \/ /\ ActionOf(r) = "REQUEUE_SELECTED"
        /\ entry[c].gen = g + 1
        /\ entry[c].state = "QUEUED"
     \/ /\ ActionOf(r) = "ADOPT_CANONICAL_DISPATCH"
        /\ entry[c].gen = g
        /\ entry[c].state \in {"DISPATCHED", "RETIRED"}
        /\ receipt[<<c, g>>] = "DISPATCHED"
     \/ /\ ActionOf(r) = "RETIRE_QUEUE_ENTRY"
        /\ entry[c].gen = g
        /\ entry[c].state = "RETIRED"
        /\ receipt[<<c, g>>] = "DISPATCHED"

\* Mutated form of RequeueWrites: no tombstone is left.
RequeueOnly(c, g) == <<F("queue", c, g + 1, "QUEUED")>>

\* _requeue_selected_locked; the store's recover_selected_without_dispatch
\* makes the same writes.
RequeueWrites(c, g) ==
  If(tombstone[<<c, g>>] = None, F("tombstone", c, g, "selected_recovery"))
    \o <<F("queue", c, g + 1, "QUEUED")>>

CanRequeue(c, g) ==
  /\ receipt[<<c, g>>] = "SELECTED"
  /\ tombstone[<<c, g>>] \in {None, "selected_recovery"}
  /\ entry[c].gen = g
  /\ entry[c].state = "SELECTED"

\* _align_canonical_dispatch_locked.  The event is that of the decision: the
\* receipt gets its id whatever generation it was dispatched in, and before
\* the state of the entry is looked at.
AdoptWrites(c, g) ==
  If(receipt[<<c, g>>] = "SELECTED", F("receipt", c, g, "DISPATCHED"))
    \o If(entry[c].state = "SELECTED", F("queue", c, g, "DISPATCHED"))

\* _apply_action_locked: the action can be applied, and what it writes.
Applies(r) ==
  LET c == request[r].card
      e == request[r].evidence
      g == e.entry.gen IN
  /\ StillLive(r)
  /\ CASE ActionOf(r) = "RESUME" -> entry[c].state = "QUEUED"
       [] ActionOf(r) = "REQUEUE_SELECTED" ->
            \/ CanRequeue(c, g)
            \/ receipt[<<c, g>>] = "SELECTED" /\ entry[c].gen = g + 1
       [] ActionOf(r) = "ADOPT_CANONICAL_DISPATCH" -> e.receipt # None
       [] ActionOf(r) = "RETIRE_QUEUE_ENTRY" ->
            /\ e.receipt # None
            /\ receipt[<<c, g>>] = "DISPATCHED"
            /\ entry[c].state \in {"DISPATCHED", "RETIRED"}

ActionWrites(r) ==
  LET c == request[r].card
      g == request[r].evidence.entry.gen IN
  CASE ActionOf(r) = "REQUEUE_SELECTED" /\ entry[c].gen = g -> RequeueWrites(c, g)
    [] ActionOf(r) = "ADOPT_CANONICAL_DISPATCH" -> AdoptWrites(c, g)
    [] ActionOf(r) = "RETIRE_QUEUE_ENTRY" ->
         If(entry[c].state = "DISPATCHED", F("queue", c, g, "RETIRED"))
    [] OTHER -> <<>>

\* queue_alignment: an entry that is still QUEUED is refused when the receipt
\* beside it has been written.
RefusedAfter(r) ==
  /\ ActionOf(r) = "ADOPT_CANONICAL_DISPATCH"
  /\ entry[request[r].card].state = "QUEUED"

\* What an action writes when it can be applied; the two last phases of its
\* own receipt, unless it is refused after all.
Applied(r, c, g) ==
  ActionWrites(r)
    \o IF RefusedAfter(r) THEN <<>>
       ELSE If(execution[<<c, g>>] # "APPLIED", F("execution", c, g, "APPLIED"))
              \o <<F("execution", c, g, "FINALIZED")>>

\* A recovery generation takes one decision, that of the request which found it
\* free; the same request may be made again until its receipt is final.
Claimable(r, c, g) ==
  \/ execution[<<c, g>>] = None
  \/ decided[<<c, g>>] = request[r].evidence /\ execution[<<c, g>>] # "FINALIZED"

\* execute.  A request that cannot be applied has taken its recovery generation
\* all the same.
Recover(r) ==
  /\ request[r] # NoRequest
  /\ LET c == request[r].card
         g == request[r].evidence.entry.gen
         new == execution[<<c, g>>] = None IN
     /\ Claimable(r, c, g)
     /\ decided' = [decided EXCEPT ![<<c, g>>] = request[r].evidence]
     /\ Write(r, If(new, F("execution", c, g, "APPLYING"))
                  \o IF Applies(r) THEN Applied(r, c, g) ELSE <<>>)
  /\ UNCHANGED <<git, ledger, lease, proc, faults, request>>

\* The request is done with, or given up.
Drop(r) ==
  /\ request[r] # NoRequest
  /\ lock # r
  /\ request' = [request EXCEPT ![r] = NoRequest]
  /\ UNCHANGED <<vars, decided>>

RecoveryFails(r) ==
  /\ WriteFails(r)
  /\ UNCHANGED <<git, ledger, lease, files, proc, request, decided>>

RecovererDies(r) ==
  /\ lock = r
  /\ faults < MaxFaults
  /\ lock' = Orphan
  /\ todo' = <<>>
  /\ faults' = faults + 1
  /\ request' = [request EXCEPT ![r] = NoRequest]
  /\ UNCHANGED <<git, ledger, lease, files, proc, decided>>

\* retire_queue_entry
Retire(c) ==
  /\ lock = None
  /\ entry[c].state = "DISPATCHED"
  /\ Put(F("queue", c, entry[c].gen, "RETIRED"))
  /\ UNCHANGED <<git, ledger, lease, lock, todo, proc, faults, request, decided>>

\* finalize_schedule_receipt
Finalize(c) ==
  LET g == entry[c].gen IN
  /\ lock = None
  /\ receipt[<<c, g>>] = "DISPATCHED"
  /\ Binds(c, g)
  /\ tombstone[<<c, g>>] = None
  /\ Put(F("tombstone", c, g, "finalized"))
  /\ UNCHANGED <<git, ledger, lease, lock, todo, proc, faults, request, decided>>

\* A tick for the plan of a later generation, which no handoff makes.
Resubmit(p, c) ==
  /\ At(p, "idle")
  /\ entry[c].gen > 1
  /\ proc' = [proc EXCEPT ![p] = [Idle EXCEPT !.pc = "read", !.card = c,
                                              !.gen = entry[c].gen, !.snap = head]]
  /\ UNCHANGED <<git, ledger, lease, files, lock, todo, faults, request,
                 decided>>

RecoveryNext ==
  \/ Next /\ UNCHANGED <<request, decided>>
  \/ \E p \in Processes, c \in Cards : Resubmit(p, c)
  \/ \E r \in Recoverers :
       \/ \E c \in Cards : Examine(r, c)
       \/ Recover(r)
       \/ WriteOn(r) /\ UNCHANGED <<request, decided>>
       \/ Drop(r) \/ RecoveryFails(r) \/ RecovererDies(r)
  \/ \E c \in Cards : Retire(c) \/ Finalize(c)

RecoverySpec == RecoveryInit /\ [][RecoveryNext]_recoveryVars

-----------------------------------------------------------------------------
\* Properties.

\* A generation that the entry has left is fenced: its receipt stays SELECTED
\* and has the tombstone of a recovery, so that no tick of that generation reads
\* it again; the generation that the entry is at has such a tombstone only while
\* the requeue that wrote it is not complete.
GenerationFenced ==
  \A c \in Cards, g \in Gens :
    /\ g < entry[c].gen => /\ receipt[<<c, g>>] = "SELECTED"
                           /\ tombstone[<<c, g>>] = "selected_recovery"
    /\ g > entry[c].gen => receipt[<<c, g>>] = None /\ tombstone[<<c, g>>] = None

\* A card whose receipt has advanced while its entry has not can be aligned: by
\* a tick, which wants an entry that is SELECTED and HEAD to be where the plan
\* saw it, or by a recovery that decides to act.  portfolio-scheduler-contract.md:295: "canonical event
\* committed but queue phase not advanced | Align to `dispatched`/`retired` from
\* the canonical event".
Alignable ==
  \A c \in Cards :
    LET g == entry[c].gen IN
    (/\ entry[c].state \in {"QUEUED", "SELECTED"}
     /\ receipt[<<c, g>>] = "DISPATCHED"
     /\ lock = None
     /\ \A p \in Processes : proc[p].card # c)
    => \/ entry[c].state = "SELECTED" /\ head = plan[<<c, g>>]
       \/ ActionFor(EvidenceOf(c)) # "none"
=============================================================================
