-------------------------- MODULE PortfolioScheduler --------------------------
(***************************************************************************)
(* From a queue entry to its canonical dispatch: the tick of the scheduler *)
(* (portfolio_scheduler_runtime.py) selects a card, leaves a plan, a       *)
(* receipt and a reservation in the store (portfolio_scheduler_store.py)   *)
(* and takes the card through the admission                                *)
(* (portfolio_scheduler_admission.py) to TASK_DISPATCHED and back into     *)
(* line with the store.                                                    *)
(*                                                                         *)
(* Every write to the store is made under one lock file, which is taken at *)
(* the first attempt or not at all and which nobody removes for a dead     *)
(* holder; every read outside it is a step of its own.  Any tick may give  *)
(* up, fail or die between two steps and be made again.  The task ledger,  *)
(* the slot leases and the handoff that makes a card known to the          *)
(* scheduler are modules of their own (ControlPlaneTransition,             *)
(* WorkerSlotLease, TaskAdmission): here a transition is one step, except  *)
(* that a failure may leave its event without the task, a lease is held or *)
(* gone and a card is handed over in one step.                             *)
(***************************************************************************)
EXTENDS Naturals, Sequences, FiniteSets

CONSTANTS
  Cards,      \* task cards, each with a task and a queue entry
  Processes,  \* processes and threads that call tick
  Capacity,   \* worker slots
  None,
  Orphan,     \* the holder of a lock file whose process died
  MaxGen,     \* bound: selection generations of an entry
  MaxHead,    \* bound: commits on HEAD
  MaxFaults   \* bound: errors and crashes

ASSUME BoundsAreNat ==
  /\ {MaxHead, MaxFaults} \subseteq Nat
  /\ {MaxGen, Capacity} \subseteq Nat \ {0}

Gens == 1..MaxGen
QueuePhase == {"QUEUED", "SELECTED", "DISPATCHED", "RETIRED"}
ReceiptPhase == {"SELECTED", "DISPATCHED"}
TombstoneKind == {"finalized", "selected_recovery"}
\* The receipts of recovery actions.  RESERVED and VALIDATED, from which a
\* recovery goes on as from APPLYING, are one with it.
ExecutionPhase == {"APPLYING", "APPLIED", "FINALIZED"}

\* None and Orphan are nothing that they stand beside.
ASSUME NoneIsNothing ==
  /\ None \notin 0..MaxHead \cup Gens
  /\ None \notin QueuePhase \cup ReceiptPhase \cup TombstoneKind \cup ExecutionPhase
  /\ None \notin Cards \cup Processes
  /\ Orphan \notin Processes \cup {None}

\* A queue entry: its phase, None before it is created, and its generation.
Entry == [state : QueuePhase \cup {None}, gen : Gens]
NoEntry == [state |-> None, gen |-> 1]

\* One file of the store, and what is written to it.
File == [file : {"plan"}, card : Cards, gen : Gens, to : 0..MaxHead]
          \cup [file : {"receipt"}, card : Cards, gen : Gens, to : ReceiptPhase]
          \cup [file : {"reservation"}, card : Cards, gen : Gens, to : {TRUE}]
          \cup [file : {"tombstone"}, card : Cards, gen : Gens, to : TombstoneKind]
          \cup [file : {"queue"}, card : Cards, gen : Gens, to : QueuePhase]
          \cup [file : {"execution"}, card : Cards, gen : Gens, to : ExecutionPhase]

\* Where a tick is.  At the second set it takes the lock of the store.
Unlocked == {"idle", "read", "decide", "entry", "receipt", "canonical", "slot",
             "transit", "admitted"}
LockTakers == {"reserve", "alignReceipt", "alignQueue"}

VARIABLES
  head,         \* commits on HEAD of the project
  commit,       \* the commit a card is bound to, which its plan expects at HEAD
  task,         \* the task of a card: none, ready or dispatched, which may be over
  dispatch,     \* the generation the dispatch of the task was planned in
  events,       \* the generations that have a TASK_DISPATCHED event
  lease,        \* the dispatches that hold a worker slot
  entry,        \* queue.yaml
  plan,         \* the admission plans: expected_snapshot_commit
  receipt,      \* the schedule receipts
  reservation,  \* the reservations
  tombstone,    \* the tombstones
  execution,    \* the recovery actions
  lock,         \* who holds the lock of the store
  todo,         \* what its holder has yet to write
  proc,         \* the ticks
  faults        \* errors and crashes so far

files == <<entry, plan, receipt, reservation, tombstone, execution>>
ledger == <<task, dispatch, events>>
git == <<head, commit>>
vars == <<git, ledger, lease, files, lock, todo, proc, faults>>

\* A tick: the card, the generation and the snapshot of its plan, the queue as
\* it read it, the phase it expects the entry to be in and those of the entry
\* and the receipt that it goes by.  fresh: its own transition made the dispatch.
Tick == [pc : Unlocked \cup LockTakers, card : Cards \cup {None}, gen : Gens,
         snap : 0..MaxHead, queue : [Cards -> Entry],
         expect : QueuePhase \cup {None}, entry : QueuePhase \cup {None},
         receipt : ReceiptPhase \cup {None}, fresh : BOOLEAN]
Idle == [pc |-> "idle", card |-> None, gen |-> 1, snap |-> 0,
         queue |-> [c \in Cards |-> NoEntry], expect |-> None, entry |-> None,
         receipt |-> None, fresh |-> FALSE]

Init ==
  /\ head = 0
  /\ commit = [c \in Cards |-> 0]
  /\ task = [c \in Cards |-> "none"]
  /\ dispatch = [c \in Cards |-> None]
  /\ events = [c \in Cards |-> {}]
  /\ lease = {}
  /\ entry = [c \in Cards |-> NoEntry]
  /\ plan = [s \in Cards \X Gens |-> None]
  /\ receipt = [s \in Cards \X Gens |-> None]
  /\ reservation = [s \in Cards \X Gens |-> FALSE]
  /\ tombstone = [s \in Cards \X Gens |-> None]
  /\ execution = [s \in Cards \X Gens |-> None]
  /\ lock = None
  /\ todo = <<>>
  /\ proc = [p \in Processes |-> Idle]
  /\ faults = 0

-----------------------------------------------------------------------------
\* The store.

\* _atomic_store_bytes
Put(f) ==
  /\ plan' = IF f.file = "plan" THEN [plan EXCEPT ![<<f.card, f.gen>>] = f.to] ELSE plan
  /\ receipt' = IF f.file = "receipt"
                THEN [receipt EXCEPT ![<<f.card, f.gen>>] = f.to] ELSE receipt
  /\ reservation' = IF f.file = "reservation"
                    THEN [reservation EXCEPT ![<<f.card, f.gen>>] = f.to] ELSE reservation
  /\ tombstone' = IF f.file = "tombstone"
                  THEN [tombstone EXCEPT ![<<f.card, f.gen>>] = f.to] ELSE tombstone
  /\ execution' = IF f.file = "execution"
                  THEN [execution EXCEPT ![<<f.card, f.gen>>] = f.to] ELSE execution
  /\ entry' = IF f.file = "queue"
              THEN [entry EXCEPT ![f.card].state = f.to, ![f.card].gen = f.gen]
              ELSE entry

\* The part of an operation that runs under the lock: x takes it, writes the
\* first file and, when there are more, keeps it for them.
Write(x, writes) ==
  /\ lock = None
  /\ IF writes = <<>>
     THEN UNCHANGED <<files, lock, todo>>
     ELSE /\ Put(Head(writes))
          /\ todo' = Tail(writes)
          /\ lock' = IF Tail(writes) = <<>> THEN None ELSE x

WriteOn(x) ==
  /\ lock = x
  /\ Put(Head(todo))
  /\ todo' = Tail(todo)
  /\ lock' = IF Tail(todo) = <<>> THEN None ELSE lock
  /\ UNCHANGED <<git, ledger, lease, proc, faults>>

F(file, c, g, to) == [file |-> file, card |-> c, gen |-> g, to |-> to]
If(condition, write) == IF condition THEN <<write>> ELSE <<>>

\* _validate_receipt_binding
Binds(c, g) ==
  /\ entry[c].gen = g
  /\ receipt[<<c, g>>] = "SELECTED" => entry[c].state = "SELECTED"
  /\ receipt[<<c, g>>] = "DISPATCHED" => entry[c].state \in {"DISPATCHED", "RETIRED"}

\* read_schedule_receipt, with the raw read that the admission makes of a
\* receipt whose phase and entry do not agree.  A recovered receipt is refused.
Readable(c, g) ==
  /\ receipt[<<c, g>>] # None
  /\ tombstone[<<c, g>>] # "selected_recovery"
  /\ entry[c].gen = g

\* Mutated form of SelectionWrites: a receipt stands for the reservation.
SelectionWritesOnce(c, g, snap) ==
  If(plan[<<c, g>>] = None, F("plan", c, g, snap))
    \o (IF receipt[<<c, g>>] # None THEN <<>>
        ELSE <<F("receipt", c, g, "SELECTED"), F("reservation", c, g, TRUE)>>)
    \o If(entry[c].state = "QUEUED", F("queue", c, g, "SELECTED"))

\* reserve_admission_selection
SelectionWrites(c, g, snap) ==
  If(plan[<<c, g>>] = None, F("plan", c, g, snap))
    \o If(receipt[<<c, g>>] = None, F("receipt", c, g, "SELECTED"))
    \o If(~reservation[<<c, g>>], F("reservation", c, g, TRUE))
    \o If(entry[c].state = "QUEUED", F("queue", c, g, "SELECTED"))

-----------------------------------------------------------------------------
\* PortfolioSchedulerRuntime.tick

At(p, pc) == proc[p].pc = pc /\ lock # p
Goto(p, pc) == proc' = [proc EXCEPT ![p].pc = pc]
EndTick(p) == proc' = [proc EXCEPT ![p] = Idle]

\* The handoff of a card has committed it, registered it as a task and queued
\* it: from now on the scheduler has to do with it.  (Module TaskAdmission has
\* the steps.)
HandOver(c) ==
  /\ task[c] = "none"
  /\ lock = None
  /\ \E h \in 1..head : commit' = [commit EXCEPT ![c] = h]
  /\ task' = [task EXCEPT ![c] = "ready"]
  /\ entry' = [entry EXCEPT ![c].state = "QUEUED"]
  /\ UNCHANGED <<head, dispatch, events, lease, plan, receipt, reservation,
                 tombstone, execution, lock, todo, proc, faults>>

\* A handoff submits its card, any number of times: its plan is always of
\* generation 1 and always expects the commit of the card at HEAD.
Submit(p, c) ==
  /\ At(p, "idle")
  /\ task[c] # "none"
  /\ proc' = [proc EXCEPT ![p] = [Idle EXCEPT !.pc = "read", !.card = c,
                                              !.snap = commit[c]]]
  /\ UNCHANGED <<git, ledger, lease, files, lock, todo, faults>>

\* enumerate_queue_snapshot
ReadQueue(p) ==
  /\ At(p, "read")
  /\ proc' = [proc EXCEPT ![p].queue = entry, ![p].pc = "decide"]
  /\ UNCHANGED <<git, ledger, lease, files, lock, todo, faults>>

\* _without_stale_historical_plans: a queued entry without a plan of its own
\* generation is left out when all its plans are of another snapshot.
Visible(queue, snap) ==
  {d \in Cards :
     /\ queue[d].state # None
     /\ \/ queue[d].state # "QUEUED"
        \/ plan[<<d, queue[d].gen>>] # None
        \/ \A g \in Gens : plan[<<d, g>>] = None
        \/ \E g \in Gens : plan[<<d, g>>] = snap}

\* _pending_selection_ids
Pending(queue, snap) ==
  {d \in Visible(queue, snap) :
     \/ queue[d].state = "SELECTED"
     \/ /\ queue[d].state = "QUEUED"
        /\ plan[<<d, queue[d].gen>>] # None \/ reservation[<<d, queue[d].gen>>]}

\* select_next chooses one of the queued entries that conflict keys, worker
\* kinds and order leave.  These come with the request, so that any of the
\* queued cards may be the one.
Selectable(queue, snap) == {d \in Visible(queue, snap) : queue[d].state = "QUEUED"}

\* What tick does next with the card of its plan, if it does not raise, finds
\* nothing to do or asks for recovery.
Decision(queue, c, g, snap) ==
  LET state == queue[c].state
      planned == plan[<<c, g>>] = snap IN
  IF \/ c \notin Visible(queue, snap)
     \/ queue[c].gen # g
     \/ ~(Pending(queue, snap) \subseteq {c})
     \/ plan[<<c, g>>] \notin {None, snap}
  THEN "refuse"
  ELSE CASE c \in Selectable(queue, snap) -> "reserve"
         [] state = "SELECTED" /\ planned /\ reservation[<<c, g>>] -> "entry"
         [] /\ state \in {"DISPATCHED", "RETIRED"}
            /\ planned
            /\ Readable(c, g)
            /\ receipt[<<c, g>>] = "DISPATCHED" -> "entry"
         [] OTHER -> "refuse"

Decide(p) ==
  /\ At(p, "decide")
  /\ LET me == proc[p]
         next == Decision(me.queue, me.card, me.gen, me.snap) IN
     /\ next # "refuse"
     /\ proc' = [proc EXCEPT ![p].pc = next,
                             ![p].expect = me.queue[me.card].state,
                             ![p].queue = Idle.queue]
  /\ UNCHANGED <<git, ledger, lease, files, lock, todo, faults>>

\* _reserve_selection
Reserve(p) ==
  /\ At(p, "reserve")
  /\ LET c == proc[p].card
         g == proc[p].gen IN
     /\ entry[c].state \in {"QUEUED", "SELECTED"}
     /\ entry[c].gen = g
     /\ plan[<<c, g>>] \in {None, proc[p].snap}
     /\ receipt[<<c, g>>] # "DISPATCHED"
     /\ Write(p, SelectionWrites(c, g, proc[p].snap))
  /\ proc' = [proc EXCEPT ![p].pc = "entry", ![p].expect = "SELECTED"]
  /\ UNCHANGED <<git, ledger, lease, faults>>

-----------------------------------------------------------------------------
\* PortfolioAdmissionService.admit

\* _load_scheduler_evidence: the entry, then the receipt.
LoadEntry(p) ==
  /\ At(p, "entry")
  /\ LET c == proc[p].card IN
     /\ entry[c].gen = proc[p].gen
     /\ proc' = [proc EXCEPT ![p].entry = entry[c].state, ![p].pc = "receipt"]
  /\ UNCHANGED <<git, ledger, lease, files, lock, todo, faults>>

LoadReceipt(p) ==
  /\ At(p, "receipt")
  /\ LET c == proc[p].card
         g == proc[p].gen IN
     /\ Readable(c, g)
     /\ proc' = [proc EXCEPT ![p].receipt = receipt[<<c, g>>], ![p].pc = "canonical"]
  /\ UNCHANGED <<git, ledger, lease, files, lock, todo, faults>>

\* Mutated form of Replays: the event is enough.
ReplaysEvent(c, g) == events[c] = {g}

\* The dispatch that the ledger shows is the one of the plan.  (A dispatch that
\* is over is refused, as any call may be.)
Replays(c, g) ==
  /\ events[c] = {g}
  /\ task[c] = "dispatched"
  /\ dispatch[c] = g

\* Neither the ledger nor the store has moved since the tick looked.
Fresh(p) ==
  /\ events[proc[p].card] = {}
  /\ task[proc[p].card] = "ready"
  /\ proc[p].entry = proc[p].expect
  /\ proc[p].receipt = IF proc[p].expect = "SELECTED" THEN "SELECTED" ELSE "DISPATCHED"

\* _load_canonical_dispatch and the validations of a fresh admission
LoadCanonical(p) ==
  /\ At(p, "canonical")
  /\ head = proc[p].snap
  /\ \/ Replays(proc[p].card, proc[p].gen) /\ Goto(p, "alignReceipt")
     \/ Fresh(p) /\ Goto(p, "slot")
  /\ UNCHANGED <<git, ledger, lease, files, lock, todo, faults>>

Slot(p) == <<proc[p].card, proc[p].gen>>

\* acquire_worker_slot
AcquireSlot(p) ==
  /\ At(p, "slot")
  /\ Cardinality(lease) < Capacity
  /\ Slot(p) \notin lease
  /\ lease' = lease \cup {Slot(p)}
  /\ Goto(p, "transit")
  /\ UNCHANGED <<git, ledger, files, lock, todo, faults>>

\* Mutated form of Transit: the state of the task is not compared.
TransitBlind(p) ==
  /\ At(p, "transit")
  /\ LET c == proc[p].card
         g == proc[p].gen IN
     /\ head = proc[p].snap
     /\ Slot(p) \in lease
     /\ events' = [events EXCEPT ![c] = @ \cup {g}]
     /\ task' = [task EXCEPT ![c] = "dispatched"]
     /\ dispatch' = [dispatch EXCEPT ![c] = g]
     /\ proc' = [proc EXCEPT ![p].pc = "alignReceipt", ![p].fresh = TRUE]
  /\ UNCHANGED <<git, lease, files, lock, todo, faults>>

\* apply_transition: TASK_DISPATCHED, compared with the ledger and with HEAD.
Transit(p) ==
  /\ At(p, "transit")
  /\ LET c == proc[p].card
         g == proc[p].gen IN
     /\ head = proc[p].snap
     /\ task[c] = "ready"
     /\ Slot(p) \in lease
     /\ events' = [events EXCEPT ![c] = @ \cup {g}]
     /\ task' = [task EXCEPT ![c] = "dispatched"]
     /\ dispatch' = [dispatch EXCEPT ![c] = g]
     /\ proc' = [proc EXCEPT ![p].pc = "alignReceipt", ![p].fresh = TRUE]
  /\ UNCHANGED <<git, lease, files, lock, todo, faults>>

\* The transition fails between its event and the task; the slot is kept, for
\* the event file is there.
TransitTorn(p) ==
  /\ At(p, "transit")
  /\ faults < MaxFaults
  /\ LET c == proc[p].card IN
     /\ head = proc[p].snap
     /\ task[c] = "ready"
     /\ Slot(p) \in lease
     /\ events' = [events EXCEPT ![c] = @ \cup {proc[p].gen}]
  /\ faults' = faults + 1
  /\ EndTick(p)
  /\ UNCHANGED <<git, task, dispatch, lease, files, lock, todo>>

\* advance_schedule_receipt, unless the tick has read a receipt that is
\* DISPATCHED.
AlignReceipt(p) ==
  /\ At(p, "alignReceipt")
  /\ LET c == proc[p].card
         g == proc[p].gen IN
     IF proc[p].receipt = "SELECTED"
     THEN /\ receipt[<<c, g>>] # None
          /\ tombstone[<<c, g>>] = None
          /\ Binds(c, g)
          /\ Write(p, If(receipt[<<c, g>>] = "SELECTED",
                         F("receipt", c, g, "DISPATCHED")))
     ELSE UNCHANGED <<files, lock, todo>>
  /\ Goto(p, "alignQueue")
  /\ UNCHANGED <<git, ledger, lease, faults>>

\* advance_queue_phase to DISPATCHED, unless the tick has read an entry that
\* is past SELECTED.
AlignQueue(p) ==
  /\ At(p, "alignQueue")
  /\ LET c == proc[p].card
         g == proc[p].gen IN
     IF proc[p].entry = "SELECTED"
     THEN /\ entry[c].gen = g
          /\ entry[c].state \in {"SELECTED", "DISPATCHED"}
          /\ Write(p, If(entry[c].state = "SELECTED",
                         F("queue", c, g, "DISPATCHED")))
     ELSE /\ proc[p].entry \in {"DISPATCHED", "RETIRED"}
          /\ UNCHANGED <<files, lock, todo>>
  /\ Goto(p, "admitted")
  /\ UNCHANGED <<git, ledger, lease, faults>>

\* _existing_lease_id of a dispatch made earlier, and the last read of tick.
\* Whether or not they succeed, the tick has nothing left to do.
Admitted(p) ==
  /\ At(p, "admitted")
  /\ proc[p].fresh \/ Slot(p) \in lease
  /\ Readable(proc[p].card, proc[p].gen)
  /\ EndTick(p)
  /\ UNCHANGED <<git, ledger, lease, files, lock, todo, faults>>

-----------------------------------------------------------------------------
\* What else happens.

\* A tick raises: a check or a lock has refused it.  A slot it has acquired for
\* a transition that has left no event is released.
GiveUp(p) ==
  /\ proc[p].pc # "idle"
  /\ lock # p
  /\ lease' = IF proc[p].pc = "transit" /\ proc[p].gen \notin events[proc[p].card]
              THEN lease \ {Slot(p)} ELSE lease
  /\ EndTick(p)
  /\ UNCHANGED <<git, ledger, files, lock, todo, faults>>

\* A write of the holder of the lock fails; it releases the lock.
WriteFails(x) ==
  /\ lock = x
  /\ faults < MaxFaults
  /\ lock' = None
  /\ todo' = <<>>
  /\ faults' = faults + 1

Fail(p) ==
  /\ WriteFails(p)
  /\ EndTick(p)
  /\ UNCHANGED <<git, ledger, lease, files>>

\* A process dies, with the lock file if it holds it.
Die(p) ==
  /\ proc[p].pc # "idle"
  /\ faults < MaxFaults
  /\ \/ lock = p /\ lock' = Orphan
     \/ lock = None /\ proc[p].pc \in LockTakers /\ lock' = Orphan
     \/ lock # p /\ UNCHANGED lock
  /\ todo' = IF lock = p THEN <<>> ELSE todo
  /\ faults' = faults + 1
  /\ EndTick(p)
  /\ UNCHANGED <<git, ledger, lease, files>>

\* A handoff, an integration or a developer commits and moves HEAD.
MoveHead ==
  /\ head < MaxHead
  /\ head' = head + 1
  /\ UNCHANGED <<commit, ledger, lease, files, lock, todo, proc, faults>>

\* A lease is released or expires.
LeaseEnds(slot) ==
  /\ slot \in lease
  /\ lease' = lease \ {slot}
  /\ UNCHANGED <<git, ledger, files, lock, todo, proc, faults>>

Step(p) ==
  \/ \E c \in Cards : Submit(p, c)
  \/ ReadQueue(p) \/ Decide(p) \/ Reserve(p)
  \/ LoadEntry(p) \/ LoadReceipt(p) \/ LoadCanonical(p)
  \/ AcquireSlot(p) \/ Transit(p) \/ TransitTorn(p)
  \/ AlignReceipt(p) \/ AlignQueue(p) \/ Admitted(p)
  \/ WriteOn(p) \/ GiveUp(p) \/ Fail(p) \/ Die(p)

Environment ==
  \/ MoveHead
  \/ \E slot \in Cards \X Gens : LeaseEnds(slot)
  \/ \E c \in Cards : HandOver(c)

Next == (\E p \in Processes : Step(p)) \/ Environment

Spec == Init /\ [][Next]_vars

-----------------------------------------------------------------------------
\* Properties.

TypeOK ==
  /\ head \in 0..MaxHead /\ commit \in [Cards -> 0..MaxHead]
  /\ task \in [Cards -> {"none", "ready", "dispatched"}]
  /\ dispatch \in [Cards -> Gens \cup {None}]
  /\ events \in [Cards -> SUBSET Gens]
  /\ lease \subseteq Cards \X Gens
  /\ entry \in [Cards -> Entry]
  /\ plan \in [Cards \X Gens -> 0..MaxHead \cup {None}]
  /\ receipt \in [Cards \X Gens -> ReceiptPhase \cup {None}]
  /\ reservation \in [Cards \X Gens -> BOOLEAN]
  /\ tombstone \in [Cards \X Gens -> TombstoneKind \cup {None}]
  /\ execution \in [Cards \X Gens -> ExecutionPhase \cup {None}]
  /\ todo \in Seq(File)
  /\ todo # <<>> => lock \notin {None, Orphan}
  /\ proc \in [Processes -> Tick]
  /\ faults \in 0..MaxFaults

\* The store never runs ahead of the ledger: a receipt is DISPATCHED only for a
\* card whose dispatch the ledger has committed, and an entry is DISPATCHED or
\* RETIRED only when the receipt of its generation says so too.  Two files, two
\* lock sections and a ledger under another lock bring this about.
EvidenceFollowsLedger ==
  \A c \in Cards :
    /\ \A g \in Gens : receipt[<<c, g>>] = "DISPATCHED" => dispatch[c] # None
    /\ entry[c].state \in {"DISPATCHED", "RETIRED"}
         => receipt[<<c, entry[c].gen>>] = "DISPATCHED"

\* A dispatch is not repeated: once the ledger shows one, no tick of any
\* generation, however late, makes another.
NeverRepeated == [][\A c \in Cards : dispatch[c] # None => dispatch'[c] = dispatch[c]]_vars
=============================================================================
