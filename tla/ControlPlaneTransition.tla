------------------------ MODULE ControlPlaneTransition ------------------------
(***************************************************************************)
(* The life of one task in the ledger, as scripts/control_plane_transition *)
(* writes it.                                                              *)
(*                                                                         *)
(* A caller reads the ledger without a lock, builds a TransitionRequest    *)
(* from what it saw and, any time later, calls apply_transition with it.   *)
(* The call makes one attempt at the state lock (an OS lock, so that it is *)
(* gone with its holder), reads the ledger again, looks for evidence that  *)
(* the request was already carried out, compares, and replaces the files   *)
(* in a fixed order: event, outbox message, acceptance record, tasks.yaml, *)
(* BOARD.md and STATUS.md.  Every replacement can fail and the process can *)
(* die between any two: the files replaced so far stay as they are.  A     *)
(* caller may then try the same request again, with the same event_id and  *)
(* the same `now'.                                                         *)
(*                                                                         *)
(* Ids are numbers.  One id stands for the event_id of a request and, when *)
(* the request is a dispatch, for the message_id and the dispatch_id that  *)
(* its caller makes up with it; for a submission it also names the commit  *)
(* that is submitted.  A worker transition runs inside the slot fence of   *)
(* WorkerSlotLease, and TASK_DISPATCHED, DELIVERY_ACCEPTED and             *)
(* CHANGE_INTEGRATED need an approval: here these, and every failure to    *)
(* read Git or a file, are reasons for which any call may be refused.      *)
(***************************************************************************)
EXTENDS Naturals, FiniteSets

CONSTANTS
  Callers,      \* the processes that apply transitions
  Types,        \* the event types that they ask for
  BlockValid,   \* the values of blocked_attempt_valid they give each blocking type
  ResumeTo,     \* the states that they ask BLOCKER_RESOLVED to resume to
  Reviews,      \* the review numbers of acceptance paths
  MaxEvents,    \* bound: how many requests are made
  MaxHead,      \* bound: how often the Git HEAD moves
  NoFile,       \* there is no such file
  NoRequest,    \* the caller has made no request
  NotRead,      \* the caller holds no copy of the ledger
  Free          \* nobody holds the state lock

States == {"draft", "ready", "dispatched", "in_progress", "review_ready",
           "returned", "blocked", "accepted", "integrated", "cancelled",
           "superseded"}

Terminal == {"integrated", "cancelled", "superseded"}

\* _RESUME_TO_STATES
Resumable == {"draft", "ready", "dispatched", "in_progress", "review_ready",
              "returned"}

\* _TRANSITION_SPECS: the states an event is allowed in ...
From ==
  [TASK_SPECIFIED        |-> {"draft"},
   TASK_DISPATCHED       |-> {"ready"},
   DISPATCH_ACKNOWLEDGED |-> {"dispatched"},
   DELIVERY_SUBMITTED    |-> {"in_progress"},
   DELIVERY_ACCEPTED     |-> {"review_ready"},
   DELIVERY_RETURNED     |-> {"review_ready"},
   TASK_REQUEUED         |-> {"returned"},
   CHANGE_INTEGRATED     |-> {"accepted"},
   INTEGRATION_FAILED    |-> {"accepted"},
   TASK_BLOCKED          |-> States \ Terminal,
   BLOCKER_RESOLVED      |-> {"blocked"},
   BLOCKER_RESCOPED      |-> {"blocked"},
   BLOCKER_CANCELLED     |-> {"blocked"},
   TASK_CANCELLED        |-> States \ Terminal,
   TASK_SUPERSEDED       |-> States \ Terminal,
   DISPATCH_FAILED       |-> {"dispatched", "in_progress"}]

\* ... and the states it leads to (_derive_to_state).
To ==
  [TASK_SPECIFIED        |-> {"ready"},
   TASK_DISPATCHED       |-> {"dispatched"},
   DISPATCH_ACKNOWLEDGED |-> {"in_progress"},
   DELIVERY_SUBMITTED    |-> {"review_ready"},
   DELIVERY_ACCEPTED     |-> {"accepted"},
   DELIVERY_RETURNED     |-> {"returned"},
   TASK_REQUEUED         |-> {"ready"},
   CHANGE_INTEGRATED     |-> {"integrated"},
   INTEGRATION_FAILED    |-> {"blocked"},
   TASK_BLOCKED          |-> {"blocked"},
   BLOCKER_RESOLVED      |-> ResumeTo,
   BLOCKER_RESCOPED      |-> {"draft"},
   BLOCKER_CANCELLED     |-> {"cancelled"},
   TASK_CANCELLED        |-> {"cancelled"},
   TASK_SUPERSEDED       |-> {"superseded"},
   DISPATCH_FAILED       |-> {"ready"}]

\* needs_dispatch_cas
NeedsDispatchCAS == {"DISPATCH_ACKNOWLEDGED", "DELIVERY_SUBMITTED",
                     "DELIVERY_ACCEPTED", "DELIVERY_RETURNED",
                     "DISPATCH_FAILED"}

Blocking == {"TASK_BLOCKED", "INTEGRATION_FAILED"}

\* The events that set current_dispatch to null.
EndsDispatch == {"DELIVERY_ACCEPTED", "DELIVERY_RETURNED", "TASK_REQUEUED",
                 "DISPATCH_FAILED", "BLOCKER_RESCOPED", "BLOCKER_CANCELLED",
                 "TASK_CANCELLED", "TASK_SUPERSEDED"}

ASSUME ConstantsAssumption ==
  /\ Types \subseteq DOMAIN From
  /\ BlockValid \in [Blocking -> SUBSET BOOLEAN]
  /\ ResumeTo \subseteq Resumable
  /\ Reviews \subseteq Nat
  /\ MaxEvents \in Nat
  /\ MaxHead \in Nat
  /\ Free \notin Callers

Ids == 1..MaxEvents
None == 0        \* no dispatch, no commit, no review
Refs == 0..MaxEvents

\* The task's record in tasks.yaml.  `accepted' is accepted_commit and
\* `review' the review number in acceptance_path.
Task == [state : States, revision : Nat, attempt : Nat, dispatch : Refs,
         delivery : {"null", "submitted", "accepted", "rejected"},
         commit : Refs, accepted : Refs, review : Nat,
         envelope : {"null", "invalid", "valid"}]

\* A TransitionRequest: TransitionCAS (revision, from, head), DispatchCAS or
\* the payload of a dispatch (dispatch, attempt), and the other payloads.
Request == [type : DOMAIN From, id : Ids, head : Nat, revision : Nat,
            from : States, to : States, dispatch : Refs, attempt : Nat,
            valid : BOOLEAN, commit : Refs, review : Nat]

\* An event file, an outbox message and an acceptance record.
Event == [type : DOMAIN From, revision : Nat, from : States, to : States,
          attempt : Nat, dispatch : Refs]
Message == [revision : Nat, attempt : Nat \ {0}, dispatch : Ids]
Acceptance == [revision : Nat, attempt : Nat, review : Nat, dispatch : Refs,
               commit : Refs]

ASSUME NoFileAssumption == NoFile \notin Event /\ NoFile \notin Message
ASSUME NoRequestAssumption == NoRequest \notin Request

\* The HEAD and the task that a call reads once it has the lock.
View == [head : Nat, task : Task]

ASSUME NotReadAssumption == NotRead \notin View

VARIABLES
  head,          \* the Git HEAD of the project
  ledger,        \* the task in tasks.yaml
  events,        \* the event files
  outbox,        \* the outbox messages
  acceptances,   \* the acceptance records
  lock,          \* the holder of the state lock
  pc,            \* where each caller is; past "locked", the next file it writes
  req,           \* the last request each caller made
  seen,          \* the HEAD and the task as each caller read them inside the lock
  lastId,        \* ids up to this one are in use
  committed      \* history: the ids whose transition reached tasks.yaml

vars == <<head, ledger, events, outbox, acceptances, lock, pc, req, seen,
          lastId, committed>>

files == <<ledger, events, outbox, acceptances, committed>>

Writing == {"event", "outbox", "acceptance", "ledger", "views"}
PCs == {"idle", "called", "locked"} \cup Writing

FirstTask == [state |-> "draft", revision |-> 1, attempt |-> 0,
              dispatch |-> None, delivery |-> "null", commit |-> None,
              accepted |-> None, review |-> None, envelope |-> "null"]

Init ==
  /\ head = 0
  /\ ledger = FirstTask
  /\ events = [i \in Ids |-> NoFile]
  /\ outbox = [i \in Ids |-> NoFile]
  /\ acceptances = {}
  /\ lock = Free
  /\ pc = [c \in Callers |-> "idle"]
  /\ req = [c \in Callers |-> NoRequest]
  /\ seen = [c \in Callers |-> NotRead]
  /\ lastId = 0
  /\ committed = {}
-----------------------------------------------------------------------------
(* Helpers of the code. *)

\* _build_event_bytes: what identifies the transition comes from the request,
\* the attempt and the dispatch of the others from the task as it is now.
EventOf(r, task) ==
  [type     |-> r.type,
   revision |-> r.revision,
   from     |-> r.from,
   to       |-> r.to,
   attempt  |-> IF r.type = "TASK_DISPATCHED" THEN r.attempt ELSE task.attempt,
   dispatch |-> IF r.type \in NeedsDispatchCAS \cup {"TASK_DISPATCHED"}
                THEN r.dispatch ELSE task.dispatch]

\* _build_outbox_bytes
MessageOf(r) ==
  [revision |-> r.revision, attempt |-> r.attempt, dispatch |-> r.dispatch]

\* _build_acceptance_bytes
AcceptanceOf(r) ==
  [revision |-> r.revision, attempt |-> r.attempt, review |-> r.review,
   dispatch |-> r.dispatch, commit |-> r.commit]

\* The acceptance record, if any, at the path that names revision, attempt
\* and review number.
AcceptancesAt(revision, attempt, review) ==
  {a \in acceptances : /\ a.revision = revision
                       /\ a.attempt = attempt
                       /\ a.review = review}

\* Some companion file of the request exists.
Companions(r, task) ==
  \/ r.type = "TASK_DISPATCHED" /\ outbox[r.id] # NoFile
  \/ /\ r.type = "DELIVERY_ACCEPTED"
     /\ AcceptancesAt(r.revision, task.attempt, r.review) # {}

\* Mutated form of DispatchCAS: the dispatch is not compared.
DispatchExists(r, task) == r.type \in NeedsDispatchCAS => task.dispatch # None

\* _validate_cas, its fourth part: the request is for the current dispatch.
DispatchCAS(r, task) ==
  r.type \in NeedsDispatchCAS =>
    /\ task.dispatch # None
    /\ task.dispatch = r.dispatch
    /\ task.attempt = r.attempt

\* _validate_cas, against the HEAD and the task that were read.
CAS(r, s) ==
  /\ r.head = s.head
  /\ r.revision = s.task.revision
  /\ s.task.state \in From[r.type]
  /\ r.from = s.task.state
  /\ DispatchCAS(r, s.task)
  /\ r.type = "TASK_DISPATCHED" => s.task.dispatch = None

\* Mutated form of PayloadFits: attempts and commits are not compared.
FitsAnyAttempt(r, task) ==
  r.type = "CHANGE_INTEGRATED" =>
    AcceptancesAt(r.revision, task.attempt, task.review) # {}

\* What the builders of the new files check: _validate_new_attempt, the
\* attempt in the acceptance path, accepted_commit against the commit that
\* was submitted, and the acceptance record of a task that is integrated.
PayloadFits(r, task) ==
  /\ r.type = "TASK_DISPATCHED" => r.attempt = task.attempt + 1
  /\ r.type = "DELIVERY_ACCEPTED" =>
       /\ r.attempt = task.attempt
       /\ task.commit = None \/ r.commit = task.commit
  /\ r.type = "CHANGE_INTEGRATED" =>
       /\ task.review # None
       /\ AcceptancesAt(r.revision, task.attempt, task.review) # {}

\* Mutated form of DispatchAfter: blocking the task leaves its dispatch.
DispatchLeftByBlock(task, r) ==
  CASE r.type = "TASK_DISPATCHED"    -> r.dispatch
    [] r.type \in EndsDispatch       -> None
    [] OTHER                         -> task.dispatch

\* _mutate_task_for_transition: the current_dispatch ...
DispatchAfter(task, r) ==
  CASE r.type = "TASK_DISPATCHED"    -> r.dispatch
    [] r.type \in EndsDispatch       -> None
    [] r.type \in Blocking /\ ~r.valid -> None
    [] OTHER                         -> task.dispatch

\* ... and the other fields.
Mutated(task, r) ==
  LET moved == [task EXCEPT !.state = r.to, !.dispatch = DispatchAfter(task, r)] IN
  CASE r.type = "TASK_DISPATCHED" ->
         [moved EXCEPT !.attempt = r.attempt]
    [] r.type = "DELIVERY_SUBMITTED" ->
         [moved EXCEPT !.commit = r.commit, !.delivery = "submitted"]
    [] r.type = "DELIVERY_ACCEPTED" ->
         [moved EXCEPT !.accepted = r.commit, !.review = r.review,
                       !.delivery = "accepted"]
    [] r.type = "DELIVERY_RETURNED" ->
         [moved EXCEPT !.delivery = "rejected"]
    [] r.type = "DISPATCH_FAILED" ->
         [moved EXCEPT !.delivery = "null", !.commit = None]
    [] r.type \in Blocking ->
         [moved EXCEPT !.envelope = IF r.valid THEN "valid" ELSE "invalid"]
    [] r.type \in {"BLOCKER_RESOLVED", "BLOCKER_CANCELLED"} ->
         [moved EXCEPT !.envelope = "null"]
    [] r.type = "BLOCKER_RESCOPED" ->
         [moved EXCEPT !.envelope = "null", !.revision = task.revision + 1,
                       !.delivery = "null", !.commit = None,
                       !.accepted = None, !.review = None]
    [] OTHER -> moved

\* Mutated form of After: tasks.yaml is replaced before the companion files.
LedgerSecond(stage, r) ==
  CASE stage = "event"  -> "ledger"
    [] stage = "ledger" -> IF r.type = "TASK_DISPATCHED" THEN "outbox"
                           ELSE IF r.type = "DELIVERY_ACCEPTED"
                           THEN "acceptance" ELSE "views"
    [] OTHER            -> "views"

\* _write_canonical_files: the file that is replaced after a given one.
After(stage, r) ==
  CASE stage = "event"      -> IF r.type = "TASK_DISPATCHED" THEN "outbox"
                               ELSE IF r.type = "DELIVERY_ACCEPTED"
                               THEN "acceptance" ELSE "ledger"
    [] stage = "outbox"     -> "ledger"
    [] stage = "acceptance" -> "ledger"
    [] stage = "ledger"     -> "views"

\* _check_idempotency_and_duplicates, and the same for a gated event: the
\* evidence on disk is the evidence of this request, and the task is in the
\* state the request leads to.  The call returns its result again.
IsReplay(r, task) ==
  /\ events[r.id] = EventOf(r, task)
  /\ task.state = r.to
  /\ r.type = "TASK_DISPATCHED" => outbox[r.id] = MessageOf(r)
  /\ r.type = "DELIVERY_ACCEPTED" =>
       /\ r.attempt = task.attempt
       /\ AcceptancesAt(r.revision, r.attempt, r.review) = {AcceptanceOf(r)}

\* No file of this request exists and the task is not in its target state:
\* anything else is TransitionDuplicateEvidenceError.
IsNew(r, task) ==
  /\ events[r.id] = NoFile
  /\ ~Companions(r, task)
  /\ task.state # r.to

-----------------------------------------------------------------------------
(* A call, step by step. *)

\* The commits that a request of a type may name: a delivery names a new one,
\* a verdict of acceptance the delivered one or a wrong one.
Commits(type) ==
  CASE type = "DELIVERY_SUBMITTED" -> {lastId + 1}
    [] type = "DELIVERY_ACCEPTED"  -> {ledger.commit, lastId + 1} \ {None}
    [] OTHER                       -> {None}

\* The values of blocked_attempt_valid that a request of a type may carry.
Validities(type) == IF type \in Blocking THEN BlockValid[type] ELSE {FALSE}

\* A caller reads the ledger and the HEAD and builds a request for what it
\* saw; the call itself comes later.
Prepare(c, type) ==
  /\ pc[c] = "idle"
  /\ lastId < MaxEvents
  /\ ledger.state \in From[type]
  /\ type \in NeedsDispatchCAS => ledger.dispatch # None
  /\ \E to \in To[type], valid \in Validities(type), review \in Reviews,
        commit \in Commits(type) :
       req' = [req EXCEPT ![c] =
         [type     |-> type,
          id       |-> lastId + 1,
          head     |-> head,
          revision |-> ledger.revision,
          from     |-> ledger.state,
          to       |-> to,
          dispatch |-> CASE type = "TASK_DISPATCHED" -> lastId + 1
                         [] type \in NeedsDispatchCAS -> ledger.dispatch
                         [] OTHER -> None,
          attempt  |-> CASE type = "TASK_DISPATCHED" -> ledger.attempt + 1
                         [] type \in NeedsDispatchCAS -> ledger.attempt
                         [] OTHER -> 0,
          valid    |-> valid,
          commit   |-> commit,
          review   |-> IF type = "DELIVERY_ACCEPTED" THEN review ELSE None]]
  /\ lastId' = lastId + 1
  /\ pc' = [pc EXCEPT ![c] = "called"]
  /\ UNCHANGED <<head, files, lock, seen>>

\* A caller that was refused, failed or died makes its request again.
Retry(c) ==
  /\ pc[c] = "idle"
  /\ req[c] # NoRequest
  /\ pc' = [pc EXCEPT ![c] = "called"]
  /\ UNCHANGED <<head, files, lock, req, seen, lastId>>

\* _exclusive_state_lock: somebody has the lock, TransitionLockContentionError.
Contend(c) ==
  /\ pc[c] = "called"
  /\ lock # Free
  /\ pc' = [pc EXCEPT ![c] = "idle"]
  /\ UNCHANGED <<head, files, lock, req, seen, lastId>>

\* Mutated form of Lock: the lock is not exclusive.
LockShared(c) ==
  /\ pc[c] = "called"
  /\ lock' = c
  /\ seen' = [seen EXCEPT ![c] = [head |-> head, task |-> ledger]]
  /\ pc' = [pc EXCEPT ![c] = "locked"]
  /\ UNCHANGED <<head, files, req, lastId>>

\* The lock is taken and tasks.yaml read.
Lock(c) ==
  /\ pc[c] = "called"
  /\ lock = Free
  /\ lock' = c
  /\ seen' = [seen EXCEPT ![c] = [head |-> head, task |-> ledger]]
  /\ pc' = [pc EXCEPT ![c] = "locked"]
  /\ UNCHANGED <<head, files, req, lastId>>

\* The call ends: the lock is released.
Leave(c) ==
  /\ pc' = [pc EXCEPT ![c] = "idle"]
  /\ lock' = IF lock = c THEN Free ELSE lock
  /\ seen' = [seen EXCEPT ![c] = NotRead]
  /\ UNCHANGED <<head, req, lastId>>

\* The request is found carried out already: zero writes.
Replay(c) ==
  /\ pc[c] = "locked"
  /\ IsReplay(req[c], seen[c].task)
  /\ Leave(c)
  /\ UNCHANGED files

\* A check fails, or something the checks need cannot be read: zero writes.
Refuse(c) ==
  /\ pc[c] = "locked"
  /\ Leave(c)
  /\ UNCHANGED files

\* Every check passes.
Accept(c) ==
  /\ pc[c] = "locked"
  /\ IsNew(req[c], seen[c].task)
  /\ PayloadFits(req[c], seen[c].task)
  /\ CAS(req[c], seen[c])
  /\ pc' = [pc EXCEPT ![c] = "event"]
  /\ UNCHANGED <<head, files, lock, req, seen, lastId>>

\* One file is replaced, the next one is due.
Advance(c, stage) ==
  /\ pc[c] = stage
  /\ pc' = [pc EXCEPT ![c] = After(stage, req[c])]
  /\ UNCHANGED <<head, lock, req, seen, lastId>>

\* _write_canonical_files
WriteEvent(c) ==
  /\ Advance(c, "event")
  /\ events' = [events EXCEPT ![req[c].id] = EventOf(req[c], seen[c].task)]
  /\ UNCHANGED <<ledger, outbox, acceptances, committed>>

WriteOutbox(c) ==
  /\ Advance(c, "outbox")
  /\ outbox' = [outbox EXCEPT ![req[c].id] = MessageOf(req[c])]
  /\ UNCHANGED <<ledger, events, acceptances, committed>>

WriteAcceptance(c) ==
  /\ Advance(c, "acceptance")
  /\ LET new == AcceptanceOf(req[c]) IN
       acceptances' =
         (acceptances \ AcceptancesAt(new.revision, new.attempt, new.review))
           \cup {new}
  /\ UNCHANGED <<ledger, events, outbox, committed>>

WriteLedger(c) ==
  /\ Advance(c, "ledger")
  /\ ledger' = Mutated(seen[c].task, req[c])
  /\ committed' = committed \cup {req[c].id}
  /\ UNCHANGED <<events, outbox, acceptances>>

\* _write_derived_views, and the end of the call.
WriteViews(c) ==
  /\ pc[c] = "views"
  /\ Leave(c)
  /\ UNCHANGED files

\* Mutated form of Stop: a call that fails takes its event file back.
StopRollsBack(c) ==
  /\ pc[c] \in Writing
  /\ Leave(c)
  /\ events' = [events EXCEPT ![req[c].id] = NoFile]
  /\ UNCHANGED <<ledger, outbox, acceptances, committed>>

\* A write fails before or after its os.replace, or the process dies.
Stop(c) ==
  /\ pc[c] \in Writing
  /\ Leave(c)
  /\ UNCHANGED files

\* Somebody commits to the project's branch.
Commit ==
  /\ head < MaxHead
  /\ head' = head + 1
  /\ UNCHANGED <<files, lock, pc, req, seen, lastId>>

Next ==
  \/ \E c \in Callers :
       \/ \E type \in Types : Prepare(c, type)
       \/ Retry(c) \/ Contend(c) \/ Lock(c)
       \/ Replay(c) \/ Refuse(c) \/ Accept(c)
       \/ WriteEvent(c) \/ WriteOutbox(c) \/ WriteAcceptance(c)
       \/ WriteLedger(c) \/ WriteViews(c) \/ Stop(c)
  \/ Commit

Spec == Init /\ [][Next]_vars
-----------------------------------------------------------------------------
(* Properties. *)

\* Type correctness of the files, the lock and the callers' memory.
TypeOK ==
  /\ head \in 0..MaxHead
  /\ ledger \in Task
  /\ events \in [Ids -> Event \cup {NoFile}]
  /\ outbox \in [Ids -> Message \cup {NoFile}]
  /\ acceptances \subseteq Acceptance
  /\ lock \in Callers \cup {Free}
  /\ pc \in [Callers -> PCs]
  /\ req \in [Callers -> Request \cup {NoRequest}]
  /\ seen \in [Callers -> View \cup {NotRead}]
  /\ lastId \in Refs
  /\ committed \subseteq Ids

\* Evidence is written once: whatever fails, dies or is tried again, an event
\* file, an outbox message or an acceptance record on disk is never replaced
\* by a different one and never goes away (the duplicate and orphan checks of
\* _check_idempotency_and_duplicates and of step 5c).
EvidenceImmutable ==
  [][/\ \A i \in Ids : /\ events[i] # NoFile => events'[i] = events[i]
                       /\ outbox[i] # NoFile => outbox'[i] = outbox[i]
     /\ acceptances \subseteq acceptances']_vars

\* The ledger moves along the events: a change of the task in tasks.yaml is
\* the one that an event already on disk, not applied before, describes, and
\* it starts from the state and revision that the event starts from.  No two
\* callers, and no request tried again, move the task twice from one state.
LedgerFollowsEvents ==
  [][ledger' # ledger =>
       \E i \in Ids \ committed :
         /\ committed' = committed \cup {i}
         /\ events[i] # NoFile
         /\ events[i].from = ledger.state
         /\ events[i].to = ledger'.state
         /\ events[i].revision = ledger.revision
         /\ events[i].attempt = ledger'.attempt]_vars

\* Whenever tasks.yaml names a current dispatch, the TASK_DISPATCHED event
\* and the outbox message of that dispatch are on disk, for the same revision
\* and attempt: a reader of the ledger never sees a dispatch whose message
\* was not sent (the write order of _write_canonical_files).
DispatchTraceable ==
  ledger.dispatch # None =>
    /\ events[ledger.dispatch] # NoFile
    /\ events[ledger.dispatch].type = "TASK_DISPATCHED"
    /\ outbox[ledger.dispatch] =
         [revision |-> ledger.revision, attempt |-> ledger.attempt,
          dispatch |-> ledger.dispatch]

\* An accepted or integrated task has the acceptance record that its
\* acceptance_path names, for its revision, its attempt and its accepted
\* commit, and the record reviews a dispatch that was really made in that
\* attempt.
AcceptedBacked ==
  ledger.state \in {"accepted", "integrated"} =>
    \E a \in AcceptancesAt(ledger.revision, ledger.attempt, ledger.review) :
      /\ a.commit = ledger.accepted
      /\ a.dispatch \in committed
      /\ events[a.dispatch].type = "TASK_DISPATCHED"
      /\ events[a.dispatch].attempt = ledger.attempt

\* The dispatches that were ever applied to the task.
Dispatched == {i \in committed : events[i].type = "TASK_DISPATCHED"}

Log == INSTANCE TaskLog WITH
         Dispatches <- Ids, NoDispatch <- None, state <- ledger.state,
         revision <- ledger.revision, attempt <- ledger.attempt,
         dispatch <- ledger.dispatch, used <- Dispatched

\* A reader of tasks.yaml sees a task that moves in single steps, has one
\* dispatch at a time and never an old one again, whatever requests race,
\* fail half-way, die or are tried again (apply_transition as a whole).
ImplementsTaskLog == Log!Spec

\* At most one dispatch is ever applied for an attempt, although a caller may
\* have prepared its dispatch in an earlier stay of the task in `ready'.
OneDispatchPerAttempt ==
  \A i, j \in committed :
    /\ events[i].type = "TASK_DISPATCHED"
    /\ events[j].type = "TASK_DISPATCHED"
    /\ events[i].attempt = events[j].attempt
    => i = j

\* What a worker or a reviewer says of a dispatch (an acknowledgement, a
\* delivery, a verdict, a failure) moves the task only while that dispatch is
\* the current one, even if a later dispatch has brought the task back to the
\* same state.
StaleDispatchFenced ==
  [][\A i \in committed' \ committed :
       events[i].type \in NeedsDispatchCAS => events[i].dispatch = ledger.dispatch
     ]_vars

\* Rule 14 of references/events-outbox-and-validation.md and the dispatch
\* rules of validate_project.py: the task has a current dispatch in the
\* states between TASK_DISPATCHED and the verdict, has none in the others,
\* and a blocked task has one only if its attempt is declared valid.  Held
\* for the requests the Orchestrator makes.
DispatchMatchesState ==
  CASE ledger.state \in {"dispatched", "in_progress", "review_ready"} ->
         ledger.dispatch # None
    [] ledger.state = "blocked" ->
         ledger.dispatch # None => ledger.envelope = "valid"
    [] OTHER -> ledger.dispatch = None

\* A task is accepted only after a delivery of the very dispatch that the
\* acceptance record reviews, and for the commit that was delivered.  Held
\* for the requests the Orchestrator makes.
AcceptedWasDelivered ==
  ledger.state \in {"accepted", "integrated"} =>
    \A a \in AcceptancesAt(ledger.revision, ledger.attempt, ledger.review) :
      /\ ledger.accepted \in committed
      /\ events[ledger.accepted].type = "DELIVERY_SUBMITTED"
      /\ events[ledger.accepted].dispatch = a.dispatch
      /\ events[ledger.accepted].attempt = ledger.attempt

\* What decision 001 says of an idempotent success: the evidence is that of
\* a transition that was carried out, never an orphan.  The code does not
\* keep it: see the run that checks it.
ReplayedWasCommitted ==
  \A c \in Callers :
    pc[c] = "locked" /\ IsReplay(req[c], seen[c].task) => req[c].id \in committed

\* What validate_project.py says of the blocked fields: they are null in
\* every state but `blocked'.  The code does not keep it: see the run that
\* checks it.
EnvelopeOnlyWhenBlocked == ledger.envelope # "null" <=> ledger.state = "blocked"
=============================================================================
