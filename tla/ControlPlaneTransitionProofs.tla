--------------------- MODULE ControlPlaneTransitionProofs ---------------------
(***************************************************************************)
(* Theorems about ControlPlaneTransition, for any callers, event types,    *)
(* bounds and review numbers.                                              *)
(***************************************************************************)
EXTENDS ControlPlaneTransition, TLAPS

InCall == {"locked"} \cup Writing
Pending == {"event", "outbox", "acceptance", "ledger"}

\* A caller past the lock has it.
LockHeld == \A c \in Callers : pc[c] \in InCall => lock = c

\* A request as a caller builds it.
WellFormed(r) ==
  /\ r \in Request
  /\ r.from \in From[r.type]
  /\ r.to \in To[r.type]
  /\ r.type = "TASK_DISPATCHED" => r.dispatch = r.id /\ r.attempt # 0
  /\ r.type \in NeedsDispatchCAS => r.dispatch # None

Requested ==
  \A c \in Callers :
    /\ pc[c] # "idle" => req[c] # NoRequest
    /\ req[c] # NoRequest => WellFormed(req[c])

\* The request that is being carried out fits the task as it is.
Fits(r) ==
  /\ r.from = ledger.state
  /\ r.revision = ledger.revision
  /\ r.to # ledger.state
  /\ r.id \notin committed
  /\ DispatchCAS(r, ledger)
  /\ r.type = "TASK_DISPATCHED" =>
       ledger.dispatch = None /\ r.attempt = ledger.attempt + 1

\* The files of a request that are there, and those that are not, at a stage.
FilesAt(stage, r) ==
  /\ stage = "event" => events[r.id] = NoFile
  /\ stage \in {"event", "outbox"} /\ r.type = "TASK_DISPATCHED" =>
       outbox[r.id] = NoFile
  /\ stage \in {"event", "acceptance"} /\ r.type = "DELIVERY_ACCEPTED" =>
       AcceptancesAt(r.revision, r.attempt, r.review) = {}
  /\ stage = "outbox" => r.type = "TASK_DISPATCHED"
  /\ stage = "acceptance" => r.type = "DELIVERY_ACCEPTED"
  /\ stage \in {"outbox", "acceptance", "ledger"} =>
       events[r.id] = EventOf(r, ledger)
  /\ stage = "ledger" /\ r.type = "TASK_DISPATCHED" =>
       outbox[r.id] = MessageOf(r)
  /\ stage = "ledger" /\ r.type = "DELIVERY_ACCEPTED" =>
       AcceptanceOf(r) \in acceptances

\* Until it has replaced tasks.yaml, a caller knows the task as it is; once it
\* was accepted its request fits, and the files before the next one are there.
InHand(c) ==
  /\ pc[c] \in Pending \cup {"locked"} =>
       seen[c] \in View /\ seen[c].task = ledger
  /\ pc[c] \in Pending => Fits(req[c]) /\ FilesAt(pc[c], req[c])

AllInHand == \A c \in Callers : InHand(c)

\* An applied transition has its event, and an applied dispatch its attempt.
EvidenceFirst ==
  \A i \in committed :
    /\ events[i] # NoFile
    /\ events[i].type = "TASK_DISPATCHED" => events[i].attempt <= ledger.attempt

\* The current dispatch was applied.
DispatchApplied ==
  ledger.dispatch # None =>
    /\ ledger.dispatch \in committed
    /\ events[ledger.dispatch].attempt = ledger.attempt

IInv ==
  /\ TypeOK
  /\ LockHeld
  /\ Requested
  /\ AllInHand
  /\ EvidenceFirst
  /\ DispatchApplied
  /\ DispatchTraceable
  /\ OneDispatchPerAttempt
  /\ AcceptedBacked

-----------------------------------------------------------------------------
(* The table of event types. *)

EventTypes ==
  {"TASK_SPECIFIED", "TASK_DISPATCHED", "DISPATCH_ACKNOWLEDGED",
   "DELIVERY_SUBMITTED", "DELIVERY_ACCEPTED", "DELIVERY_RETURNED",
   "TASK_REQUEUED", "CHANGE_INTEGRATED", "INTEGRATION_FAILED",
   "TASK_BLOCKED", "BLOCKER_RESOLVED", "BLOCKER_RESCOPED",
   "BLOCKER_CANCELLED", "TASK_CANCELLED", "TASK_SUPERSEDED",
   "DISPATCH_FAILED"}

\* The event types of the table are the sixteen of _EVENT_TYPES.
LEMMA Domain == DOMAIN From = EventTypes
  BY DEF From, EventTypes

\* Where an event type leads is a state (_derive_to_state).
LEMMA ToStates ==
  ASSUME NEW t \in DOMAIN From
  PROVE  To[t] \subseteq States
<1>1. t \in EventTypes
  BY Domain
<1>2. ResumeTo \subseteq States
  BY ConstantsAssumption DEF Resumable, States
<1>3. CASE t = "BLOCKER_RESOLVED"
  BY <1>2, <1>3 DEF To
<1>4. CASE t # "BLOCKER_RESOLVED"
  BY <1>1, <1>4 DEF To, EventTypes, States
<1> QED
  BY <1>3, <1>4

\* Only a verdict of acceptance leads to `accepted', only the integration of
\* an accepted task to `integrated'.
LEMMA ToAccepted ==
  ASSUME NEW t \in DOMAIN From
  PROVE  /\ "accepted" \in To[t] => t = "DELIVERY_ACCEPTED"
         /\ "integrated" \in To[t] =>
              t = "CHANGE_INTEGRATED" /\ From[t] = {"accepted"}
<1>1. t \in EventTypes
  BY Domain
<1>2. "accepted" \notin ResumeTo /\ "integrated" \notin ResumeTo
  BY ConstantsAssumption DEF Resumable
<1>3. CASE t = "BLOCKER_RESOLVED"
  BY <1>2, <1>3 DEF To
<1>4. CASE t # "BLOCKER_RESOLVED"
  BY <1>1, <1>4 DEF To, From, EventTypes
<1> QED
  BY <1>3, <1>4

-----------------------------------------------------------------------------
(* What the helpers build. *)

\* The bounds of ids and references.
LEMMA IdRefs ==
  /\ Ids \subseteq Nat
  /\ Refs \subseteq Nat
  /\ Ids \subseteq Refs
  /\ None \in Refs
  /\ \A i \in Refs : i # None => i \in Ids
  BY ConstantsAssumption DEF Ids, Refs, None

\* The fields of the task that _mutate_task_for_transition returns.
LEMMA MutatedFields ==
  ASSUME NEW task \in Task, NEW r \in Request
  PROVE  LET m == Mutated(task, r) IN
         /\ m \in Task
         /\ m.state = r.to
         /\ m.dispatch = DispatchAfter(task, r)
         /\ m.attempt = IF r.type = "TASK_DISPATCHED" THEN r.attempt
                        ELSE task.attempt
         /\ m.revision = IF r.type = "BLOCKER_RESCOPED" THEN task.revision + 1
                         ELSE task.revision
         /\ r.type = "DELIVERY_ACCEPTED" =>
              m.accepted = r.commit /\ m.review = r.review
         /\ r.type = "CHANGE_INTEGRATED" =>
              m.accepted = task.accepted /\ m.review = task.review
         /\ r.type = "DELIVERY_SUBMITTED" => m.commit = r.commit
<1> DEFINE moved == [task EXCEPT !.state = r.to, !.dispatch = DispatchAfter(task, r)]
<1>1. DispatchAfter(task, r) \in Refs
  BY IdRefs DEF DispatchAfter, Task, Request
<1>2. /\ moved \in Task
      /\ moved.state = r.to
      /\ moved.dispatch = DispatchAfter(task, r)
      /\ moved.attempt = task.attempt
      /\ moved.revision = task.revision
      /\ moved.accepted = task.accepted
      /\ moved.review = task.review
  BY <1>1 DEF Task, Request
<1> HIDE DEF moved
<1>3. CASE r.type = "TASK_DISPATCHED"
  <2>1. Mutated(task, r) = [moved EXCEPT !.attempt = r.attempt]
    BY <1>3 DEF Mutated, moved, Blocking
  <2> QED
    BY <1>2, <1>3, <2>1 DEF Task, Request
<1>4. CASE r.type = "DELIVERY_SUBMITTED"
  <2>1. Mutated(task, r) = [moved EXCEPT !.commit = r.commit, !.delivery = "submitted"]
    BY <1>4 DEF Mutated, moved, Blocking
  <2> QED
    BY <1>2, <1>4, <2>1 DEF Task, Request
<1>5. CASE r.type = "DELIVERY_ACCEPTED"
  <2>1. Mutated(task, r) = [moved EXCEPT !.accepted = r.commit, !.review = r.review,
                                         !.delivery = "accepted"]
    BY <1>5 DEF Mutated, moved, Blocking
  <2> QED
    BY <1>2, <1>5, <2>1 DEF Task, Request
<1>6. CASE r.type = "DELIVERY_RETURNED"
  <2>1. Mutated(task, r) = [moved EXCEPT !.delivery = "rejected"]
    BY <1>6 DEF Mutated, moved, Blocking
  <2> QED
    BY <1>2, <1>6, <2>1 DEF Task, Request
<1>7. CASE r.type = "DISPATCH_FAILED"
  <2>1. Mutated(task, r) = [moved EXCEPT !.delivery = "null", !.commit = None]
    BY <1>7 DEF Mutated, moved, Blocking
  <2> QED
    BY <1>2, <1>7, <2>1, IdRefs DEF Task, Request
<1>8. CASE r.type \in Blocking
  <2>1. Mutated(task, r) =
          [moved EXCEPT !.envelope = IF r.valid THEN "valid" ELSE "invalid"]
    BY <1>8 DEF Mutated, moved, Blocking
  <2> QED
    BY <1>2, <1>8, <2>1 DEF Task, Request, Blocking
<1>9. CASE r.type \in {"BLOCKER_RESOLVED", "BLOCKER_CANCELLED"}
  <2>1. Mutated(task, r) = [moved EXCEPT !.envelope = "null"]
    BY <1>9 DEF Mutated, moved, Blocking
  <2> QED
    BY <1>2, <1>9, <2>1 DEF Task, Request
<1>10. CASE r.type = "BLOCKER_RESCOPED"
  <2>1. Mutated(task, r) =
          [moved EXCEPT !.envelope = "null", !.revision = task.revision + 1,
                        !.delivery = "null", !.commit = None,
                        !.accepted = None, !.review = None]
    BY <1>10 DEF Mutated, moved, Blocking
  <2>2. task.revision + 1 \in Nat
    BY DEF Task
  <2>3. Mutated(task, r) \in Task
    BY <1>2, <2>1, <2>2, IdRefs DEF Task
  <2>4. /\ Mutated(task, r).state = moved.state
        /\ Mutated(task, r).dispatch = moved.dispatch
        /\ Mutated(task, r).attempt = moved.attempt
        /\ Mutated(task, r).revision = task.revision + 1
    BY <1>2, <2>1 DEF Task
  <2> QED
    BY <1>2, <1>10, <2>3, <2>4
<1>11. CASE r.type \notin {"TASK_DISPATCHED", "DELIVERY_SUBMITTED",
                           "DELIVERY_ACCEPTED", "DELIVERY_RETURNED",
                           "DISPATCH_FAILED", "BLOCKER_RESOLVED",
                           "BLOCKER_CANCELLED", "BLOCKER_RESCOPED"} \cup Blocking
  <2>1. Mutated(task, r) = moved
    BY <1>11 DEF Mutated, moved
  <2> QED
    BY <1>2, <1>11, <2>1
<1> QED
  BY <1>3, <1>4, <1>5, <1>6, <1>7, <1>8, <1>9, <1>10, <1>11

\* The new files are of their types.
LEMMA NewFiles ==
  ASSUME NEW task \in Task, NEW r, WellFormed(r)
  PROVE  /\ EventOf(r, task) \in Event
         /\ r.type = "TASK_DISPATCHED" => MessageOf(r) \in Message
         /\ AcceptanceOf(r) \in Acceptance
<1>1. EventOf(r, task) \in Event
  BY DEF WellFormed, EventOf, Event, Task, Request
<1>2. r.type = "TASK_DISPATCHED" => MessageOf(r) \in Message
  BY DEF WellFormed, MessageOf, Message, Request
<1>3. AcceptanceOf(r) \in Acceptance
  BY DEF WellFormed, AcceptanceOf, Acceptance, Request
<1> QED
  BY <1>1, <1>2, <1>3

-----------------------------------------------------------------------------
(* The initial state, types and the lock. *)

\* The initial state satisfies the invariant.
LEMMA InitIInv == Init => IInv
<1> SUFFICES ASSUME Init PROVE IInv
  OBVIOUS
<1>1. TypeOK
  BY ConstantsAssumption, IdRefs
     DEF Init, TypeOK, FirstTask, Task, States, PCs, None
<1>2. LockHeld /\ Requested /\ AllInHand
  BY DEF Init, LockHeld, Requested, AllInHand, InHand, InCall, Writing, Pending
<1>3. /\ EvidenceFirst /\ DispatchApplied /\ DispatchTraceable
      /\ OneDispatchPerAttempt /\ AcceptedBacked
  BY DEF Init, FirstTask, EvidenceFirst, DispatchApplied, DispatchTraceable,
         OneDispatchPerAttempt, AcceptedBacked
<1> QED
  BY <1>1, <1>2, <1>3 DEF IInv

\* The request that a caller builds (Prepare) is well formed.
LEMMA PreparedWellFormed ==
  ASSUME TypeOK, NEW c \in Callers, NEW type \in Types, Prepare(c, type)
  PROVE  req'[c] \in Request /\ WellFormed(req'[c])
<1>1. PICK to \in To[type], valid \in Validities(type), review \in Reviews,
           commit \in Commits(type) :
        req' = [req EXCEPT ![c] =
         [type     |-> type,
          id       |-> lastId + 1,
          head     |-> head,
          revision |-> ledger.revision,
          from     |-> ledger.state,
          to       |-> to,
          dispatch |-> CASE type = "TASK_DISPATCHED" -> lastId + 1
                         [] type \in NeedsDispatchCAS -> ledger.dispatch
                         [] OTHER -> None,
          attempt  |-> CASE type = "TASK_DISPATCHED" -> ledger.attempt + 1
                         [] type \in NeedsDispatchCAS -> ledger.attempt
                         [] OTHER -> 0,
          valid    |-> valid,
          commit   |-> commit,
          review   |-> IF type = "DELIVERY_ACCEPTED" THEN review ELSE None]]
  BY DEF Prepare
<1> DEFINE d == CASE type = "TASK_DISPATCHED" -> lastId + 1
                  [] type \in NeedsDispatchCAS -> ledger.dispatch
                  [] OTHER -> None
           a == CASE type = "TASK_DISPATCHED" -> ledger.attempt + 1
                  [] type \in NeedsDispatchCAS -> ledger.attempt
                  [] OTHER -> 0
           n == IF type = "DELIVERY_ACCEPTED" THEN review ELSE None
<1>2. type \in DOMAIN From /\ head \in Nat /\ ledger \in Task
  BY ConstantsAssumption DEF TypeOK
<1>3. lastId + 1 \in Ids /\ lastId + 1 # None
  BY ConstantsAssumption DEF TypeOK, Prepare, Refs, Ids, None
<1>4. to \in States
  BY <1>2, ToStates
<1>5. /\ d \in Refs
      /\ type = "TASK_DISPATCHED" => d = lastId + 1
      /\ type \in NeedsDispatchCAS => d # None
  BY <1>2, <1>3, IdRefs DEF Prepare, Task, NeedsDispatchCAS
<1>6. /\ a \in Nat
      /\ type = "TASK_DISPATCHED" => a # 0
  BY <1>2 DEF Task, NeedsDispatchCAS
<1>7. valid \in BOOLEAN
  BY ConstantsAssumption DEF Validities
<1>8. n \in Nat
  BY ConstantsAssumption DEF None
<1>9. commit \in Refs
  BY <1>2, <1>3, IdRefs DEF Commits, Task, None
<1>10. ledger.state \in States /\ ledger.revision \in Nat /\ ledger.state \in From[type]
  BY <1>2 DEF Task, Prepare
<1> HIDE DEF d, a, n
<1>11. req'[c] = [type |-> type, id |-> lastId + 1, head |-> head,
                  revision |-> ledger.revision, from |-> ledger.state,
                  to |-> to, dispatch |-> d, attempt |-> a, valid |-> valid,
                  commit |-> commit, review |-> n]
  BY <1>1 DEF d, a, n, TypeOK
<1>12. req'[c] \in Request
  BY <1>2, <1>3, <1>4, <1>5, <1>6, <1>7, <1>8, <1>9, <1>10, <1>11 DEF Request
<1> QED
  BY <1>3, <1>5, <1>6, <1>10, <1>11, <1>12 DEF WellFormed

\* A caller that is in its own call and whose files nobody touched keeps what
\* it has in hand.
LEMMA InHandKept ==
  ASSUME NEW d \in Callers, InHand(d), UNCHANGED files,
         pc'[d] = pc[d], req'[d] = req[d], seen'[d] = seen[d]
  PROVE  InHand(d)'
  BY DEF InHand, files, Fits, FilesAt, DispatchCAS, AcceptancesAt, EventOf,
         MessageOf, AcceptanceOf

\* What the files alone determine survives a step that leaves them alone.
LEMMA FilesKept ==
  ASSUME UNCHANGED files
  PROVE  /\ EvidenceFirst => EvidenceFirst'
         /\ DispatchApplied => DispatchApplied'
         /\ DispatchTraceable => DispatchTraceable'
         /\ OneDispatchPerAttempt => OneDispatchPerAttempt'
         /\ AcceptedBacked => AcceptedBacked'
  BY DEF files, EvidenceFirst, DispatchApplied, DispatchTraceable,
         OneDispatchPerAttempt, AcceptedBacked, AcceptancesAt

\* The steps that replace no file that the invariant is about.
Quiet(c) ==
  \/ \E type \in Types : Prepare(c, type)
  \/ Retry(c) \/ Contend(c) \/ Lock(c) \/ Replay(c) \/ Refuse(c) \/ Accept(c)
  \/ WriteViews(c) \/ Stop(c)

LEMMA QuietTypes ==
  ASSUME IInv, NEW c \in Callers, Quiet(c)
  PROVE  TypeOK' /\ LockHeld' /\ Requested'
<1> USE DEF IInv
<1>1. UNCHANGED files
  BY DEF Quiet, Prepare, Retry, Contend, Lock, Replay, Refuse, Accept,
         WriteViews, Stop
<1>2. ASSUME NEW type \in Types, Prepare(c, type)
      PROVE  TypeOK' /\ LockHeld' /\ Requested'
  <2>1. req'[c] \in Request /\ WellFormed(req'[c])
    BY <1>2, PreparedWellFormed
  <2>2. /\ req' = [req EXCEPT ![c] = req'[c]]
        /\ req'[c] # NoRequest
    BY <1>2, <2>1, NoRequestAssumption DEF Prepare, TypeOK
  <2>3. lastId' \in Refs
    BY <1>2, ConstantsAssumption DEF Prepare, TypeOK, Refs
  <2>4. TypeOK'
    BY <1>1, <1>2, <2>1, <2>2, <2>3 DEF Prepare, TypeOK, files, PCs
  <2>5. LockHeld'
    BY <1>2 DEF Prepare, LockHeld, TypeOK, InCall, Writing
  <2>6. Requested'
    BY <1>2, <2>1, <2>2 DEF Prepare, Requested, TypeOK
  <2> QED
    BY <2>4, <2>5, <2>6
<1>3. CASE Retry(c) \/ Contend(c)
  BY <1>1, <1>3 DEF Retry, Contend, TypeOK, LockHeld, Requested, files, PCs,
                    InCall, Writing
<1>4. CASE Lock(c)
  <2>1. [head |-> head, task |-> ledger] \in View
    BY ConstantsAssumption DEF View, TypeOK
  <2> QED
    BY <1>1, <1>4, <2>1, ConstantsAssumption DEF Lock, TypeOK, LockHeld, Requested, files, PCs,
                            InCall, Writing
<1>5. CASE Leave(c) /\ pc[c] \in InCall
  BY <1>1, <1>5 DEF Leave, TypeOK, LockHeld, Requested, files, PCs, InCall, Writing
<1>6. CASE Accept(c)
  BY <1>1, <1>6 DEF Accept, TypeOK, LockHeld, Requested, files, PCs, InCall, Writing
<1> QED
  BY <1>2, <1>3, <1>4, <1>5, <1>6
     DEF Quiet, Replay, Refuse, WriteViews, Stop, InCall, Writing

LEMMA AcceptInHand ==
  ASSUME IInv, NEW c \in Callers, Accept(c)
  PROVE  InHand(c)'
<1> DEFINE r == req[c]
<1>1. /\ pc'[c] = "event" /\ req'[c] = r /\ seen'[c] = seen[c]
      /\ UNCHANGED files
  BY DEF Accept, IInv, TypeOK
<1>2. seen[c] \in View /\ seen[c].task = ledger
  BY DEF Accept, IInv, AllInHand, InHand
<1>3. IsNew(r, ledger) /\ PayloadFits(r, ledger) /\ CAS(r, seen[c])
  BY <1>2 DEF Accept
<1>4. r.id \notin committed
  BY <1>3 DEF IsNew, IInv, EvidenceFirst
<1>5. Fits(r)
  BY <1>2, <1>3, <1>4 DEF Fits, IsNew, PayloadFits, CAS
<1>6. FilesAt("event", r)
  BY <1>3 DEF FilesAt, IsNew, PayloadFits, Companions
<1> QED
  BY <1>1, <1>2, <1>5, <1>6
     DEF InHand, files, Fits, FilesAt, DispatchCAS, AcceptancesAt, Pending

LEMMA QuietInv ==
  ASSUME IInv, NEW c \in Callers, Quiet(c)
  PROVE  IInv'
<1>1. UNCHANGED files
  BY DEF Quiet, Prepare, Retry, Contend, Lock, Replay, Refuse, Accept,
         WriteViews, Stop
<1>2. AllInHand'
  <2> SUFFICES ASSUME NEW d \in Callers PROVE InHand(d)'
    BY DEF AllInHand
  <2>1. InHand(d)
    BY DEF IInv, AllInHand
  <2>2. CASE d # c
    <3>1. pc'[d] = pc[d] /\ req'[d] = req[d] /\ seen'[d] = seen[d]
      BY <2>2 DEF IInv, TypeOK, Quiet, Prepare, Retry, Contend, Lock, Replay,
                  Refuse, Accept, WriteViews, Stop, Leave
    <3> QED
      BY <1>1, <2>1, <3>1, InHandKept
  <2>3. CASE d = c
    <3>1. CASE Accept(c)
      BY <2>3, <3>1, AcceptInHand
    <3>2. CASE Lock(c)
      <4>1. [head |-> head, task |-> ledger] \in View
        BY ConstantsAssumption DEF View, IInv, TypeOK
      <4>2. /\ pc'[c] = "locked" /\ ledger' = ledger
            /\ seen'[c] = [head |-> head, task |-> ledger]
        BY <3>2 DEF Lock, IInv, TypeOK, files
      <4> QED
        BY <2>3, <4>1, <4>2 DEF InHand, Pending
    <3>3. CASE ~Accept(c) /\ ~Lock(c)
      <4>1. pc'[c] \in {"idle", "called"}
        BY <3>3 DEF IInv, TypeOK, Quiet, Prepare, Retry, Contend, Replay,
                    Refuse, WriteViews, Stop, Leave
      <4> QED
        BY <2>3, <4>1 DEF InHand, Pending
    <3> QED
      BY <3>1, <3>2, <3>3
  <2> QED
    BY <2>2, <2>3
<1> QED
  BY <1>1, <1>2, QuietTypes, FilesKept DEF IInv

-----------------------------------------------------------------------------
(* The steps that replace a file. *)

\* What a step of _write_canonical_files leaves alone, and that its caller is
\* the only one in a call.
LEMMA AdvanceFacts ==
  ASSUME IInv, NEW c \in Callers, NEW stage \in Pending, Advance(c, stage)
  PROVE  /\ req' = req /\ seen' = seen /\ lock' = lock /\ head' = head
         /\ lastId' = lastId
         /\ pc' = [pc EXCEPT ![c] = After(stage, req[c])]
         /\ After(stage, req[c]) \in Writing \ {"event"}
         /\ lock = c
         /\ \A d \in Callers \ {c} : pc[d] \notin InCall
         /\ req[c] \in Request /\ WellFormed(req[c])
         /\ seen[c] \in View /\ seen[c].task = ledger /\ ledger \in Task
         /\ Fits(req[c]) /\ FilesAt(stage, req[c])
         /\ LockHeld' /\ Requested'
<1>1. /\ req' = req /\ seen' = seen /\ lock' = lock /\ head' = head
      /\ lastId' = lastId
      /\ pc' = [pc EXCEPT ![c] = After(stage, req[c])]
      /\ pc[c] = stage
  BY DEF Advance
<1>2. After(stage, req[c]) \in Writing \ {"event"}
  BY DEF After, Pending, Writing
<1>3. lock = c /\ \A d \in Callers \ {c} : pc[d] \notin InCall
  BY <1>1 DEF IInv, LockHeld, InCall, Pending, Writing
<1>4. req[c] \in Request /\ WellFormed(req[c])
  BY <1>1 DEF IInv, Requested, WellFormed, Pending
<1>5. /\ seen[c] \in View /\ seen[c].task = ledger /\ ledger \in Task
      /\ Fits(req[c]) /\ FilesAt(stage, req[c])
  BY <1>1 DEF IInv, TypeOK, AllInHand, InHand
<1>6. LockHeld' /\ Requested'
  BY <1>1, <1>2, <1>3 DEF IInv, TypeOK, LockHeld, Requested, InCall, Pending, Writing
<1> QED
  BY <1>1, <1>2, <1>3, <1>4, <1>5, <1>6

\* The other callers have nothing in hand then.
LEMMA OthersIdle ==
  ASSUME IInv, NEW c \in Callers, NEW stage \in Pending, Advance(c, stage),
         InHand(c)'
  PROVE  AllInHand'
<1> SUFFICES ASSUME NEW d \in Callers, d # c PROVE InHand(d)'
  BY DEF AllInHand
<1> QED
  BY AdvanceFacts DEF IInv, TypeOK, InHand, InCall, Pending, Writing

LEMMA WriteEventInv ==
  ASSUME IInv, NEW c \in Callers, WriteEvent(c)
  PROVE  IInv'
<1> DEFINE r == req[c]
<1>1. /\ Advance(c, "event") /\ "event" \in Pending
      /\ events' = [events EXCEPT ![r.id] = EventOf(r, seen[c].task)]
      /\ UNCHANGED <<ledger, outbox, acceptances, committed>>
  BY DEF WriteEvent, Pending
<1>2. /\ req' = req /\ seen' = seen /\ lock' = lock /\ head' = head
      /\ lastId' = lastId
      /\ pc' = [pc EXCEPT ![c] = After("event", r)]
      /\ After("event", r) \in Writing \ {"event"}
      /\ r \in Request /\ WellFormed(r)
      /\ seen[c] \in View /\ seen[c].task = ledger /\ ledger \in Task
      /\ Fits(r) /\ FilesAt("event", r)
      /\ LockHeld' /\ Requested'
  BY <1>1, AdvanceFacts
<1>3. /\ EventOf(r, ledger) \in Event
      /\ EventOf(r, ledger) # NoFile
  BY <1>2, NewFiles, NoFileAssumption
<1>4. r.id \in Ids /\ r.id \notin committed /\ events[r.id] = NoFile
  BY <1>2 DEF Fits, FilesAt, Request
<1>5. /\ events' = [events EXCEPT ![r.id] = EventOf(r, ledger)]
      /\ events'[r.id] = EventOf(r, ledger)
      /\ \A i \in Ids : i # r.id => events'[i] = events[i]
      /\ \A i \in committed : events'[i] = events[i]
  BY <1>1, <1>2, <1>4 DEF IInv, TypeOK
<1>6. TypeOK'
  BY <1>1, <1>2, <1>3, <1>5 DEF IInv, TypeOK, PCs
<1>7. InHand(c)'
  <2>1. pc'[c] = After("event", r)
    BY <1>2 DEF IInv, TypeOK
  <2>2. Fits(r)'
    BY <1>1, <1>2 DEF Fits, DispatchCAS
  <2>3. FilesAt(After("event", r), r)'
    BY <1>1, <1>2, <1>5 DEF FilesAt, After, AcceptancesAt, EventOf
  <2> QED
    BY <1>1, <1>2, <2>1, <2>2, <2>3 DEF InHand
<1>8. AllInHand'
  BY <1>1, <1>7, OthersIdle
<1>9. EvidenceFirst' /\ DispatchApplied' /\ OneDispatchPerAttempt'
  BY <1>1, <1>5 DEF IInv, EvidenceFirst, DispatchApplied, OneDispatchPerAttempt
<1>10. DispatchTraceable'
  BY <1>1, <1>5 DEF IInv, DispatchApplied, DispatchTraceable
<1>11. AcceptedBacked'
  BY <1>1, <1>5 DEF IInv, AcceptedBacked, AcceptancesAt
<1> QED
  BY <1>2, <1>6, <1>8, <1>9, <1>10, <1>11 DEF IInv

LEMMA WriteOutboxInv ==
  ASSUME IInv, NEW c \in Callers, WriteOutbox(c)
  PROVE  IInv'
<1> DEFINE r == req[c]
<1>1. /\ Advance(c, "outbox") /\ "outbox" \in Pending
      /\ outbox' = [outbox EXCEPT ![r.id] = MessageOf(r)]
      /\ UNCHANGED <<ledger, events, acceptances, committed>>
  BY DEF WriteOutbox, Pending
<1>2. /\ req' = req /\ seen' = seen /\ lock' = lock /\ head' = head
      /\ lastId' = lastId
      /\ pc' = [pc EXCEPT ![c] = After("outbox", r)]
      /\ After("outbox", r) \in Writing \ {"event"}
      /\ r \in Request /\ WellFormed(r)
      /\ seen[c] \in View /\ seen[c].task = ledger /\ ledger \in Task
      /\ Fits(r) /\ FilesAt("outbox", r)
      /\ LockHeld' /\ Requested'
  BY <1>1, AdvanceFacts
<1>3. r.type = "TASK_DISPATCHED" /\ MessageOf(r) \in Message
  BY <1>2, NewFiles DEF FilesAt
<1>4. r.id \in Ids /\ r.id \notin committed
  BY <1>2 DEF Fits, Request
<1>5. /\ outbox'[r.id] = MessageOf(r)
      /\ \A i \in committed : outbox'[i] = outbox[i]
  BY <1>1, <1>2, <1>4 DEF IInv, TypeOK
<1>6. TypeOK'
  BY <1>1, <1>2, <1>3 DEF IInv, TypeOK, PCs
<1>7. InHand(c)'
  <2>1. pc'[c] = "ledger"
    BY <1>2 DEF IInv, TypeOK, After
  <2>2. Fits(r)'
    BY <1>1, <1>2 DEF Fits, DispatchCAS
  <2>3. FilesAt("ledger", r)'
    BY <1>1, <1>2, <1>3, <1>5 DEF FilesAt, MessageOf
  <2> QED
    BY <1>1, <1>2, <2>1, <2>2, <2>3 DEF InHand
<1>8. AllInHand'
  BY <1>1, <1>7, OthersIdle
<1>9. EvidenceFirst' /\ DispatchApplied' /\ OneDispatchPerAttempt' /\ AcceptedBacked'
  BY <1>1 DEF IInv, EvidenceFirst, DispatchApplied, OneDispatchPerAttempt,
              AcceptedBacked, AcceptancesAt
<1>10. DispatchTraceable'
  BY <1>1, <1>5 DEF IInv, DispatchApplied, DispatchTraceable
<1> QED
  BY <1>2, <1>6, <1>8, <1>9, <1>10 DEF IInv

LEMMA WriteAcceptanceInv ==
  ASSUME IInv, NEW c \in Callers, WriteAcceptance(c)
  PROVE  /\ IInv'
         /\ acceptances' = acceptances \cup {AcceptanceOf(req[c])}
<1> DEFINE r == req[c]
           a == AcceptanceOf(r)
<1>1. /\ Advance(c, "acceptance") /\ "acceptance" \in Pending
      /\ acceptances' =
           (acceptances \ AcceptancesAt(a.revision, a.attempt, a.review)) \cup {a}
      /\ UNCHANGED <<ledger, events, outbox, committed>>
  BY DEF WriteAcceptance, Pending
<1>2. /\ req' = req /\ seen' = seen /\ lock' = lock /\ head' = head
      /\ lastId' = lastId
      /\ pc' = [pc EXCEPT ![c] = After("acceptance", r)]
      /\ After("acceptance", r) \in Writing \ {"event"}
      /\ r \in Request /\ WellFormed(r)
      /\ seen[c] \in View /\ seen[c].task = ledger /\ ledger \in Task
      /\ Fits(r) /\ FilesAt("acceptance", r)
      /\ LockHeld' /\ Requested'
  BY <1>1, AdvanceFacts
<1>3. a \in Acceptance
  BY <1>2, NewFiles
<1>4. /\ r.type = "DELIVERY_ACCEPTED"
      /\ AcceptancesAt(a.revision, a.attempt, a.review) = {}
  BY <1>2 DEF FilesAt, AcceptanceOf
<1>5. acceptances' = acceptances \cup {a}
  BY <1>1, <1>4
<1>6. TypeOK'
  BY <1>1, <1>2, <1>3, <1>5 DEF IInv, TypeOK, PCs
<1>7. InHand(c)'
  <2>1. pc'[c] = "ledger"
    BY <1>2 DEF IInv, TypeOK, After
  <2>2. Fits(r)'
    BY <1>1, <1>2 DEF Fits, DispatchCAS
  <2>3. FilesAt("ledger", r)'
    BY <1>1, <1>2, <1>4, <1>5 DEF FilesAt
  <2> QED
    BY <1>1, <1>2, <2>1, <2>2, <2>3 DEF InHand
<1>8. AllInHand'
  BY <1>1, <1>7, OthersIdle
<1>9. EvidenceFirst' /\ DispatchApplied' /\ OneDispatchPerAttempt' /\ DispatchTraceable'
  BY <1>1 DEF IInv, EvidenceFirst, DispatchApplied, OneDispatchPerAttempt,
              DispatchTraceable
<1>10. AcceptedBacked'
  BY <1>1, <1>5 DEF IInv, AcceptedBacked, AcceptancesAt
<1> QED
  BY <1>2, <1>5, <1>6, <1>8, <1>9, <1>10 DEF IInv

\* The task after tasks.yaml is replaced, and the event it was replaced for.
LEMMA LedgerFacts ==
  ASSUME IInv, NEW c \in Callers, WriteLedger(c)
  PROVE  LET r == req[c] IN
         /\ r \in Request /\ WellFormed(r) /\ Fits(r) /\ FilesAt("ledger", r)
         /\ ledger \in Task /\ ledger' \in Task
         /\ r.id \in Ids
         /\ committed' = committed \cup {r.id}
         /\ UNCHANGED <<events, outbox, acceptances>>
         /\ events[r.id] = EventOf(r, ledger) /\ events[r.id] \in Event
         /\ ledger'.state = r.to
         /\ ledger'.dispatch = DispatchAfter(ledger, r)
         /\ ledger'.attempt = IF r.type = "TASK_DISPATCHED" THEN r.attempt
                              ELSE ledger.attempt
         /\ ledger'.revision = IF r.type = "BLOCKER_RESCOPED"
                               THEN ledger.revision + 1 ELSE ledger.revision
         /\ r.type = "DELIVERY_ACCEPTED" =>
              ledger'.accepted = r.commit /\ ledger'.review = r.review
         /\ r.type = "CHANGE_INTEGRATED" =>
              ledger'.accepted = ledger.accepted /\ ledger'.review = ledger.review
         /\ r.type = "DELIVERY_SUBMITTED" => ledger'.commit = r.commit
<1> DEFINE r == req[c]
<1>1. Advance(c, "ledger") /\ "ledger" \in Pending
  BY DEF WriteLedger, Pending
<1>2. /\ r \in Request /\ WellFormed(r) /\ Fits(r) /\ FilesAt("ledger", r)
      /\ seen[c].task = ledger /\ ledger \in Task
  BY <1>1, AdvanceFacts
<1>3. /\ ledger' = Mutated(ledger, r)
      /\ committed' = committed \cup {r.id}
      /\ UNCHANGED <<events, outbox, acceptances>>
  BY <1>2 DEF WriteLedger
<1>4. /\ events[r.id] = EventOf(r, ledger) /\ events[r.id] \in Event
      /\ r.id \in Ids
  BY <1>2, NewFiles DEF FilesAt, Request
<1> QED
  BY <1>2, <1>3, <1>4, MutatedFields

\* Where the dispatch of the task comes from.
LEMMA DispatchCases ==
  ASSUME NEW task, NEW r
  PROVE  /\ r.type = "TASK_DISPATCHED" => DispatchAfter(task, r) = r.dispatch
         /\ r.type # "TASK_DISPATCHED" =>
              DispatchAfter(task, r) \in {None, task.dispatch}
         /\ r.type = "BLOCKER_RESCOPED" => DispatchAfter(task, r) = None
  BY DEF DispatchAfter, EndsDispatch, Blocking

LEMMA WriteLedgerInv ==
  ASSUME IInv, NEW c \in Callers, WriteLedger(c)
  PROVE  IInv'
<1> DEFINE r == req[c]
<1>1. /\ Advance(c, "ledger") /\ "ledger" \in Pending
      /\ UNCHANGED <<events, outbox, acceptances>>
      /\ committed' = committed \cup {r.id}
  BY DEF WriteLedger, Pending
<1>2. /\ req' = req /\ seen' = seen /\ lock' = lock /\ head' = head
      /\ lastId' = lastId
      /\ pc' = [pc EXCEPT ![c] = After("ledger", r)]
      /\ After("ledger", r) \in Writing \ {"event"}
      /\ LockHeld' /\ Requested'
  BY <1>1, AdvanceFacts
<1>3. /\ r \in Request /\ WellFormed(r) /\ Fits(r) /\ FilesAt("ledger", r)
      /\ ledger \in Task /\ ledger' \in Task /\ r.id \in Ids
      /\ events[r.id] = EventOf(r, ledger) /\ events[r.id] \in Event
      /\ ledger'.state = r.to
      /\ ledger'.dispatch = DispatchAfter(ledger, r)
      /\ ledger'.attempt = IF r.type = "TASK_DISPATCHED" THEN r.attempt
                           ELSE ledger.attempt
      /\ ledger'.revision = IF r.type = "BLOCKER_RESCOPED"
                            THEN ledger.revision + 1 ELSE ledger.revision
      /\ r.type = "DELIVERY_ACCEPTED" =>
           ledger'.accepted = r.commit /\ ledger'.review = r.review
      /\ r.type = "CHANGE_INTEGRATED" =>
           ledger'.accepted = ledger.accepted /\ ledger'.review = ledger.review
  BY LedgerFacts
<1>4. /\ events[r.id].type = r.type /\ events[r.id] # NoFile
      /\ r.type = "TASK_DISPATCHED" => events[r.id].attempt = r.attempt
  BY <1>3, NoFileAssumption DEF EventOf
<1>5. /\ r.type = "TASK_DISPATCHED" =>
           /\ r.dispatch = r.id
           /\ ledger.dispatch = None
           /\ r.attempt = ledger.attempt + 1
           /\ outbox[r.id] = MessageOf(r)
      /\ r.revision = ledger.revision
  BY <1>3 DEF WellFormed, Fits, FilesAt
<1>6. TypeOK'
  BY <1>1, <1>2, <1>3 DEF IInv, TypeOK, PCs
<1>7. AllInHand'
  <2>1. pc'[c] = "views"
    BY <1>2 DEF IInv, TypeOK, After
  <2>2. InHand(c)'
    BY <2>1 DEF InHand, Pending
  <2> QED
    BY <1>1, <2>2, OthersIdle
<1>8. ledger.attempt \in Nat /\ ledger'.attempt \in Nat /\ ledger.attempt <= ledger'.attempt
  BY <1>3, <1>5 DEF Task
<1>9. EvidenceFirst'
  <2> SUFFICES ASSUME NEW i \in committed'
               PROVE  /\ events[i] # NoFile
                      /\ events[i].type = "TASK_DISPATCHED" =>
                           events[i].attempt <= ledger'.attempt
    BY <1>1 DEF EvidenceFirst
  <2>1. CASE i = r.id
    BY <1>3, <1>4, <1>8, <2>1
  <2>2. CASE i \in committed
    <3>1. /\ events[i] # NoFile
          /\ events[i].type = "TASK_DISPATCHED" => events[i].attempt <= ledger.attempt
      BY <2>2 DEF IInv, EvidenceFirst
    <3>2. events[i] \in Event
      BY <2>2, <3>1 DEF IInv, TypeOK
    <3> QED
      BY <1>8, <3>1, <3>2 DEF Event
  <2> QED
    BY <1>1, <2>1, <2>2
<1>10. DispatchApplied' /\ DispatchTraceable'
  <2>1. CASE r.type = "TASK_DISPATCHED"
    <3>1. ledger'.dispatch = r.id /\ ledger'.attempt = r.attempt
          /\ ledger'.revision = ledger.revision
      BY <1>3, <1>5, <2>1, DispatchCases
    <3> QED
      BY <1>1, <1>4, <1>5, <2>1, <3>1
         DEF DispatchApplied, DispatchTraceable, MessageOf
  <2>2. CASE r.type # "TASK_DISPATCHED"
    <3>1. ledger'.dispatch # None =>
            /\ ledger'.dispatch = ledger.dispatch
            /\ ledger'.attempt = ledger.attempt
            /\ ledger'.revision = ledger.revision
      BY <1>3, <2>2, DispatchCases
    <3> QED
      BY <1>1, <3>1 DEF IInv, DispatchApplied, DispatchTraceable
  <2> QED
    BY <2>1, <2>2
<1>11. OneDispatchPerAttempt'
  <2> SUFFICES ASSUME NEW i \in committed', NEW j \in committed',
                      events[i].type = "TASK_DISPATCHED",
                      events[j].type = "TASK_DISPATCHED",
                      events[i].attempt = events[j].attempt
               PROVE  i = j
    BY <1>1 DEF OneDispatchPerAttempt
  <2>1. ASSUME NEW k \in committed, events[k].type = "TASK_DISPATCHED",
               r.type = "TASK_DISPATCHED"
        PROVE  events[k].attempt # events[r.id].attempt
    <3>1. events[k] \in Event /\ events[k].attempt <= ledger.attempt
      BY <2>1 DEF IInv, EvidenceFirst, TypeOK
    <3> QED
      BY <1>4, <1>5, <1>8, <2>1, <3>1 DEF Event
  <2> QED
    BY <1>1, <1>4, <2>1 DEF IInv, OneDispatchPerAttempt
<1>12. AcceptedBacked'
  <2> SUFFICES ASSUME ledger'.state \in {"accepted", "integrated"}
               PROVE  \E a \in AcceptancesAt(ledger'.revision, ledger'.attempt,
                                             ledger'.review) :
                        /\ a.commit = ledger'.accepted
                        /\ a.dispatch \in committed'
                        /\ events[a.dispatch].type = "TASK_DISPATCHED"
                        /\ events[a.dispatch].attempt = ledger'.attempt
    BY <1>1 DEF AcceptedBacked, AcceptancesAt
  <2>1. r.type \in DOMAIN From /\ r.to \in To[r.type] /\ r.from \in From[r.type]
    BY <1>3 DEF WellFormed, Request
  <2>2. CASE ledger'.state = "accepted"
    <3>1. r.type = "DELIVERY_ACCEPTED"
      BY <1>3, <2>1, <2>2, ToAccepted
    <3>2. /\ r.dispatch = ledger.dispatch /\ ledger.dispatch # None
          /\ r.attempt = ledger.attempt
          /\ AcceptanceOf(r) \in acceptances
      BY <1>3, <3>1 DEF Fits, FilesAt, DispatchCAS, NeedsDispatchCAS
    <3>3. /\ ledger.dispatch \in committed
          /\ events[ledger.dispatch].type = "TASK_DISPATCHED"
          /\ events[ledger.dispatch].attempt = ledger.attempt
      BY <3>2 DEF IInv, DispatchApplied, DispatchTraceable
    <3>4. /\ ledger'.revision = r.revision /\ ledger'.attempt = r.attempt
          /\ ledger'.review = r.review /\ ledger'.accepted = r.commit
      BY <1>3, <1>5, <3>1, <3>2
    <3>5. AcceptanceOf(r) \in AcceptancesAt(ledger'.revision, ledger'.attempt,
                                            ledger'.review)
      BY <3>2, <3>4 DEF AcceptancesAt, AcceptanceOf
    <3> QED
      BY <1>1, <3>2, <3>3, <3>4, <3>5 DEF AcceptanceOf
  <2>3. CASE ledger'.state = "integrated"
    <3>1. r.type = "CHANGE_INTEGRATED" /\ r.from = "accepted"
      BY <1>3, <2>1, <2>3, ToAccepted
    <3>2. /\ ledger.state = "accepted"
          /\ ledger'.accepted = ledger.accepted /\ ledger'.review = ledger.review
          /\ ledger'.attempt = ledger.attempt /\ ledger'.revision = ledger.revision
      BY <1>3, <3>1 DEF Fits
    <3> QED
      BY <1>1, <3>2 DEF IInv, AcceptedBacked
  <2> QED
    BY <2>2, <2>3
<1> QED
  BY <1>2, <1>6, <1>7, <1>9, <1>10, <1>11, <1>12 DEF IInv

-----------------------------------------------------------------------------
(* The theorems. *)

\* Every step is a quiet one, a replacement of one file, or a commit.
LEMMA StepCases ==
  ASSUME Next
  PROVE  \/ \E c \in Callers : \/ Quiet(c) \/ WriteEvent(c) \/ WriteOutbox(c)
                               \/ WriteAcceptance(c) \/ WriteLedger(c)
         \/ Commit
  BY DEF Next, Quiet

LEMMA CommitInv ==
  ASSUME IInv, Commit
  PROVE  IInv'
<1>1. /\ UNCHANGED files /\ lock' = lock /\ pc' = pc /\ req' = req /\ seen' = seen
      /\ lastId' = lastId /\ head' \in 0..MaxHead
  BY ConstantsAssumption DEF Commit, IInv, TypeOK
<1>2. TypeOK' /\ LockHeld' /\ Requested'
  BY <1>1 DEF IInv, TypeOK, LockHeld, Requested, files
<1>3. AllInHand'
  BY <1>1, InHandKept DEF IInv, AllInHand
<1> QED
  BY <1>1, <1>2, <1>3, FilesKept DEF IInv

\* The invariant survives every step of apply_transition.
LEMMA StepInv == IInv /\ [Next]_vars => IInv'
<1> SUFFICES ASSUME IInv, [Next]_vars PROVE IInv'
  OBVIOUS
<1>1. ASSUME NEW c \in Callers, Quiet(c)
      PROVE  IInv'
  BY <1>1, QuietInv
<1>2. ASSUME NEW c \in Callers, WriteEvent(c)
      PROVE  IInv'
  BY <1>2, WriteEventInv
<1>3. ASSUME NEW c \in Callers, WriteOutbox(c)
      PROVE  IInv'
  BY <1>3, WriteOutboxInv
<1>4. ASSUME NEW c \in Callers, WriteAcceptance(c)
      PROVE  IInv'
  BY <1>4, WriteAcceptanceInv
<1>5. ASSUME NEW c \in Callers, WriteLedger(c)
      PROVE  IInv'
  BY <1>5, WriteLedgerInv
<1>6. CASE Commit
  BY <1>6, CommitInv
<1>7. CASE UNCHANGED vars
  <2>1. UNCHANGED files /\ lock' = lock /\ pc' = pc /\ req' = req /\ seen' = seen
        /\ lastId' = lastId /\ head' = head
    BY <1>7 DEF vars, files
  <2>2. TypeOK' /\ LockHeld' /\ Requested'
    BY <2>1 DEF IInv, TypeOK, LockHeld, Requested, files
  <2>3. AllInHand'
    BY <2>1, InHandKept DEF IInv, AllInHand
  <2> QED
    BY <2>1, <2>2, <2>3, FilesKept DEF IInv
<1> QED
  BY <1>1, <1>2, <1>3, <1>4, <1>5, <1>6, <1>7, StepCases

\* The inductive invariant holds in every state that calls of
\* apply_transition can lead to.
THEOREM Invariance == Spec => []IInv
  BY InitIInv, StepInv, PTL DEF Spec

\* Every file, every request and every caller's memory keeps its type.
THEOREM TypeCorrect == Spec => []TypeOK
<1>1. IInv => TypeOK
  BY DEF IInv
<1> QED
  BY <1>1, Invariance, PTL

\* The current dispatch always has its event and its outbox message on disk.
THEOREM DispatchAlwaysTraceable == Spec => []DispatchTraceable
<1>1. IInv => DispatchTraceable
  BY DEF IInv
<1> QED
  BY <1>1, Invariance, PTL

\* No attempt is dispatched twice, however old the requests are.
THEOREM DispatchedOnce == Spec => []OneDispatchPerAttempt
<1>1. IInv => OneDispatchPerAttempt
  BY DEF IInv
<1> QED
  BY <1>1, Invariance, PTL

\* An accepted or integrated task has the acceptance record it names, of a
\* dispatch that was made in its attempt.
THEOREM AcceptedAlwaysBacked == Spec => []AcceptedBacked
<1>1. IInv => AcceptedBacked
  BY DEF IInv
<1> QED
  BY <1>1, Invariance, PTL

\* What a step may change of the evidence and of the ledger.
LEMMA StepFacts ==
  ASSUME IInv, Next
  PROVE  \/ UNCHANGED files
         \/ \E c \in Callers : WriteEvent(c) \/ WriteOutbox(c)
                               \/ WriteAcceptance(c) \/ WriteLedger(c)
  BY StepCases DEF Quiet, Prepare, Retry, Contend, Lock, Replay, Refuse, Accept,
                   WriteViews, Stop, Commit

\* No event, outbox message or acceptance record on disk is ever replaced by
\* a different one or removed.
THEOREM EvidenceNeverChanges == Spec => EvidenceImmutable
<1> DEFINE Kept == /\ \A i \in Ids : /\ events[i] # NoFile => events'[i] = events[i]
                                     /\ outbox[i] # NoFile => outbox'[i] = outbox[i]
                   /\ acceptances \subseteq acceptances'
<1>1. IInv /\ [Next]_vars => [Kept]_vars
  <2> SUFFICES ASSUME IInv, Next PROVE Kept
    OBVIOUS
  <2>1. CASE UNCHANGED files
    BY <2>1 DEF files
  <2>2. ASSUME NEW c \in Callers, WriteEvent(c)
        PROVE  Kept
    <3>1. Advance(c, "event") /\ "event" \in Pending
      BY <2>2 DEF WriteEvent, Pending
    <3>2. events[req[c].id] = NoFile
      BY <3>1, AdvanceFacts DEF FilesAt
    <3> QED
      BY <2>2, <3>2 DEF WriteEvent, IInv, TypeOK
  <2>3. ASSUME NEW c \in Callers, WriteOutbox(c)
        PROVE  Kept
    <3>1. Advance(c, "outbox") /\ "outbox" \in Pending
      BY <2>3 DEF WriteOutbox, Pending
    <3>2. outbox[req[c].id] = NoFile
      BY <3>1, AdvanceFacts DEF FilesAt
    <3> QED
      BY <2>3, <3>2 DEF WriteOutbox, IInv, TypeOK
  <2>4. ASSUME NEW c \in Callers, WriteAcceptance(c)
        PROVE  Kept
    BY <2>4, WriteAcceptanceInv DEF WriteAcceptance
  <2>5. ASSUME NEW c \in Callers, WriteLedger(c)
        PROVE  Kept
    BY <2>5 DEF WriteLedger
  <2> QED
    BY <2>1, <2>2, <2>3, <2>4, <2>5, StepFacts
<1> QED
  BY <1>1, Invariance, PTL DEF Spec, EvidenceImmutable

\* tasks.yaml moves only as an event on disk says that was not applied before,
\* from the state and revision that the event starts from.
THEOREM LedgerAlwaysFollowsEvents == Spec => LedgerFollowsEvents
<1> DEFINE Follows == ledger' # ledger =>
                        \E i \in Ids \ committed :
                          /\ committed' = committed \cup {i}
                          /\ events[i] # NoFile
                          /\ events[i].from = ledger.state
                          /\ events[i].to = ledger'.state
                          /\ events[i].revision = ledger.revision
                          /\ events[i].attempt = ledger'.attempt
<1>1. IInv /\ [Next]_vars => [Follows]_vars
  <2> SUFFICES ASSUME IInv, Next PROVE Follows
    OBVIOUS
  <2>1. CASE UNCHANGED ledger
    BY <2>1
  <2>2. ASSUME NEW c \in Callers, WriteLedger(c)
        PROVE  Follows
    <3> DEFINE r == req[c]
    <3>1. /\ r.id \in Ids \ committed
          /\ committed' = committed \cup {r.id}
          /\ events[r.id] = EventOf(r, ledger) /\ events[r.id] \in Event
          /\ r.from = ledger.state /\ r.revision = ledger.revision
          /\ ledger'.state = r.to
          /\ ledger'.attempt = IF r.type = "TASK_DISPATCHED" THEN r.attempt
                               ELSE ledger.attempt
      BY <2>2, LedgerFacts DEF Fits
    <3> QED
      BY <3>1, NoFileAssumption DEF EventOf
  <2> QED
    BY <2>1, <2>2, StepFacts DEF files, WriteEvent, WriteOutbox, WriteAcceptance
<1> QED
  BY <1>1, Invariance, PTL DEF Spec, LedgerFollowsEvents

\* Reports on a dispatch that is not the current one never move the task.
THEOREM StaleDispatchAlwaysFenced == Spec => StaleDispatchFenced
<1> DEFINE Fenced == \A i \in committed' \ committed :
                       events[i].type \in NeedsDispatchCAS =>
                         events[i].dispatch = ledger.dispatch
<1>1. IInv /\ [Next]_vars => [Fenced]_vars
  <2> SUFFICES ASSUME IInv, Next PROVE Fenced
    OBVIOUS
  <2>1. CASE UNCHANGED committed
    BY <2>1
  <2>2. ASSUME NEW c \in Callers, WriteLedger(c)
        PROVE  Fenced
    <3> DEFINE r == req[c]
    <3>1. /\ committed' = committed \cup {r.id}
          /\ events[r.id] = EventOf(r, ledger)
          /\ r.type \in NeedsDispatchCAS => r.dispatch = ledger.dispatch
      BY <2>2, LedgerFacts DEF Fits, DispatchCAS
    <3>2. /\ events[r.id].type = r.type
          /\ r.type \in NeedsDispatchCAS => events[r.id].dispatch = r.dispatch
      BY <3>1 DEF EventOf
    <3> QED
      BY <3>1, <3>2
  <2> QED
    BY <2>1, <2>2, StepFacts DEF files, WriteEvent, WriteOutbox, WriteAcceptance
<1> QED
  BY <1>1, Invariance, PTL DEF Spec, StaleDispatchFenced

-----------------------------------------------------------------------------
(* ControlPlaneTransition implements TaskLog. *)

\* Every edge of _TRANSITION_SPECS is one of TaskLog.
LEMMA Edges ==
  ASSUME NEW t \in DOMAIN From, NEW f \in From[t], NEW g \in To[t]
  PROVE  /\ t = "TASK_DISPATCHED" => f = "ready" /\ g = "dispatched"
         /\ t \in NeedsDispatchCAS => <<f, g>> \in Log!Reports
         /\ t = "BLOCKER_RESCOPED" => f = "blocked" /\ g = "draft"
         /\ t \notin NeedsDispatchCAS \cup {"TASK_DISPATCHED"} =>
              <<f, g>> \in Log!Decisions
<1>1. t \in EventTypes
  BY Domain
<1>2. CASE t = "TASK_DISPATCHED"
  BY <1>2 DEF From, To, NeedsDispatchCAS
<1>3. CASE t \in NeedsDispatchCAS
  BY <1>3 DEF From, To, NeedsDispatchCAS, Log!Reports
<1>4. States \ Terminal = Log!Live
  BY DEF States, Terminal, Log!Live
<1>5. CASE t \in {"TASK_BLOCKED", "TASK_CANCELLED", "TASK_SUPERSEDED"}
  <2>1. f \in Log!Live /\ g \in {"blocked", "cancelled", "superseded"}
    BY <1>4, <1>5 DEF From, To
  <2> QED
    BY <1>5, <2>1 DEF NeedsDispatchCAS, Log!Decisions
<1>6. CASE t \in {"BLOCKER_RESOLVED", "BLOCKER_RESCOPED", "BLOCKER_CANCELLED"}
  <2>1. f = "blocked" /\ g \in ResumeTo \cup {"draft", "cancelled"}
        /\ (t = "BLOCKER_RESCOPED" => g = "draft")
    BY <1>6 DEF From, To
  <2> QED
    BY <1>6, <2>1 DEF NeedsDispatchCAS, Log!Decisions, Log!Live
<1>7. CASE t \in {"TASK_SPECIFIED", "TASK_REQUEUED", "CHANGE_INTEGRATED",
                  "INTEGRATION_FAILED"}
  BY <1>7 DEF From, To, NeedsDispatchCAS, Log!Decisions, Log!Live
<1> QED
  BY <1>1, <1>2, <1>3, <1>5, <1>6, <1>7 DEF EventTypes, NeedsDispatchCAS

\* The dispatches that were applied change only with tasks.yaml.
LEMMA DispatchedKept ==
  ASSUME IInv, Next, \A c \in Callers : ~WriteLedger(c)
  PROVE  UNCHANGED Log!logVars
<1>1. UNCHANGED <<ledger, committed>>
  BY StepFacts DEF files, WriteEvent, WriteOutbox, WriteAcceptance
<1>2. \A i \in committed : events'[i] = events[i]
  <2>1. CASE UNCHANGED events
    BY <2>1
  <2>2. ASSUME NEW c \in Callers, WriteEvent(c)
        PROVE  \A i \in committed : events'[i] = events[i]
    <3>1. Advance(c, "event") /\ "event" \in Pending
      BY <2>2 DEF WriteEvent, Pending
    <3>2. req[c].id \notin committed
      BY <3>1, AdvanceFacts DEF Fits
    <3> QED
      BY <2>2, <3>2 DEF WriteEvent, IInv, TypeOK
  <2> QED
    BY <2>1, <2>2, StepFacts DEF files, WriteOutbox, WriteAcceptance
<1>3. Dispatched' = Dispatched
  BY <1>1, <1>2 DEF Dispatched
<1> QED
  BY <1>1, <1>3 DEF Log!logVars

\* A replacement of tasks.yaml is a step of TaskLog.
LEMMA LedgerStep ==
  ASSUME IInv, NEW c \in Callers, WriteLedger(c)
  PROVE  Log!Next
<1> DEFINE r == req[c]
<1>1. /\ r \in Request /\ WellFormed(r) /\ Fits(r)
      /\ ledger \in Task /\ r.id \in Ids
      /\ committed' = committed \cup {r.id} /\ events' = events
      /\ events[r.id] = EventOf(r, ledger)
      /\ ledger'.state = r.to
      /\ ledger'.dispatch = DispatchAfter(ledger, r)
      /\ ledger'.attempt = IF r.type = "TASK_DISPATCHED" THEN r.attempt
                           ELSE ledger.attempt
      /\ ledger'.revision = IF r.type = "BLOCKER_RESCOPED"
                            THEN ledger.revision + 1 ELSE ledger.revision
  BY LedgerFacts
<1>2. /\ r.type \in DOMAIN From
      /\ ledger.state \in From[r.type] /\ ledger'.state \in To[r.type]
      /\ r.id \notin committed
  BY <1>1 DEF WellFormed, Request, Fits
<1>3. events[r.id].type = r.type
  BY <1>1 DEF EventOf
<1>4. CASE r.type = "TASK_DISPATCHED"
  <2>1. ledger.state = "ready" /\ ledger'.state = "dispatched"
    BY <1>2, <1>4, Edges
  <2>2. ledger.dispatch = None /\ ledger'.attempt = ledger.attempt + 1
        /\ ledger'.dispatch = r.id /\ ledger'.revision = ledger.revision
    BY <1>1, <1>4, DispatchCases DEF Fits, WellFormed
  <2>3. r.id \notin Dispatched /\ Dispatched' = Dispatched \cup {r.id}
    BY <1>1, <1>2, <1>3, <1>4 DEF Dispatched
  <2>4. Log!Dispatch(r.id)
    BY <2>1, <2>2, <2>3 DEF Log!Dispatch
  <2> QED
    BY <1>1, <2>4 DEF Log!Next
<1>5. CASE r.type # "TASK_DISPATCHED"
  <2>1. Dispatched' = Dispatched
    BY <1>1, <1>3, <1>5 DEF Dispatched
  <2>2. ledger'.dispatch \in {ledger.dispatch, None}
        /\ ledger'.attempt = ledger.attempt
    BY <1>1, <1>5, DispatchCases
  <2>3. CASE r.type \in NeedsDispatchCAS
    <3>1. <<ledger.state, ledger'.state>> \in Log!Reports
      BY <1>2, <2>3, Edges
    <3>2. ledger.dispatch # None /\ ledger'.revision = ledger.revision
      BY <1>1, <2>3 DEF Fits, DispatchCAS, NeedsDispatchCAS
    <3>3. Log!Report
      BY <2>1, <2>2, <3>1, <3>2 DEF Log!Report
    <3> QED
      BY <3>3 DEF Log!Next
  <2>4. CASE r.type = "BLOCKER_RESCOPED"
    <3>1. /\ ledger.state = "blocked" /\ ledger'.state = "draft"
          /\ ledger'.dispatch = None /\ ledger'.revision = ledger.revision + 1
      <4>1. ledger.state = "blocked" /\ ledger'.state = "draft"
        BY <1>2, <2>4, Edges
      <4>2. DispatchAfter(ledger, r) = None
        BY <2>4, DispatchCases
      <4>3. ledger'.dispatch = None
        BY <1>1, <4>2
      <4>4. ledger'.revision = ledger.revision + 1
        BY <1>1, <2>4
      <4> QED
        BY <4>1, <4>3, <4>4
    <3>2. Log!Rescope
      BY <2>1, <2>2, <3>1 DEF Log!Rescope
    <3> QED
      BY <3>2 DEF Log!Next
  <2>5. CASE r.type \notin NeedsDispatchCAS \cup {"BLOCKER_RESCOPED"}
    <3>1. <<ledger.state, ledger'.state>> \in Log!Decisions
      BY <1>2, <1>5, <2>5, Edges
    <3>2. Log!Decide
      BY <1>1, <2>1, <2>2, <2>5, <3>1 DEF Log!Decide
    <3> QED
      BY <3>2 DEF Log!Next
  <2> QED
    BY <2>3, <2>4, <2>5
<1> QED
  BY <1>4, <1>5

\* A reader of tasks.yaml sees the task that TaskLog describes.
THEOREM Refinement == Spec => ImplementsTaskLog
<1>1. Init => Log!Init
  BY DEF Init, FirstTask, Dispatched, Log!Init
<1>2. IInv /\ [Next]_vars => [Log!Next]_Log!logVars
  <2> SUFFICES ASSUME IInv, [Next]_vars PROVE [Log!Next]_Log!logVars
    OBVIOUS
  <2>1. ASSUME NEW c \in Callers, WriteLedger(c)
        PROVE  Log!Next
    BY <2>1, LedgerStep
  <2>2. CASE Next /\ \A c \in Callers : ~WriteLedger(c)
    BY <2>2, DispatchedKept
  <2>3. CASE UNCHANGED vars
    BY <2>3 DEF vars, Dispatched, Log!logVars
  <2> QED
    BY <2>1, <2>2, <2>3
<1> QED
  BY <1>1, <1>2, Invariance, PTL DEF Spec, ImplementsTaskLog, Log!Spec
-----------------------------------------------------------------------------
(* What was accepted is what was delivered, unless a caller asks for a      *)
(* blocked task to resume under review.                                     *)

\* One acceptance record for a revision, an attempt and a review number.
OnePath ==
  \A a, b \in acceptances :
    a.revision = b.revision /\ a.attempt = b.attempt /\ a.review = b.review => a = b

\* A submission names the commit after itself.
Named ==
  \A c \in Callers :
    req[c] # NoRequest /\ req[c].type = "DELIVERY_SUBMITTED" =>
      req[c].commit = req[c].id

\* A verdict of acceptance that is being carried out names the commit that
\* the task has, if it has one.
Chosen ==
  \A c \in Callers :
    pc[c] \in Pending /\ req[c].type = "DELIVERY_ACCEPTED" =>
      ledger.commit = None \/ req[c].commit = ledger.commit

\* The commit of a task under review was delivered by its current dispatch.
UnderReview ==
  ledger.state = "review_ready" =>
    /\ ledger.commit \in committed
    /\ events[ledger.commit].type = "DELIVERY_SUBMITTED"
    /\ events[ledger.commit].dispatch = ledger.dispatch
    /\ events[ledger.commit].attempt = ledger.attempt

ReviewInv == OnePath /\ Named /\ Chosen /\ UnderReview /\ AcceptedWasDelivered

\* Only a delivery leads to a review then.
LEMMA ToReview ==
  ASSUME NEW t \in DOMAIN From, "review_ready" \notin ResumeTo
  PROVE  /\ "review_ready" \in To[t] => t = "DELIVERY_SUBMITTED"
         /\ t = "DELIVERY_ACCEPTED" => From[t] = {"review_ready"}
<1>1. t \in EventTypes
  BY Domain
<1>2. CASE t = "BLOCKER_RESOLVED"
  BY <1>2 DEF To
<1>3. CASE t # "BLOCKER_RESOLVED"
  BY <1>1, <1>3 DEF To, From, EventTypes
<1> QED
  BY <1>2, <1>3

\* A step that replaces no file: what is new is a request, or that one is
\* found to fit.
LEMMA QuietReview ==
  ASSUME IInv, ReviewInv, NEW c \in Callers, Quiet(c)
  PROVE  ReviewInv'
<1>1. UNCHANGED files
  BY DEF Quiet, Prepare, Retry, Contend, Lock, Replay, Refuse, Accept,
         WriteViews, Stop
<1>2. OnePath' /\ UnderReview' /\ AcceptedWasDelivered'
  BY <1>1 DEF files, ReviewInv, OnePath, UnderReview, AcceptedWasDelivered,
              AcceptancesAt
<1>3. Named'
  <2>1. ASSUME NEW type \in Types, Prepare(c, type)
        PROVE  Named'
    <3>1. \A d \in Callers \ {c} : req'[d] = req[d]
      BY <2>1 DEF Prepare, IInv, TypeOK
    <3>2. \E commit \in Commits(type) : /\ req'[c].type = type
                                        /\ req'[c].id = lastId + 1
                                        /\ req'[c].commit = commit
      BY <2>1 DEF Prepare, IInv, TypeOK
    <3>3. req'[c].type = "DELIVERY_SUBMITTED" => req'[c].commit = req'[c].id
      BY <3>2 DEF Commits
    <3> QED
      BY <3>1, <3>3 DEF ReviewInv, Named
  <2>2. CASE req' = req
    BY <2>2 DEF ReviewInv, Named
  <2> QED
    BY <2>1, <2>2 DEF Quiet, Retry, Contend, Lock, Replay, Refuse, Accept,
                      WriteViews, Stop, Leave
<1>4. Chosen'
  <2> SUFFICES ASSUME NEW d \in Callers, pc'[d] \in Pending,
                      req'[d].type = "DELIVERY_ACCEPTED"
               PROVE  ledger.commit = None \/ req'[d].commit = ledger.commit
    BY <1>1 DEF Chosen, files
  <2>1. CASE Accept(c) /\ d = c
    <3>1. PayloadFits(req[c], ledger)
      BY <2>1 DEF Accept, IInv, AllInHand, InHand
    <3> QED
      BY <2>1, <3>1 DEF Accept, PayloadFits
  <2>2. CASE d # c \/ ~Accept(c)
    <3>1. pc'[d] = pc[d] /\ req'[d] = req[d]
      BY <2>2 DEF IInv, TypeOK, Quiet, Prepare, Retry, Contend, Lock, Replay,
                  Refuse, Accept, WriteViews, Stop, Leave, Pending
    <3> QED
      BY <3>1 DEF ReviewInv, Chosen
  <2> QED
    BY <2>1, <2>2
<1> QED
  BY <1>2, <1>3, <1>4 DEF ReviewInv

\* A caller that replaces a file before tasks.yaml leaves what the requests
\* say and the task as they are.
LEMMA AdvanceReview ==
  ASSUME IInv, ReviewInv, NEW c \in Callers, NEW stage \in Pending,
         Advance(c, stage), ledger' = ledger
  PROVE  Named' /\ Chosen'
<1>1. req' = req /\ pc[c] = stage /\ \A d \in Callers \ {c} : pc'[d] = pc[d]
  BY DEF Advance, IInv, TypeOK
<1> QED
  BY <1>1 DEF ReviewInv, Named, Chosen

LEMMA WriteEventReview ==
  ASSUME IInv, ReviewInv, NEW c \in Callers, WriteEvent(c)
  PROVE  ReviewInv'
<1>1. /\ Advance(c, "event") /\ "event" \in Pending
      /\ UNCHANGED <<ledger, outbox, acceptances, committed>>
  BY DEF WriteEvent, Pending
<1>2. req[c].id \notin committed
  BY <1>1, AdvanceFacts DEF Fits
<1>3. \A i \in committed : events'[i] = events[i]
  BY <1>2 DEF WriteEvent, IInv, TypeOK
<1>4. Named' /\ Chosen'
  BY <1>1, AdvanceReview
<1>5. OnePath' /\ UnderReview' /\ AcceptedWasDelivered'
  BY <1>1, <1>3 DEF ReviewInv, OnePath, UnderReview, AcceptedWasDelivered,
                    AcceptancesAt
<1> QED
  BY <1>4, <1>5 DEF ReviewInv

LEMMA WriteOutboxReview ==
  ASSUME IInv, ReviewInv, NEW c \in Callers, WriteOutbox(c)
  PROVE  ReviewInv'
<1>1. /\ Advance(c, "outbox") /\ "outbox" \in Pending
      /\ UNCHANGED <<ledger, events, acceptances, committed>>
  BY DEF WriteOutbox, Pending
<1>2. Named' /\ Chosen'
  BY <1>1, AdvanceReview
<1>3. OnePath' /\ UnderReview' /\ AcceptedWasDelivered'
  BY <1>1 DEF ReviewInv, OnePath, UnderReview, AcceptedWasDelivered, AcceptancesAt
<1> QED
  BY <1>2, <1>3 DEF ReviewInv

\* The record is the first at its path, and the task is still under review.
LEMMA WriteAcceptanceReview ==
  ASSUME IInv, ReviewInv, "review_ready" \notin ResumeTo,
         NEW c \in Callers, WriteAcceptance(c)
  PROVE  ReviewInv'
<1> DEFINE r == req[c]
<1>1. /\ Advance(c, "acceptance") /\ "acceptance" \in Pending
      /\ UNCHANGED <<ledger, events, outbox, committed>>
  BY DEF WriteAcceptance, Pending
<1>2. /\ r \in Request /\ WellFormed(r) /\ Fits(r) /\ FilesAt("acceptance", r)
      /\ ledger \in Task
  BY <1>1, AdvanceFacts
<1>3. acceptances' = acceptances \cup {AcceptanceOf(r)}
  BY WriteAcceptanceInv
<1>4. Named' /\ Chosen'
  BY <1>1, AdvanceReview
<1>5. r.type = "DELIVERY_ACCEPTED" /\ AcceptancesAt(r.revision, r.attempt, r.review) = {}
  BY <1>2 DEF FilesAt
<1>6. OnePath'
  <2>1. \A a \in acceptances : ~(/\ a.revision = AcceptanceOf(r).revision
                                 /\ a.attempt = AcceptanceOf(r).attempt
                                 /\ a.review = AcceptanceOf(r).review)
    BY <1>5 DEF AcceptancesAt, AcceptanceOf
  <2> QED
    BY <1>3, <2>1 DEF ReviewInv, OnePath
<1>7. ledger.state = "review_ready"
  <2>1. r.type \in DOMAIN From /\ r.from \in From[r.type]
    BY <1>2 DEF WellFormed, Request
  <2> QED
    BY <1>2, <1>5, <2>1, ToReview DEF Fits
<1>8. UnderReview' /\ AcceptedWasDelivered'
  BY <1>1, <1>7 DEF ReviewInv, UnderReview, AcceptedWasDelivered
<1> QED
  BY <1>4, <1>6, <1>8 DEF ReviewInv

LEMMA WriteLedgerReview ==
  ASSUME IInv, ReviewInv, "review_ready" \notin ResumeTo,
         NEW c \in Callers, WriteLedger(c)
  PROVE  ReviewInv'
<1> DEFINE r == req[c]
<1>1. /\ r \in Request /\ WellFormed(r) /\ Fits(r) /\ FilesAt("ledger", r)
      /\ ledger \in Task /\ r.id \in Ids
      /\ committed' = committed \cup {r.id}
      /\ UNCHANGED <<events, outbox, acceptances>>
      /\ events[r.id] = EventOf(r, ledger)
      /\ ledger'.state = r.to
      /\ ledger'.dispatch = DispatchAfter(ledger, r)
      /\ ledger'.attempt = IF r.type = "TASK_DISPATCHED" THEN r.attempt
                           ELSE ledger.attempt
      /\ ledger'.revision = IF r.type = "BLOCKER_RESCOPED"
                            THEN ledger.revision + 1 ELSE ledger.revision
      /\ r.type = "DELIVERY_ACCEPTED" =>
           ledger'.accepted = r.commit /\ ledger'.review = r.review
      /\ r.type = "CHANGE_INTEGRATED" =>
           ledger'.accepted = ledger.accepted /\ ledger'.review = ledger.review
      /\ r.type = "DELIVERY_SUBMITTED" => ledger'.commit = r.commit
  BY LedgerFacts
<1>2. /\ Advance(c, "ledger") /\ "ledger" \in Pending
      /\ req' = req /\ pc[c] = "ledger" /\ pc'[c] = "views"
      /\ \A d \in Callers \ {c} : pc[d] \notin InCall /\ pc'[d] = pc[d]
  <2>1. Advance(c, "ledger") /\ "ledger" \in Pending
    BY DEF WriteLedger, Pending
  <2> QED
    BY <2>1, AdvanceFacts DEF Advance, After, IInv, TypeOK
<1>3. r.type \in DOMAIN From /\ r.to \in To[r.type] /\ r.from \in From[r.type]
  BY <1>1 DEF WellFormed, Request
<1>4. OnePath' /\ Named'
  BY <1>1, <1>2 DEF ReviewInv, OnePath, Named
<1>5. Chosen'
  BY <1>2 DEF Chosen, Pending, InCall, Writing
<1>6. UnderReview'
  <2> SUFFICES ASSUME ledger'.state = "review_ready"
               PROVE  /\ ledger'.commit \in committed'
                      /\ events[ledger'.commit].type = "DELIVERY_SUBMITTED"
                      /\ events[ledger'.commit].dispatch = ledger'.dispatch
                      /\ events[ledger'.commit].attempt = ledger'.attempt
    BY <1>1 DEF UnderReview
  <2>1. r.type = "DELIVERY_SUBMITTED"
    BY <1>1, <1>3, ToReview
  <2>2. ledger'.commit = r.id
    BY <1>1, <1>2, <2>1 DEF ReviewInv, Named, IInv, Requested
  <2>3. r.dispatch = ledger.dispatch /\ ledger'.dispatch = ledger.dispatch
        /\ ledger'.attempt = ledger.attempt
    BY <1>1, <2>1 DEF Fits, DispatchCAS, NeedsDispatchCAS, DispatchAfter,
                      EndsDispatch, Blocking
  <2>4. /\ events[r.id].type = "DELIVERY_SUBMITTED"
        /\ events[r.id].dispatch = r.dispatch
        /\ events[r.id].attempt = ledger.attempt
    BY <1>1, <2>1 DEF EventOf, NeedsDispatchCAS
  <2> QED
    BY <1>1, <2>2, <2>3, <2>4
<1>7. AcceptedWasDelivered'
  <2> SUFFICES ASSUME ledger'.state \in {"accepted", "integrated"},
                      NEW a \in AcceptancesAt(ledger'.revision, ledger'.attempt,
                                              ledger'.review)
               PROVE  /\ ledger'.accepted \in committed'
                      /\ events[ledger'.accepted].type = "DELIVERY_SUBMITTED"
                      /\ events[ledger'.accepted].dispatch = a.dispatch
                      /\ events[ledger'.accepted].attempt = ledger'.attempt
    BY <1>1 DEF AcceptedWasDelivered, AcceptancesAt
  <2>1. CASE ledger'.state = "accepted"
    <3>1. r.type = "DELIVERY_ACCEPTED"
      BY <1>1, <1>3, <2>1, ToAccepted
    <3>2. ledger.state = "review_ready"
      BY <1>1, <1>3, <3>1, ToReview DEF Fits
    <3>3. /\ ledger.commit \in committed
          /\ events[ledger.commit].type = "DELIVERY_SUBMITTED"
          /\ events[ledger.commit].dispatch = ledger.dispatch
          /\ events[ledger.commit].attempt = ledger.attempt
      BY <3>2 DEF ReviewInv, UnderReview
    <3>4. ledger.commit # None
      BY <3>3 DEF IInv, TypeOK, Ids, None
    <3>5. r.commit = ledger.commit
      BY <1>2, <3>1, <3>4 DEF ReviewInv, Chosen
    <3>6. /\ r.dispatch = ledger.dispatch /\ r.attempt = ledger.attempt
          /\ r.revision = ledger.revision
          /\ AcceptanceOf(r) \in acceptances
      BY <1>1, <3>1 DEF Fits, FilesAt, DispatchCAS, NeedsDispatchCAS
    <3>7. /\ ledger'.revision = r.revision /\ ledger'.attempt = r.attempt
          /\ ledger'.review = r.review /\ ledger'.accepted = r.commit
      BY <1>1, <3>1, <3>6
    <3>8. a = AcceptanceOf(r)
      <4>1. /\ a \in acceptances /\ a.revision = r.revision
            /\ a.attempt = r.attempt /\ a.review = r.review
        BY <3>7 DEF AcceptancesAt
      <4>2. /\ AcceptanceOf(r).revision = r.revision
            /\ AcceptanceOf(r).attempt = r.attempt
            /\ AcceptanceOf(r).review = r.review
        BY DEF AcceptanceOf
      <4> QED
        BY <3>6, <4>1, <4>2 DEF ReviewInv, OnePath
    <3>9. a.dispatch = r.dispatch
      BY <3>8 DEF AcceptanceOf
    <3> QED
      BY <1>1, <3>3, <3>5, <3>6, <3>7, <3>9
  <2>2. CASE ledger'.state = "integrated"
    <3>1. r.type = "CHANGE_INTEGRATED" /\ r.from = "accepted"
      BY <1>1, <1>3, <2>2, ToAccepted
    <3>2. /\ ledger.state = "accepted"
          /\ ledger'.accepted = ledger.accepted /\ ledger'.review = ledger.review
          /\ ledger'.attempt = ledger.attempt /\ ledger'.revision = ledger.revision
      BY <1>1, <3>1 DEF Fits
    <3> QED
      BY <1>1, <3>2 DEF ReviewInv, AcceptedWasDelivered
  <2> QED
    BY <2>1, <2>2
<1> QED
  BY <1>4, <1>5, <1>6, <1>7 DEF ReviewInv

\* The second invariant is inductive, given the first.
LEMMA ReviewStep ==
  ASSUME "review_ready" \notin ResumeTo
  PROVE  IInv /\ ReviewInv /\ [Next]_vars => ReviewInv'
<1> SUFFICES ASSUME IInv, ReviewInv, [Next]_vars PROVE ReviewInv'
  OBVIOUS
<1>1. ASSUME NEW c \in Callers, Quiet(c)
      PROVE  ReviewInv'
  BY <1>1, QuietReview
<1>2. ASSUME NEW c \in Callers, WriteEvent(c)
      PROVE  ReviewInv'
  BY <1>2, WriteEventReview
<1>3. ASSUME NEW c \in Callers, WriteOutbox(c)
      PROVE  ReviewInv'
  BY <1>3, WriteOutboxReview
<1>4. ASSUME NEW c \in Callers, WriteAcceptance(c)
      PROVE  ReviewInv'
  BY <1>4, WriteAcceptanceReview
<1>5. ASSUME NEW c \in Callers, WriteLedger(c)
      PROVE  ReviewInv'
  BY <1>5, WriteLedgerReview
<1>6. CASE UNCHANGED <<files, pc, req>>
  BY <1>6 DEF files, ReviewInv, OnePath, Named, Chosen, UnderReview,
              AcceptedWasDelivered, AcceptancesAt
<1> QED
  BY <1>1, <1>2, <1>3, <1>4, <1>5, <1>6, StepCases DEF Commit, vars, files

\* A task that is accepted or integrated was delivered by the dispatch that
\* its acceptance record reviews, and the accepted commit is the delivered
\* one, as long as no blocked task is resumed under review: the Orchestrator
\* resumes to `ready' only.
THEOREM AcceptedAlwaysDelivered ==
  ASSUME "review_ready" \notin ResumeTo
  PROVE  Spec => []AcceptedWasDelivered
<1>1. Init => ReviewInv
  BY DEF Init, FirstTask, ReviewInv, OnePath, Named, Chosen, UnderReview,
         AcceptedWasDelivered, Pending
<1>2. IInv /\ ReviewInv /\ [Next]_vars => ReviewInv'
  BY ReviewStep
<1>3. ReviewInv => AcceptedWasDelivered
  BY DEF ReviewInv
<1> QED
  BY <1>1, <1>2, <1>3, Invariance, PTL DEF Spec

-----------------------------------------------------------------------------
(* The dispatch and the state agree, for the requests of the Orchestrator.  *)

\* The states from TASK_DISPATCHED to the verdict.
Running == {"dispatched", "in_progress", "review_ready"}

\* What the Orchestrator asks for: a blocked attempt is not valid, and a
\* blocked task is not resumed into the middle of a dispatch.
OrchestratorRequests ==
  /\ BlockValid["TASK_BLOCKED"] \subseteq {FALSE}
  /\ ResumeTo \cap Running = {}

NoValidBlock ==
  \A c \in Callers :
    req[c] # NoRequest /\ req[c].type = "TASK_BLOCKED" => ~req[c].valid

\* The task has a dispatch exactly in those states: not even a blocked one.
DispatchIffRunning == ledger.dispatch # None <=> ledger.state \in Running

\* Every event leads into those states with the dispatch that it keeps or
\* brings, and out of them without one.
LEMMA RunningEdges ==
  ASSUME NEW t \in DOMAIN From, NEW f \in From[t], NEW g \in To[t],
         ResumeTo \cap Running = {}
  PROVE  /\ t = "TASK_DISPATCHED" => g \in Running
         /\ t \in EndsDispatch => g \notin Running
         /\ t \in {"DISPATCH_ACKNOWLEDGED", "DELIVERY_SUBMITTED"} =>
              f \in Running /\ g \in Running
         /\ t \in Blocking => g \notin Running
         /\ t = "INTEGRATION_FAILED" => f \notin Running
         /\ t \in {"TASK_SPECIFIED", "CHANGE_INTEGRATED", "BLOCKER_RESOLVED"} =>
              f \notin Running /\ g \notin Running
<1>1. CASE t = "BLOCKER_RESOLVED"
  BY <1>1 DEF From, To, Running, EndsDispatch, Blocking
<1>2. CASE t # "BLOCKER_RESOLVED"
  BY <1>2 DEF From, To, Running, EndsDispatch, Blocking
<1> QED
  BY <1>1, <1>2

LEMMA RunningStep ==
  ASSUME OrchestratorRequests
  PROVE  IInv /\ NoValidBlock /\ DispatchIffRunning /\ [Next]_vars =>
           NoValidBlock' /\ DispatchIffRunning'
<1> SUFFICES ASSUME IInv, NoValidBlock, DispatchIffRunning, [Next]_vars
             PROVE  NoValidBlock' /\ DispatchIffRunning'
  OBVIOUS
<1>1. NoValidBlock'
  <2>1. ASSUME NEW c \in Callers, NEW type \in Types, Prepare(c, type)
        PROVE  NoValidBlock'
    <3>1. \A d \in Callers \ {c} : req'[d] = req[d]
      BY <2>1 DEF Prepare, IInv, TypeOK
    <3>2. \E valid \in Validities(type) : /\ req'[c].type = type
                                          /\ req'[c].valid = valid
      BY <2>1 DEF Prepare, IInv, TypeOK
    <3>3. req'[c].type = "TASK_BLOCKED" => ~req'[c].valid
      BY <3>2 DEF Validities, Blocking, OrchestratorRequests
    <3> QED
      BY <3>1, <3>3 DEF NoValidBlock
  <2>2. CASE req' = req
    BY <2>2 DEF NoValidBlock
  <2> QED
    BY <2>1, <2>2 DEF Next, Retry, Contend, Lock, Replay, Refuse, Accept, Leave,
                      WriteEvent, WriteOutbox, WriteAcceptance, WriteLedger,
                      Advance, WriteViews, Stop, Commit, vars
<1>2. DispatchIffRunning'
  <2>1. CASE ledger' = ledger
    BY <2>1 DEF DispatchIffRunning
  <2>2. ASSUME NEW c \in Callers, WriteLedger(c)
        PROVE  DispatchIffRunning'
    <3> DEFINE r == req[c]
    <3>1. /\ r \in Request /\ WellFormed(r) /\ Fits(r)
          /\ ledger'.state = r.to
          /\ ledger'.dispatch = DispatchAfter(ledger, r)
          /\ r.id \in Ids
      BY <2>2, LedgerFacts
    <3>2. /\ r.type \in DOMAIN From
          /\ ledger.state \in From[r.type] /\ ledger'.state \in To[r.type]
      BY <3>1 DEF WellFormed, Request, Fits
    <3>3. /\ r.type \in {"TASK_BLOCKED"} => ~r.valid
      <4>1. pc[c] = "ledger"
        BY <2>2 DEF WriteLedger, Advance
      <4> QED
        BY <4>1 DEF NoValidBlock, IInv, Requested
    <3>4. ResumeTo \cap Running = {}
      BY DEF OrchestratorRequests
    <3>5. CASE r.type = "TASK_DISPATCHED"
      <4>1. ledger'.dispatch = r.id /\ r.id # None
        BY <3>1, <3>5, DispatchCases DEF WellFormed, Ids, None
      <4> QED
        BY <3>2, <3>4, <3>5, <4>1, RunningEdges DEF DispatchIffRunning
    <3>6. CASE r.type \in EndsDispatch
      <4>1. ledger'.dispatch = None
        BY <3>1, <3>6 DEF DispatchAfter, EndsDispatch
      <4> QED
        BY <3>2, <3>4, <3>6, <4>1, RunningEdges DEF DispatchIffRunning
    <3>7. CASE r.type \in Blocking
      <4>1. r.type = "TASK_BLOCKED" => ledger'.dispatch = None
        BY <3>1, <3>3, <3>7 DEF DispatchAfter, EndsDispatch, Blocking
      <4>2. r.type = "INTEGRATION_FAILED" => ledger'.dispatch = None
        <5>1. r.type = "INTEGRATION_FAILED" => ledger.dispatch = None
          BY <3>2, <3>4, RunningEdges DEF DispatchIffRunning
        <5> QED
          BY <3>1, <5>1, DispatchCases
      <4>3. ledger'.state \notin Running
        BY <3>2, <3>4, <3>7, RunningEdges
      <4> QED
        BY <3>7, <4>1, <4>2, <4>3 DEF DispatchIffRunning, Blocking
    <3>8. CASE r.type \notin {"TASK_DISPATCHED"} \cup EndsDispatch \cup Blocking
      <4>1. ledger'.dispatch = ledger.dispatch
        BY <3>1, <3>8 DEF DispatchAfter
      <4>2. r.type \in {"DISPATCH_ACKNOWLEDGED", "DELIVERY_SUBMITTED",
                        "TASK_SPECIFIED", "CHANGE_INTEGRATED", "BLOCKER_RESOLVED"}
        BY <3>2, <3>8, Domain DEF EventTypes, EndsDispatch, Blocking
      <4>3. ledger.state \in Running <=> ledger'.state \in Running
        BY <3>2, <3>4, <4>2, RunningEdges
      <4> QED
        BY <4>1, <4>3 DEF DispatchIffRunning
    <3> QED
      BY <3>5, <3>6, <3>7, <3>8
  <2> QED
    BY <2>1, <2>2, StepFacts DEF files, WriteEvent, WriteOutbox, WriteAcceptance, vars
<1> QED
  BY <1>1, <1>2

\* With the requests of the Orchestrator the task has a dispatch in the states
\* between TASK_DISPATCHED and the verdict, and in no other.
THEOREM DispatchAlwaysMatchesState ==
  ASSUME OrchestratorRequests
  PROVE  Spec => []DispatchMatchesState
<1>1. Init => NoValidBlock /\ DispatchIffRunning
  BY DEF Init, FirstTask, NoValidBlock, DispatchIffRunning, Running
<1>2. IInv /\ NoValidBlock /\ DispatchIffRunning /\ [Next]_vars =>
        NoValidBlock' /\ DispatchIffRunning'
  BY RunningStep
<1>3. DispatchIffRunning => DispatchMatchesState
  BY DEF DispatchIffRunning, Running, DispatchMatchesState
<1> QED
  BY <1>1, <1>2, <1>3, Invariance, PTL DEF Spec
=============================================================================
