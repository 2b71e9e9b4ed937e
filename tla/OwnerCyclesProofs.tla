-------------------------- MODULE OwnerCyclesProofs --------------------------
(***************************************************************************)
(* Proofs about OwnerCycles, for every set of callers, every choice of     *)
(* worker kinds and every bound.                                           *)
(***************************************************************************)
EXTENDS OwnerCycles, TLAPS

-----------------------------------------------------------------------------
(* The inductive invariant. *)

Running == {"dispatched", "in_progress", "review_ready"}

Types == DOMAIN T!From

LedgerTask ==
  [state : T!States, revision : Nat, attempt : Nat, dispatch : Nat,
   delivery : {"null", "submitted", "accepted", "rejected"}, commit : Nat,
   accepted : Nat, review : Nat, envelope : {"null", "invalid", "valid"}]

Event == [type : Types, revision : Nat, from : T!States, to : T!States,
          attempt : Nat, dispatch : Nat]

Agents == DOMAIN Progression \cup {"EXPERT_AGENT", "none"}

CycleRecord ==
  [op : DOMAIN First, of : Nat, revision : Nat, from : T!States,
   valid : BOOLEAN, kind : Agents, second : BOOLEAN, made : SUBSET Event]

DispatchRecord ==
  [kind : Agents, revision : Nat, by : {"none", "dispatch", "redispatch"},
   delivered : BOOLEAN]

Typed ==
  /\ ledger \in LedgerTask
  /\ dispatched \in [Attempts -> DispatchRecord]
  /\ audits \subseteq [of : Attempts, verdict : {"pass", "fail", "blocked"}]
  /\ accepted \in BOOLEAN
  /\ blocks \subseteq Agents
  /\ verdicts \subseteq [of : Nat, type : Answers]
  /\ pc \in [Callers -> {"idle", "acquire", "first", "release", "second"}]
  /\ cycle \in [Callers -> CycleRecord \cup {NoCycle}]

\* A dispatch is the one of the task's last attempt, and while a worker may run
\* or a delivery waits there is one.
CurrentIsLast ==
  /\ ledger.dispatch # None => ledger.dispatch = ledger.attempt
  /\ ledger.state \in Running => ledger.dispatch # None

\* Nothing is known of attempts to come.
NothingAhead ==
  /\ \A a \in Attempts : a > ledger.attempt => dispatched[a] = NoDispatch
  /\ \A x \in audits : x.of <= ledger.attempt

\* The states of a task whose last attempt is over and not accepted.
Behind == {"draft", "ready", "returned", "blocked", "cancelled", "superseded"}

\* An attempt that has had its answer is not under review any more, whatever
\* is done to the task before its next dispatch.
Settled ==
  \A v \in verdicts :
    /\ v.of <= ledger.attempt
    /\ v.of = ledger.attempt =>
         /\ ledger.state \in Behind \cup {"accepted", "integrated"}
         /\ v.type # "DELIVERY_ACCEPTED" => ledger.state \in Behind

\* Among some answers is that an attempt is blocked.
BlockedBy(given, a) == \E type \in T!Blocking : [of |-> a, type |-> type] \in given

\* A task that is blocked was blocked in its last attempt.
BlockedHas == ledger.state = "blocked" => BlockedBy(verdicts, ledger.attempt)

\* What the validation of a cycle has found, and what its first transition has
\* shown, stays true of it, whatever becomes of the task meanwhile.
Resolved(y) == \E e \in y.made : e.type = "BLOCKER_RESOLVED"

Sound(y, known, kinds, last, given) ==
  /\ y \in CycleRecord
  /\ y.second => y.op \in DOMAIN Second
  /\ y.op \in Quiescent => y.from \notin Running
  /\ y.op \notin Quiescent => y.of \in Attempts /\ y.of <= last
  /\ y.op = "accept" => \E x \in known : x.verdict = "pass"
  /\ y.op = "remediate" => \E x \in known : x.verdict = "fail"
  /\ y.op = "block" => y.from = "review_ready"
  /\ y.op = "redispatch" =>
       /\ \E kind \in kinds : MayEscalate(kind) /\ y.kind = Progression[kind]
       /\ y.of = last /\ Resolved(y) => BlockedBy(given, last)

CyclesSound ==
  \A c \in Callers :
    /\ pc[c] # "idle" \/ cycle[c] # NoCycle =>
         Sound(cycle[c], audits, blocks, ledger.attempt, verdicts)
    /\ pc[c] = "release" => cycle[c].op \in Leased
    /\ pc[c] = "second" => /\ cycle[c].second
                           /\ cycle[c].op = "redispatch" => Resolved(cycle[c])

IInv ==
  /\ Typed
  /\ CurrentIsLast
  /\ NothingAhead
  /\ Settled
  /\ BlockedHas
  /\ CyclesSound
  /\ VerdictCarriedOut
  /\ EscalatesLast

-----------------------------------------------------------------------------
(* Transitions. *)

\* A request that the operations build.
RequestOK(r) ==
  /\ r.type \in Types
  /\ r.revision \in Nat
  /\ r.from \in T!States
  /\ r.to \in T!To[r.type]
  /\ r.dispatch \in Nat
  /\ r.attempt \in Nat
  /\ r.valid \in BOOLEAN
  /\ r.commit \in Nat
  /\ r.review \in Nat
  /\ r.type = "TASK_DISPATCHED" => r.dispatch = r.attempt
  /\ r.type = "TASK_BLOCKED" => r.from = "review_ready"

\* Every transition leads to a state.
LEMMA ToStates ==
  ASSUME NEW type \in Types
  PROVE  /\ T!To[type] \subseteq T!States
         /\ T!To[type] # {}
         /\ T!To[type] \cap Running # {} =>
              type \in {"TASK_DISPATCHED", "DISPATCH_ACKNOWLEDGED", "DELIVERY_SUBMITTED"}
         /\ T!To[type] \cap {"cancelled", "superseded"} # {} =>
              type \in {"BLOCKER_CANCELLED", "TASK_CANCELLED", "TASK_SUPERSEDED"}
BY DEF Types, T!From, T!To, T!States, Running

\* Between its answer and the next dispatch an attempt stays over.
LEMMA StaysBehind ==
  ASSUME NEW type \in Types \ (Answers \cup {"TASK_DISPATCHED"}),
         NEW from \in T!From[type], NEW to \in T!To[type]
  PROVE  /\ from \in Behind => to \in Behind
         /\ from \in {"accepted", "integrated"} =>
              to \in Behind \cup {"accepted", "integrated"}
         /\ to # "blocked"
BY DEF Types, T!From, T!To, T!States, T!Terminal, Answers, Behind

\* What a transition makes of the task.
LEMMA MutatedFacts ==
  ASSUME NEW task \in LedgerTask, NEW r, RequestOK(r)
  PROVE  /\ T!Mutated(task, r) \in LedgerTask
         /\ T!Mutated(task, r).state = r.to
         /\ T!Mutated(task, r).dispatch = T!DispatchAfter(task, r)
         /\ T!Mutated(task, r).attempt =
              IF r.type = "TASK_DISPATCHED" THEN r.attempt ELSE task.attempt
<1> DEFINE moved == [task EXCEPT !.state = r.to,
                                 !.dispatch = T!DispatchAfter(task, r)]
<1>1. r.to \in T!States
  BY ToStates DEF RequestOK
<1>2. T!DispatchAfter(task, r) \in Nat
  BY DEF T!DispatchAfter, RequestOK, LedgerTask, T!None
<1>3. moved \in LedgerTask /\ moved.state = r.to
      /\ moved.dispatch = T!DispatchAfter(task, r) /\ moved.attempt = task.attempt
  BY <1>1, <1>2 DEF LedgerTask
<1> HIDE DEF moved
<1> DEFINE m == T!Mutated(task, r)
<1>4. 0 \in Nat /\ task.revision \in Nat /\ r.attempt \in Nat /\ r.commit \in Nat /\ r.review \in Nat
  BY DEF RequestOK, LedgerTask
<1>5. CASE r.type = "TASK_DISPATCHED"
  <2>1. m = [moved EXCEPT !.attempt = r.attempt]
    BY <1>5 DEF T!Mutated, moved, T!Blocking
  <2> QED
    BY <1>3, <1>4, <1>5, <2>1 DEF LedgerTask
<1>6. CASE r.type = "DELIVERY_SUBMITTED"
  <2>1. m = [moved EXCEPT !.commit = r.commit, !.delivery = "submitted"]
    BY <1>6 DEF T!Mutated, moved, T!Blocking
  <2> QED
    BY <1>3, <1>4, <1>6, <2>1 DEF LedgerTask
<1>7. CASE r.type = "DELIVERY_ACCEPTED"
  <2>1. m = [moved EXCEPT !.accepted = r.commit, !.review = r.review,
                          !.delivery = "accepted"]
    BY <1>7 DEF T!Mutated, moved, T!Blocking
  <2> QED
    BY <1>3, <1>4, <1>7, <2>1 DEF LedgerTask
<1>8. CASE r.type = "DELIVERY_RETURNED"
  <2>1. m = [moved EXCEPT !.delivery = "rejected"]
    BY <1>8 DEF T!Mutated, moved, T!Blocking
  <2> QED
    BY <1>3, <1>8, <2>1 DEF LedgerTask
<1>9. CASE r.type = "DISPATCH_FAILED"
  <2>1. m = [moved EXCEPT !.delivery = "null", !.commit = 0]
    BY <1>9 DEF T!Mutated, moved, T!Blocking, T!None
  <2> QED
    BY <1>3, <1>4, <1>9, <2>1 DEF LedgerTask
<1>10. CASE r.type \in T!Blocking
  <2>1. m = [moved EXCEPT !.envelope = IF r.valid THEN "valid" ELSE "invalid"]
    BY <1>10 DEF T!Mutated, moved, T!Blocking
  <2> QED
    BY <1>3, <1>10, <2>1 DEF LedgerTask, T!Blocking
<1>11. CASE r.type \in {"BLOCKER_RESOLVED", "BLOCKER_CANCELLED"}
  <2>1. m = [moved EXCEPT !.envelope = "null"]
    BY <1>11 DEF T!Mutated, moved, T!Blocking
  <2> QED
    BY <1>3, <1>11, <2>1 DEF LedgerTask
<1>12. CASE r.type = "BLOCKER_RESCOPED"
  <2>1. m = [moved EXCEPT !.envelope = "null", !.revision = task.revision + 1,
                          !.delivery = "null", !.commit = 0,
                          !.accepted = 0, !.review = 0]
    BY <1>12 DEF T!Mutated, moved, T!Blocking, T!None
  <2>2. task.revision + 1 \in Nat
    BY <1>4
  <2>3. m \in LedgerTask
    BY <1>3, <1>4, <2>1, <2>2 DEF LedgerTask
  <2>4. /\ m.state = moved.state /\ m.dispatch = moved.dispatch
        /\ m.attempt = moved.attempt
    BY <1>3, <2>1 DEF LedgerTask
  <2> QED
    BY <1>3, <1>12, <2>3, <2>4
<1>13. CASE r.type \notin T!Blocking \cup
              {"TASK_DISPATCHED", "DELIVERY_SUBMITTED", "DELIVERY_ACCEPTED",
               "DELIVERY_RETURNED", "DISPATCH_FAILED", "BLOCKER_RESOLVED",
               "BLOCKER_CANCELLED", "BLOCKER_RESCOPED"}
  <2>1. m = moved
    BY <1>13 DEF T!Mutated, moved, T!Blocking
  <2> QED
    BY <1>3, <1>13, <2>1 DEF LedgerTask
<1> QED
  BY <1>5, <1>6, <1>7, <1>8, <1>9, <1>10, <1>11, <1>12, <1>13

\* A transition that the ledger accepts keeps the task in its types and its
\* dispatch the last one; only a dispatch makes a dispatch.
LEMMA Moves ==
  ASSUME ledger \in LedgerTask, CurrentIsLast, NEW r, RequestOK(r),
         Applies(r), ledger' = T!Mutated(ledger, r)
  PROVE  /\ ledger' \in LedgerTask
         /\ ledger'.state = r.to
         /\ CurrentIsLast'
         /\ r.from = ledger.state
         /\ r.type = "TASK_DISPATCHED" =>
              /\ r.attempt = ledger.attempt + 1
              /\ ledger'.attempt = ledger.attempt + 1
         /\ r.type # "TASK_DISPATCHED" =>
              /\ ledger'.attempt = ledger.attempt
              /\ ledger'.dispatch # None => ledger.dispatch # None
         /\ r.type \in T!NeedsDispatchCAS =>
              r.dispatch = ledger.dispatch /\ ledger.dispatch # None
         /\ r.from \in T!From[r.type]
<1>1. /\ ledger' \in LedgerTask
      /\ ledger'.state = r.to
      /\ ledger'.dispatch = T!DispatchAfter(ledger, r)
      /\ ledger'.attempt = IF r.type = "TASK_DISPATCHED" THEN r.attempt
                           ELSE ledger.attempt
  BY MutatedFacts
<1>2. /\ r.from = ledger.state /\ ledger.state \in T!From[r.type]
      /\ r.type \in T!NeedsDispatchCAS =>
           r.dispatch = ledger.dispatch /\ ledger.dispatch # None
  BY DEF Applies, T!CAS, T!DispatchCAS, T!None, None
<1>3. r.type = "TASK_DISPATCHED" => r.attempt = ledger.attempt + 1 /\ r.dispatch = r.attempt
  BY DEF Applies, T!PayloadFits, RequestOK
<1>4. /\ r.type = "TASK_DISPATCHED" => ledger'.dispatch = r.dispatch
      /\ r.type # "TASK_DISPATCHED" => ledger'.dispatch \in {None, ledger.dispatch}
      /\ r.type \in {"DISPATCH_ACKNOWLEDGED", "DELIVERY_SUBMITTED"} =>
           ledger'.dispatch = ledger.dispatch
  BY <1>1 DEF T!DispatchAfter, T!EndsDispatch, T!Blocking, T!None, None
<1>5. ledger'.dispatch # None => ledger'.dispatch = ledger'.attempt
  BY <1>1, <1>3, <1>4 DEF CurrentIsLast
<1>6. ledger'.state \in Running => ledger'.dispatch # None
  <2> SUFFICES ASSUME ledger'.state \in Running PROVE ledger'.dispatch # None
    OBVIOUS
  <2>1. r.type \in {"TASK_DISPATCHED", "DISPATCH_ACKNOWLEDGED", "DELIVERY_SUBMITTED"}
    BY <1>1, ToStates DEF RequestOK
  <2>2. CASE r.type = "TASK_DISPATCHED"
    BY <1>3, <1>4, <2>2 DEF LedgerTask, None
  <2>3. CASE r.type \in {"DISPATCH_ACKNOWLEDGED", "DELIVERY_SUBMITTED"}
    BY <1>2, <1>4, <2>3 DEF T!NeedsDispatchCAS
  <2> QED
    BY <2>1, <2>2, <2>3
<1> QED
  BY <1>1, <1>2, <1>3, <1>4, <1>5, <1>6 DEF CurrentIsLast

\* The requests of a cycle.
LEMMA FirstBuilt ==
  ASSUME NEW y \in CycleRecord, y.op = "block" => y.from = "review_ready"
  PROVE  /\ RequestOK(FirstRequest(y))
         /\ FirstRequest(y).type = First[y.op]
         /\ FirstRequest(y).type # "TASK_DISPATCHED"
         /\ FirstRequest(y).dispatch = y.of
         /\ FirstRequest(y).from = y.from
<1> DEFINE type == First[y.op]
           to == CHOOSE t \in T!To[type] : TRUE
<1>1. type \in Types /\ type # "TASK_DISPATCHED"
  BY DEF CycleRecord, First, Types, T!From
<1>2. to \in T!To[type]
  BY <1>1, ToStates
<1>3. FirstRequest(y) =
        Request(type, y.revision, y.from, to, y.of, y.of, y.valid)
  BY DEF FirstRequest
<1> HIDE DEF type, to
<1>4. FirstRequest(y) =
        [type |-> type, id |-> 0, head |-> 0, revision |-> y.revision,
         from |-> y.from, to |-> to, dispatch |-> y.of, attempt |-> y.of,
         valid |-> y.valid, commit |-> y.of,
         review |-> IF type = "DELIVERY_ACCEPTED" THEN 1 ELSE 0]
  BY <1>3 DEF Request, None
<1>5. type = "TASK_BLOCKED" => y.op = "block"
  BY DEF type, First, CycleRecord
<1> QED
  BY <1>1, <1>2, <1>4, <1>5 DEF RequestOK, CycleRecord, type

\* The second transition's request: the next dispatch, the integration or the
\* return to the queue.
LEMMA SecondBuilt ==
  ASSUME dispatched \in [Attempts -> DispatchRecord],
         NEW y \in CycleRecord, y.op \in DOMAIN Second, y.of \in Attempts
  PROVE  /\ RequestOK(SecondRequest(y))
         /\ SecondRequest(y).type = Second[y.op]
         /\ y.op = "redispatch" =>
              /\ SecondRequest(y).attempt = y.of + 1
              /\ SecondRequest(y).revision = dispatched[y.of].revision
<1>1. /\ {"ready", "accepted", "returned", "dispatched", "integrated"} \subseteq T!States
      /\ "dispatched" \in T!To["TASK_DISPATCHED"]
      /\ "integrated" \in T!To["CHANGE_INTEGRATED"]
      /\ "ready" \in T!To["TASK_REQUEUED"]
      /\ {"TASK_DISPATCHED", "CHANGE_INTEGRATED", "TASK_REQUEUED"} \subseteq Types
  BY DEF T!To, Types, T!From, T!States
<1>2. /\ dispatched[y.of].revision \in Nat /\ y.of \in Nat /\ y.of + 1 \in Nat
      /\ y.revision \in Nat /\ 0 \in Nat
  BY DEF DispatchRecord, CycleRecord
<1>3. CASE y.op = "redispatch"
  <2>1. SecondRequest(y) =
          Request("TASK_DISPATCHED", dispatched[y.of].revision, "ready",
                  "dispatched", y.of + 1, y.of + 1, FALSE)
    BY <1>3 DEF SecondRequest
  <2>2. SecondRequest(y) =
          [type |-> "TASK_DISPATCHED", id |-> 0, head |-> 0,
           revision |-> dispatched[y.of].revision, from |-> "ready",
           to |-> "dispatched", dispatch |-> y.of + 1, attempt |-> y.of + 1,
           valid |-> FALSE, commit |-> y.of + 1, review |-> 0]
    BY <2>1 DEF Request, None
  <2> QED
    BY <1>1, <1>2, <1>3, <2>2 DEF RequestOK, Second
<1>4. CASE y.op = "accept"
  <2>1. SecondRequest(y) =
          Request("CHANGE_INTEGRATED", y.revision, "accepted", "integrated",
                  y.of, y.of, FALSE)
    BY <1>4 DEF SecondRequest
  <2>2. SecondRequest(y) =
          [type |-> "CHANGE_INTEGRATED", id |-> 0, head |-> 0,
           revision |-> y.revision, from |-> "accepted", to |-> "integrated",
           dispatch |-> y.of, attempt |-> y.of, valid |-> FALSE,
           commit |-> y.of, review |-> 0]
    BY <2>1 DEF Request, None
  <2> QED
    BY <1>1, <1>2, <1>4, <2>2 DEF RequestOK, Second
<1>5. CASE y.op = "remediate"
  <2>1. SecondRequest(y) =
          Request("TASK_REQUEUED", y.revision, "returned", "ready", y.of,
                  y.of, FALSE)
    BY <1>5 DEF SecondRequest
  <2>2. SecondRequest(y) =
          [type |-> "TASK_REQUEUED", id |-> 0, head |-> 0,
           revision |-> y.revision, from |-> "returned", to |-> "ready",
           dispatch |-> y.of, attempt |-> y.of, valid |-> FALSE,
           commit |-> y.of, review |-> 0]
    BY <2>1 DEF Request, None
  <2> QED
    BY <1>1, <1>2, <1>5, <2>2 DEF RequestOK, Second
<1> QED
  BY <1>3, <1>4, <1>5 DEF Second

-----------------------------------------------------------------------------
(* What stays true. *)

\* What there is of results and answers stays, and attempts only go on.
Grows ==
  /\ audits \subseteq audits' /\ blocks \subseteq blocks'
  /\ verdicts \subseteq verdicts'
  /\ ledger.attempt \in Nat /\ ledger'.attempt \in Nat
  /\ ledger.attempt <= ledger'.attempt

\* What is true of a cycle stays true.
LEMMA SoundKept ==
  ASSUME Grows, NEW y, Sound(y, audits, blocks, ledger.attempt, verdicts)
  PROVE  Sound(y, audits', blocks', ledger'.attempt, verdicts')
<1>1. /\ y \in CycleRecord
      /\ y.second => y.op \in DOMAIN Second
      /\ y.op \in Quiescent => y.from \notin Running
      /\ y.op = "block" => y.from = "review_ready"
  BY DEF Sound
<1>2. y.op \notin Quiescent => y.of \in Attempts /\ y.of <= ledger'.attempt
  BY CyclesAssumption DEF Sound, Grows, Attempts
<1>3. /\ y.op = "accept" => \E x \in audits' : x.verdict = "pass"
      /\ y.op = "remediate" => \E x \in audits' : x.verdict = "fail"
  BY DEF Sound, Grows
<1>4. y.op = "redispatch" =>
        \E kind \in blocks' : MayEscalate(kind) /\ y.kind = Progression[kind]
  BY DEF Sound, Grows
<1>5. ASSUME y.op = "redispatch", y.of = ledger'.attempt, Resolved(y)
      PROVE  BlockedBy(verdicts', ledger'.attempt)
  <2>1. y.of \in Attempts /\ y.of <= ledger.attempt
    BY <1>5 DEF Sound, Quiescent
  <2>2. y.of = ledger.attempt /\ ledger'.attempt = ledger.attempt
    BY <1>5, <2>1 DEF Grows, Attempts
  <2>3. BlockedBy(verdicts, ledger.attempt)
    BY <1>5, <2>2 DEF Sound
  <2> QED
    BY <2>2, <2>3 DEF BlockedBy, Grows
<1> QED
  BY <1>1, <1>2, <1>3, <1>4, <1>5 DEF Sound

\* The callers that do not move keep their cycles.
LEMMA OthersSound ==
  ASSUME IInv, Grows, pc' = pc, cycle' = cycle
  PROVE  CyclesSound'
<1> SUFFICES ASSUME NEW c \in Callers
             PROVE  /\ pc[c] # "idle" \/ cycle[c] # NoCycle =>
                         Sound(cycle[c], audits', blocks', ledger'.attempt, verdicts')
                    /\ pc[c] = "release" => cycle[c].op \in Leased
                    /\ pc[c] = "second" =>
                         /\ cycle[c].second
                         /\ cycle[c].op = "redispatch" => Resolved(cycle[c])
  BY DEF CyclesSound
<1> QED
  BY SoundKept DEF IInv, CyclesSound

\* A transition that is not a dispatch.
LEMMA ChangeKept ==
  ASSUME IInv, NEW r, RequestOK(r), Applies(r), ledger' = T!Mutated(ledger, r),
         r.type # "TASK_DISPATCHED", audits' = audits,
         blocks \subseteq blocks', verdicts \subseteq verdicts',
         \/ dispatched' = dispatched
         \/ \E b \in BOOLEAN :
              dispatched' = [dispatched EXCEPT ![ledger.attempt].delivered = b]
  PROVE  /\ ledger' \in LedgerTask
         /\ dispatched' \in [Attempts -> DispatchRecord]
         /\ CurrentIsLast'
         /\ NothingAhead'
         /\ EscalatesLast'
         /\ Grows
<1>0. ledger \in LedgerTask /\ dispatched \in [Attempts -> DispatchRecord]
  BY DEF IInv, Typed
<1>1. /\ ledger' \in LedgerTask
      /\ CurrentIsLast'
      /\ ledger'.attempt = ledger.attempt
  BY <1>0, Moves DEF IInv
<1>2. /\ dispatched' \in [Attempts -> DispatchRecord]
      /\ \A a \in Attempts :
           /\ dispatched'[a].kind = dispatched[a].kind
           /\ dispatched'[a].revision = dispatched[a].revision
           /\ dispatched'[a].by = dispatched[a].by
           /\ a # ledger.attempt => dispatched'[a] = dispatched[a]
  <2>1. CASE dispatched' = dispatched
    BY <1>0, <2>1
  <2>2. ASSUME NEW b \in BOOLEAN,
               dispatched' = [dispatched EXCEPT ![ledger.attempt].delivered = b]
        PROVE  <1>2!1 /\ <1>2!2
    <3> DEFINE new == [dispatched[ledger.attempt] EXCEPT !.delivered = b]
    <3>1. CASE ledger.attempt \in Attempts
      <4>1. dispatched[ledger.attempt] \in DispatchRecord
        BY <1>0, <3>1
      <4>2. /\ new \in DispatchRecord
            /\ new.kind = dispatched[ledger.attempt].kind
            /\ new.revision = dispatched[ledger.attempt].revision
            /\ new.by = dispatched[ledger.attempt].by
        BY <4>1 DEF DispatchRecord
      <4>3. dispatched' = [dispatched EXCEPT ![ledger.attempt] = new]
        BY <2>2
      <4> HIDE DEF new
      <4> QED
        BY <1>0, <3>1, <4>2, <4>3
    <3>2. CASE ledger.attempt \notin Attempts
      <4>1. dispatched' = dispatched
        BY <1>0, <2>2, <3>2
      <4> QED
        BY <1>0, <4>1
    <3> QED
      BY <3>1, <3>2
  <2> QED
    BY <2>1, <2>2
<1>3. ledger.attempt \in Nat /\ \A a \in Attempts : a \in Nat
  BY <1>0 DEF LedgerTask, Attempts
<1>4. NothingAhead'
  BY <1>1, <1>2, <1>3 DEF IInv, NothingAhead
<1>5. EscalatesLast'
  <2> SUFFICES ASSUME NEW a \in Attempts, dispatched'[a].by = "redispatch"
               PROVE  /\ a > 1
                      /\ BlockedBy(verdicts', a - 1)
                      /\ \E kind \in blocks' : MayEscalate(kind)
                              /\ dispatched'[a].kind = Progression[kind]
                      /\ dispatched'[a].revision = dispatched'[a - 1].revision
    BY DEF EscalatesLast, BlockedBy
  <2>1. /\ a > 1
        /\ BlockedBy(verdicts, a - 1)
        /\ \E kind \in blocks : MayEscalate(kind)
                /\ dispatched[a].kind = Progression[kind]
        /\ dispatched[a].revision = dispatched[a - 1].revision
    BY <1>2 DEF IInv, EscalatesLast, BlockedBy
  <2>2. a - 1 \in Attempts
    BY <2>1, CyclesAssumption DEF Attempts
  <2>3. BlockedBy(verdicts', a - 1)
    BY <2>1 DEF BlockedBy
  <2> QED
    BY <1>2, <2>1, <2>2, <2>3
<1> QED
  BY <1>1, <1>2, <1>3, <1>4, <1>5 DEF Grows

\* A dispatch: of its own, or one that answers a blocked delivery.
LEMMA ChangeDispatched ==
  ASSUME IInv, NEW r, RequestOK(r), Applies(r), ledger' = T!Mutated(ledger, r),
         r.type = "TASK_DISPATCHED", audits' = audits,
         blocks \subseteq blocks', verdicts \subseteq verdicts',
         NEW by \in {"dispatch", "redispatch"}, NEW kind \in Agents,
         DispatchedBy(by, kind, r),
         by = "redispatch" =>
           /\ r.attempt - 1 \in Attempts
           /\ BlockedBy(verdicts, r.attempt - 1)
           /\ \E k \in blocks : MayEscalate(k) /\ kind = Progression[k]
           /\ r.revision = dispatched[r.attempt - 1].revision
  PROVE  /\ ledger' \in LedgerTask
         /\ dispatched' \in [Attempts -> DispatchRecord]
         /\ CurrentIsLast'
         /\ NothingAhead'
         /\ EscalatesLast'
         /\ Grows
<1>0. /\ ledger \in LedgerTask /\ dispatched \in [Attempts -> DispatchRecord]
      /\ r.revision \in Nat /\ r.attempt \in Nat
  BY DEF IInv, Typed, RequestOK
<1>1. /\ ledger' \in LedgerTask
      /\ CurrentIsLast'
      /\ ledger'.attempt = ledger.attempt + 1
      /\ r.attempt = ledger.attempt + 1
  BY <1>0, Moves DEF IInv
<1> DEFINE new == [kind |-> kind, revision |-> r.revision, by |-> by,
                   delivered |-> FALSE]
<1>2. new \in DispatchRecord /\ new.kind = kind /\ new.by = by /\ new.revision = r.revision
  BY <1>0 DEF DispatchRecord
<1>3. dispatched' = [dispatched EXCEPT ![r.attempt] = new]
  BY DEF DispatchedBy
<1> HIDE DEF new
<1>4. /\ dispatched' \in [Attempts -> DispatchRecord]
      /\ \A a \in Attempts : a # r.attempt => dispatched'[a] = dispatched[a]
      /\ r.attempt \in Attempts => dispatched'[r.attempt] = new
  BY <1>0, <1>2, <1>3
<1>5. ledger.attempt \in Nat /\ \A a \in Attempts : a \in Nat
  BY <1>0 DEF LedgerTask, Attempts
<1>6. Grows
  BY <1>1, <1>5 DEF Grows
<1>7. NothingAhead'
  <2>1. \A x \in audits : x.of <= ledger.attempt /\ x.of \in Nat
    BY <1>5 DEF IInv, Typed, NothingAhead
  <2>2. \A x \in audits' : x.of <= ledger'.attempt
    BY <1>1, <1>5, <2>1
  <2>3. \A a \in Attempts : a > ledger'.attempt => dispatched'[a] = NoDispatch
    BY <1>1, <1>4, <1>5 DEF IInv, NothingAhead
  <2> QED
    BY <2>2, <2>3 DEF NothingAhead
<1>8. EscalatesLast'
  <2> SUFFICES ASSUME NEW a \in Attempts, dispatched'[a].by = "redispatch"
               PROVE  /\ a > 1
                      /\ BlockedBy(verdicts', a - 1)
                      /\ \E k \in blocks' : MayEscalate(k)
                              /\ dispatched'[a].kind = Progression[k]
                      /\ dispatched'[a].revision = dispatched'[a - 1].revision
    BY DEF EscalatesLast, BlockedBy
  <2>1. CASE a = r.attempt
    <3>1. by = "redispatch" /\ dispatched'[a] = new
      BY <1>2, <1>4, <2>1
    <3>2. a - 1 \in Attempts /\ a - 1 # r.attempt /\ a > 1
      BY <1>5, <2>1, <3>1 DEF Attempts
    <3>3. dispatched'[a - 1] = dispatched[a - 1]
      BY <1>4, <3>2
    <3>4. /\ BlockedBy(verdicts', a - 1)
          /\ \E k \in blocks' : MayEscalate(k) /\ kind = Progression[k]
      BY <2>1, <3>1 DEF BlockedBy
    <3> QED
      BY <1>2, <2>1, <3>1, <3>2, <3>3, <3>4
  <2>2. CASE a # r.attempt
    <3>1. dispatched[a].by = "redispatch" /\ dispatched'[a] = dispatched[a]
      BY <1>4, <2>2
    <3>2. a <= ledger.attempt
      BY <1>5, <3>1 DEF IInv, NothingAhead, NoDispatch
    <3>3. /\ a > 1
          /\ BlockedBy(verdicts', a - 1)
          /\ \E k \in blocks' : MayEscalate(k) /\ dispatched[a].kind = Progression[k]
          /\ dispatched[a].revision = dispatched[a - 1].revision
      BY <3>1 DEF IInv, EscalatesLast, BlockedBy
    <3>4. a - 1 \in Attempts /\ a - 1 # r.attempt
      BY <1>1, <1>5, <3>2, <3>3, CyclesAssumption DEF Attempts
    <3> QED
      BY <1>4, <3>1, <3>3, <3>4
  <2> QED
    BY <2>1, <2>2
<1> QED
  BY <1>1, <1>4, <1>6, <1>7, <1>8

-----------------------------------------------------------------------------
(* The verdicts. *)

\* A transition that answers no delivery leaves the answers as they are.
LEMMA VerdictsStay ==
  ASSUME IInv, NEW r, RequestOK(r), Applies(r), ledger' = T!Mutated(ledger, r),
         r.type \notin Answers, verdicts' = verdicts, audits' = audits
  PROVE  Settled' /\ BlockedHas' /\ VerdictCarriedOut'
<1>1. ledger \in LedgerTask /\ CurrentIsLast /\ Settled
  BY DEF IInv, Typed
<1>2. /\ r.type = "TASK_DISPATCHED" => ledger'.attempt = ledger.attempt + 1
      /\ r.type # "TASK_DISPATCHED" => ledger'.attempt = ledger.attempt
      /\ ledger'.state = r.to /\ r.from = ledger.state /\ r.from \in T!From[r.type]
  BY <1>1, Moves
<1>3. ledger.attempt \in Nat /\ \A v \in verdicts : v.of \in Nat
  BY <1>1 DEF LedgerTask, IInv, Typed
<1>4. r.type \in Types /\ r.to \in T!To[r.type]
  BY DEF RequestOK
<1>5. CASE r.type = "TASK_DISPATCHED"
  <2>1. r.to = "dispatched"
    BY <1>4, <1>5 DEF T!To
  <2>2. \A v \in verdicts : v.of <= ledger'.attempt /\ v.of # ledger'.attempt
    BY <1>1, <1>2, <1>3, <1>5 DEF Settled
  <2> QED
    BY <1>2, <2>1, <2>2 DEF Settled, BlockedHas, IInv, VerdictCarriedOut
<1>6. CASE r.type # "TASK_DISPATCHED"
  <2>1. /\ ledger.state \in Behind => ledger'.state \in Behind
        /\ ledger.state \in {"accepted", "integrated"} =>
             ledger'.state \in Behind \cup {"accepted", "integrated"}
        /\ ledger'.state # "blocked"
    BY <1>2, <1>4, <1>6, StaysBehind
  <2>2. ledger'.attempt = ledger.attempt
    BY <1>2, <1>6
  <2>3. Settled'
    BY <1>1, <2>1, <2>2 DEF Settled
  <2> QED
    BY <2>1, <2>3 DEF BlockedHas, IInv, VerdictCarriedOut
<1> QED
  BY <1>5, <1>6

\* A delivery is accepted, returned or blocked: the attempt had no answer
\* before, or it was accepted and its integration fails.
LEMMA VerdictCounts ==
  ASSUME IInv, NEW r, RequestOK(r), Applies(r), ledger' = T!Mutated(ledger, r),
         r.type \in Answers,
         r.type = "DELIVERY_ACCEPTED" => \E x \in audits : x.verdict = "pass",
         r.type = "DELIVERY_RETURNED" => \E x \in audits : x.verdict = "fail",
         verdicts' = verdicts \cup {[of |-> ledger.attempt, type |-> r.type]},
         audits' = audits
  PROVE  Settled' /\ BlockedHas' /\ VerdictCarriedOut'
<1>1. ledger \in LedgerTask /\ CurrentIsLast /\ Settled
  BY DEF IInv, Typed
<1>2. /\ ledger'.attempt = ledger.attempt
      /\ ledger'.state = r.to /\ r.from = ledger.state /\ r.from \in T!From[r.type]
  BY <1>1, Moves DEF Answers
<1>3. ledger.attempt \in Nat /\ \A v \in verdicts : v.of \in Nat
  BY <1>1 DEF LedgerTask, IInv, Typed
<1>4. /\ r.type # "INTEGRATION_FAILED" => ledger.state = "review_ready"
      /\ r.type = "INTEGRATION_FAILED" => ledger.state = "accepted"
      /\ r.type = "DELIVERY_ACCEPTED" => r.to = "accepted"
      /\ r.type # "DELIVERY_ACCEPTED" => r.to \in {"returned", "blocked"}
      /\ r.to = "blocked" => r.type \in T!Blocking
  BY <1>2 DEF RequestOK, Answers, T!From, T!To, T!Blocking
<1> DEFINE new == [of |-> ledger.attempt, type |-> r.type]
<1>5. new.of = ledger.attempt /\ new.type = r.type /\ verdicts' = verdicts \cup {new}
  OBVIOUS
<1>6. ASSUME NEW v \in verdicts, v.of = ledger.attempt
      PROVE  v.type = "DELIVERY_ACCEPTED" /\ r.type = "INTEGRATION_FAILED"
  BY <1>1, <1>4, <1>6 DEF Settled, Behind
<1> HIDE DEF new
<1>7. Settled'
  <2> SUFFICES ASSUME NEW v \in verdicts'
               PROVE  /\ v.of <= ledger'.attempt
                      /\ v.of = ledger'.attempt =>
                           /\ ledger'.state \in Behind \cup {"accepted", "integrated"}
                           /\ v.type # "DELIVERY_ACCEPTED" => ledger'.state \in Behind
    BY DEF Settled
  <2>1. CASE v = new
    BY <1>2, <1>3, <1>4, <1>5, <2>1 DEF Behind
  <2>2. CASE v \in verdicts
    <3>1. v.of <= ledger'.attempt
      BY <1>1, <1>2, <2>2 DEF Settled
    <3>2. CASE v.of = ledger.attempt
      BY <1>2, <1>4, <1>6, <2>2, <3>1, <3>2 DEF Behind
    <3> QED
      BY <1>2, <3>1, <3>2
  <2> QED
    BY <1>5, <2>1, <2>2
<1>8. BlockedHas'
  <2> SUFFICES ASSUME ledger'.state = "blocked"
               PROVE  BlockedBy(verdicts', ledger'.attempt)
    BY DEF BlockedHas
  <2>1. r.type \in T!Blocking
    BY <1>2, <1>4
  <2> QED
    BY <1>2, <1>5, <2>1 DEF BlockedBy, new
<1>9. VerdictCarriedOut'
  <2>1. \A x \in audits : x.of <= ledger.attempt
    BY DEF IInv, NothingAhead
  <2>2. ASSUME NEW v \in verdicts'
        PROVE  /\ v.type = "DELIVERY_ACCEPTED" =>
                    \E x \in audits : x.verdict = "pass" /\ x.of <= v.of
               /\ v.type = "DELIVERY_RETURNED" =>
                    \E x \in audits : x.verdict = "fail" /\ x.of <= v.of
    <3>1. CASE v = new
      BY <1>5, <2>1, <3>1
    <3>2. CASE v \in verdicts
      BY <3>2 DEF IInv, VerdictCarriedOut
    <3> QED
      BY <1>5, <3>1, <3>2
  <2>3. ASSUME NEW v \in verdicts', NEW w \in verdicts', w.of = v.of, w # v
        PROVE  {v.type, w.type} = {"DELIVERY_ACCEPTED", "INTEGRATION_FAILED"}
    <3>1. CASE v \in verdicts /\ w \in verdicts
      BY <2>3, <3>1 DEF IInv, VerdictCarriedOut
    <3>2. CASE v = new /\ w \in verdicts
      BY <1>5, <1>6, <2>3, <3>2
    <3>3. CASE v \in verdicts /\ w = new
      BY <1>5, <1>6, <2>3, <3>3
    <3> QED
      BY <1>5, <2>3, <3>1, <3>2, <3>3
  <2> QED
    BY <2>2, <2>3 DEF VerdictCarriedOut
<1> QED
  BY <1>7, <1>8, <1>9

-----------------------------------------------------------------------------
(* The cycles. *)

Places == {"idle", "acquire", "first", "release", "second"}

\* The invariant without what callers keep of earlier cycles.
Standing ==
  /\ ledger \in LedgerTask
  /\ dispatched \in [Attempts -> DispatchRecord]
  /\ verdicts \subseteq [of : Nat, type : Answers]
  /\ pc \in [Callers -> Places]
  /\ cycle \in [Callers -> CycleRecord \cup {NoCycle}]
  /\ CurrentIsLast
  /\ NothingAhead
  /\ Settled
  /\ BlockedHas
  /\ CyclesSound
  /\ VerdictCarriedOut
  /\ EscalatesLast

ResultsOK ==
  /\ audits \subseteq [of : Attempts, verdict : {"pass", "fail", "blocked"}]
  /\ accepted \in BOOLEAN
  /\ blocks \subseteq Agents

\* The invariant is these two parts.
LEMMA Parts ==
  /\ IInv <=> Standing /\ ResultsOK
  /\ IInv' <=> Standing' /\ ResultsOK'
BY DEF IInv, Typed, Standing, ResultsOK, Places

\* The rest of the invariant is about the project and the results.
LEMMA StandingSame ==
  ASSUME IInv, UNCHANGED <<ledger, dispatched, verdicts, audits>>,
         blocks \subseteq blocks',
         pc' \in [Callers -> Places],
         cycle' \in [Callers -> CycleRecord \cup {NoCycle}],
         CyclesSound'
  PROVE  Standing'
<1>1. Standing
  BY Parts
<1>2. EscalatesLast'
  BY <1>1 DEF Standing, EscalatesLast
<1> QED
  BY <1>1, <1>2 DEF Standing, CurrentIsLast, NothingAhead, Settled, BlockedHas,
                    VerdictCarriedOut

\* Nothing that has been learnt is lost.
LEMMA GrowsSame ==
  ASSUME IInv, UNCHANGED <<ledger, verdicts>>, audits \subseteq audits',
         blocks \subseteq blocks'
  PROVE  Grows
BY DEF IInv, Typed, LedgerTask, Grows

\* What is asked of a caller at a place with a cycle.
Placed(at, y) ==
  /\ at = "release" => y.op \in Leased
  /\ at = "second" => y.second /\ (y.op = "redispatch" => Resolved(y))

\* One caller moves.
LEMMA OneMoves ==
  ASSUME IInv, Grows, NEW c \in Callers,
         NEW at \in Places, NEW y \in CycleRecord \cup {NoCycle},
         pc' = [pc EXCEPT ![c] = at], cycle' = [cycle EXCEPT ![c] = y],
         at # "idle" \/ y # NoCycle =>
           Sound(y, audits', blocks', ledger'.attempt, verdicts'),
         Placed(at, y)
  PROVE  /\ pc' \in [Callers -> Places]
         /\ cycle' \in [Callers -> CycleRecord \cup {NoCycle}]
         /\ CyclesSound'
<1>1. /\ pc \in [Callers -> Places]
      /\ cycle \in [Callers -> CycleRecord \cup {NoCycle}]
  BY Parts DEF Standing
<1>2. /\ pc' \in [Callers -> Places]
      /\ cycle' \in [Callers -> CycleRecord \cup {NoCycle}]
      /\ pc'[c] = at /\ cycle'[c] = y
      /\ \A d \in Callers : d # c => pc'[d] = pc[d] /\ cycle'[d] = cycle[d]
  BY <1>1
<1>3. ASSUME NEW d \in Callers
      PROVE  /\ pc'[d] # "idle" \/ cycle'[d] # NoCycle =>
                  Sound(cycle'[d], audits', blocks', ledger'.attempt, verdicts')
             /\ Placed(pc'[d], cycle'[d])
  <2>1. CASE d = c
    BY <1>2, <2>1
  <2>2. CASE d # c
    <3>1. /\ pc[d] # "idle" \/ cycle[d] # NoCycle =>
               Sound(cycle[d], audits, blocks, ledger.attempt, verdicts)
          /\ Placed(pc[d], cycle[d])
      BY DEF IInv, CyclesSound, Placed
    <3> QED
      BY <1>2, <2>2, <3>1, SoundKept
  <2> QED
    BY <2>1, <2>2
<1>4. CyclesSound'
  BY <1>3 DEF CyclesSound, Placed
<1> QED
  BY <1>2, <1>4

\* A caller that runs a cycle goes on with it, or returns.
LEMMA GoesOn ==
  ASSUME IInv, Grows, NEW c \in Callers,
         pc[c] # "idle", NEW next \in Places, NEW event \in SUBSET Event,
         Goes(c, next, event),
         next = "release" => cycle[c].op \in Leased,
         next = "second" =>
           /\ cycle[c].second
           /\ cycle[c].op = "redispatch" =>
                \E e \in cycle[c].made \cup event : e.type = "BLOCKER_RESOLVED",
         (\E e \in event : e.type = "BLOCKER_RESOLVED") =>
           BlockedBy(verdicts', ledger'.attempt)
  PROVE  /\ pc' \in [Callers -> Places]
         /\ cycle' \in [Callers -> CycleRecord \cup {NoCycle}]
         /\ CyclesSound'
<1>1. PICK old : old = cycle[c]
  OBVIOUS
<1>2. /\ Sound(old, audits, blocks, ledger.attempt, verdicts)
      /\ old \in CycleRecord
  BY <1>1 DEF IInv, CyclesSound, Sound
<1>3. PICK y : y = [old EXCEPT !.made = old.made \cup event]
  OBVIOUS
<1>4. /\ y \in CycleRecord
      /\ y.op = old.op /\ y.of = old.of /\ y.from = old.from /\ y.second = old.second
      /\ y.kind = old.kind /\ y.made = old.made \cup event
  BY <1>2, <1>3 DEF CycleRecord
<1>5. Sound(old, audits', blocks', ledger'.attempt, verdicts')
  BY <1>2, SoundKept
<1>6. pc' = [pc EXCEPT ![c] = next]
  BY DEF Goes
<1>7. CASE next = "idle"
  <2>1. cycle' = [cycle EXCEPT ![c] = NoCycle]
    BY <1>7 DEF Goes
  <2>2. Placed(next, NoCycle)
    BY <1>7 DEF Placed
  <2> QED
    BY <1>6, <1>7, <2>1, <2>2, OneMoves
<1>8. CASE next # "idle"
  <2>1. cycle' = [cycle EXCEPT ![c] = y]
    BY <1>1, <1>3, <1>8 DEF Goes
  <2>2. Resolved(y) => Resolved(old) \/ BlockedBy(verdicts', ledger'.attempt)
    BY <1>4 DEF Resolved
  <2>3. Sound(y, audits', blocks', ledger'.attempt, verdicts')
    BY <1>4, <1>5, <2>2 DEF Sound
  <2>4. Placed(next, y)
    BY <1>1, <1>4 DEF Placed, Resolved
  <2> QED
    BY <1>4, <1>6, <2>1, <2>3, <2>4, OneMoves
<1> QED
  BY <1>7, <1>8

\* A cycle is begun.
LEMMA Begins ==
  ASSUME IInv, NEW c \in Callers, NEW y,
         Sound(y, audits, blocks, ledger.attempt, verdicts), Begin(c, y)
  PROVE  IInv'
<1>1. /\ ledger' = ledger /\ dispatched' = dispatched /\ verdicts' = verdicts
      /\ audits' = audits /\ accepted' = accepted /\ blocks' = blocks
  BY DEF Begin, project, results
<1>2. Grows
  BY <1>1, GrowsSame
<1> DEFINE at == IF y.op \in Leased THEN "acquire" ELSE "first"
<1>3. /\ at \in Places /\ Placed(at, y)
      /\ pc' = [pc EXCEPT ![c] = at] /\ cycle' = [cycle EXCEPT ![c] = y]
  BY DEF Begin, Places, Placed
<1>4. y \in CycleRecord
  BY DEF Sound
<1> HIDE DEF at
<1>5. Standing'
  BY <1>1, <1>2, <1>3, <1>4, OneMoves, StandingSame
<1> QED
  BY <1>1, <1>5, Parts DEF ResultsOK

\* apply_transition carries a request of a cycle out.
LEMMA Applied ==
  ASSUME IInv, NEW c \in Callers, pc[c] # "idle", NEW r, RequestOK(r),
         NEW next \in Places, audits' = audits, blocks \subseteq blocks',
         Apply(c, r, next),
         next = "release" => cycle[c].op \in Leased,
         next = "second" =>
           /\ cycle[c].second
           /\ cycle[c].op = "redispatch" => r.type = "BLOCKER_RESOLVED",
         r.type = "TASK_DISPATCHED" =>
           /\ r.attempt = cycle[c].of + 1
           /\ cycle[c].of \in Attempts
           /\ cycle[c].op = "redispatch" /\ Resolved(cycle[c])
           /\ r.revision = dispatched[cycle[c].of].revision,
         r.type = "DELIVERY_ACCEPTED" => \E x \in audits : x.verdict = "pass",
         r.type = "DELIVERY_RETURNED" => \E x \in audits : x.verdict = "fail"
  PROVE  Standing'
<1>1. /\ ledger \in LedgerTask /\ CurrentIsLast
      /\ verdicts \subseteq [of : Nat, type : Answers]
  BY DEF IInv, Typed
<1>2. Applies(r) /\ ledger' = T!Mutated(ledger, r)
  BY DEF Apply
<1>3. verdicts \subseteq verdicts'
  BY DEF Apply
<1>4. Sound(cycle[c], audits, blocks, ledger.attempt, verdicts)
  BY DEF IInv, CyclesSound
<1>5. /\ ledger' \in LedgerTask /\ dispatched' \in [Attempts -> DispatchRecord]
      /\ CurrentIsLast' /\ NothingAhead' /\ EscalatesLast' /\ Grows
  <2>1. CASE r.type = "TASK_DISPATCHED"
    <3> DEFINE kind == cycle[c].kind
    <3>1. DispatchedBy("redispatch", kind, r)
      BY <2>1 DEF Apply
    <3>2. kind \in Agents /\ \E k \in blocks : MayEscalate(k) /\ kind = Progression[k]
      BY <1>4, <2>1 DEF Sound, CycleRecord
    <3>3. r.attempt = ledger.attempt + 1 /\ ledger.attempt \in Nat
      BY <1>1, <1>2, <2>1, Moves DEF LedgerTask
    <3>4. r.attempt - 1 = cycle[c].of /\ cycle[c].of = ledger.attempt
      BY <2>1, <3>3 DEF Attempts
    <3>5. BlockedBy(verdicts, ledger.attempt)
      BY <1>4, <2>1, <3>4 DEF Sound
    <3>6. /\ r.attempt - 1 \in Attempts
          /\ BlockedBy(verdicts, r.attempt - 1)
          /\ r.revision = dispatched[r.attempt - 1].revision
      BY <2>1, <3>4, <3>5
    <3> HIDE DEF kind
    <3> QED
      BY <1>2, <1>3, <2>1, <3>1, <3>2, <3>6, ChangeDispatched
  <2>2. CASE r.type # "TASK_DISPATCHED"
    <3>1. dispatched' = dispatched
      BY <2>2 DEF Apply
    <3> QED
      BY <1>2, <1>3, <2>2, <3>1, ChangeKept
  <2> QED
    BY <2>1, <2>2
<1>6. /\ verdicts' \subseteq [of : Nat, type : Answers]
      /\ Settled' /\ BlockedHas' /\ VerdictCarriedOut'
  <2>1. CASE r.type \in Answers
    <3>1. verdicts' = verdicts \cup {[of |-> ledger.attempt, type |-> r.type]}
      BY <2>1 DEF Apply
    <3>2. [of |-> ledger.attempt, type |-> r.type] \in [of : Nat, type : Answers]
      BY <1>1, <2>1 DEF LedgerTask
    <3>3. Settled' /\ BlockedHas' /\ VerdictCarriedOut'
      BY <1>2, <2>1, <3>1, VerdictCounts
    <3> QED
      BY <1>1, <3>1, <3>2, <3>3
  <2>2. CASE r.type \notin Answers
    <3>1. verdicts' = verdicts
      BY <2>2 DEF Apply
    <3> QED
      BY <1>1, <1>2, <2>2, <3>1, VerdictsStay
  <2> QED
    BY <2>1, <2>2
<1>7. /\ pc' \in [Callers -> Places]
      /\ cycle' \in [Callers -> CycleRecord \cup {NoCycle}]
      /\ CyclesSound'
  <2> DEFINE e == T!EventOf(r, ledger)
  <2>1. r.to \in T!States /\ r.from \in T!States
    BY ToStates DEF RequestOK
  <2>2. e \in Event /\ e.type = r.type
    BY <1>1, <2>1 DEF T!EventOf, Event, RequestOK, LedgerTask
  <2>3. Goes(c, next, {e})
    BY DEF Apply
  <2>4. r.type = "BLOCKER_RESOLVED" => BlockedBy(verdicts', ledger'.attempt)
    <3> SUFFICES ASSUME r.type = "BLOCKER_RESOLVED"
                 PROVE  BlockedBy(verdicts', ledger'.attempt)
      OBVIOUS
    <3>1. ledger'.attempt = ledger.attempt /\ ledger.state \in T!From[r.type]
      BY <1>1, <1>2, Moves
    <3>2. ledger.state = "blocked"
      BY <3>1 DEF T!From
    <3>3. BlockedBy(verdicts, ledger.attempt)
      BY <3>2 DEF IInv, BlockedHas
    <3> QED
      BY <1>3, <3>1, <3>3 DEF BlockedBy
  <2> HIDE DEF e
  <2> QED
    BY <1>5, <2>2, <2>3, <2>4, GoesOn
<1> QED
  BY <1>5, <1>6, <1>7 DEF Standing

\* apply_transition finds that it has carried the request out before.
LEMMA ReplayedKept ==
  ASSUME IInv, NEW c \in Callers, pc[c] # "idle", NEW r, NEW next \in Places,
         audits' = audits, blocks \subseteq blocks', Replayed(c, r, next),
         next = "release" => cycle[c].op \in Leased,
         next = "second" =>
           /\ cycle[c].second
           /\ cycle[c].op = "redispatch" => r.type = "BLOCKER_RESOLVED"
  PROVE  Standing'
<1>1. /\ ledger' = ledger /\ dispatched' = dispatched /\ verdicts' = verdicts
      /\ Goes(c, next, {})
  BY DEF Replayed, project
<1>2. Grows
  BY <1>1, GrowsSame
<1>3. {} \in SUBSET Event /\ ~\E e \in {} : e.type = "BLOCKER_RESOLVED"
  OBVIOUS
<1>4. T!EventOf(r, ledger) \in cycle[c].made /\ T!EventOf(r, ledger).type = r.type
  BY DEF Replayed, T!EventOf
<1>5. next = "second" =>
        /\ cycle[c].second
        /\ cycle[c].op = "redispatch" =>
             \E e \in cycle[c].made \cup {} : e.type = "BLOCKER_RESOLVED"
  BY <1>4
<1>6. /\ pc' \in [Callers -> Places]
      /\ cycle' \in [Callers -> CycleRecord \cup {NoCycle}]
      /\ CyclesSound'
  BY <1>1, <1>2, <1>3, <1>5, GoesOn
<1> QED
  BY <1>1, <1>6, StandingSame

-----------------------------------------------------------------------------
(* The actions. *)

\* The cycle that an operation begins is sound if its validation is.
LEMMA Validated ==
  ASSUME NEW op \in DOMAIN First, NEW a \in Nat, NEW revision \in Nat,
         NEW from \in T!States, NEW valid \in BOOLEAN, NEW kind \in Agents,
         NEW second \in BOOLEAN,
         second => op \in DOMAIN Second,
         op \in Quiescent => from \notin Running,
         op \notin Quiescent => a \in Attempts /\ a <= ledger.attempt,
         op = "accept" => \E x \in audits : x.verdict = "pass",
         op = "remediate" => \E x \in audits : x.verdict = "fail",
         op = "block" => from = "review_ready",
         op = "redispatch" =>
           \E k \in blocks : MayEscalate(k) /\ kind = Progression[k]
  PROVE  Sound(Cycle(op, a, revision, from, valid, kind, second), audits,
               blocks, ledger.attempt, verdicts)
<1> DEFINE y == Cycle(op, a, revision, from, valid, kind, second)
<1>1. y = [op |-> op, of |-> a, revision |-> revision, from |-> from,
           valid |-> valid, kind |-> kind, second |-> second, made |-> {}]
  BY DEF Cycle
<1>2. {} \in SUBSET Event
  OBVIOUS
<1> HIDE DEF y
<1>3. y \in CycleRecord
  BY <1>1, <1>2 DEF CycleRecord
<1>4. ~Resolved(y)
  BY <1>1 DEF Resolved
<1>5. Sound(y, audits, blocks, ledger.attempt, verdicts)
  BY <1>1, <1>3, <1>4 DEF Sound
<1> QED
  BY <1>5 DEF y

\* What the operations know of a delivery.
LEMMA KnownResults ==
  ASSUME IInv, NEW a \in Delivered
  PROVE  /\ a \in Attempts
         /\ a \in Nat
         /\ a <= ledger.attempt
         /\ dispatched[a].revision \in Nat
         /\ Revisions(a) \subseteq Nat
<1>1. a \in Attempts /\ a \in Nat /\ dispatched[a].delivered
  BY DEF Delivered, Attempts
<1>2. ledger \in LedgerTask /\ dispatched[a] \in DispatchRecord
  BY <1>1 DEF IInv, Typed
<1>3. a <= ledger.attempt
  BY <1>1, <1>2 DEF IInv, NothingAhead, NoDispatch, LedgerTask
<1> QED
  BY <1>1, <1>2, <1>3 DEF DispatchRecord, LedgerTask, Revisions

\* Every operation begins a sound cycle.
LEMMA SomeBegins ==
  ASSUME IInv, NEW c \in Callers,
         \/ AcceptPassed(c) \/ Remediate(c) \/ Block(c) \/ Redispatch(c)
         \/ Rescope(c) \/ CancelBlocked(c) \/ IntegrationFailed(c) \/ Complete(c)
         \/ StopQuiescent(c)
  PROVE  \E y : Sound(y, audits, blocks, ledger.attempt, verdicts) /\ Begin(c, y)
<1>0. /\ {"review_ready", "blocked", "accepted"} \subseteq T!States
      /\ {"accept", "remediate", "block", "redispatch", "rescope", "cancelBlocked",
          "fail", "complete", "cancel", "supersede"} = DOMAIN First
      /\ {"accept", "remediate", "redispatch"} = DOMAIN Second
      /\ Quiescent = {"cancel", "supersede"}
      /\ 0 \in Nat
      /\ "none" \in Agents
  BY DEF T!States, First, Second, Quiescent, Agents
<1> DEFINE Begun(op, a, revision, from, valid, kind, second) ==
             Begin(c, Cycle(op, a, revision, from, valid, kind, second))
<1>1. CASE AcceptPassed(c)
  <2>1. PICK a \in Delivered, second \in BOOLEAN : \E revision \in Revisions(a) :
          /\ Audited("pass")
          /\ Begun("accept", a, revision, "review_ready", FALSE, "none", second)
    BY <1>1 DEF AcceptPassed
  <2>2. PICK revision \in Nat :
          Begun("accept", a, revision, "review_ready", FALSE, "none", second)
    BY <2>1, KnownResults
  <2>3. \E x \in audits : x.verdict = "pass"
    BY <2>1 DEF Audited
  <2> QED
    BY <1>0, <2>2, <2>3, KnownResults, Validated
<1>2. CASE Remediate(c)
  <2>1. PICK a \in Delivered : \E revision \in Revisions(a) :
          /\ Audited("fail")
          /\ Begun("remediate", a, revision, "review_ready", FALSE, "none", TRUE)
    BY <1>2 DEF Remediate
  <2>2. PICK revision \in Nat :
          Begun("remediate", a, revision, "review_ready", FALSE, "none", TRUE)
    BY <2>1, KnownResults
  <2>3. \E x \in audits : x.verdict = "fail"
    BY <2>1 DEF Audited
  <2> QED
    BY <1>0, <2>2, <2>3, KnownResults, Validated
<1>3. CASE Block(c)
  <2>1. PICK a \in Delivered, valid \in BOOLEAN : \E revision \in Revisions(a) :
          Begun("block", a, revision, "review_ready", valid, "none", FALSE)
    BY <1>3 DEF Block
  <2>2. PICK revision \in Nat :
          Begun("block", a, revision, "review_ready", valid, "none", FALSE)
    BY <2>1, KnownResults
  <2> QED
    BY <1>0, <2>2, KnownResults, Validated
<1>4. CASE Redispatch(c)
  <2>1. PICK kind \in blocks, a \in Delivered : \E revision \in Revisions(a) :
          /\ MayEscalate(kind)
          /\ Begun("redispatch", a, revision, "blocked", FALSE,
                   Progression[kind], TRUE)
    BY <1>4 DEF Redispatch
  <2>2. PICK revision \in Nat :
          Begun("redispatch", a, revision, "blocked", FALSE, Progression[kind],
                TRUE)
    BY <2>1, KnownResults
  <2>3. MayEscalate(kind)
    BY <2>1
  <2>4. Progression[kind] \in Agents
    BY <2>3 DEF MayEscalate, Progression, Agents
  <2> QED
    BY <1>0, <2>2, <2>3, <2>4, KnownResults, Validated
<1>5. CASE Rescope(c)
  <2>1. PICK a \in Delivered :
          Begun("rescope", a, dispatched[a].revision, "blocked", FALSE, "none",
                FALSE)
    BY <1>5 DEF Rescope
  <2> QED
    BY <1>0, <2>1, KnownResults, Validated
<1>6. CASE CancelBlocked(c)
  <2>1. PICK a \in Delivered :
          Begun("cancelBlocked", a, dispatched[a].revision, "blocked", FALSE,
                "none", FALSE)
    BY <1>6 DEF CancelBlocked
  <2> QED
    BY <1>0, <2>1, KnownResults, Validated
<1>7. CASE IntegrationFailed(c)
  <2>1. PICK a \in Delivered : \E revision \in Revisions(a) :
          Begun("fail", a, revision, "accepted", TRUE, "none", FALSE)
    BY <1>7 DEF IntegrationFailed
  <2>2. PICK revision \in Nat :
          Begun("fail", a, revision, "accepted", TRUE, "none", FALSE)
    BY <2>1, KnownResults
  <2> QED
    BY <1>0, <2>2, KnownResults, Validated
<1>8. CASE Complete(c)
  <2>1. PICK a \in Delivered :
          Begun("complete", a, dispatched[a].revision, "accepted", FALSE,
                "none", FALSE)
    BY <1>8 DEF Complete
  <2> QED
    BY <1>0, <2>1, KnownResults, Validated
<1>9. CASE StopQuiescent(c)
  <2>1. PICK op \in Quiescent :
          /\ Stoppable
          /\ Begun(op, None, ledger.revision, ledger.state, FALSE, "none", FALSE)
    BY <1>9 DEF StopQuiescent
  <2>2. /\ ledger.revision \in Nat /\ ledger.state \in T!States
        /\ ledger.state \notin Running
    BY <2>1 DEF IInv, Typed, LedgerTask, CurrentIsLast, Stoppable
  <2>3. None \in Nat
    BY <1>0 DEF None
  <2> QED
    BY <1>0, <2>1, <2>2, <2>3, Validated
<1> QED
  BY <1>1, <1>2, <1>3, <1>4, <1>5, <1>6, <1>7, <1>8, <1>9

\* A transition made at once, by a worker or the one that specifies the task.
LEMMA MadeNow ==
  ASSUME IInv, NEW type \in Types \ {"TASK_BLOCKED"}, Now(type)
  PROVE  \E r : /\ RequestOK(r) /\ Applies(r) /\ ledger' = T!Mutated(ledger, r)
                /\ r.type = type
                /\ r.to \in T!To[type]
<1>1. PICK to \in T!To[type] :
        LET r == Request(type, ledger.revision, ledger.state, to,
                         ledger.dispatch, ledger.attempt, FALSE)
        IN  Applies(r) /\ ledger' = T!Mutated(ledger, r)
  BY DEF Now
<1> DEFINE r == Request(type, ledger.revision, ledger.state, to, ledger.dispatch,
                        ledger.attempt, FALSE)
<1>2. Applies(r) /\ ledger' = T!Mutated(ledger, r)
  BY <1>1
<1>3. r = [type |-> type, id |-> 0, head |-> 0, revision |-> ledger.revision,
           from |-> ledger.state, to |-> to, dispatch |-> ledger.dispatch,
           attempt |-> ledger.attempt, valid |-> FALSE,
           commit |-> ledger.dispatch,
           review |-> IF type = "DELIVERY_ACCEPTED" THEN 1 ELSE 0]
  BY DEF Request, None
<1> HIDE DEF r
<1>4. ledger \in LedgerTask
  BY DEF IInv, Typed
<1>5. type = "TASK_DISPATCHED" => r.dispatch = r.attempt
  <2> SUFFICES ASSUME type = "TASK_DISPATCHED" PROVE FALSE
    BY DEF LedgerTask
  <2>1. r.attempt = ledger.attempt + 1
    BY <1>2, <1>3 DEF Applies, T!PayloadFits
  <2> QED
    BY <1>3, <1>4, <2>1 DEF LedgerTask
<1>6. RequestOK(r)
  BY <1>3, <1>4, <1>5 DEF RequestOK, LedgerTask
<1> QED
  BY <1>2, <1>3, <1>6

\* The task moves outside the cycles.
LEMMA MovedOutside ==
  ASSUME IInv, NEW r, RequestOK(r), Applies(r), ledger' = T!Mutated(ledger, r),
         ledger' \in LedgerTask, dispatched' \in [Attempts -> DispatchRecord],
         CurrentIsLast', NothingAhead', EscalatesLast', Grows,
         r.type \notin Answers, verdicts' = verdicts, pc' = pc, cycle' = cycle,
         UNCHANGED results
  PROVE  IInv'
<1>1. audits' = audits /\ accepted' = accepted /\ blocks' = blocks
  BY DEF results
<1>2. Settled' /\ BlockedHas' /\ VerdictCarriedOut'
  BY <1>1, VerdictsStay
<1>3. CyclesSound'
  BY OthersSound
<1>4. Standing'
  BY <1>2, <1>3, Parts DEF Standing
<1> QED
  BY <1>1, <1>4, Parts DEF ResultsOK

\* The task is specified.
LEMMA SpecifyStep ==
  ASSUME IInv, Specify
  PROVE  IInv'
<1>1. "TASK_SPECIFIED" \in Types \ {"TASK_BLOCKED"}
  BY DEF Types, T!From
<1>2. PICK r : /\ RequestOK(r) /\ Applies(r) /\ ledger' = T!Mutated(ledger, r)
               /\ r.type = "TASK_SPECIFIED"
  BY <1>1, MadeNow DEF Specify
<1>3. /\ audits' = audits /\ blocks' = blocks /\ verdicts' = verdicts
      /\ dispatched' = dispatched
  BY DEF Specify, results
<1>4. /\ ledger' \in LedgerTask /\ dispatched' \in [Attempts -> DispatchRecord]
      /\ CurrentIsLast' /\ NothingAhead' /\ EscalatesLast' /\ Grows
  BY <1>2, <1>3, ChangeKept
<1>5. r.type \notin Answers
  BY <1>2 DEF Answers
<1> QED
  BY <1>2, <1>4, <1>5, MovedOutside DEF Specify

\* The worker's transitions.
LEMMA WorkStep ==
  ASSUME IInv, Work
  PROVE  IInv'
<1>1. PICK type \in {"DISPATCH_ACKNOWLEDGED", "DELIVERY_SUBMITTED", "DISPATCH_FAILED"} :
        /\ Now(type)
        /\ dispatched' = [dispatched EXCEPT ![ledger.attempt].delivered =
                            type = "DELIVERY_SUBMITTED"]
  BY DEF Work
<1>2. type \in Types \ {"TASK_BLOCKED"} /\ type # "TASK_DISPATCHED"
  BY DEF Types, T!From
<1>3. PICK r : /\ RequestOK(r) /\ Applies(r) /\ ledger' = T!Mutated(ledger, r)
               /\ r.type = type
  BY <1>1, <1>2, MadeNow
<1>4. audits' = audits /\ blocks' = blocks /\ verdicts' = verdicts
  BY DEF Work, results
<1>5. \E b \in BOOLEAN :
        dispatched' = [dispatched EXCEPT ![ledger.attempt].delivered = b]
  BY <1>1
<1>6. /\ ledger' \in LedgerTask /\ dispatched' \in [Attempts -> DispatchRecord]
      /\ CurrentIsLast' /\ NothingAhead' /\ EscalatesLast' /\ Grows
  BY <1>2, <1>3, <1>4, <1>5, ChangeKept
<1>7. r.type \notin Answers
  BY <1>3 DEF Answers
<1> QED
  BY <1>3, <1>6, <1>7, MovedOutside DEF Work

\* A dispatch of its own.
LEMMA DispatchStep ==
  ASSUME IInv, Dispatch
  PROVE  IInv'
<1> DEFINE next == ledger.attempt + 1
           r == Request("TASK_DISPATCHED", ledger.revision, ledger.state,
                        "dispatched", next, next, FALSE)
<1>1. /\ Applies(r) /\ ledger' = T!Mutated(ledger, r)
      /\ \E kind \in Kinds : DispatchedBy("dispatch", kind, r)
  BY DEF Dispatch
<1>2. r = [type |-> "TASK_DISPATCHED", id |-> 0, head |-> 0,
           revision |-> ledger.revision, from |-> ledger.state,
           to |-> "dispatched", dispatch |-> next, attempt |-> next,
           valid |-> FALSE, commit |-> next, review |-> 0]
  BY DEF Request, None
<1>3. ledger \in LedgerTask /\ next \in Nat
  BY DEF IInv, Typed, LedgerTask
<1>4. "TASK_DISPATCHED" \in Types /\ "dispatched" \in T!To["TASK_DISPATCHED"]
  BY DEF Types, T!From, T!To
<1> HIDE DEF next, r
<1>5. RequestOK(r) /\ r.type = "TASK_DISPATCHED"
  BY <1>2, <1>3, <1>4 DEF RequestOK, LedgerTask
<1>6. PICK kind \in Kinds : DispatchedBy("dispatch", kind, r)
  BY <1>1
<1>7. kind \in Agents
  BY CyclesAssumption DEF Agents
<1>8. audits' = audits /\ blocks' = blocks /\ verdicts' = verdicts
  BY DEF Dispatch, results
<1>9. /\ ledger' \in LedgerTask /\ dispatched' \in [Attempts -> DispatchRecord]
      /\ CurrentIsLast' /\ NothingAhead' /\ EscalatesLast' /\ Grows
  <2> DEFINE by == "dispatch"
  <2>1. by \in {"dispatch", "redispatch"} /\ by # "redispatch"
        /\ DispatchedBy(by, kind, r)
    BY <1>6
  <2> HIDE DEF by
  <2> QED
    BY <1>1, <1>5, <1>7, <1>8, <2>1, ChangeDispatched
<1>10. r.type \notin Answers
  BY <1>5 DEF Answers
<1> QED
  BY <1>1, <1>5, <1>9, <1>10, MovedOutside DEF Dispatch

\* A delivery is audited.
LEMMA AuditStep ==
  ASSUME IInv, Audit
  PROVE  IInv'
<1>1. PICK a \in Delivered, verdict \in {"pass", "fail", "blocked"} :
        audits' = audits \cup {[of |-> a, verdict |-> verdict]}
  BY DEF Audit
<1>2. /\ ledger' = ledger /\ dispatched' = dispatched /\ verdicts' = verdicts
      /\ accepted' = accepted /\ blocks' = blocks /\ pc' = pc /\ cycle' = cycle
      /\ audits \subseteq audits'
  BY <1>1 DEF Audit, project
<1>3. Standing /\ ResultsOK
  BY Parts
<1>4. a \in Attempts /\ a \in Nat /\ ledger.attempt \in Nat
  BY <1>3 DEF Delivered, Attempts, Standing, LedgerTask
<1>5. a <= ledger.attempt
  BY <1>3, <1>4 DEF Delivered, NothingAhead, NoDispatch, Standing
<1>6. /\ audits' \subseteq [of : Attempts, verdict : {"pass", "fail", "blocked"}]
      /\ \A x \in audits' : x.of <= ledger.attempt
  BY <1>1, <1>3, <1>4, <1>5 DEF ResultsOK, Standing, NothingAhead
<1>7. CyclesSound'
  BY <1>2, GrowsSame, OthersSound
<1>8. CurrentIsLast' /\ NothingAhead' /\ Settled' /\ BlockedHas'
  BY <1>2, <1>3, <1>6 DEF Standing, CurrentIsLast, NothingAhead, Settled, BlockedHas
<1>9. VerdictCarriedOut' /\ EscalatesLast'
  BY <1>2, <1>3 DEF Standing, VerdictCarriedOut, EscalatesLast
<1>10. Standing'
  BY <1>2, <1>3, <1>7, <1>8, <1>9 DEF Standing
<1>11. ResultsOK'
  BY <1>2, <1>3, <1>6 DEF ResultsOK
<1> QED
  BY <1>10, <1>11, Parts

\* A caller that moves without a transition and keeps its cycle.
LEMMA MovesAlone ==
  ASSUME IInv, UNCHANGED project, UNCHANGED results, cycle' = cycle,
         NEW c \in Callers, NEW at \in Places, at \notin {"release", "second"},
         pc[c] # "idle" \/ cycle[c] # NoCycle, pc' = [pc EXCEPT ![c] = at]
  PROVE  IInv'
<1>1. /\ ledger' = ledger /\ dispatched' = dispatched /\ verdicts' = verdicts
      /\ audits' = audits /\ accepted' = accepted /\ blocks' = blocks
      /\ Grows
  BY GrowsSame DEF project, results
<1>2. cycle \in [Callers -> CycleRecord \cup {NoCycle}]
  BY DEF IInv, Typed
<1>3. cycle' = [cycle EXCEPT ![c] = cycle[c]]
  BY <1>2
<1>4. Sound(cycle[c], audits', blocks', ledger'.attempt, verdicts')
  BY <1>1 DEF IInv, CyclesSound
<1>5. cycle[c] \in CycleRecord /\ Placed(at, cycle[c])
  BY <1>4 DEF Sound, Placed
<1>6. Standing'
  BY <1>1, <1>3, <1>4, <1>5, OneMoves, StandingSame
<1> QED
  BY <1>1, <1>6, Parts DEF ResultsOK

\* The steps of a cycle that make no transition.
LEMMA QuietStep ==
  ASSUME IInv, NEW c \in Callers, Retry(c) \/ Acquire(c) \/ Stop(c)
  PROVE  IInv'
<1>1. UNCHANGED project /\ UNCHANGED results /\ cycle' = cycle
      /\ (pc[c] # "idle" \/ cycle[c] # NoCycle)
  BY DEF Retry, Acquire, Stop
<1>2. \E at \in Places : at \notin {"release", "second"} /\ pc' = [pc EXCEPT ![c] = at]
  BY DEF Retry, Acquire, Stop, Places
<1> QED
  BY <1>1, <1>2, MovesAlone

\* The time of a slot is over.
LEMMA SlotEndsStep ==
  ASSUME IInv, SlotEnds
  PROVE  IInv'
BY DEF SlotEnds, project, results, IInv, Typed, CurrentIsLast, NothingAhead,
       Settled, BlockedHas, CyclesSound, VerdictCarriedOut, EscalatesLast

\* The first transition of a cycle.
LEMMA ApplyFirstStep ==
  ASSUME IInv, NEW c \in Callers, ApplyFirst(c)
  PROVE  IInv'
<1> DEFINE y == cycle[c]
           next == IF y.op \in Leased THEN "release"
                   ELSE IF y.second THEN "second" ELSE "idle"
           r == FirstRequest(y)
<1>1. /\ pc[c] = "first" /\ audits' = audits /\ accepted' = accepted
      /\ Apply(c, r, next) \/ Replayed(c, r, next)
  BY DEF ApplyFirst
<1>2. /\ Sound(y, audits, blocks, ledger.attempt, verdicts)
      /\ y \in CycleRecord
      /\ y.op = "block" => y.from = "review_ready"
  BY <1>1 DEF IInv, CyclesSound, Sound
<1>3. /\ next \in Places /\ (next = "second" => y.second)
      /\ next = "release" => y.op \in Leased
  BY DEF Places
<1>4. /\ RequestOK(r) /\ r.type = First[y.op] /\ r.type # "TASK_DISPATCHED"
  BY <1>2, FirstBuilt
<1>5. /\ r.type = "DELIVERY_ACCEPTED" => y.op = "accept"
      /\ r.type = "DELIVERY_RETURNED" => y.op = "remediate"
      /\ y.op = "redispatch" => r.type = "BLOCKER_RESOLVED"
  BY <1>2, <1>4 DEF First, CycleRecord
<1>6. /\ r.type = "DELIVERY_ACCEPTED" => \E x \in audits : x.verdict = "pass"
      /\ r.type = "DELIVERY_RETURNED" => \E x \in audits : x.verdict = "fail"
  BY <1>2, <1>5 DEF Sound
<1>7. blocks \subseteq blocks' /\ ResultsOK'
  <2>1. ResultsOK
    BY Parts
  <2>2. CASE y.op = "block"
    <3>1. blocks' = blocks \cup {dispatched[y.of].kind}
      BY <2>2 DEF ApplyFirst
    <3>2. y.of \in Attempts
      BY <1>2, <2>2 DEF Sound, Quiescent
    <3>3. dispatched[y.of].kind \in Agents
      BY <3>2 DEF IInv, Typed, DispatchRecord
    <3> QED
      BY <1>1, <2>1, <3>1, <3>3 DEF ResultsOK
  <2>3. CASE y.op # "block"
    <3>1. blocks' = blocks
      BY <2>3 DEF ApplyFirst
    <3> QED
      BY <1>1, <2>1, <3>1 DEF ResultsOK
  <2> QED
    BY <2>2, <2>3
<1>8. Standing'
  <2> HIDE DEF r, next
  <2>1. CASE Apply(c, r, next)
    BY <1>1, <1>3, <1>4, <1>5, <1>6, <1>7, <2>1, Applied
  <2>2. CASE Replayed(c, r, next)
    BY <1>1, <1>3, <1>5, <1>7, <2>2, ReplayedKept
  <2> QED
    BY <1>1, <2>1, <2>2
<1> QED
  BY <1>7, <1>8, Parts

\* The slot is released.
LEMMA ReleaseStep ==
  ASSUME IInv, NEW c \in Callers, Release(c)
  PROVE  IInv'
<1> DEFINE y == cycle[c]
           next == IF y.second THEN "second" ELSE "idle"
<1>1. /\ pc[c] = "release" /\ Goes(c, next, {})
      /\ ledger' = ledger /\ dispatched' = dispatched /\ verdicts' = verdicts
      /\ audits' = audits /\ blocks' = blocks
      /\ accepted' = (accepted \/ (y.op = "accept" /\ ~y.second))
  BY DEF Release, project
<1>2. /\ next \in Places /\ next # "release" /\ (next = "second" => y.second)
      /\ {} \in SUBSET Event /\ ~\E e \in {} : e.type = "BLOCKER_RESOLVED"
  BY DEF Places
<1>3. y.op # "redispatch"
  BY <1>1 DEF IInv, CyclesSound, Leased
<1>4. Grows
  BY <1>1, GrowsSame
<1>5. Standing'
  <2> HIDE DEF next
  <2>1. /\ pc' \in [Callers -> Places]
        /\ cycle' \in [Callers -> CycleRecord \cup {NoCycle}]
        /\ CyclesSound'
    BY <1>1, <1>2, <1>3, <1>4, GoesOn
  <2> QED
    BY <1>1, <2>1, StandingSame
<1>6. ResultsOK'
  BY <1>1, Parts DEF ResultsOK
<1> QED
  BY <1>5, <1>6, Parts

\* The second transition of a cycle.
LEMMA ApplySecondStep ==
  ASSUME IInv, NEW c \in Callers, ApplySecond(c)
  PROVE  IInv'
<1> DEFINE y == cycle[c]
           r == SecondRequest(y)
           next == "idle"
<1>1. /\ pc[c] = "second" /\ UNCHANGED results
      /\ Apply(c, r, next) \/ Replayed(c, r, next)
  BY DEF ApplySecond
<1>2. /\ Sound(y, audits, blocks, ledger.attempt, verdicts)
      /\ y \in CycleRecord
      /\ y.op \in DOMAIN Second /\ y.of \in Attempts
      /\ y.op = "redispatch" => Resolved(y)
  BY <1>1 DEF IInv, CyclesSound, Sound, Second, Quiescent
<1>3. dispatched \in [Attempts -> DispatchRecord]
  BY DEF IInv, Typed
<1>4. /\ RequestOK(r) /\ r.type = Second[y.op]
      /\ y.op = "redispatch" => /\ r.attempt = y.of + 1
                                /\ r.revision = dispatched[y.of].revision
  BY <1>2, <1>3, SecondBuilt
<1>5. /\ r.type = "TASK_DISPATCHED" => y.op = "redispatch"
      /\ r.type \notin {"DELIVERY_ACCEPTED", "DELIVERY_RETURNED"}
  BY <1>2, <1>4 DEF Second
<1>6. r.type = "TASK_DISPATCHED" =>
        /\ r.attempt = y.of + 1
        /\ y.of \in Attempts
        /\ y.op = "redispatch" /\ Resolved(y)
        /\ r.revision = dispatched[y.of].revision
  BY <1>2, <1>4, <1>5
<1>7. /\ next \in Places /\ next \notin {"release", "second"}
      /\ audits' = audits /\ accepted' = accepted /\ blocks' = blocks
  BY <1>1 DEF Places, results
<1> HIDE DEF r, next
<1>8. Standing'
  <2>1. CASE Apply(c, r, next)
    BY <1>1, <1>4, <1>5, <1>6, <1>7, <2>1, Applied
  <2>2. CASE Replayed(c, r, next)
    BY <1>1, <1>7, <2>2, ReplayedKept
  <2> QED
    BY <1>1, <2>1, <2>2
<1> QED
  BY <1>7, <1>8, Parts DEF ResultsOK

-----------------------------------------------------------------------------
(* The theorems. *)

\* The invariant holds at the start.
LEMMA InitIInv ==
  Init => IInv
<1> SUFFICES ASSUME Init PROVE IInv
  OBVIOUS
<1>1. /\ ledger = T!FirstTask /\ dispatched = [a \in Attempts |-> NoDispatch]
      /\ audits = {} /\ accepted = FALSE /\ blocks = {} /\ verdicts = {}
      /\ pc = [c \in Callers |-> "idle"] /\ cycle = [c \in Callers |-> NoCycle]
  BY DEF Init
<1>2. /\ ledger \in LedgerTask /\ ledger.state \notin Running \cup {"blocked"}
      /\ ledger.dispatch = 0
  BY <1>1 DEF T!FirstTask, T!None, LedgerTask, T!States, Running
<1>3. NoDispatch \in DispatchRecord /\ NoDispatch.by = "none"
  BY DEF NoDispatch, DispatchRecord, Agents
<1>4. Typed
  BY <1>1, <1>2, <1>3 DEF Typed
<1>5. CurrentIsLast
  BY <1>2 DEF CurrentIsLast, None
<1>6. NothingAhead /\ Settled /\ BlockedHas /\ CyclesSound /\ VerdictCarriedOut
  BY <1>1, <1>2 DEF NothingAhead, Settled, BlockedHas, CyclesSound, VerdictCarriedOut
<1>7. EscalatesLast
  BY <1>1, <1>3 DEF EscalatesLast
<1> QED
  BY <1>4, <1>5, <1>6, <1>7 DEF IInv

\* Every step keeps the invariant.
LEMMA NextIInv ==
  IInv /\ [Next]_vars => IInv'
<1> SUFFICES ASSUME IInv, [Next]_vars PROVE IInv'
  OBVIOUS
<1>1. CASE Specify
  BY <1>1, SpecifyStep
<1>2. CASE Dispatch
  BY <1>2, DispatchStep
<1>3. CASE Work
  BY <1>3, WorkStep
<1>4. CASE Audit
  BY <1>4, AuditStep
<1>5. CASE SlotEnds
  BY <1>5, SlotEndsStep
<1>6. ASSUME NEW c \in Callers,
             \/ AcceptPassed(c) \/ Remediate(c) \/ Block(c) \/ Redispatch(c)
             \/ Rescope(c) \/ CancelBlocked(c) \/ IntegrationFailed(c)
             \/ Complete(c) \/ StopQuiescent(c)
      PROVE  IInv'
  <2>1. PICK y : /\ Sound(y, audits, blocks, ledger.attempt, verdicts)
                 /\ Begin(c, y)
    BY <1>6, SomeBegins
  <2> QED
    BY <2>1, Begins
<1>7. ASSUME NEW c \in Callers, Retry(c) \/ Acquire(c) \/ Stop(c)
      PROVE  IInv'
  BY <1>7, QuietStep
<1>8. ASSUME NEW c \in Callers, ApplyFirst(c)
      PROVE  IInv'
  BY <1>8, ApplyFirstStep
<1>9. ASSUME NEW c \in Callers, Release(c)
      PROVE  IInv'
  BY <1>9, ReleaseStep
<1>10. ASSUME NEW c \in Callers, ApplySecond(c)
       PROVE  IInv'
  BY <1>10, ApplySecondStep
<1>11. CASE UNCHANGED vars
  BY <1>11 DEF vars, results, IInv, Typed, CurrentIsLast, NothingAhead, Settled,
               BlockedHas, CyclesSound, VerdictCarriedOut, EscalatesLast
<1> QED
  BY <1>1, <1>2, <1>3, <1>4, <1>5, <1>6, <1>7, <1>8, <1>9, <1>10, <1>11 DEF Next

\* A transition that ends the task for good starts from a state in which no
\* worker runs and no delivery waits.
LEMMA EndsFromQuiet ==
  ASSUME IInv, NEW r, RequestOK(r), Applies(r), ledger' = T!Mutated(ledger, r),
         ledger'.state \in {"cancelled", "superseded"},
         r.type \in Types \ {"TASK_CANCELLED", "TASK_SUPERSEDED"} \/ r.from \notin Running
  PROVE  ledger.state \notin Running
<1>1. ledger \in LedgerTask
  BY DEF IInv, Typed
<1>2. ledger'.state = r.to /\ r.from = ledger.state
  BY <1>1, Moves DEF IInv
<1>3. CASE r.from \notin Running
  BY <1>2, <1>3
<1>4. CASE r.type \in Types \ {"TASK_CANCELLED", "TASK_SUPERSEDED"}
  <2>1. r.type = "BLOCKER_CANCELLED"
    BY <1>2, <1>4, ToStates DEF RequestOK
  <2>2. ledger.state \in T!From["BLOCKER_CANCELLED"]
    BY <2>1 DEF Applies, T!CAS
  <2> QED
    BY <2>2 DEF T!From, Running
<1> QED
  BY <1>3, <1>4

\* No step ends the task while a worker may run.
LEMMA NextNeverCancels ==
  ASSUME IInv, [Next]_vars, ledger'.state \in {"cancelled", "superseded"},
         ledger' # ledger
  PROVE  ledger.state \notin Running
<1>1. ASSUME NEW type \in Types \ {"TASK_BLOCKED", "TASK_CANCELLED", "TASK_SUPERSEDED"},
             Now(type)
      PROVE  ledger.state \notin Running
  BY <1>1, MadeNow, EndsFromQuiet
<1>2. CASE Specify
  <2>1. "TASK_SPECIFIED" \in
          Types \ {"TASK_BLOCKED", "TASK_CANCELLED", "TASK_SUPERSEDED"}
    BY DEF Types, T!From
  <2> QED
    BY <1>1, <1>2, <2>1 DEF Specify
<1>3. CASE Work
  <2>1. {"DISPATCH_ACKNOWLEDGED", "DELIVERY_SUBMITTED", "DISPATCH_FAILED"}
          \subseteq Types \ {"TASK_BLOCKED", "TASK_CANCELLED", "TASK_SUPERSEDED"}
    BY DEF Types, T!From
  <2> QED
    BY <1>1, <1>3, <2>1 DEF Work
<1>4. CASE Dispatch
  <2>1. ledger.state \in T!From["TASK_DISPATCHED"]
    BY <1>4 DEF Dispatch, Applies, T!CAS, Request
  <2> QED
    BY <2>1 DEF T!From, Running
<1>5. ASSUME NEW c \in Callers, ApplyFirst(c)
      PROVE  ledger.state \notin Running
  <2> DEFINE y == cycle[c]
             r == FirstRequest(y)
  <2>1. /\ Sound(y, audits, blocks, ledger.attempt, verdicts)
        /\ y \in CycleRecord
        /\ y.op = "block" => y.from = "review_ready"
    BY <1>5 DEF ApplyFirst, IInv, CyclesSound, Sound
  <2>2. Applies(r) /\ ledger' = T!Mutated(ledger, r)
    BY <1>5 DEF ApplyFirst, Apply, Replayed, project
  <2>3. RequestOK(r) /\ r.type = First[y.op] /\ r.from = y.from
    BY <2>1, FirstBuilt
  <2>4. y.op \notin Quiescent =>
          First[y.op] \in Types \ {"TASK_CANCELLED", "TASK_SUPERSEDED"}
    BY <2>1 DEF CycleRecord, First, Quiescent, Types, T!From
  <2>5. y.op \in Quiescent => y.from \notin Running
    BY <2>1 DEF Sound
  <2> HIDE DEF y, r
  <2> QED
    BY <2>2, <2>3, <2>4, <2>5, EndsFromQuiet
<1>6. ASSUME NEW c \in Callers, ApplySecond(c)
      PROVE  ledger.state \notin Running
  <2> DEFINE y == cycle[c]
             r == SecondRequest(y)
  <2>1. /\ Sound(y, audits, blocks, ledger.attempt, verdicts)
        /\ y \in CycleRecord
        /\ y.op \in DOMAIN Second /\ y.of \in Attempts
    BY <1>6 DEF ApplySecond, IInv, CyclesSound, Sound, Second, Quiescent
  <2>2. Applies(r) /\ ledger' = T!Mutated(ledger, r)
    BY <1>6 DEF ApplySecond, Apply, Replayed, project
  <2>3. dispatched \in [Attempts -> DispatchRecord]
    BY DEF IInv, Typed
  <2>4. RequestOK(r) /\ r.type = Second[y.op]
    BY <2>1, <2>3, SecondBuilt
  <2>5. Second[y.op] \in Types \ {"TASK_CANCELLED", "TASK_SUPERSEDED"}
    BY <2>1 DEF Second, Types, T!From
  <2> HIDE DEF y, r
  <2> QED
    BY <2>2, <2>4, <2>5, EndsFromQuiet
<1>7. CASE Audit \/ SlotEnds \/ UNCHANGED vars
  BY <1>7 DEF Audit, SlotEnds, project, vars
<1>8. ASSUME NEW c \in Callers,
             \/ AcceptPassed(c) \/ Remediate(c) \/ Block(c) \/ Redispatch(c)
             \/ Rescope(c) \/ CancelBlocked(c) \/ IntegrationFailed(c)
             \/ Complete(c) \/ StopQuiescent(c)
      PROVE  FALSE
  <2>1. PICK y : Begin(c, y)
    BY <1>8, SomeBegins
  <2> QED
    BY <2>1 DEF Begin, project
<1>9. ASSUME NEW c \in Callers, Retry(c) \/ Acquire(c) \/ Stop(c) \/ Release(c)
      PROVE  FALSE
  BY <1>9 DEF Retry, Acquire, Stop, Release, project
<1> QED
  BY <1>2, <1>3, <1>4, <1>5, <1>6, <1>7, <1>8, <1>9 DEF Next

\* The invariant holds in every reachable state.
THEOREM Invariance == Spec => []IInv
BY InitIInv, NextIInv, PTL DEF Spec

\* A delivery is answered once, whoever runs which cycles again with results
\* of whatever age; only the failure of its integration comes after, and it is
\* accepted or returned on a verdict that an audit of the task gave.
THEOREM VerdictsCarriedOut == Spec => []VerdictCarriedOut
<1>1. IInv => VerdictCarriedOut
  BY DEF IInv
<1> QED
  BY <1>1, Invariance, PTL

\* A redispatch is made of the task's last attempt and revision, after that
\* attempt was blocked in the ledger, and for a kind of worker that is the next
\* one after that of some blocked delivery.
THEOREM EscalationOfLast == Spec => []EscalatesLast
<1>1. IInv => EscalatesLast
  BY DEF IInv
<1> QED
  BY <1>1, Invariance, PTL

\* No task is cancelled or superseded while its worker may run or its delivery
\* waits, although the quiescent operations look at the ledger long before
\* their transition.
THEOREM NeverCancels == Spec => NeverCancelsRunning
<1>1. IInv /\ [Next]_vars =>
        [ledger'.state \in {"cancelled", "superseded"} /\ ledger' # ledger =>
           ledger.state \notin {"dispatched", "in_progress", "review_ready"}]_vars
  BY NextNeverCancels DEF Running
<1> QED
  BY <1>1, Invariance, PTL DEF Spec, NeverCancelsRunning
=============================================================================
