------------------------------- MODULE TaskLog -------------------------------
(***************************************************************************)
(* What the ledger promises of a task to those who only read tasks.yaml:   *)
(* the Orchestrator, the scheduler, the workers and the reviewers.  The    *)
(* task moves in single steps along the edges of _TRANSITION_SPECS.  It    *)
(* has at most one dispatch at a time; each dispatch belongs to an attempt *)
(* of its own and never comes back once it is over; only the current       *)
(* dispatch is reported on; a task that has reached an end stays there.    *)
(* No lock, no request, no file and no failure is visible here:            *)
(* ControlPlaneTransition implements this specification.                   *)
(***************************************************************************)
EXTENDS Naturals

CONSTANTS
  ResumeTo,   \* the states that a blocked task may resume to
  Dispatches, \* dispatch ids
  NoDispatch  \* the task has no current dispatch

VARIABLES
  state,      \* the task's state
  revision,   \* the revision of its task card
  attempt,    \* the number of dispatches so far
  dispatch,   \* its current dispatch
  used        \* every dispatch that it ever had

logVars == <<state, revision, attempt, dispatch, used>>

Live == {"draft", "ready", "dispatched", "in_progress", "review_ready",
         "returned", "blocked", "accepted"}

\* What a worker or a reviewer says of a dispatch.
Reports ==
  {<<"dispatched", "in_progress">>, <<"in_progress", "review_ready">>,
   <<"review_ready", "accepted">>, <<"review_ready", "returned">>,
   <<"dispatched", "ready">>, <<"in_progress", "ready">>}

\* What the project manager does with the task.
Decisions ==
  {<<"draft", "ready">>, <<"returned", "ready">>, <<"accepted", "integrated">>}
    \cup (Live \X {"blocked", "cancelled", "superseded"})
    \cup ({"blocked"} \X (ResumeTo \cup {"draft"}))

Init ==
  /\ state = "draft"
  /\ revision = 1
  /\ attempt = 0
  /\ dispatch = NoDispatch
  /\ used = {}

Dispatch(d) ==
  /\ state = "ready"
  /\ dispatch = NoDispatch
  /\ d \notin used
  /\ state' = "dispatched"
  /\ attempt' = attempt + 1
  /\ dispatch' = d
  /\ used' = used \cup {d}
  /\ UNCHANGED revision

\* A report on the current dispatch, which it may bring to an end.
Report ==
  /\ dispatch # NoDispatch
  /\ <<state, state'>> \in Reports
  /\ dispatch' \in {dispatch, NoDispatch}
  /\ UNCHANGED <<revision, attempt, used>>

\* A decision, which may end the dispatch that the task has but starts none.
Decide ==
  /\ <<state, state'>> \in Decisions
  /\ dispatch' \in {dispatch, NoDispatch}
  /\ UNCHANGED <<revision, attempt, used>>

\* A blocked task gets a new revision and starts again as a draft.
Rescope ==
  /\ state = "blocked"
  /\ state' = "draft"
  /\ revision' = revision + 1
  /\ dispatch' = NoDispatch
  /\ UNCHANGED <<attempt, used>>

Next == (\E d \in Dispatches : Dispatch(d)) \/ Report \/ Decide \/ Rescope

Spec == Init /\ [][Next]_logVars
=============================================================================
