----------------------------- MODULE ApprovalGate -----------------------------
(***************************************************************************)
(* The approvals of scripts/approval_gate.py: the two writers of the       *)
(* evidence in docs/pm/approvals/ (write_grant, write_revoke) and the      *)
(* check of a gated transition (ApprovalGate.require, called by            *)
(* control_plane_transition.py inside the state lock).                     *)
(*                                                                         *)
(* An evidence file is named after its event id and holds a grant or a     *)
(* revoke.  Files are only ever added.  A caller reads its clock and the   *)
(* Git HEAD, calls, and the call makes one attempt at the state lock (an   *)
(* OS lock, gone with its holder), compares the HEAD, loads every file and *)
(* decides.  An action is a pair of a scope and a subject (task, revision, *)
(* attempt, dispatch, accepted commit); the gate compares it as a whole.   *)
(* Git history is a line: a commit is a number, an ancestor of every       *)
(* higher one, and HEAD can move both ways (git reset, git checkout).      *)
(***************************************************************************)
EXTENDS Naturals, FiniteSets

CONSTANTS
  Callers,      \* the processes that grant, revoke and apply transitions
  Actions,      \* pairs of a scope and a subject
  Approvals,    \* approval ids
  Events,       \* event ids, which are file names
  MaxClock,     \* bound: the clock stops here
  MaxHead,      \* bound: the last commit of the history
  Lifetime,     \* how long a grant that expires is good for
  NoFile,       \* there is no such file
  NoCall,       \* the caller is making no call
  NotRead,      \* the caller has loaded no evidence
  Free          \* nobody holds the state lock

ASSUME ConstantsAssumption ==
  /\ MaxClock \in Nat
  /\ MaxHead \in Nat
  /\ Lifetime \in Nat \ {0}
  /\ Free \notin Callers

\* Never: expires_at is null.  A time that no clock reaches.
Never == MaxClock + Lifetime + 1

Grant == [type : {"grant"}, id : Approvals, action : Actions, granted : Nat,
          expires : Nat, commit : Nat]
Revoke == [type : {"revoke"}, id : Approvals, revoked : Nat, commit : Nat]

ASSUME NoFileAssumption == NoFile \notin Grant \cup Revoke

\* A call: what is asked for, the `now' and the HEAD that its caller read.
Call == [op : {"grant"}, event : Events, id : Approvals, action : Actions,
         expires : Nat, now : Nat, head : Nat]
          \cup [op : {"revoke"}, event : Events, id : Approvals, now : Nat,
                head : Nat]
          \cup [op : {"use"}, action : Actions, now : Nat, head : Nat]

ASSUME NoCallAssumption == NoCall \notin Call

Evidence == [Events -> Grant \cup Revoke \cup {NoFile}]
View == [head : Nat, files : Evidence]

ASSUME NotReadAssumption == NotRead \notin View

VARIABLES
  clock,   \* UTC time
  head,    \* the Git HEAD
  files,   \* docs/pm/approvals/, by event id
  lock,    \* the holder of the state lock
  pc,      \* where each caller is
  call,    \* the call each caller is making
  seen,    \* the HEAD and the evidence that each caller read inside the lock
  used     \* history: the approvals that gated transitions went through on

vars == <<clock, head, files, lock, pc, call, seen, used>>

Init ==
  /\ clock = 0
  /\ head = 0
  /\ files = [e \in Events |-> NoFile]
  /\ lock = Free
  /\ pc = [c \in Callers |-> "idle"]
  /\ call = [c \in Callers |-> NoCall]
  /\ seen = [c \in Callers |-> NotRead]
  /\ used = {}

-----------------------------------------------------------------------------
(* Helpers of the code. *)

\* _load_evidence_store: the grants and the revokes.
Grants(fs) == {fs[e] : e \in {d \in Events : fs[d] # NoFile /\ fs[d].type = "grant"}}
Revokes(fs) == {fs[e] : e \in {d \in Events : fs[d] # NoFile /\ fs[d].type = "revoke"}}

\* The evidence _load_evidence_store accepts: no approval id is granted twice
\* or revoked twice.
Loadable(fs) ==
  \A d, e \in Events :
    /\ d # e
    /\ fs[d] # NoFile
    /\ fs[e] # NoFile
    /\ fs[d].type = fs[e].type
    => fs[d].id # fs[e].id

\* Mutated form of Revoked: a revoke counts from the second after.
RevokedLater(fs, g, now) ==
  \E r \in Revokes(fs) : r.id = g.id /\ now > r.revoked

\* The classification of ApprovalGate.check.
Revoked(fs, g, now) == \E r \in Revokes(fs) : r.id = g.id /\ now >= r.revoked

Active(fs, action, now) ==
  {g \in Grants(fs) : /\ g.action = action
                      /\ now < g.expires
                      /\ ~Revoked(fs, g, now)}

\* "evidence snapshot_commit is not an ancestor of HEAD"
Ancestral(fs, h) == \A g \in Grants(fs) \cup Revokes(fs) : g.commit <= h

\* Mutated form of GrantConflicts: the writer does not look for a grant of
\* the same action.
NoGrantConflicts(fs, k) == FALSE

\* "active grant already exists for this scope + subject": the test of
\* write_grant, which looks up the revoke of the NEW approval id.
GrantConflicts(fs, k) ==
  /\ \E g \in Grants(fs) : g.action = k.action
  /\ ~\E r \in Revokes(fs) : r.id = k.id

\* The other checks of write_grant and of write_revoke.
MayGrant(fs, k) ==
  /\ ~\E g \in Grants(fs) : g.id = k.id
  /\ fs[k.event] = NoFile
  /\ k.now < k.expires

MayRevoke(fs, k) ==
  /\ \E g \in Grants(fs) : g.id = k.id
  /\ ~\E r \in Revokes(fs) : r.id = k.id
  /\ fs[k.event] = NoFile

\* Mutated form of GrantOf: the placeholder of snapshot_commit is not filled.
GrantUnstamped(k) ==
  [type |-> "grant", id |-> k.id, action |-> k.action, granted |-> k.now,
   expires |-> k.expires]

\* The records that write_grant and write_revoke build.
GrantOf(k) ==
  [type |-> "grant", id |-> k.id, action |-> k.action, granted |-> k.now,
   expires |-> k.expires, commit |-> k.head]

RevokeOf(k) ==
  [type |-> "revoke", id |-> k.id, revoked |-> k.now, commit |-> k.head]

-----------------------------------------------------------------------------
(* A call, step by step. *)

\* What a caller can ask for at a time, with the HEAD it reads.
Asked(now, h) ==
  [op : {"grant"}, event : Events, id : Approvals, action : Actions,
   expires : {now + Lifetime, Never}, now : {now}, head : {h}]
    \cup [op : {"revoke"}, event : Events, id : Approvals, now : {now},
          head : {h}]
    \cup [op : {"use"}, action : Actions, now : {now}, head : {h}]

\* A caller reads its clock and the HEAD and calls.
Begin(c) ==
  /\ pc[c] = "idle"
  /\ \E k \in Asked(clock, head) : call' = [call EXCEPT ![c] = k]
  /\ pc' = [pc EXCEPT ![c] = "called"]
  /\ UNCHANGED <<clock, head, files, lock, seen, used>>

\* Somebody has the lock: the call is refused at once.
Contend(c) ==
  /\ pc[c] = "called"
  /\ lock # Free
  /\ pc' = [pc EXCEPT ![c] = "idle"]
  /\ call' = [call EXCEPT ![c] = NoCall]
  /\ UNCHANGED <<clock, head, files, lock, seen, used>>

\* Mutated form of Lock: the lock is not exclusive.
LockShared(c) ==
  /\ pc[c] = "called"
  /\ lock' = c
  /\ seen' = [seen EXCEPT ![c] = [head |-> head, files |-> files]]
  /\ pc' = [pc EXCEPT ![c] = "loaded"]
  /\ UNCHANGED <<clock, head, files, call, used>>

\* The lock is taken, the HEAD read and the evidence loaded.
Lock(c) ==
  /\ pc[c] = "called"
  /\ lock = Free
  /\ lock' = c
  /\ seen' = [seen EXCEPT ![c] = [head |-> head, files |-> files]]
  /\ pc' = [pc EXCEPT ![c] = "loaded"]
  /\ UNCHANGED <<clock, head, files, call, used>>

\* The call ends: the lock is released.
Leave(c) ==
  /\ pc' = [pc EXCEPT ![c] = "idle"]
  /\ lock' = IF lock = c THEN Free ELSE lock
  /\ call' = [call EXCEPT ![c] = NoCall]
  /\ seen' = [seen EXCEPT ![c] = NotRead]
  /\ UNCHANGED <<clock, head>>

\* What every operation checks first: the HEAD its caller saw, and evidence
\* that can be loaded.
Checked(c, op) ==
  /\ pc[c] = "loaded"
  /\ call[c].op = op
  /\ call[c].head = seen[c].head
  /\ Loadable(seen[c].files)

\* write_grant
WriteGrant(c) ==
  /\ Checked(c, "grant")
  /\ LET k == call[c] IN
     /\ MayGrant(seen[c].files, k)
     /\ ~GrantConflicts(seen[c].files, k)
     /\ files' = [files EXCEPT ![k.event] = GrantOf(k)]
  /\ Leave(c)
  /\ UNCHANGED used

\* write_grant raises for an active grant of the same action.
GrantConflict(c) ==
  /\ Checked(c, "grant")
  /\ GrantConflicts(seen[c].files, call[c])
  /\ pc' = [pc EXCEPT ![c] = "conflict"]
  /\ UNCHANGED <<clock, head, files, lock, call, seen, used>>

\* write_revoke
WriteRevoke(c) ==
  /\ Checked(c, "revoke")
  /\ LET k == call[c] IN
     /\ MayRevoke(seen[c].files, k)
     /\ files' = [files EXCEPT ![k.event] = RevokeOf(k)]
  /\ Leave(c)
  /\ UNCHANGED used

\* ApprovalGate.require finds the one active grant, and the transition that
\* asked for it is written before the lock is released.
Use(c) ==
  /\ Checked(c, "use")
  /\ Ancestral(seen[c].files, seen[c].head)
  /\ \E g \in Active(seen[c].files, call[c].action, call[c].now) :
       /\ Cardinality(Active(seen[c].files, call[c].action, call[c].now)) = 1
       /\ used' = used \cup {[id |-> g.id, action |-> call[c].action,
                              now |-> call[c].now]}
  /\ Leave(c)
  /\ UNCHANGED files

\* A check or a write fails, or the process dies: no file is added.
Refuse(c) ==
  /\ pc[c] \in {"loaded", "conflict"}
  /\ Leave(c)
  /\ UNCHANGED <<files, used>>

Tick ==
  /\ clock < MaxClock
  /\ clock' = clock + 1
  /\ UNCHANGED <<head, files, lock, pc, call, seen, used>>

\* Somebody commits, or checks out an older commit.
MoveHead ==
  /\ \E h \in 0..MaxHead : head' = h /\ h # head
  /\ UNCHANGED <<clock, files, lock, pc, call, seen, used>>

Next ==
  \/ \E c \in Callers :
       \/ Begin(c) \/ Contend(c) \/ Lock(c)
       \/ WriteGrant(c) \/ GrantConflict(c) \/ WriteRevoke(c) \/ Use(c)
       \/ Refuse(c)
  \/ Tick
  \/ MoveHead

Spec == Init /\ [][Next]_vars

-----------------------------------------------------------------------------
(* Properties. *)

\* Type correctness of the evidence, the lock and the callers' memory.
TypeOK ==
  /\ clock \in 0..MaxClock
  /\ head \in 0..MaxHead
  /\ files \in Evidence
  /\ lock \in Callers \cup {Free}
  /\ pc \in [Callers -> {"idle", "called", "loaded", "conflict"}]
  /\ call \in [Callers -> Call \cup {NoCall}]
  /\ seen \in [Callers -> View \cup {NotRead}]
  /\ used \subseteq [id : Approvals, action : Actions, now : Nat]

\* The writers never produce evidence that _load_evidence_store refuses.
\* Evidence is only ever added, so one bad file would stop every later grant,
\* revoke and gated transition of the project for good.
EvidenceLoadable == Loadable(files)

\* Rule 15 of fail-closed matching: whatever `now' a caller brings, the gate
\* finds at most one active grant for an action.
OneActiveGrant ==
  \A a \in Actions, t \in 0..MaxClock : Cardinality(Active(files, a, t)) <= 1

\* The lock-held check is the authoritative one: when a gated transition is
\* written, the files as they are then hold a grant of exactly its action that
\* has not expired and is not revoked at the time the transition carries.
\* Evidence, once written, stays as it is.
UsesApproved ==
  [][/\ \A u \in used' \ used :
          \E g \in Grants(files) : /\ g.id = u.id
                                   /\ g.action = u.action
                                   /\ u.now < g.expires
                                   /\ \A r \in Revokes(files) :
                                        r.id = u.id => u.now < r.revoked
     /\ \A e \in Events : files[e] # NoFile => files'[e] = files[e]]_vars

\* What write_grant says when it refuses: "active grant already exists for
\* this scope + subject".  The code does not keep it: see the run that checks
\* it.
ConflictMeansActive ==
  \A c \in Callers : pc[c] = "conflict" =>
    Active(files, call[c].action, call[c].now) # {}
=============================================================================
