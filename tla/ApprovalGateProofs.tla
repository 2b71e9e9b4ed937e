------------------------- MODULE ApprovalGateProofs -------------------------
(***************************************************************************)
(* Proofs about ApprovalGate, for every set of callers, actions, approval  *)
(* ids and event ids, every lifetime and every bound.                      *)
(***************************************************************************)
EXTENDS ApprovalGate, FiniteSetTheorems, TLAPS

-----------------------------------------------------------------------------
(* The inductive invariant. *)

\* A caller is in a call, and when it has loaded evidence it has the lock.
LockHeld ==
  \A c \in Callers :
    /\ pc[c] # "idle" => call[c] \in Call
    /\ pc[c] \in {"loaded", "conflict"} => lock = c /\ seen[c] \in View

\* What it loaded is still the evidence.
SeenCurrent ==
  \A c \in Callers : pc[c] \in {"loaded", "conflict"} => seen[c].files = files

\* Only what was granted is revoked.
RevokesGranted ==
  \A r \in Revokes(files) : \E g \in Grants(files) : g.id = r.id

\* An action is granted once and never again: that is stronger than what
\* write_grant is meant to keep, and it is why two grants of it are never
\* active together.
OneGrantPerAction ==
  \A g, h \in Grants(files) : g.action = h.action => g = h

IInv ==
  /\ TypeOK
  /\ LockHeld
  /\ SeenCurrent
  /\ EvidenceLoadable
  /\ RevokesGranted
  /\ OneGrantPerAction

-----------------------------------------------------------------------------
(* Evidence. *)

\* The grants and the revokes are those of the records that are files.
LEMMA EvidenceTypes ==
  ASSUME NEW fs \in Evidence
  PROVE  /\ Grants(fs) \subseteq Grant
         /\ Revokes(fs) \subseteq Revoke
         /\ \A e \in Events : fs[e] # NoFile =>
              fs[e] \in Grants(fs) \cup Revokes(fs)
BY DEF Evidence, Grants, Revokes, Grant, Revoke

\* The evidence with one more file.
With(fs, e, r) == [fs EXCEPT ![e] = r]

\* One more file: the grants and the revokes, with the new record.
LEMMA OneMore ==
  ASSUME NEW fs \in Evidence, NEW e \in Events, fs[e] = NoFile,
         NEW r \in Grant \cup Revoke
  PROVE  /\ With(fs, e, r) \in Evidence
         /\ r \in Grant =>
              /\ Grants(With(fs, e, r)) = Grants(fs) \cup {r}
              /\ Revokes(With(fs, e, r)) = Revokes(fs)
         /\ r \in Revoke =>
              /\ Grants(With(fs, e, r)) = Grants(fs)
              /\ Revokes(With(fs, e, r)) = Revokes(fs) \cup {r}
<1> DEFINE more == [fs EXCEPT ![e] = r]
<1>0. r # NoFile /\ (r \in Grant => r.type = "grant")
                 /\ (r \in Revoke => r.type = "revoke")
  BY NoFileAssumption DEF Grant, Revoke
<1>1. /\ more \in Evidence
      /\ more[e] = r
      /\ \A d \in Events \ {e} : more[d] = fs[d]
  BY DEF Evidence
<1> HIDE DEF more
<1>2. ASSUME r \in Grant
      PROVE  Grants(more) = Grants(fs) \cup {r} /\ Revokes(more) = Revokes(fs)
  <2>1. Grants(more) = Grants(fs) \cup {r}
    BY <1>0, <1>1, <1>2 DEF Grants
  <2>2. Revokes(more) = Revokes(fs)
    BY <1>0, <1>1, <1>2 DEF Revokes
  <2> QED
    BY <2>1, <2>2
<1>3. ASSUME r \in Revoke
      PROVE  Grants(more) = Grants(fs) /\ Revokes(more) = Revokes(fs) \cup {r}
  <2>1. Grants(more) = Grants(fs)
    BY <1>0, <1>1, <1>3 DEF Grants
  <2>2. Revokes(more) = Revokes(fs) \cup {r}
    BY <1>0, <1>1, <1>3 DEF Revokes
  <2> QED
    BY <2>1, <2>2
<1> QED
  BY <1>1, <1>2, <1>3 DEF more, With

\* A file that repeats no id leaves the evidence loadable.
LEMMA StillLoadable ==
  ASSUME NEW fs \in Evidence, Loadable(fs), NEW e \in Events,
         NEW r \in Grant \cup Revoke,
         r.type = "grant" => \A g \in Grants(fs) : g.id # r.id,
         r.type = "revoke" => \A s \in Revokes(fs) : s.id # r.id
  PROVE  Loadable([fs EXCEPT ![e] = r])
<1> DEFINE more == [fs EXCEPT ![e] = r]
<1>1. /\ more[e] = r
      /\ \A d \in Events \ {e} : more[d] = fs[d]
  BY DEF Evidence
<1>2. r.type \in {"grant", "revoke"}
  BY DEF Grant, Revoke
<1>3. \A d \in Events \ {e} : fs[d] # NoFile /\ fs[d].type = r.type => fs[d].id # r.id
  BY <1>2 DEF Grants, Revokes
<1> HIDE DEF more
<1>4. Loadable(more)
  BY <1>1, <1>3 DEF Loadable
<1> QED
  BY <1>4 DEF more

\* The records that the writers build are grants and revokes.
LEMMA RecordTypes ==
  ASSUME NEW k \in Call
  PROVE  /\ k.op = "grant" => GrantOf(k) \in Grant /\ k.event \in Events
         /\ k.op = "revoke" => RevokeOf(k) \in Revoke /\ k.event \in Events
BY DEF Call, Grant, Revoke, GrantOf, RevokeOf

\* What a caller asks for is a call.
LEMMA AskedTypes ==
  ASSUME NEW now \in Nat, NEW h \in Nat
  PROVE  Asked(now, h) \subseteq Call
BY ConstantsAssumption DEF Asked, Call, Never

-----------------------------------------------------------------------------
(* The steps of a call. *)

\* A caller that leaves: the rest stays as it is.
LEMMA LeaveStep ==
  ASSUME IInv, NEW c \in Callers, pc[c] \in {"loaded", "conflict"}, Leave(c)
  PROVE  /\ clock' \in 0..MaxClock /\ head' \in 0..MaxHead
         /\ lock' \in Callers \cup {Free}
         /\ pc' \in [Callers -> {"idle", "called", "loaded", "conflict"}]
         /\ call' \in [Callers -> Call \cup {NoCall}]
         /\ seen' \in [Callers -> View \cup {NotRead}]
         /\ LockHeld'
         /\ \A b \in Callers : pc'[b] \notin {"loaded", "conflict"}
<1>1. /\ clock' \in 0..MaxClock /\ head' \in 0..MaxHead
      /\ lock' \in Callers \cup {Free}
      /\ pc' \in [Callers -> {"idle", "called", "loaded", "conflict"}]
      /\ call' \in [Callers -> Call \cup {NoCall}]
      /\ seen' \in [Callers -> View \cup {NotRead}]
  BY DEF IInv, TypeOK, Leave
<1>2. \A b \in Callers : pc'[b] \notin {"loaded", "conflict"}
  BY DEF IInv, TypeOK, LockHeld, Leave
<1> QED
  BY <1>1, <1>2 DEF IInv, TypeOK, LockHeld, Leave

\* What a call that has passed its first checks works on.
LEMMA CheckedFacts ==
  ASSUME IInv, NEW c \in Callers, NEW op, Checked(c, op)
  PROVE  /\ call[c] \in Call /\ call[c].op = op
         /\ seen[c].files = files /\ files \in Evidence
         /\ pc[c] = "loaded"
BY DEF IInv, TypeOK, LockHeld, SeenCurrent, Checked

\* write_grant keeps the invariant.
LEMMA WriteGrantStep ==
  ASSUME IInv, NEW c \in Callers, WriteGrant(c)
  PROVE  IInv'
<1> DEFINE k == call[c]
           r == GrantOf(k)
<1>1. /\ k \in Call /\ k.op = "grant" /\ pc[c] = "loaded"
      /\ seen[c].files = files /\ files \in Evidence
  BY CheckedFacts DEF WriteGrant
<1>2. /\ MayGrant(files, k) /\ ~GrantConflicts(files, k)
      /\ files' = [files EXCEPT ![k.event] = r]
      /\ Leave(c) /\ used' = used
  BY <1>1 DEF WriteGrant
<1>3. r \in Grant /\ k.event \in Events
  BY <1>1, RecordTypes
<1>4. r.id = k.id /\ r.action = k.action /\ r.type = "grant"
  BY DEF GrantOf
<1>5. files[k.event] = NoFile /\ \A g \in Grants(files) : g.id # k.id
  BY <1>2 DEF MayGrant
<1> HIDE DEF r, k
<1>6. /\ files' \in Evidence
      /\ Grants(files') = Grants(files) \cup {r}
      /\ Revokes(files') = Revokes(files)
  <2> DEFINE e == k.event
  <2>1. e \in Events /\ files[e] = NoFile /\ r \in Grant \cup Revoke
    BY <1>3, <1>5
  <2>2. files' = With(files, e, r)
    BY <1>2 DEF With
  <2> HIDE DEF e
  <2>3. /\ With(files, e, r) \in Evidence
        /\ Grants(With(files, e, r)) = Grants(files) \cup {r}
        /\ Revokes(With(files, e, r)) = Revokes(files)
    BY <1>1, <1>3, <2>1, OneMore
  <2> QED
    BY <2>2, <2>3
<1>7. TypeOK' /\ LockHeld' /\ SeenCurrent'
  <2>1. used' \subseteq [id : Approvals, action : Actions, now : Nat]
    BY <1>2 DEF IInv, TypeOK
  <2> QED
    BY <1>1, <1>2, <1>6, <2>1, LeaveStep DEF TypeOK, SeenCurrent
<1>8. EvidenceLoadable'
  <2>1. Loadable(files)
    BY DEF IInv, EvidenceLoadable
  <2>2. Loadable([files EXCEPT ![k.event] = r])
    BY <1>1, <1>3, <1>4, <1>5, <2>1, StillLoadable
  <2> QED
    BY <1>2, <2>2 DEF EvidenceLoadable
<1>9. RevokesGranted'
  BY <1>6 DEF IInv, RevokesGranted
<1>10. OneGrantPerAction'
  \* The exception of write_grant, a revoke of the new id, never applies.
  <2>1. ~\E s \in Revokes(files) : s.id = k.id
    BY <1>5 DEF IInv, RevokesGranted
  <2>2. ~\E g \in Grants(files) : g.action = k.action
    BY <1>2, <2>1 DEF GrantConflicts
  <2> QED
    BY <1>4, <1>6, <2>2 DEF IInv, OneGrantPerAction
<1> QED
  BY <1>7, <1>8, <1>9, <1>10 DEF IInv

\* write_revoke keeps the invariant.
LEMMA WriteRevokeStep ==
  ASSUME IInv, NEW c \in Callers, WriteRevoke(c)
  PROVE  IInv'
<1> DEFINE k == call[c]
           r == RevokeOf(k)
<1>1. /\ k \in Call /\ k.op = "revoke" /\ pc[c] = "loaded"
      /\ seen[c].files = files /\ files \in Evidence
  BY CheckedFacts DEF WriteRevoke
<1>2. /\ MayRevoke(files, k)
      /\ files' = [files EXCEPT ![k.event] = r]
      /\ Leave(c) /\ used' = used
  BY <1>1 DEF WriteRevoke
<1>3. r \in Revoke /\ k.event \in Events
  BY <1>1, RecordTypes
<1>4. r.id = k.id /\ r.type = "revoke"
  BY DEF RevokeOf
<1>5. /\ files[k.event] = NoFile
      /\ \E g \in Grants(files) : g.id = k.id
      /\ \A s \in Revokes(files) : s.id # k.id
  BY <1>2 DEF MayRevoke
<1> HIDE DEF r, k
<1>6. /\ files' \in Evidence
      /\ Grants(files') = Grants(files)
      /\ Revokes(files') = Revokes(files) \cup {r}
  <2> DEFINE e == k.event
  <2>1. e \in Events /\ files[e] = NoFile /\ r \in Grant \cup Revoke
    BY <1>3, <1>5
  <2>2. files' = With(files, e, r)
    BY <1>2 DEF With
  <2> HIDE DEF e
  <2>3. /\ With(files, e, r) \in Evidence
        /\ Grants(With(files, e, r)) = Grants(files)
        /\ Revokes(With(files, e, r)) = Revokes(files) \cup {r}
    BY <1>1, <1>3, <2>1, OneMore
  <2> QED
    BY <2>2, <2>3
<1>7. TypeOK' /\ LockHeld' /\ SeenCurrent'
  <2>1. used' \subseteq [id : Approvals, action : Actions, now : Nat]
    BY <1>2 DEF IInv, TypeOK
  <2> QED
    BY <1>1, <1>2, <1>6, <2>1, LeaveStep DEF TypeOK, SeenCurrent
<1>8. EvidenceLoadable'
  <2>1. Loadable(files)
    BY DEF IInv, EvidenceLoadable
  <2>2. Loadable([files EXCEPT ![k.event] = r])
    BY <1>1, <1>3, <1>4, <1>5, <2>1, StillLoadable
  <2> QED
    BY <1>2, <2>2 DEF EvidenceLoadable
<1>9. RevokesGranted'
  BY <1>4, <1>5, <1>6 DEF IInv, RevokesGranted
<1>10. OneGrantPerAction'
  BY <1>6 DEF IInv, OneGrantPerAction
<1> QED
  BY <1>7, <1>8, <1>9, <1>10 DEF IInv

\* What is about the evidence alone stays with it.
LEMMA SameEvidence ==
  ASSUME IInv, files' = files, TypeOK', LockHeld', SeenCurrent'
  PROVE  IInv'
BY DEF IInv, EvidenceLoadable, RevokesGranted, OneGrantPerAction

\* The steps that write no evidence keep the invariant.
LEMMA OtherStep ==
  ASSUME IInv, NEW c \in Callers,
         \/ Begin(c) \/ Contend(c) \/ Lock(c) \/ GrantConflict(c) \/ Use(c)
         \/ Refuse(c)
  PROVE  IInv'
<1>0. TypeOK /\ clock \in Nat /\ head \in Nat
  BY ConstantsAssumption DEF IInv, TypeOK
<1>1. CASE Begin(c)
  <2>1. PICK k \in Asked(clock, head) : call' = [call EXCEPT ![c] = k]
    BY <1>1 DEF Begin
  <2>2. k \in Call
    BY <1>0, <2>1, AskedTypes
  <2> QED
    BY <1>1, <2>1, <2>2, SameEvidence
    DEF Begin, IInv, TypeOK, LockHeld, SeenCurrent
<1>2. CASE Contend(c)
  BY <1>2, SameEvidence DEF Contend, IInv, TypeOK, LockHeld, SeenCurrent
<1>3. CASE Lock(c)
  <2>1. [head |-> head, files |-> files] \in View
    BY <1>0 DEF TypeOK, View
  <2>2. call[c] \in Call
    BY <1>3 DEF Lock, IInv, LockHeld
  <2> QED
    BY <1>3, <2>1, <2>2, SameEvidence, ConstantsAssumption
    DEF Lock, IInv, TypeOK, LockHeld, SeenCurrent
<1>4. CASE GrantConflict(c)
  BY <1>4, SameEvidence
  DEF GrantConflict, Checked, IInv, TypeOK, LockHeld, SeenCurrent
<1>5. CASE Use(c)
  <2>1. /\ call[c] \in Call /\ call[c].op = "use" /\ pc[c] = "loaded"
        /\ seen[c].files = files /\ files \in Evidence
    BY <1>5, CheckedFacts DEF Use
  <2>2. PICK g \in Active(files, call[c].action, call[c].now) :
          used' = used \cup {[id |-> g.id, action |-> call[c].action,
                              now |-> call[c].now]}
    BY <1>5, <2>1 DEF Use
  <2>3. g \in Grant
    BY <2>1, <2>2, EvidenceTypes DEF Active
  <2>4. call[c].action \in Actions /\ call[c].now \in Nat
    BY <2>1 DEF Call
  <2>5. used' \subseteq [id : Approvals, action : Actions, now : Nat]
    BY <2>2, <2>3, <2>4 DEF IInv, TypeOK, Grant
  <2>6. Leave(c) /\ files' = files
    BY <1>5 DEF Use
  <2>7. TypeOK' /\ LockHeld' /\ SeenCurrent'
    BY <2>1, <2>5, <2>6, LeaveStep DEF TypeOK, SeenCurrent
  <2> QED
    BY <2>6, <2>7, SameEvidence
<1>6. CASE Refuse(c)
  <2>1. Leave(c) /\ files' = files /\ used' = used /\ pc[c] \in {"loaded", "conflict"}
    BY <1>6 DEF Refuse
  <2>2. TypeOK' /\ LockHeld' /\ SeenCurrent'
    BY <1>0, <2>1, LeaveStep DEF TypeOK, SeenCurrent
  <2> QED
    BY <2>1, <2>2, SameEvidence
<1> QED
  BY <1>1, <1>2, <1>3, <1>4, <1>5, <1>6

\* Every step keeps the invariant.
LEMMA NextIInv ==
  ASSUME IInv, [Next]_vars
  PROVE  IInv'
<1>1. ASSUME NEW c \in Callers, WriteGrant(c)
      PROVE  IInv'
  BY <1>1, WriteGrantStep
<1>2. ASSUME NEW c \in Callers, WriteRevoke(c)
      PROVE  IInv'
  BY <1>2, WriteRevokeStep
<1>3. ASSUME NEW c \in Callers,
             \/ Begin(c) \/ Contend(c) \/ Lock(c) \/ GrantConflict(c) \/ Use(c)
             \/ Refuse(c)
      PROVE  IInv'
  BY <1>3, OtherStep
<1>4. CASE Tick
  BY <1>4, SameEvidence, ConstantsAssumption
  DEF Tick, IInv, TypeOK, LockHeld, SeenCurrent
<1>5. CASE MoveHead
  BY <1>5, SameEvidence DEF MoveHead, IInv, TypeOK, LockHeld, SeenCurrent
<1>6. CASE UNCHANGED vars
  BY <1>6, SameEvidence DEF vars, IInv, TypeOK, LockHeld, SeenCurrent
<1> QED
  BY <1>1, <1>2, <1>3, <1>4, <1>5, <1>6 DEF Next

\* The invariant holds at the start.
LEMMA InitIInv == Init => IInv
<1> SUFFICES ASSUME Init PROVE IInv
  OBVIOUS
<1>1. TypeOK
  BY ConstantsAssumption DEF Init, TypeOK, Evidence
<1>2. Grants(files) = {} /\ Revokes(files) = {}
  BY DEF Init, Grants, Revokes
<1>3. LockHeld /\ SeenCurrent /\ EvidenceLoadable
  BY DEF Init, LockHeld, SeenCurrent, EvidenceLoadable, Loadable
<1> QED
  BY <1>1, <1>2, <1>3 DEF IInv, RevokesGranted, OneGrantPerAction

-----------------------------------------------------------------------------
(* The theorems. *)

\* The evidence is loadable, every revoke has its grant and an action has one
\* grant in its life, whoever writes; a caller works on the evidence as it is.
THEOREM Invariance == Spec => []IInv
BY InitIInv, NextIInv, PTL DEF Spec

\* The variables stay in their types.
THEOREM TypeCorrect == Spec => []TypeOK
<1>1. IInv => TypeOK
  BY DEF IInv
<1> QED
  BY <1>1, Invariance, PTL

\* The writers never produce evidence that the loader refuses.
THEOREM AlwaysLoadable == Spec => []EvidenceLoadable
<1>1. IInv => EvidenceLoadable
  BY DEF IInv
<1> QED
  BY <1>1, Invariance, PTL

\* The gate never finds two active grants of an action.
THEOREM AtMostOneActive == Spec => []OneActiveGrant
<1>1. ASSUME IInv, NEW a \in Actions, NEW t \in 0..MaxClock
      PROVE  Cardinality(Active(files, a, t)) <= 1
  <2>1. \A g, h \in Active(files, a, t) : g = h
    BY <1>1 DEF IInv, OneGrantPerAction, Active
  <2>2. CASE Active(files, a, t) = {}
    BY <2>2, FS_EmptySet
  <2>3. ASSUME NEW g \in Active(files, a, t)
        PROVE  Cardinality(Active(files, a, t)) = 1
    <3>1. Active(files, a, t) = {g}
      BY <2>1, <2>3
    <3> QED
      BY <3>1, FS_Singleton
  <2> QED
    BY <2>2, <2>3
<1>2. IInv => OneActiveGrant
  BY <1>1 DEF OneActiveGrant
<1> QED
  BY <1>2, Invariance, PTL

\* A gated transition is written on the strength of a grant of exactly its
\* action that is good at the time it carries; evidence is never rewritten.
THEOREM GateSound == Spec => UsesApproved
<1> DEFINE Backed(u) ==
      \E g \in Grants(files) : /\ g.id = u.id
                               /\ g.action = u.action
                               /\ u.now < g.expires
                               /\ \A r \in Revokes(files) :
                                    r.id = u.id => u.now < r.revoked
           Kept == \A e \in Events : files[e] # NoFile => files'[e] = files[e]
           Step == (\A u \in used' \ used : Backed(u)) /\ Kept
<1>1. ASSUME IInv, NEW c \in Callers, Use(c)
      PROVE  Step
  <2>1. /\ call[c] \in Call /\ call[c].op = "use"
        /\ seen[c].files = files /\ files \in Evidence /\ files' = files
    BY <1>1, CheckedFacts DEF Use
  <2>2. PICK g \in Active(files, call[c].action, call[c].now) :
          used' = used \cup {[id |-> g.id, action |-> call[c].action,
                              now |-> call[c].now]}
    BY <1>1, <2>1 DEF Use
  <2>3. call[c].now \in Nat /\ \A r \in Revokes(files) : r.revoked \in Nat
    BY <2>1, EvidenceTypes DEF Call, Revoke
  <2>4. /\ g \in Grants(files)
        /\ g.action = call[c].action
        /\ call[c].now < g.expires
        /\ \A r \in Revokes(files) : r.id = g.id => ~(call[c].now >= r.revoked)
    BY <2>2 DEF Active, Revoked
  <2>5. \A r \in Revokes(files) : r.id = g.id => call[c].now < r.revoked
    BY <2>3, <2>4
  <2>6. Backed([id |-> g.id, action |-> call[c].action, now |-> call[c].now])
    BY <2>4, <2>5
  <2>7. \A u \in used' \ used :
          u = [id |-> g.id, action |-> call[c].action, now |-> call[c].now]
    BY <2>2
  <2> HIDE DEF Backed
  <2> QED
    BY <2>1, <2>6, <2>7
<1>2. ASSUME IInv, NEW c \in Callers, WriteGrant(c) \/ WriteRevoke(c)
      PROVE  Step
  <2>1. used' = used
    BY <1>2 DEF WriteGrant, WriteRevoke
  <2>2. /\ seen[c].files = files /\ files \in Evidence
        /\ files[call[c].event] = NoFile
        /\ \E r : files' = [files EXCEPT ![call[c].event] = r]
    BY <1>2, CheckedFacts DEF WriteGrant, WriteRevoke, MayGrant, MayRevoke
  <2>3. Kept
    BY <2>2 DEF Evidence
  <2> QED
    BY <2>1, <2>3
<1>3. ASSUME IInv, [Next]_vars,
             ~\E c \in Callers : Use(c) \/ WriteGrant(c) \/ WriteRevoke(c)
      PROVE  Step
  BY <1>3 DEF Next, Begin, Contend, Lock, GrantConflict, Refuse, Tick, MoveHead, vars
<1>4. IInv /\ [Next]_vars => [Step]_vars
  BY <1>1, <1>2, <1>3
<1> QED
  BY <1>4, Invariance, PTL DEF Spec, UsesApproved
=============================================================================
