--------------------------- MODULE SchedulerProofs ---------------------------
(***************************************************************************)
(* Proofs about the scheduler: with its recovery (SchedulerRecovery) and   *)
(* with the handoffs that feed it (TaskAdmission), for every set of cards, *)
(* threads and recoverers, any capacity and every bound.  Both run the     *)
(* ticks of PortfolioScheduler, so the first half is about these.          *)
(***************************************************************************)
EXTENDS TaskAdmission, SchedulerRecovery, SequenceTheorems, TLAPS

-----------------------------------------------------------------------------
(* The inductive invariant of the store, the ledger and the ticks. *)

\* Files whose order does not matter.
Light(f) == f.file \in {"plan", "reservation", "execution"}

\* What the holder of the lock has yet to write, of a generation g of c whose
\* entry, receipt, tombstone and dispatch are e, r, t and d.  A reservation:
Selects(w, c, g, e, r) ==
  /\ e.gen = g
  /\ e.state \in {"QUEUED", "SELECTED"}
  /\ r # "DISPATCHED"
  /\ \A i \in 1..Len(w) :
       Light(w[i]) \/ w[i] \in {F("receipt", c, g, "SELECTED"), F("queue", c, g, "SELECTED")}

\* A requeue: the tombstone comes before the entry leaves the generation.
Requeues(w, c, g, e, r, t) ==
  /\ e.gen = g
  /\ g + 1 \in Gens
  /\ r = "SELECTED"
  /\ \A i \in 1..Len(w) :
       /\ \/ Light(w[i])
          \/ w[i] \in {F("tombstone", c, g, "selected_recovery"),
                       F("queue", c, g + 1, "QUEUED")}
       /\ w[i].file = "queue" =>
            /\ t = "selected_recovery" \/ \E j \in 1..(i - 1) : w[j].file = "tombstone"
            /\ \A j \in (i + 1)..Len(w) : Light(w[j])

\* The alignment with a dispatch: the receipt comes before the entry.
Aligns(w, c, g, e, r, d) ==
  /\ e.gen = g
  /\ d # None
  /\ \A i \in 1..Len(w) :
       /\ \/ Light(w[i])
          \/ w[i] = F("receipt", c, g, "DISPATCHED")
          \/ w[i] \in {F("queue", c, g, "DISPATCHED"), F("queue", c, g, "RETIRED")}
       /\ w[i].file = "queue" =>
            r = "DISPATCHED" \/ \E j \in 1..(i - 1) : w[j].file = "receipt"

Shape(w, c, g, e, r, t, d) ==
  \/ \A i \in 1..Len(w) : Light(w[i])
  \/ Selects(w, c, g, e, r)
  \/ Requeues(w, c, g, e, r, t)
  \/ Aligns(w, c, g, e, r, d)

\* The same, as the files and the ledger are.
Sound(w) ==
  \E c \in Cards, g \in Gens :
    Shape(w, c, g, entry[c], receipt[<<c, g>>], tombstone[<<c, g>>], dispatch[c])

GitOK ==
  /\ head \in 0..MaxHead
  /\ commit \in [Cards -> 0..MaxHead]
  /\ faults \in 0..MaxFaults

LedgerOK ==
  /\ task \in [Cards -> {"none", "ready", "dispatched"}]
  /\ dispatch \in [Cards -> Gens \cup {None}]
  /\ events \in [Cards -> SUBSET Gens]
  /\ lease \subseteq Cards \X Gens
  /\ \A c \in Cards : dispatch[c] # None => task[c] = "dispatched"

FilesTyped ==
  /\ entry \in [Cards -> Entry]
  /\ plan \in [Cards \X Gens -> 0..MaxHead \cup {None}]
  /\ receipt \in [Cards \X Gens -> ReceiptPhase \cup {None}]
  /\ reservation \in [Cards \X Gens -> BOOLEAN]
  /\ tombstone \in [Cards \X Gens -> TombstoneKind \cup {None}]
  /\ execution \in [Cards \X Gens -> ExecutionPhase \cup {None}]

\* The files are in order, also while there is more to write; who has the lock
\* has more to write.
FilesOK == FilesTyped /\ GenerationFenced /\ EvidenceFollowsLedger

StoreOK ==
  /\ FilesOK
  /\ todo \in Seq(File)
  /\ todo # <<>> <=> lock \notin {None, Orphan}
  /\ todo # <<>> => Sound(todo)

\* What a tick goes by: the receipt that it has read as DISPATCHED is so still,
\* and past the transition there is a dispatch.
Informed == {"canonical", "slot", "transit", "alignReceipt", "alignQueue", "admitted"}
Transited == {"alignReceipt", "alignQueue", "admitted"}

TickOK(m, re, di) ==
  m.pc # "idle" =>
    /\ m.card \in Cards
    /\ m.receipt = "DISPATCHED" => re[<<m.card, m.gen>>] = "DISPATCHED"
    /\ m.pc \in Informed => m.receipt \in ReceiptPhase
    /\ m.pc \in Transited => di[m.card] # None
    /\ m.pc \in {"alignQueue", "admitted"} => re[<<m.card, m.gen>>] = "DISPATCHED"

TicksOK ==
  /\ proc \in [Processes -> Tick]
  /\ \A p \in Processes : TickOK(proc[p], receipt, dispatch)

IInv == GitOK /\ LedgerOK /\ StoreOK /\ TicksOK

-----------------------------------------------------------------------------
(* Writing a file. *)

\* What Put does to the files that matter.
LEMMA PutFile ==
  ASSUME FilesTyped, NEW f \in File, Put(f)
  PROVE  /\ FilesTyped'
         /\ \A c \in Cards :
              entry'[c] = IF f.file = "queue" /\ f.card = c
                          THEN [state |-> f.to, gen |-> f.gen] ELSE entry[c]
         /\ \A c \in Cards, g \in Gens :
              /\ receipt'[<<c, g>>] = IF f.file = "receipt" /\ f.card = c /\ f.gen = g
                                  THEN f.to ELSE receipt[<<c, g>>]
              /\ tombstone'[<<c, g>>] = IF f.file = "tombstone" /\ f.card = c /\ f.gen = g
                                    THEN f.to ELSE tombstone[<<c, g>>]
              /\ plan'[<<c, g>>] = IF f.file = "plan" /\ f.card = c /\ f.gen = g
                               THEN f.to ELSE plan[<<c, g>>]
<1>1. f.card \in Cards /\ f.gen \in Gens /\ <<f.card, f.gen>> \in Cards \X Gens
  BY DEF File
<1>2. CASE f.file = "plan"
  <2>1. f.to \in 0..MaxHead
    BY <1>2 DEF File
  <2>2. /\ plan' = [plan EXCEPT ![<<f.card, f.gen>>] = f.to]
        /\ UNCHANGED <<receipt, reservation, tombstone, execution, entry>>
    BY <1>2 DEF Put
  <2> QED
    BY <1>1, <1>2, <2>1, <2>2 DEF FilesTyped
<1>3. CASE f.file = "receipt"
  <2>1. f.to \in ReceiptPhase
    BY <1>3 DEF File
  <2>2. /\ receipt' = [receipt EXCEPT ![<<f.card, f.gen>>] = f.to]
        /\ UNCHANGED <<plan, reservation, tombstone, execution, entry>>
    BY <1>3 DEF Put
  <2> QED
    BY <1>1, <1>3, <2>1, <2>2 DEF FilesTyped
<1>4. CASE f.file = "reservation"
  <2>1. f.to \in BOOLEAN
    BY <1>4 DEF File
  <2>2. /\ reservation' = [reservation EXCEPT ![<<f.card, f.gen>>] = f.to]
        /\ UNCHANGED <<plan, receipt, tombstone, execution, entry>>
    BY <1>4 DEF Put
  <2> QED
    BY <1>1, <1>4, <2>1, <2>2 DEF FilesTyped
<1>5. CASE f.file = "tombstone"
  <2>1. f.to \in TombstoneKind
    BY <1>5 DEF File
  <2>2. /\ tombstone' = [tombstone EXCEPT ![<<f.card, f.gen>>] = f.to]
        /\ UNCHANGED <<plan, receipt, reservation, execution, entry>>
    BY <1>5 DEF Put
  <2> QED
    BY <1>1, <1>5, <2>1, <2>2 DEF FilesTyped
<1>6. CASE f.file = "execution"
  <2>1. f.to \in ExecutionPhase
    BY <1>6 DEF File
  <2>2. /\ execution' = [execution EXCEPT ![<<f.card, f.gen>>] = f.to]
        /\ UNCHANGED <<plan, receipt, reservation, tombstone, entry>>
    BY <1>6 DEF Put
  <2> QED
    BY <1>1, <1>6, <2>1, <2>2 DEF FilesTyped
<1>7. CASE f.file = "queue"
  <2>1. f.to \in QueuePhase
    BY <1>7 DEF File
  <2>2. /\ entry' = [entry EXCEPT ![f.card].state = f.to, ![f.card].gen = f.gen]
        /\ UNCHANGED <<plan, receipt, reservation, tombstone, execution>>
    BY <1>7 DEF Put
  <2>3. /\ entry' \in [Cards -> Entry]
        /\ \A c \in Cards :
             entry'[c] = IF f.card = c THEN [state |-> f.to, gen |-> f.gen] ELSE entry[c]
    BY <1>1, <2>1, <2>2 DEF FilesTyped, Entry
  <2> QED
    BY <1>1, <1>7, <2>2, <2>3 DEF FilesTyped
<1> QED
  BY <1>2, <1>3, <1>4, <1>5, <1>6, <1>7 DEF File

\* What GenerationFenced says of a generation.
Fence(b, g, r, t) ==
  /\ b < g => r = "SELECTED" /\ t = "selected_recovery"
  /\ b > g => r = None /\ t = None

\* The files of one card have changed.
LEMMA OneCard ==
  ASSUME GenerationFenced, EvidenceFollowsLedger, FilesTyped, NEW c \in Cards,
         dispatch' = dispatch,
         \A a \in Cards \ {c} : entry'[a] = entry[a],
         \A a \in Cards \ {c}, b \in Gens :
           receipt'[<<a, b>>] = receipt[<<a, b>>] /\ tombstone'[<<a, b>>] = tombstone[<<a, b>>],
         \A b \in Gens : Fence(b, entry'[c].gen, receipt'[<<c, b>>], tombstone'[<<c, b>>]),
         \A b \in Gens : receipt'[<<c, b>>] = "DISPATCHED" => dispatch[c] # None,
         entry'[c].state \in {"DISPATCHED", "RETIRED"} =>
           receipt'[<<c, entry'[c].gen>>] = "DISPATCHED"
  PROVE  GenerationFenced' /\ EvidenceFollowsLedger'
<1>1. ASSUME NEW a \in Cards, NEW b \in Gens
      PROVE  /\ Fence(b, entry'[a].gen, receipt'[<<a, b>>], tombstone'[<<a, b>>])
             /\ receipt'[<<a, b>>] = "DISPATCHED" => dispatch'[a] # None
  <2>1. CASE a = c
    BY <2>1
  <2>2. CASE a # c
    <3>1. /\ entry'[a] = entry[a] /\ receipt'[<<a, b>>] = receipt[<<a, b>>]
          /\ tombstone'[<<a, b>>] = tombstone[<<a, b>>]
      BY <2>2
    <3>2. Fence(b, entry[a].gen, receipt[<<a, b>>], tombstone[<<a, b>>])
      BY DEF GenerationFenced, Fence
    <3>3. receipt[<<a, b>>] = "DISPATCHED" => dispatch[a] # None
      BY DEF EvidenceFollowsLedger
    <3> QED
      BY <3>1, <3>2, <3>3
  <2> QED
    BY <2>1, <2>2
<1>2. ASSUME NEW a \in Cards, entry'[a].state \in {"DISPATCHED", "RETIRED"}
      PROVE  receipt'[<<a, entry'[a].gen>>] = "DISPATCHED"
  <2>1. CASE a = c
    BY <1>2, <2>1
  <2>2. CASE a # c
    <3>1. entry'[a] = entry[a] /\ entry[a].gen \in Gens
      BY <2>2 DEF FilesTyped, Entry
    <3>2. receipt'[<<a, entry[a].gen>>] = receipt[<<a, entry[a].gen>>]
      BY <2>2, <3>1
    <3>3. receipt[<<a, entry[a].gen>>] = "DISPATCHED"
      BY <1>2, <3>1 DEF EvidenceFollowsLedger
    <3> QED
      BY <3>1, <3>2, <3>3
  <2> QED
    BY <2>1, <2>2
<1> QED
  BY <1>1, <1>2 DEF GenerationFenced, EvidenceFollowsLedger, Fence

\* What remains of a shape after a file whose order does not matter.
LEMMA LightFirst ==
  ASSUME NEW w \in Seq(File), w # <<>>, Light(w[1]),
         NEW c \in Cards, NEW g \in Gens, NEW e, NEW r, NEW t, NEW d,
         Shape(w, c, g, e, r, t, d)
  PROVE  Shape(Tail(w), c, g, e, r, t, d)
<1> DEFINE v == Tail(w)
<1>1. /\ v \in Seq(File)
      /\ Len(v) = Len(w) - 1 /\ Len(w) \in Nat
      /\ \A i \in 1..Len(v) : v[i] = w[i + 1] /\ i + 1 \in 1..Len(w)
  OBVIOUS
<1>2. w[1].file \notin {"queue", "receipt", "tombstone"}
  BY DEF Light
<1> HIDE DEF v
<1>3. CASE \A i \in 1..Len(w) : Light(w[i])
  BY <1>1, <1>3 DEF Shape
<1>4. CASE Selects(w, c, g, e, r)
  BY <1>1, <1>4 DEF Shape, Selects
<1>5. CASE Requeues(w, c, g, e, r, t)
  <2>1. ASSUME NEW i \in 1..Len(v), v[i].file = "queue"
        PROVE  /\ t = "selected_recovery" \/ \E j \in 1..(i - 1) : v[j].file = "tombstone"
               /\ \A j \in (i + 1)..Len(v) : Light(v[j])
    <3>1. i + 1 \in 1..Len(w) /\ w[i + 1].file = "queue"
      BY <1>1, <2>1
    <3>2. /\ t = "selected_recovery" \/ \E j \in 1..i : w[j].file = "tombstone"
          /\ \A j \in (i + 2)..Len(w) : Light(w[j])
      BY <1>5, <3>1 DEF Requeues
    <3>3. ASSUME NEW j \in 1..i, w[j].file = "tombstone"
          PROVE  \E k \in 1..(i - 1) : v[k].file = "tombstone"
      <4>1. j # 1
        BY <1>2, <3>3
      <4>2. j - 1 \in 1..(i - 1) /\ j - 1 \in 1..Len(v) /\ v[j - 1] = w[j]
        BY <1>1, <4>1
      <4> QED
        BY <3>3, <4>2
    <3>4. ASSUME NEW j \in (i + 1)..Len(v)
          PROVE  Light(v[j])
      <4>1. j \in 1..Len(v) /\ j + 1 \in (i + 2)..Len(w)
        BY <1>1
      <4> QED
        BY <1>1, <3>2, <4>1
    <3> QED
      BY <3>2, <3>3, <3>4
  <2>2. Requeues(v, c, g, e, r, t)
    BY <1>1, <1>5, <2>1 DEF Requeues
  <2> QED
    BY <2>2 DEF Shape, v
<1>6. CASE Aligns(w, c, g, e, r, d)
  <2>1. ASSUME NEW i \in 1..Len(v), v[i].file = "queue"
        PROVE  r = "DISPATCHED" \/ \E j \in 1..(i - 1) : v[j].file = "receipt"
    <3>1. i + 1 \in 1..Len(w) /\ w[i + 1].file = "queue"
      BY <1>1, <2>1
    <3>2. r = "DISPATCHED" \/ \E j \in 1..i : w[j].file = "receipt"
      BY <1>6, <3>1 DEF Aligns
    <3>3. ASSUME NEW j \in 1..i, w[j].file = "receipt"
          PROVE  \E k \in 1..(i - 1) : v[k].file = "receipt"
      <4>1. j # 1
        BY <1>2, <3>3
      <4>2. j - 1 \in 1..(i - 1) /\ j - 1 \in 1..Len(v) /\ v[j - 1] = w[j]
        BY <1>1, <4>1
      <4> QED
        BY <3>3, <4>2
    <3> QED
      BY <3>2, <3>3
  <2>2. Aligns(v, c, g, e, r, d)
    BY <1>1, <1>6, <2>1 DEF Aligns
  <2> QED
    BY <2>2 DEF Shape, v
<1> QED
  BY <1>3, <1>4, <1>5, <1>6 DEF Shape, v

\* The first file of a shape is written: the files stay in order, and what
\* remains has a shape.
LEMMA PutFirst ==
  ASSUME FilesOK, NEW w \in Seq(File), w # <<>>,
         NEW c \in Cards, NEW g \in Gens,
         Shape(w, c, g, entry[c], receipt[<<c, g>>], tombstone[<<c, g>>], dispatch[c]),
         Put(Head(w)), dispatch' = dispatch
  PROVE  /\ FilesOK'
         /\ Shape(Tail(w), c, g, entry'[c], receipt'[<<c, g>>], tombstone'[<<c, g>>], dispatch'[c])
         /\ \A s \in Cards \X Gens : receipt[s] = "DISPATCHED" => receipt'[s] = "DISPATCHED"
<1> DEFINE v == Tail(w)
<1>0. /\ v \in Seq(File) /\ Head(w) = w[1] /\ w[1] \in File /\ 1 \in 1..Len(w)
      /\ Len(v) = Len(w) - 1 /\ Len(w) \in Nat
      /\ \A i \in 1..Len(v) : v[i] = w[i + 1] /\ i + 1 \in 1..Len(w)
  OBVIOUS
<1> HIDE DEF v
<1>1. PICK f \in File : f = w[1] /\ Put(f)
  BY <1>0
<1>2. /\ FilesTyped /\ FilesTyped'
      /\ \A a \in Cards :
           entry'[a] = IF f.file = "queue" /\ f.card = a
                       THEN [state |-> f.to, gen |-> f.gen] ELSE entry[a]
      /\ \A a \in Cards, b \in Gens :
           /\ receipt'[<<a, b>>] = IF f.file = "receipt" /\ f.card = a /\ f.gen = b
                               THEN f.to ELSE receipt[<<a, b>>]
           /\ tombstone'[<<a, b>>] = IF f.file = "tombstone" /\ f.card = a /\ f.gen = b
                                 THEN f.to ELSE tombstone[<<a, b>>]
  BY <1>1, PutFile DEF FilesOK
<1>3. GenerationFenced /\ EvidenceFollowsLedger
  BY DEF FilesOK
<1> DEFINE Done ==
      /\ GenerationFenced' /\ EvidenceFollowsLedger'
      /\ Shape(v, c, g, entry'[c], receipt'[<<c, g>>], tombstone'[<<c, g>>], dispatch'[c])
      /\ \A a \in Cards, b \in Gens :
           receipt[<<a, b>>] = "DISPATCHED" => receipt'[<<a, b>>] = "DISPATCHED"
<1>s. SUFFICES Done
  BY <1>2 DEF FilesOK, v
<1>t. \A a \in Cards : entry[a].gen \in Gens
  BY <1>2 DEF FilesTyped, Entry
<1>4. CASE Light(f)
  <2>1. f.file \notin {"queue", "receipt", "tombstone"}
    BY <1>4 DEF Light
  <2>2. /\ \A a \in Cards : entry'[a] = entry[a]
        /\ \A a \in Cards, b \in Gens :
             receipt'[<<a, b>>] = receipt[<<a, b>>] /\ tombstone'[<<a, b>>] = tombstone[<<a, b>>]
    BY <1>2, <2>1
  <2>3. GenerationFenced' /\ EvidenceFollowsLedger'
    <3>1. GenerationFenced'
      <4>1. ASSUME NEW a \in Cards, NEW b \in Gens
            PROVE  Fence(b, entry'[a].gen, receipt'[<<a, b>>], tombstone'[<<a, b>>])
        <5>1. Fence(b, entry[a].gen, receipt[<<a, b>>], tombstone[<<a, b>>])
          BY <1>3 DEF GenerationFenced, Fence
        <5> QED
          BY <2>2, <5>1
      <4> QED
        BY <4>1 DEF GenerationFenced, Fence
    <3>2. EvidenceFollowsLedger'
      BY <1>t, <1>3, <2>2 DEF EvidenceFollowsLedger
    <3> QED
      BY <3>1, <3>2
  <2>4. Shape(v, c, g, entry[c], receipt[<<c, g>>], tombstone[<<c, g>>], dispatch[c])
    BY <1>1, <1>4, LightFirst DEF v
  <2> QED
    BY <2>2, <2>3, <2>4
<1>5. CASE /\ ~Light(f)
           /\ Selects(w, c, g, entry[c], receipt[<<c, g>>])
  <2>1. /\ entry[c].gen = g /\ entry[c].state \in {"QUEUED", "SELECTED"}
        /\ receipt[<<c, g>>] # "DISPATCHED"
        /\ f \in {F("receipt", c, g, "SELECTED"), F("queue", c, g, "SELECTED")}
    BY <1>0, <1>1, <1>5 DEF Selects
  <2>2. CASE f = F("receipt", c, g, "SELECTED")
    <3>1. /\ f.file = "receipt" /\ f.card = c /\ f.gen = g /\ f.to = "SELECTED"
      BY <2>2 DEF F
    <3>2. /\ \A a \in Cards : entry'[a] = entry[a]
          /\ receipt'[<<c, g>>] = "SELECTED"
          /\ \A a \in Cards, b \in Gens :
               /\ a # c \/ b # g => receipt'[<<a, b>>] = receipt[<<a, b>>]
               /\ tombstone'[<<a, b>>] = tombstone[<<a, b>>]
      BY <1>2, <3>1
    <3>3. \A b \in Gens : Fence(b, entry'[c].gen, receipt'[<<c, b>>], tombstone'[<<c, b>>])
      <4>1. ASSUME NEW b \in Gens
            PROVE  Fence(b, entry'[c].gen, receipt'[<<c, b>>], tombstone'[<<c, b>>])
        <5>1. Fence(b, g, receipt[<<c, b>>], tombstone[<<c, b>>])
          BY <1>3, <2>1 DEF GenerationFenced, Fence
        <5>2. CASE b = g
          BY <2>1, <3>2, <5>2 DEF Fence, Gens
        <5>3. CASE b # g
          BY <2>1, <3>2, <5>1, <5>3
        <5> QED
          BY <5>2, <5>3
      <4> QED
        BY <4>1
    <3>4. GenerationFenced' /\ EvidenceFollowsLedger'
      <4>1. \A b \in Gens : receipt'[<<c, b>>] = "DISPATCHED" => dispatch[c] # None
        <5>1. \A b \in Gens : receipt[<<c, b>>] = "DISPATCHED" => dispatch[c] # None
          BY <1>3 DEF EvidenceFollowsLedger
        <5>2. ASSUME NEW b \in Gens, receipt'[<<c, b>>] = "DISPATCHED"
              PROVE  dispatch[c] # None
          BY <2>1, <3>2, <5>1, <5>2
        <5> QED
          BY <5>2
      <4>2. entry'[c].state \in {"DISPATCHED", "RETIRED"} =>
              receipt'[<<c, entry'[c].gen>>] = "DISPATCHED"
        <5>1. entry[c].state \in {"DISPATCHED", "RETIRED"} => receipt[<<c, g>>] = "DISPATCHED"
          BY <1>3, <2>1 DEF EvidenceFollowsLedger
        <5> QED
          BY <2>1, <3>1, <3>2, <5>1
      <4>3. \A a \in Cards \ {c}, b \in Gens :
              /\ receipt'[<<a, b>>] = receipt[<<a, b>>]
              /\ tombstone'[<<a, b>>] = tombstone[<<a, b>>]
        BY <3>2
      <4> QED
        BY <1>2, <1>3, <3>2, <3>3, <4>1, <4>2, <4>3, OneCard
    <3>5. Selects(v, c, g, entry'[c], receipt'[<<c, g>>])
      BY <1>0, <1>5, <3>2 DEF Selects
    <3> QED
      BY <2>1, <3>2, <3>3, <3>4, <3>5 DEF Shape
  <2>3. CASE f = F("queue", c, g, "SELECTED")
    <3>1. /\ f.file = "queue" /\ f.card = c /\ f.gen = g /\ f.to = "SELECTED"
      BY <2>3 DEF F
    <3>2. /\ entry'[c] = [state |-> "SELECTED", gen |-> g]
          /\ \A a \in Cards \ {c} : entry'[a] = entry[a]
          /\ \A a \in Cards, b \in Gens :
               /\ receipt'[<<a, b>>] = receipt[<<a, b>>]
               /\ tombstone'[<<a, b>>] = tombstone[<<a, b>>]
          /\ receipt'[<<c, g>>] = receipt[<<c, g>>] /\ tombstone'[<<c, g>>] = tombstone[<<c, g>>]
      BY <1>2, <3>1
    <3>3. \A b \in Gens : Fence(b, entry'[c].gen, receipt'[<<c, b>>], tombstone'[<<c, b>>])
      <4>1. ASSUME NEW b \in Gens
            PROVE  Fence(b, entry'[c].gen, receipt'[<<c, b>>], tombstone'[<<c, b>>])
        <5>1. Fence(b, g, receipt[<<c, b>>], tombstone[<<c, b>>])
          BY <1>3, <2>1 DEF GenerationFenced, Fence
        <5>2. CASE b = g
          BY <2>1, <3>2, <5>2 DEF Fence, Gens
        <5>3. CASE b # g
          BY <2>1, <3>2, <5>1, <5>3
        <5> QED
          BY <5>2, <5>3
      <4> QED
        BY <4>1
    <3>4. GenerationFenced' /\ EvidenceFollowsLedger'
      <4>1. \A b \in Gens : receipt'[<<c, b>>] = "DISPATCHED" => dispatch[c] # None
        <5>1. \A b \in Gens : receipt[<<c, b>>] = "DISPATCHED" => dispatch[c] # None
          BY <1>3 DEF EvidenceFollowsLedger
        <5>2. ASSUME NEW b \in Gens, receipt'[<<c, b>>] = "DISPATCHED"
              PROVE  dispatch[c] # None
          BY <2>1, <3>2, <5>1, <5>2
        <5> QED
          BY <5>2
      <4>2. entry'[c].state \in {"DISPATCHED", "RETIRED"} =>
              receipt'[<<c, entry'[c].gen>>] = "DISPATCHED"
        <5>1. entry[c].state \in {"DISPATCHED", "RETIRED"} => receipt[<<c, g>>] = "DISPATCHED"
          BY <1>3, <2>1 DEF EvidenceFollowsLedger
        <5> QED
          BY <2>1, <3>1, <3>2, <5>1
      <4>3. \A a \in Cards \ {c}, b \in Gens :
              /\ receipt'[<<a, b>>] = receipt[<<a, b>>]
              /\ tombstone'[<<a, b>>] = tombstone[<<a, b>>]
        BY <3>2
      <4> QED
        BY <1>2, <1>3, <3>2, <3>3, <4>1, <4>2, <4>3, OneCard
    <3>5. Selects(v, c, g, entry'[c], receipt'[<<c, g>>])
      BY <1>0, <1>5, <2>1, <3>2 DEF Selects
    <3> QED
      BY <3>2, <3>3, <3>4, <3>5 DEF Shape
  <2> QED
    BY <2>1, <2>2, <2>3
<1>6. CASE /\ ~Light(f)
           /\ Requeues(w, c, g, entry[c], receipt[<<c, g>>], tombstone[<<c, g>>])
  <2>1. /\ entry[c].gen = g /\ g + 1 \in Gens /\ receipt[<<c, g>>] = "SELECTED"
        /\ f \in {F("tombstone", c, g, "selected_recovery"), F("queue", c, g + 1, "QUEUED")}
        /\ f.file = "queue" => /\ tombstone[<<c, g>>] = "selected_recovery"
                               /\ \A j \in 2..Len(w) : Light(w[j])
    <3>0. 1 \in 1..Len(w) /\ f = w[1]
      BY <1>0, <1>1
    <3>1. entry[c].gen = g /\ g + 1 \in Gens /\ receipt[<<c, g>>] = "SELECTED"
      BY <1>6 DEF Requeues
    <3>2. /\ \/ Light(w[1])
             \/ w[1] \in {F("tombstone", c, g, "selected_recovery"),
                          F("queue", c, g + 1, "QUEUED")}
          /\ w[1].file = "queue" =>
               /\ \/ tombstone[<<c, g>>] = "selected_recovery"
                  \/ \E j \in 1..(1 - 1) : w[j].file = "tombstone"
               /\ \A j \in (1 + 1)..Len(w) : Light(w[j])
      BY <1>6, <3>0 DEF Requeues
    <3>3. 1..(1 - 1) = {} /\ 1 + 1 = 2
      OBVIOUS
    <3>4. f \in {F("tombstone", c, g, "selected_recovery"), F("queue", c, g + 1, "QUEUED")}
      BY <1>6, <3>0, <3>2
    <3> QED
      BY <3>0, <3>1, <3>2, <3>3, <3>4
  <2>2. CASE f = F("tombstone", c, g, "selected_recovery")
    <3>1. f.file = "tombstone" /\ f.card = c /\ f.gen = g /\ f.to = "selected_recovery"
      BY <2>2 DEF F
    <3>2. /\ \A a \in Cards : entry'[a] = entry[a]
          /\ tombstone'[<<c, g>>] = "selected_recovery"
          /\ \A a \in Cards, b \in Gens :
               /\ a # c \/ b # g => tombstone'[<<a, b>>] = tombstone[<<a, b>>]
               /\ receipt'[<<a, b>>] = receipt[<<a, b>>]
      BY <1>2, <3>1
    <3>3. \A b \in Gens : Fence(b, entry'[c].gen, receipt'[<<c, b>>], tombstone'[<<c, b>>])
      <4>1. ASSUME NEW b \in Gens
            PROVE  Fence(b, entry'[c].gen, receipt'[<<c, b>>], tombstone'[<<c, b>>])
        <5>1. Fence(b, g, receipt[<<c, b>>], tombstone[<<c, b>>])
          BY <1>3, <2>1 DEF GenerationFenced, Fence
        <5>2. CASE b = g
          BY <2>1, <3>2, <5>2 DEF Fence, Gens
        <5>3. CASE b # g
          BY <2>1, <3>2, <5>1, <5>3
        <5> QED
          BY <5>2, <5>3
      <4> QED
        BY <4>1
    <3>4. GenerationFenced' /\ EvidenceFollowsLedger'
      <4>1. \A b \in Gens : receipt'[<<c, b>>] = "DISPATCHED" => dispatch[c] # None
        <5>1. \A b \in Gens : receipt[<<c, b>>] = "DISPATCHED" => dispatch[c] # None
          BY <1>3 DEF EvidenceFollowsLedger
        <5>2. ASSUME NEW b \in Gens, receipt'[<<c, b>>] = "DISPATCHED"
              PROVE  dispatch[c] # None
          BY <2>1, <3>2, <5>1, <5>2
        <5> QED
          BY <5>2
      <4>2. entry'[c].state \in {"DISPATCHED", "RETIRED"} =>
              receipt'[<<c, entry'[c].gen>>] = "DISPATCHED"
        <5>1. entry[c].state \in {"DISPATCHED", "RETIRED"} => receipt[<<c, g>>] = "DISPATCHED"
          BY <1>3, <2>1 DEF EvidenceFollowsLedger
        <5> QED
          BY <2>1, <3>1, <3>2, <5>1
      <4>3. \A a \in Cards \ {c}, b \in Gens :
              /\ receipt'[<<a, b>>] = receipt[<<a, b>>]
              /\ tombstone'[<<a, b>>] = tombstone[<<a, b>>]
        BY <3>2
      <4> QED
        BY <1>2, <1>3, <3>2, <3>3, <4>1, <4>2, <4>3, OneCard
    <3>5. Requeues(v, c, g, entry'[c], receipt'[<<c, g>>], tombstone'[<<c, g>>])
      <4>1. ASSUME NEW i \in 1..Len(v), v[i].file = "queue"
            PROVE  \A j \in (i + 1)..Len(v) : Light(v[j])
        <5>1. i + 1 \in 1..Len(w) /\ w[i + 1].file = "queue"
          BY <1>0, <4>1
        <5>2. \A j \in (i + 2)..Len(w) : Light(w[j])
          BY <1>6, <5>1 DEF Requeues
        <5>3. ASSUME NEW j \in (i + 1)..Len(v)
              PROVE  Light(v[j])
          <6>1. j \in 1..Len(v) /\ j + 1 \in (i + 2)..Len(w)
            BY <1>0
          <6> QED
            BY <1>0, <5>2, <6>1
        <5> QED
          BY <5>3
      <4> QED
        BY <1>0, <1>6, <2>1, <3>2, <4>1 DEF Requeues
    <3> QED
      BY <3>2, <3>3, <3>4, <3>5 DEF Shape
  <2>3. CASE f = F("queue", c, g + 1, "QUEUED")
    <3>1. f.file = "queue" /\ f.card = c /\ f.gen = g + 1 /\ f.to = "QUEUED"
      BY <2>3 DEF F
    <3>2. /\ entry'[c] = [state |-> "QUEUED", gen |-> g + 1]
          /\ \A a \in Cards \ {c} : entry'[a] = entry[a]
          /\ \A a \in Cards, b \in Gens :
               /\ receipt'[<<a, b>>] = receipt[<<a, b>>]
               /\ tombstone'[<<a, b>>] = tombstone[<<a, b>>]
          /\ receipt'[<<c, g>>] = receipt[<<c, g>>] /\ tombstone'[<<c, g>>] = tombstone[<<c, g>>]
      BY <1>2, <3>1
    <3>3. \A b \in Gens : Fence(b, entry'[c].gen, receipt'[<<c, b>>], tombstone'[<<c, b>>])
      <4>1. ASSUME NEW b \in Gens
            PROVE  Fence(b, entry'[c].gen, receipt'[<<c, b>>], tombstone'[<<c, b>>])
        <5>1. b \in Nat /\ g \in Nat
          BY BoundsAreNat DEF Gens
        <5>2. Fence(b, g, receipt[<<c, b>>], tombstone[<<c, b>>])
          BY <1>3, <2>1 DEF GenerationFenced, Fence
        <5>3. CASE b = g
          <6>1. receipt'[<<c, b>>] = "SELECTED" /\ tombstone'[<<c, b>>] = "selected_recovery"
            BY <2>1, <3>1, <3>2, <5>3
          <6> QED
            BY <3>2, <5>1, <5>3, <6>1 DEF Fence
        <5>4. CASE b # g
          <6>1. (b < g + 1 => b < g) /\ (b > g + 1 => b > g)
            BY <5>1, <5>4
          <6> QED
            BY <3>2, <5>2, <6>1 DEF Fence
        <5> QED
          BY <5>3, <5>4
      <4> QED
        BY <4>1
    <3>4. GenerationFenced' /\ EvidenceFollowsLedger'
      <4>1. \A b \in Gens : receipt'[<<c, b>>] = "DISPATCHED" => dispatch[c] # None
        <5>1. \A b \in Gens : receipt[<<c, b>>] = "DISPATCHED" => dispatch[c] # None
          BY <1>3 DEF EvidenceFollowsLedger
        <5>2. ASSUME NEW b \in Gens, receipt'[<<c, b>>] = "DISPATCHED"
              PROVE  dispatch[c] # None
          BY <2>1, <3>2, <5>1, <5>2
        <5> QED
          BY <5>2
      <4>2. entry'[c].state \in {"DISPATCHED", "RETIRED"} =>
              receipt'[<<c, entry'[c].gen>>] = "DISPATCHED"
        <5>1. entry[c].state \in {"DISPATCHED", "RETIRED"} => receipt[<<c, g>>] = "DISPATCHED"
          BY <1>3, <2>1 DEF EvidenceFollowsLedger
        <5> QED
          BY <2>1, <3>1, <3>2, <5>1
      <4>3. \A a \in Cards \ {c}, b \in Gens :
              /\ receipt'[<<a, b>>] = receipt[<<a, b>>]
              /\ tombstone'[<<a, b>>] = tombstone[<<a, b>>]
        BY <3>2
      <4> QED
        BY <1>2, <1>3, <3>2, <3>3, <4>1, <4>2, <4>3, OneCard
    <3>5. \A i \in 1..Len(v) : Light(v[i])
      <4>1. \A i \in 1..Len(v) : i + 1 \in 2..Len(w)
        BY <1>0
      <4> QED
        BY <1>0, <2>1, <3>1, <4>1
    <3> QED
      BY <3>2, <3>3, <3>4, <3>5 DEF Shape
  <2> QED
    BY <2>1, <2>2, <2>3
<1>7. CASE /\ ~Light(f)
           /\ Aligns(w, c, g, entry[c], receipt[<<c, g>>], dispatch[c])
  <2>1. /\ entry[c].gen = g /\ dispatch[c] # None
        /\ \/ f = F("receipt", c, g, "DISPATCHED")
           \/ f \in {F("queue", c, g, "DISPATCHED"), F("queue", c, g, "RETIRED")}
        /\ f.file = "queue" => receipt[<<c, g>>] = "DISPATCHED"
    BY <1>0, <1>1, <1>7 DEF Aligns
  <2>2. CASE f = F("receipt", c, g, "DISPATCHED")
    <3>1. f.file = "receipt" /\ f.card = c /\ f.gen = g /\ f.to = "DISPATCHED"
      BY <2>2 DEF F
    <3>2. /\ \A a \in Cards : entry'[a] = entry[a]
          /\ receipt'[<<c, g>>] = "DISPATCHED"
          /\ \A a \in Cards, b \in Gens :
               /\ a # c \/ b # g => receipt'[<<a, b>>] = receipt[<<a, b>>]
               /\ tombstone'[<<a, b>>] = tombstone[<<a, b>>]
      BY <1>2, <3>1
    <3>3. \A b \in Gens : Fence(b, entry'[c].gen, receipt'[<<c, b>>], tombstone'[<<c, b>>])
      <4>1. ASSUME NEW b \in Gens
            PROVE  Fence(b, entry'[c].gen, receipt'[<<c, b>>], tombstone'[<<c, b>>])
        <5>1. Fence(b, g, receipt[<<c, b>>], tombstone[<<c, b>>])
          BY <1>3, <2>1 DEF GenerationFenced, Fence
        <5>2. CASE b = g
          BY <2>1, <3>2, <5>2 DEF Fence, Gens
        <5>3. CASE b # g
          BY <2>1, <3>2, <5>1, <5>3
        <5> QED
          BY <5>2, <5>3
      <4> QED
        BY <4>1
    <3>4. GenerationFenced' /\ EvidenceFollowsLedger'
      <4>1. \A b \in Gens : receipt'[<<c, b>>] = "DISPATCHED" => dispatch[c] # None
        <5>1. \A b \in Gens : receipt[<<c, b>>] = "DISPATCHED" => dispatch[c] # None
          BY <1>3 DEF EvidenceFollowsLedger
        <5>2. ASSUME NEW b \in Gens, receipt'[<<c, b>>] = "DISPATCHED"
              PROVE  dispatch[c] # None
          BY <2>1, <3>2, <5>1, <5>2
        <5> QED
          BY <5>2
      <4>2. entry'[c].state \in {"DISPATCHED", "RETIRED"} =>
              receipt'[<<c, entry'[c].gen>>] = "DISPATCHED"
        <5>1. entry[c].state \in {"DISPATCHED", "RETIRED"} => receipt[<<c, g>>] = "DISPATCHED"
          BY <1>3, <2>1 DEF EvidenceFollowsLedger
        <5> QED
          BY <2>1, <3>1, <3>2, <5>1
      <4>3. \A a \in Cards \ {c}, b \in Gens :
              /\ receipt'[<<a, b>>] = receipt[<<a, b>>]
              /\ tombstone'[<<a, b>>] = tombstone[<<a, b>>]
        BY <3>2
      <4> QED
        BY <1>2, <1>3, <3>2, <3>3, <4>1, <4>2, <4>3, OneCard
    <3>5. Aligns(v, c, g, entry'[c], receipt'[<<c, g>>], dispatch'[c])
      BY <1>0, <1>7, <2>1, <3>2 DEF Aligns
    <3> QED
      BY <3>2, <3>3, <3>4, <3>5 DEF Shape
  <2>3. CASE f \in {F("queue", c, g, "DISPATCHED"), F("queue", c, g, "RETIRED")}
    <3>1. /\ f.file = "queue" /\ f.card = c /\ f.gen = g
          /\ f.to \in {"DISPATCHED", "RETIRED"}
      BY <2>3 DEF F
    <3>2. /\ entry'[c] = [state |-> f.to, gen |-> g]
          /\ \A a \in Cards \ {c} : entry'[a] = entry[a]
          /\ \A a \in Cards, b \in Gens :
               /\ receipt'[<<a, b>>] = receipt[<<a, b>>]
               /\ tombstone'[<<a, b>>] = tombstone[<<a, b>>]
          /\ receipt'[<<c, g>>] = receipt[<<c, g>>] /\ tombstone'[<<c, g>>] = tombstone[<<c, g>>]
      BY <1>2, <3>1
    <3>3. \A b \in Gens : Fence(b, entry'[c].gen, receipt'[<<c, b>>], tombstone'[<<c, b>>])
      <4>1. ASSUME NEW b \in Gens
            PROVE  Fence(b, entry'[c].gen, receipt'[<<c, b>>], tombstone'[<<c, b>>])
        <5>1. Fence(b, g, receipt[<<c, b>>], tombstone[<<c, b>>])
          BY <1>3, <2>1 DEF GenerationFenced, Fence
        <5>2. CASE b = g
          BY <2>1, <3>2, <5>2 DEF Fence, Gens
        <5>3. CASE b # g
          BY <2>1, <3>2, <5>1, <5>3
        <5> QED
          BY <5>2, <5>3
      <4> QED
        BY <4>1
    <3>4. GenerationFenced' /\ EvidenceFollowsLedger'
      <4>1. \A b \in Gens : receipt'[<<c, b>>] = "DISPATCHED" => dispatch[c] # None
        <5>1. \A b \in Gens : receipt[<<c, b>>] = "DISPATCHED" => dispatch[c] # None
          BY <1>3 DEF EvidenceFollowsLedger
        <5>2. ASSUME NEW b \in Gens, receipt'[<<c, b>>] = "DISPATCHED"
              PROVE  dispatch[c] # None
          BY <2>1, <3>2, <5>1, <5>2
        <5> QED
          BY <5>2
      <4>2. entry'[c].state \in {"DISPATCHED", "RETIRED"} =>
              receipt'[<<c, entry'[c].gen>>] = "DISPATCHED"
        <5>1. entry[c].state \in {"DISPATCHED", "RETIRED"} => receipt[<<c, g>>] = "DISPATCHED"
          BY <1>3, <2>1 DEF EvidenceFollowsLedger
        <5> QED
          BY <2>1, <3>1, <3>2, <5>1
      <4>3. \A a \in Cards \ {c}, b \in Gens :
              /\ receipt'[<<a, b>>] = receipt[<<a, b>>]
              /\ tombstone'[<<a, b>>] = tombstone[<<a, b>>]
        BY <3>2
      <4> QED
        BY <1>2, <1>3, <3>2, <3>3, <4>1, <4>2, <4>3, OneCard
    <3>5. Aligns(v, c, g, entry'[c], receipt'[<<c, g>>], dispatch'[c])
      BY <1>0, <1>7, <2>1, <3>1, <3>2 DEF Aligns
    <3> QED
      BY <3>2, <3>3, <3>4, <3>5 DEF Shape
  <2> QED
    BY <2>1, <2>2, <2>3
<1> QED
  <2>1. CASE \A i \in 1..Len(w) : Light(w[i])
    BY <1>0, <1>1, <1>4, <2>1
  <2> QED
    BY <1>4, <1>5, <1>6, <1>7, <2>1 DEF Shape

-----------------------------------------------------------------------------
(* Operations of the store. *)

\* What nothing takes back.
Forward ==
  /\ \A s \in Cards \X Gens : receipt[s] = "DISPATCHED" => receipt'[s] = "DISPATCHED"
  /\ \A c \in Cards : dispatch[c] # None => dispatch'[c] = dispatch[c]

\* The files of the operations.
LEMMA FileTypes ==
  ASSUME NEW c \in Cards, NEW g \in Gens
  PROVE  /\ \A n \in 0..MaxHead : F("plan", c, g, n) \in File
         /\ \A t \in ReceiptPhase : F("receipt", c, g, t) \in File
         /\ F("reservation", c, g, TRUE) \in File
         /\ \A t \in TombstoneKind : F("tombstone", c, g, t) \in File
         /\ \A t \in QueuePhase : F("queue", c, g, t) \in File
         /\ \A t \in ExecutionPhase : F("execution", c, g, t) \in File
BY DEF F, File

\* A file that may be written or not is a sequence.
LEMMA IfSeq ==
  ASSUME NEW S, NEW f \in S, NEW condition
  PROVE  If(condition, f) \in Seq(S)
<1>1. <<>> \in Seq(S) /\ <<f>> \in Seq(S)
  OBVIOUS
<1> QED
  BY <1>1 DEF If

\* Nothing is written.
LEMMA QuietStore ==
  ASSUME StoreOK, UNCHANGED <<files, lock, todo>>,
         \A c \in Cards : dispatch[c] # None => dispatch'[c] = dispatch[c]
  PROVE  StoreOK' /\ Forward
<1>1. /\ entry' = entry /\ plan' = plan /\ receipt' = receipt
      /\ reservation' = reservation /\ tombstone' = tombstone
      /\ execution' = execution /\ lock' = lock /\ todo' = todo
  BY DEF files
<1>2. FilesTyped' /\ GenerationFenced'
  BY <1>1 DEF StoreOK, FilesOK, FilesTyped, GenerationFenced
<1>3. EvidenceFollowsLedger'
  BY <1>1 DEF StoreOK, FilesOK, EvidenceFollowsLedger
<1>4. ASSUME todo # <<>>
      PROVE  Sound(todo)'
  <2>1. PICK c \in Cards, g \in Gens :
          Shape(todo, c, g, entry[c], receipt[<<c, g>>], tombstone[<<c, g>>], dispatch[c])
    BY <1>4 DEF StoreOK, Sound
  <2>2. Shape(todo', c, g, entry'[c], receipt'[<<c, g>>], tombstone'[<<c, g>>], dispatch'[c])
    BY <1>1, <2>1 DEF Shape, Aligns
  <2> QED
    BY <2>2 DEF Sound
<1> QED
  BY <1>1, <1>2, <1>3, <1>4 DEF StoreOK, FilesOK, Forward

\* The lock is released, or left by somebody who dies.
LEMMA ReleasedStore ==
  ASSUME StoreOK, UNCHANGED files, todo' = <<>>, lock' \in {None, Orphan},
         dispatch' = dispatch
  PROVE  StoreOK' /\ Forward
<1>1. /\ entry' = entry /\ plan' = plan /\ receipt' = receipt
      /\ reservation' = reservation /\ tombstone' = tombstone
      /\ execution' = execution
  BY DEF files
<1>2. FilesOK'
  BY <1>1 DEF StoreOK, FilesOK, FilesTyped, GenerationFenced, EvidenceFollowsLedger
<1> QED
  BY <1>1, <1>2 DEF StoreOK, Forward

\* The holder of the lock writes the next file.
LEMMA WriteOnStore ==
  ASSUME StoreOK, NEW x, x \notin {None, Orphan}, WriteOn(x)
  PROVE  StoreOK' /\ Forward
<1>1. /\ lock = x /\ Put(Head(todo)) /\ todo' = Tail(todo) /\ dispatch' = dispatch
      /\ lock' = IF Tail(todo) = <<>> THEN None ELSE lock
  BY DEF WriteOn, ledger
<1>2. PICK w \in Seq(File) : w = todo
  BY DEF StoreOK
<1>3. w # <<>> /\ Sound(w) /\ FilesOK
  BY <1>1, <1>2 DEF StoreOK, Sound
<1>4. PICK c \in Cards, g \in Gens :
        Shape(w, c, g, entry[c], receipt[<<c, g>>], tombstone[<<c, g>>], dispatch[c])
  BY <1>3 DEF Sound
<1>5. Put(Head(w)) /\ todo' = Tail(w)
  BY <1>1, <1>2
<1>6. /\ FilesOK'
      /\ Shape(Tail(w), c, g, entry'[c], receipt'[<<c, g>>], tombstone'[<<c, g>>], dispatch'[c])
      /\ \A s \in Cards \X Gens : receipt[s] = "DISPATCHED" => receipt'[s] = "DISPATCHED"
  BY <1>1, <1>3, <1>4, <1>5, PutFirst
<1>7. Sound(todo)'
  BY <1>5, <1>6 DEF Sound
<1>8. todo' \in Seq(File)
  BY <1>3, <1>5
<1> QED
  BY <1>1, <1>5, <1>6, <1>7, <1>8 DEF StoreOK, Forward

\* An operation takes the lock and writes its first file.
LEMMA WriteStore ==
  ASSUME StoreOK, NEW x, x \notin {None, Orphan},
         NEW w \in Seq(File), w # <<>> => Sound(w), Write(x, w), dispatch' = dispatch
  PROVE  StoreOK' /\ Forward
<1>1. CASE w = <<>>
  BY <1>1, QuietStore DEF Write
<1>2. CASE w # <<>>
  <2>1. /\ lock = None /\ Put(Head(w)) /\ todo' = Tail(w) /\ FilesOK
        /\ lock' = IF Tail(w) = <<>> THEN None ELSE x
    BY <1>2 DEF Write, StoreOK
  <2>2. PICK c \in Cards, g \in Gens :
          Shape(w, c, g, entry[c], receipt[<<c, g>>], tombstone[<<c, g>>], dispatch[c])
    BY <1>2 DEF Sound
  <2>3. /\ FilesOK'
        /\ Shape(Tail(w), c, g, entry'[c], receipt'[<<c, g>>], tombstone'[<<c, g>>], dispatch'[c])
        /\ \A s \in Cards \X Gens : receipt[s] = "DISPATCHED" => receipt'[s] = "DISPATCHED"
    BY <1>2, <2>1, <2>2, PutFirst
  <2>4. Sound(todo)'
    BY <2>1, <2>3 DEF Sound
  <2>5. todo' \in Seq(File)
    BY <1>2, <2>1
  <2> QED
    BY <2>1, <2>3, <2>4, <2>5 DEF StoreOK, Forward
<1> QED
  BY <1>1, <1>2

\* The files of a reservation.
LEMMA SelectionSound ==
  ASSUME FilesOK, NEW c \in Cards, NEW g \in Gens, NEW snap \in 0..MaxHead,
         entry[c].gen = g, entry[c].state \in {"QUEUED", "SELECTED"},
         receipt[<<c, g>>] # "DISPATCHED"
  PROVE  SelectionWrites(c, g, snap) \in Seq(File) /\ Sound(SelectionWrites(c, g, snap))
<1> DEFINE S == {f \in File : \/ Light(f)
                              \/ f \in {F("receipt", c, g, "SELECTED"),
                                        F("queue", c, g, "SELECTED")}}
           w == SelectionWrites(c, g, snap)
<1>1. /\ F("plan", c, g, snap) \in S /\ F("receipt", c, g, "SELECTED") \in S
      /\ F("reservation", c, g, TRUE) \in S /\ F("queue", c, g, "SELECTED") \in S
  <2>1. "SELECTED" \in ReceiptPhase /\ "SELECTED" \in QueuePhase
    BY DEF ReceiptPhase, QueuePhase
  <2>2. Light(F("plan", c, g, snap)) /\ Light(F("reservation", c, g, TRUE))
    BY DEF Light, F
  <2> QED
    BY <2>1, <2>2, FileTypes
<1> HIDE DEF S
<1>2. /\ If(plan[<<c, g>>] = None, F("plan", c, g, snap)) \in Seq(S)
      /\ If(receipt[<<c, g>>] = None, F("receipt", c, g, "SELECTED")) \in Seq(S)
      /\ If(~reservation[<<c, g>>], F("reservation", c, g, TRUE)) \in Seq(S)
      /\ If(entry[c].state = "QUEUED", F("queue", c, g, "SELECTED")) \in Seq(S)
  BY <1>1, IfSeq
<1>3. w \in Seq(S)
  <2>1. \A u, x, y, z \in Seq(S) : u \o x \o y \o z \in Seq(S)
    OBVIOUS
  <2> QED
    BY <1>2, <2>1 DEF SelectionWrites
<1>4. S \subseteq File
  BY DEF S
<1>5. w \in Seq(File) /\ \A i \in 1..Len(w) : w[i] \in S
  BY <1>3, <1>4
<1> HIDE DEF w
<1>6. Selects(w, c, g, entry[c], receipt[<<c, g>>])
  BY <1>5 DEF Selects, S
<1> QED
  BY <1>5, <1>6 DEF Sound, Shape, w

-----------------------------------------------------------------------------
(* Ticks. *)

\* A tick has gone on, or stopped.
LEMMA OneTick ==
  ASSUME TicksOK, NEW p \in Processes, proc' \in [Processes -> Tick],
         \A q \in Processes \ {p} : proc'[q] = proc[q],
         TickOK(proc'[p], receipt', dispatch'), Forward
  PROVE  TicksOK'
<1>1. ASSUME NEW q \in Processes \ {p}
      PROVE  TickOK(proc'[q], receipt', dispatch')
  <2>1. TickOK(proc[q], receipt, dispatch) /\ proc[q] \in Tick
    BY DEF TicksOK
  <2>2. proc[q].card \in Cards => <<proc[q].card, proc[q].gen>> \in Cards \X Gens
    BY <2>1 DEF Tick
  <2>3. TickOK(proc[q], receipt', dispatch')
    BY <2>1, <2>2 DEF TickOK, Forward
  <2> QED
    BY <2>3
<1> QED
  BY <1>1 DEF TicksOK

\* No tick has moved.
LEMMA NoTick ==
  ASSUME TicksOK, proc' = proc, Forward
  PROVE  TicksOK'
<1>1. ASSUME NEW q \in Processes
      PROVE  TickOK(proc'[q], receipt', dispatch')
  <2>1. TickOK(proc[q], receipt, dispatch) /\ proc[q] \in Tick
    BY DEF TicksOK
  <2>2. proc[q].card \in Cards => <<proc[q].card, proc[q].gen>> \in Cards \X Gens
    BY <2>1 DEF Tick
  <2>3. TickOK(proc[q], receipt', dispatch')
    BY <2>1, <2>2 DEF TickOK, Forward
  <2> QED
    BY <2>3
<1> QED
  BY <1>1 DEF TicksOK

\* An idle tick is a tick.
LEMMA IdleTick == Idle \in Tick /\ Idle.pc = "idle" /\ NoEntry \in Entry
<1>1. 1 \in Gens
  BY BoundsAreNat DEF Gens
<1>2. NoEntry \in Entry
  BY <1>1 DEF NoEntry, Entry
<1>3. 0 \in 0..MaxHead
  BY BoundsAreNat
<1> QED
  BY <1>1, <1>2, <1>3 DEF Idle, Tick, Unlocked

\* The end of a tick.
LEMMA TickEnds ==
  ASSUME TicksOK, NEW p \in Processes, EndTick(p), Forward
  PROVE  TicksOK'
<1>1. /\ proc' \in [Processes -> Tick] /\ proc'[p] = Idle
      /\ \A q \in Processes \ {p} : proc'[q] = proc[q]
  BY IdleTick DEF EndTick, TicksOK
<1>2. TickOK(proc'[p], receipt', dispatch')
  BY <1>1, IdleTick DEF TickOK
<1> QED
  BY <1>1, <1>2, OneTick

\* A tick starts for the plan of a card.
LEMMA TickStarts ==
  ASSUME TicksOK, NEW p \in Processes, NEW m \in Tick, m.pc = "read", m.card \in Cards,
         m.receipt = None, proc' = [proc EXCEPT ![p] = m], Forward
  PROVE  TicksOK'
<1>1. TickOK(m, receipt', dispatch')
  BY NoneIsNothing DEF TickOK, Informed, Transited, ReceiptPhase
<1>2. /\ proc' \in [Processes -> Tick] /\ proc'[p] = m
      /\ \A q \in Processes \ {p} : proc'[q] = proc[q]
  BY DEF TicksOK
<1> QED
  BY <1>1, <1>2, OneTick

\* What a tick knows, and where it may go next.
LEMMA TickFacts ==
  ASSUME TicksOK, NEW p \in Processes, proc[p].pc # "idle"
  PROVE  /\ proc[p] \in Tick /\ proc[p].card \in Cards /\ proc[p].gen \in Gens
         /\ proc[p].snap \in 0..MaxHead /\ proc[p].queue \in [Cards -> Entry]
         /\ proc[p].expect \in QueuePhase \cup {None}
         /\ TickOK(proc[p], receipt, dispatch)
BY DEF TicksOK, Tick, TickOK

\* A tick goes to its next step.
LEMMA TickGoes ==
  ASSUME TicksOK, NEW p \in Processes, NEW pc \in Unlocked \cup LockTakers, Goto(p, pc)
  PROVE  /\ proc' \in [Processes -> Tick]
         /\ proc'[p] = [proc[p] EXCEPT !.pc = pc]
         /\ \A q \in Processes \ {p} : proc'[q] = proc[q]
BY DEF TicksOK, Goto, Tick

\* Reading: the queue, the entry, the receipt, the ledger.
LEMMA Reads ==
  ASSUME TicksOK, FilesTyped, LedgerOK, NEW p \in Processes,
         \/ ReadQueue(p) \/ Decide(p) \/ LoadEntry(p) \/ LoadReceipt(p)
         \/ LoadCanonical(p) \/ Admitted(p),
         Forward
  PROVE  TicksOK'
<1> DEFINE m == proc[p]
<1>1. m.pc # "idle"
  BY DEF ReadQueue, Decide, LoadEntry, LoadReceipt, LoadCanonical, Admitted, At
<1>2. /\ m \in Tick /\ m.card \in Cards /\ m.gen \in Gens
      /\ m.queue \in [Cards -> Entry] /\ TickOK(m, receipt, dispatch)
      /\ m.receipt \in ReceiptPhase \cup {None}
  BY <1>1, TickFacts DEF Tick
<1>3. receipt' = receipt /\ dispatch' = dispatch
  BY DEF ReadQueue, Decide, LoadEntry, LoadReceipt, LoadCanonical, Admitted, files, ledger
<1>4. CASE ReadQueue(p)
  <2>1. m.pc = "read" /\ proc' = [proc EXCEPT ![p].queue = entry, ![p].pc = "decide"]
    BY <1>4 DEF ReadQueue, At
  <2>2. PICK n : n = [m EXCEPT !.queue = entry, !.pc = "decide"]
    OBVIOUS
  <2>3. n \in Tick /\ n.pc = "decide" /\ n.card = m.card /\ n.gen = m.gen /\ n.receipt = m.receipt
    BY <1>2, <2>2 DEF Tick, Unlocked, FilesTyped
  <2>4. proc' = [proc EXCEPT ![p] = n]
    BY <2>1, <2>2
  <2>5. TickOK(n, receipt', dispatch')
    BY <1>1, <1>2, <1>3, <2>3 DEF TickOK, Informed, Transited
  <2> QED
    BY <2>3, <2>4, <2>5, OneTick DEF TicksOK
<1>5. CASE Decide(p)
  <2>1. PICK next : /\ next = Decision(m.queue, m.card, m.gen, m.snap)
                    /\ next # "refuse"
                    /\ proc' = [proc EXCEPT ![p].pc = next,
                                            ![p].expect = m.queue[m.card].state,
                                            ![p].queue = Idle.queue]
    BY <1>5 DEF Decide
  <2>2. next \in {"reserve", "entry"}
    BY <2>1 DEF Decision
  <2>3. m.queue[m.card].state \in QueuePhase \cup {None} /\ Idle.queue \in [Cards -> Entry]
    BY <1>2, IdleTick DEF Entry, Idle
  <2>4. PICK n : n = [m EXCEPT !.pc = next, !.expect = m.queue[m.card].state,
                               !.queue = Idle.queue]
    OBVIOUS
  <2>5. n \in Tick /\ n.pc = next /\ n.card = m.card /\ n.gen = m.gen /\ n.receipt = m.receipt
    BY <1>2, <2>2, <2>3, <2>4 DEF Tick, Unlocked, LockTakers
  <2>6. proc' = [proc EXCEPT ![p] = n]
    BY <2>1, <2>4
  <2>7. TickOK(n, receipt', dispatch')
    BY <1>1, <1>2, <1>3, <2>2, <2>5 DEF TickOK, Informed, Transited
  <2> QED
    BY <2>5, <2>6, <2>7, OneTick DEF TicksOK
<1>6. CASE LoadEntry(p)
  <2>1. /\ m.pc = "entry"
        /\ proc' = [proc EXCEPT ![p].entry = entry[m.card].state, ![p].pc = "receipt"]
    BY <1>6 DEF LoadEntry, At
  <2>2. entry[m.card].state \in QueuePhase \cup {None}
    BY <1>2 DEF FilesTyped, Entry
  <2>3. PICK n : n = [m EXCEPT !.entry = entry[m.card].state, !.pc = "receipt"]
    OBVIOUS
  <2>4. n \in Tick /\ n.pc = "receipt" /\ n.card = m.card /\ n.gen = m.gen /\ n.receipt = m.receipt
    BY <1>2, <2>2, <2>3 DEF Tick, Unlocked
  <2>5. proc' = [proc EXCEPT ![p] = n]
    BY <2>1, <2>3
  <2>6. TickOK(n, receipt', dispatch')
    BY <1>1, <1>2, <1>3, <2>4 DEF TickOK, Informed, Transited
  <2> QED
    BY <2>4, <2>5, <2>6, OneTick DEF TicksOK
<1>7. CASE LoadReceipt(p)
  <2>1. /\ m.pc = "receipt" /\ Readable(m.card, m.gen)
        /\ proc' = [proc EXCEPT ![p].receipt = receipt[<<m.card, m.gen>>], ![p].pc = "canonical"]
    BY <1>7 DEF LoadReceipt, At
  <2>2. receipt[<<m.card, m.gen>>] \in ReceiptPhase
    BY <1>2, <2>1 DEF FilesTyped, Readable
  <2>3. PICK n : n = [m EXCEPT !.receipt = receipt[<<m.card, m.gen>>], !.pc = "canonical"]
    OBVIOUS
  <2>4. /\ n \in Tick /\ n.pc = "canonical" /\ n.card = m.card /\ n.gen = m.gen
        /\ n.receipt = receipt[<<m.card, m.gen>>]
    BY <1>2, <2>2, <2>3 DEF Tick, Unlocked
  <2>5. proc' = [proc EXCEPT ![p] = n]
    BY <2>1, <2>3
  <2>6. TickOK(n, receipt', dispatch')
    BY <1>1, <1>2, <1>3, <2>2, <2>4 DEF TickOK, Informed, Transited
  <2> QED
    BY <2>4, <2>5, <2>6, OneTick DEF TicksOK
<1>8. CASE LoadCanonical(p)
  <2>1. m.pc = "canonical"
    BY <1>8 DEF LoadCanonical, At
  <2>2. \/ Replays(m.card, m.gen) /\ Goto(p, "alignReceipt")
        \/ Goto(p, "slot")
    BY <1>8 DEF LoadCanonical
  <2>3. CASE Replays(m.card, m.gen) /\ Goto(p, "alignReceipt")
    <3>1. dispatch[m.card] # None
      BY <1>2, <2>3, NoneIsNothing DEF Replays
    <3>2. /\ proc' \in [Processes -> Tick] /\ proc'[p] = [m EXCEPT !.pc = "alignReceipt"]
          /\ \A q \in Processes \ {p} : proc'[q] = proc[q]
      BY <2>3, TickGoes DEF LockTakers
    <3>3. proc'[p].pc = "alignReceipt" /\ proc'[p].card = m.card /\ proc'[p].gen = m.gen
          /\ proc'[p].receipt = m.receipt
      BY <1>2, <3>2 DEF Tick
    <3>4. TickOK(proc'[p], receipt', dispatch')
      BY <1>1, <1>2, <1>3, <2>1, <3>1, <3>3 DEF TickOK, Informed, Transited
    <3> QED
      BY <3>2, <3>4, OneTick
  <2>4. CASE Goto(p, "slot")
    <3>1. /\ proc' \in [Processes -> Tick] /\ proc'[p] = [m EXCEPT !.pc = "slot"]
          /\ \A q \in Processes \ {p} : proc'[q] = proc[q]
      BY <2>4, TickGoes DEF Unlocked
    <3>2. proc'[p].pc = "slot" /\ proc'[p].card = m.card /\ proc'[p].gen = m.gen
          /\ proc'[p].receipt = m.receipt
      BY <1>2, <3>1 DEF Tick
    <3>3. TickOK(proc'[p], receipt', dispatch')
      BY <1>1, <1>2, <1>3, <2>1, <3>2 DEF TickOK, Informed, Transited
    <3> QED
      BY <3>1, <3>3, OneTick
  <2> QED
    BY <2>2, <2>3, <2>4
<1>9. CASE Admitted(p)
  BY <1>9, TickEnds DEF Admitted
<1> QED
  BY <1>4, <1>5, <1>6, <1>7, <1>8, <1>9

-----------------------------------------------------------------------------
(* The steps of PortfolioScheduler keep the invariant. *)

\* Somebody with a name of its own may hold the lock.
LEMMA Names ==
  /\ \A p \in Processes : p \notin {None, Orphan}
  /\ \A r \in Recoverers : r \notin {None, Orphan}
BY NoneIsNothing, NobodyRecovers

\* The ledger, the slots and Git are left alone.
LEMMA QuietLedger ==
  ASSUME LedgerOK, UNCHANGED ledger, lease' = lease
  PROVE  LedgerOK' /\ dispatch' = dispatch
BY DEF LedgerOK, ledger

\* Git and the bounds are left alone.
LEMMA QuietGit ==
  ASSUME GitOK, UNCHANGED git, faults' = faults
  PROVE  GitOK'
BY DEF GitOK, git

\* Something fails or dies.
LEMMA Faulty ==
  ASSUME GitOK, UNCHANGED git, faults < MaxFaults, faults' = faults + 1
  PROVE  GitOK'
BY BoundsAreNat DEF GitOK, git

\* A handoff submits its card.
LEMMA SubmitKeeps ==
  ASSUME IInv, NEW p \in Processes, NEW c \in Cards, Submit(p, c)
  PROVE  IInv' /\ Forward
<1>1. GitOK' /\ LedgerOK' /\ dispatch' = dispatch
  BY QuietGit, QuietLedger DEF IInv, Submit
<1>2. StoreOK' /\ Forward
  BY <1>1, QuietStore DEF IInv, Submit
<1>3. TicksOK'
  <2>1. PICK m : m = [Idle EXCEPT !.pc = "read", !.card = c, !.snap = commit[c]]
    OBVIOUS
  <2>2. commit[c] \in 0..MaxHead
    BY DEF IInv, GitOK
  <2>3. m \in Tick /\ m.pc = "read" /\ m.card = c /\ m.receipt = None
    BY <2>1, <2>2, IdleTick DEF Idle, Tick, Unlocked
  <2>4. proc' = [proc EXCEPT ![p] = m]
    BY <2>1 DEF Submit
  <2> QED
    BY <1>2, <2>3, <2>4, TickStarts DEF IInv
<1> QED
  BY <1>1, <1>2, <1>3 DEF IInv

\* A tick reads.
LEMMA ReadsKeep ==
  ASSUME IInv, NEW p \in Processes,
         \/ ReadQueue(p) \/ Decide(p) \/ LoadEntry(p) \/ LoadReceipt(p)
         \/ LoadCanonical(p) \/ Admitted(p)
  PROVE  IInv' /\ Forward
<1>1. /\ UNCHANGED git /\ UNCHANGED ledger /\ UNCHANGED <<files, lock, todo>>
      /\ lease' = lease /\ faults' = faults
  BY DEF ReadQueue, Decide, LoadEntry, LoadReceipt, LoadCanonical, Admitted
<1>2. GitOK' /\ LedgerOK' /\ dispatch' = dispatch
  BY <1>1, QuietGit, QuietLedger DEF IInv
<1>3. StoreOK' /\ Forward
  BY <1>1, <1>2, QuietStore DEF IInv
<1>4. TicksOK'
  BY <1>3, Reads DEF IInv, StoreOK, FilesOK
<1> QED
  BY <1>2, <1>3, <1>4 DEF IInv

\* A tick reserves the selection of its card.
LEMMA ReserveKeeps ==
  ASSUME IInv, NEW p \in Processes, Reserve(p)
  PROVE  IInv' /\ Forward
<1>1. GitOK' /\ LedgerOK' /\ dispatch' = dispatch
  BY QuietGit, QuietLedger DEF IInv, Reserve
<1>2. PICK m : m = proc[p]
  OBVIOUS
<1>3. /\ m.pc = "reserve" /\ m \in Tick /\ m.card \in Cards /\ m.gen \in Gens
      /\ m.snap \in 0..MaxHead /\ TickOK(m, receipt, dispatch)
  BY <1>2, TickFacts DEF IInv, Reserve, At
<1>4. PICK w : w = SelectionWrites(m.card, m.gen, m.snap)
  OBVIOUS
<1>5. /\ entry[m.card].state \in {"QUEUED", "SELECTED"} /\ entry[m.card].gen = m.gen
      /\ receipt[<<m.card, m.gen>>] # "DISPATCHED"
      /\ Write(p, w)
      /\ proc' = [proc EXCEPT ![p].pc = "entry", ![p].expect = "SELECTED"]
  BY <1>2, <1>4 DEF Reserve
<1>6. w \in Seq(File) /\ Sound(w)
  BY <1>3, <1>4, <1>5, SelectionSound DEF IInv, StoreOK
<1>7. StoreOK' /\ Forward
  BY <1>1, <1>5, <1>6, Names, WriteStore DEF IInv
<1>8. TicksOK'
  <2>1. PICK n : n = [m EXCEPT !.pc = "entry", !.expect = "SELECTED"]
    OBVIOUS
  <2>2. n \in Tick /\ n.pc = "entry" /\ n.card = m.card /\ n.gen = m.gen /\ n.receipt = m.receipt
    BY <1>3, <2>1 DEF Tick, Unlocked, QueuePhase
  <2>3. proc' = [proc EXCEPT ![p] = n]
    BY <1>2, <1>5, <2>1
  <2>4. TickOK(n, receipt', dispatch')
    BY <1>3, <1>7, <2>2 DEF TickOK, Informed, Transited, Forward
  <2> QED
    BY <1>7, <2>2, <2>3, <2>4, OneTick DEF IInv, TicksOK
<1> QED
  BY <1>1, <1>7, <1>8 DEF IInv

\* A tick takes a slot.
LEMMA AcquireSlotKeeps ==
  ASSUME IInv, NEW p \in Processes, AcquireSlot(p)
  PROVE  IInv' /\ Forward
<1>1. GitOK' /\ dispatch' = dispatch
  BY QuietGit DEF IInv, AcquireSlot, ledger
<1>2. StoreOK' /\ Forward
  BY <1>1, QuietStore DEF IInv, AcquireSlot
<1>3. PICK m : m = proc[p]
  OBVIOUS
<1>4. /\ m.pc = "slot" /\ m \in Tick /\ m.card \in Cards /\ m.gen \in Gens
      /\ TickOK(m, receipt, dispatch)
  BY <1>3, TickFacts DEF IInv, AcquireSlot, At
<1>5. LedgerOK'
  <2>1. lease' = lease \cup {<<m.card, m.gen>>} /\ UNCHANGED ledger
    BY <1>3 DEF AcquireSlot, Slot
  <2> QED
    BY <1>4, <2>1 DEF IInv, LedgerOK, ledger
<1>6. TicksOK'
  <2>1. /\ proc' \in [Processes -> Tick] /\ proc'[p] = [m EXCEPT !.pc = "transit"]
        /\ \A q \in Processes \ {p} : proc'[q] = proc[q]
    BY <1>3, TickGoes DEF IInv, AcquireSlot, Unlocked
  <2>2. /\ proc'[p].pc = "transit" /\ proc'[p].card = m.card /\ proc'[p].gen = m.gen
        /\ proc'[p].receipt = m.receipt
    BY <1>4, <2>1 DEF Tick
  <2>3. TickOK(proc'[p], receipt', dispatch')
    BY <1>2, <1>4, <2>2 DEF TickOK, Informed, Transited, Forward
  <2> QED
    BY <1>2, <2>1, <2>3, OneTick DEF IInv
<1> QED
  BY <1>1, <1>2, <1>5, <1>6 DEF IInv

\* A tick dispatches its card.
LEMMA TransitKeeps ==
  ASSUME IInv, NEW p \in Processes, Transit(p)
  PROVE  IInv' /\ Forward
<1>1. GitOK'
  BY QuietGit DEF IInv, Transit
<1>2. PICK m : m = proc[p]
  OBVIOUS
<1>3. /\ m.pc = "transit" /\ m \in Tick /\ m.card \in Cards /\ m.gen \in Gens
      /\ TickOK(m, receipt, dispatch)
  BY <1>2, TickFacts DEF IInv, Transit, At
<1>4. /\ task[m.card] = "ready" /\ lease' = lease
      /\ events' = [events EXCEPT ![m.card] = @ \cup {m.gen}]
      /\ task' = [task EXCEPT ![m.card] = "dispatched"]
      /\ dispatch' = [dispatch EXCEPT ![m.card] = m.gen]
      /\ proc' = [proc EXCEPT ![p].pc = "alignReceipt", ![p].fresh = TRUE]
  BY <1>2 DEF Transit
<1>5. LedgerOK' /\ \A c \in Cards : dispatch[c] # None => dispatch'[c] = dispatch[c]
  BY <1>3, <1>4 DEF IInv, LedgerOK
<1>6. StoreOK' /\ Forward
  BY <1>5, QuietStore DEF IInv, Transit
<1>7. TicksOK'
  <2>1. PICK n : n = [m EXCEPT !.pc = "alignReceipt", !.fresh = TRUE]
    OBVIOUS
  <2>2. /\ n \in Tick /\ n.pc = "alignReceipt" /\ n.card = m.card /\ n.gen = m.gen
        /\ n.receipt = m.receipt
    BY <1>3, <2>1 DEF Tick, LockTakers
  <2>3. proc' = [proc EXCEPT ![p] = n]
    BY <1>2, <1>4, <2>1
  <2>4. dispatch'[m.card] # None
    BY <1>3, <1>4, NoneIsNothing DEF IInv, LedgerOK
  <2>5. receipt' = receipt
    BY DEF Transit, files
  <2>6. TickOK(n, receipt', dispatch')
    BY <1>3, <2>2, <2>4, <2>5 DEF TickOK, Informed, Transited
  <2> QED
    BY <1>6, <2>2, <2>3, <2>6, OneTick DEF IInv, TicksOK
<1> QED
  BY <1>1, <1>5, <1>6, <1>7 DEF IInv

\* A transition fails between its event and the task.
LEMMA TransitTornKeeps ==
  ASSUME IInv, NEW p \in Processes, TransitTorn(p)
  PROVE  IInv' /\ Forward
<1>1. GitOK' /\ dispatch' = dispatch
  BY Faulty DEF IInv, TransitTorn
<1>2. proc[p].gen \in Gens /\ proc[p].card \in Cards
  BY TickFacts DEF IInv, TransitTorn, At
<1>3. LedgerOK'
  <2>1. /\ events' = [events EXCEPT ![proc[p].card] = @ \cup {proc[p].gen}]
        /\ task' = task /\ dispatch' = dispatch /\ lease' = lease
    BY DEF TransitTorn
  <2> QED
    BY <1>2, <2>1 DEF IInv, LedgerOK
<1>4. StoreOK' /\ Forward
  BY <1>1, QuietStore DEF IInv, TransitTorn
<1>5. TicksOK'
  BY <1>4, TickEnds DEF IInv, TransitTorn
<1> QED
  BY <1>1, <1>3, <1>4, <1>5 DEF IInv

\* One file that aligns the store with a dispatch.
LEMMA AlignmentSound ==
  ASSUME NEW c \in Cards, NEW g \in Gens, entry[c].gen = g, dispatch[c] # None,
         NEW f, f \in {F("receipt", c, g, "DISPATCHED"), F("queue", c, g, "DISPATCHED"),
                       F("queue", c, g, "RETIRED")},
         f.file = "queue" => receipt[<<c, g>>] = "DISPATCHED"
  PROVE  f \in File /\ <<f>> \in Seq(File) /\ <<f>> # <<>> /\ Sound(<<f>>)
<1>1. f \in File
  BY FileTypes DEF ReceiptPhase, QueuePhase
<1>2. PICK w : w = <<f>>
  OBVIOUS
<1>3. Len(w) = 1 /\ w[1] = f /\ w \in Seq(File)
  BY <1>1, <1>2
<1>4. \A i \in 1..Len(w) : i = 1
  BY <1>3
<1>5. Aligns(w, c, g, entry[c], receipt[<<c, g>>], dispatch[c])
  BY <1>3, <1>4 DEF Aligns
<1> QED
  BY <1>1, <1>2, <1>3, <1>5 DEF Sound, Shape

\* A tick aligns the receipt.
LEMMA AlignReceiptKeeps ==
  ASSUME IInv, NEW p \in Processes, AlignReceipt(p)
  PROVE  IInv' /\ Forward
<1>1. GitOK' /\ LedgerOK' /\ dispatch' = dispatch
  BY QuietGit, QuietLedger DEF IInv, AlignReceipt
<1>2. PICK m : m = proc[p]
  OBVIOUS
<1>3. /\ m.pc = "alignReceipt" /\ m \in Tick /\ m.card \in Cards /\ m.gen \in Gens
      /\ TickOK(m, receipt, dispatch)
  BY <1>2, TickFacts DEF IInv, AlignReceipt, At
<1>4. dispatch[m.card] # None /\ m.receipt \in ReceiptPhase
  BY <1>3 DEF TickOK, Transited, Informed
<1>5. StoreOK' /\ Forward /\ receipt'[<<m.card, m.gen>>] = "DISPATCHED"
  <2>1. CASE m.receipt = "SELECTED"
    <3>1. PICK f : f = F("receipt", m.card, m.gen, "DISPATCHED")
      OBVIOUS
    <3>2. /\ receipt[<<m.card, m.gen>>] # None /\ entry[m.card].gen = m.gen
          /\ Write(p, If(receipt[<<m.card, m.gen>>] = "SELECTED", f))
      BY <1>2, <2>1, <3>1 DEF AlignReceipt, Binds
    <3>3. f.file = "receipt" /\ f.card = m.card /\ f.gen = m.gen /\ f.to = "DISPATCHED"
      BY <3>1 DEF F
    <3>4. f \in File /\ <<f>> \in Seq(File) /\ <<f>> # <<>> /\ Sound(<<f>>)
      BY <1>3, <1>4, <3>1, <3>2, <3>3, AlignmentSound
    <3>5. CASE receipt[<<m.card, m.gen>>] = "SELECTED"
      <4>1. Write(p, <<f>>)
        BY <3>2, <3>5 DEF If
      <4>2. StoreOK' /\ Forward
        BY <1>1, <3>4, <4>1, Names, WriteStore DEF IInv
      <4>3. Put(f)
        BY <4>1 DEF Write
      <4>4. receipt'[<<m.card, m.gen>>] = "DISPATCHED"
        BY <1>3, <3>3, <3>4, <4>3, PutFile DEF IInv, StoreOK, FilesOK
      <4> QED
        BY <4>2, <4>4
    <3>6. CASE receipt[<<m.card, m.gen>>] # "SELECTED"
      <4>1. receipt[<<m.card, m.gen>>] = "DISPATCHED"
        BY <1>3, <3>2, <3>6 DEF IInv, StoreOK, FilesOK, FilesTyped, ReceiptPhase
      <4>2. UNCHANGED <<files, lock, todo>>
        BY <3>2, <3>6 DEF If, Write
      <4>3. StoreOK' /\ Forward
        BY <1>1, <4>2, QuietStore DEF IInv
      <4>4. receipt' = receipt
        BY <4>2 DEF files
      <4> QED
        BY <4>1, <4>3, <4>4
    <3> QED
      BY <3>5, <3>6
  <2>2. CASE m.receipt # "SELECTED"
    <3>1. receipt[<<m.card, m.gen>>] = "DISPATCHED"
      BY <1>3, <1>4, <2>2 DEF TickOK, ReceiptPhase
    <3>2. UNCHANGED <<files, lock, todo>>
      BY <1>2, <2>2 DEF AlignReceipt
    <3>3. StoreOK' /\ Forward
      BY <1>1, <3>2, QuietStore DEF IInv
    <3>4. receipt' = receipt
      BY <3>2 DEF files
    <3> QED
      BY <3>1, <3>3, <3>4
  <2> QED
    BY <2>1, <2>2
<1>6. TicksOK'
  <2>1. /\ proc' \in [Processes -> Tick] /\ proc'[p] = [m EXCEPT !.pc = "alignQueue"]
        /\ \A q \in Processes \ {p} : proc'[q] = proc[q]
    BY <1>2, TickGoes DEF IInv, AlignReceipt, LockTakers
  <2>2. /\ proc'[p].pc = "alignQueue" /\ proc'[p].card = m.card /\ proc'[p].gen = m.gen
        /\ proc'[p].receipt = m.receipt
    BY <1>3, <2>1 DEF Tick
  <2>3. TickOK(proc'[p], receipt', dispatch')
    BY <1>1, <1>3, <1>4, <1>5, <2>2 DEF TickOK
  <2> QED
    BY <1>5, <2>1, <2>3, OneTick DEF IInv
<1> QED
  BY <1>1, <1>5, <1>6 DEF IInv

\* A tick aligns the entry.
LEMMA AlignQueueKeeps ==
  ASSUME IInv, NEW p \in Processes, AlignQueue(p)
  PROVE  IInv' /\ Forward
<1>1. GitOK' /\ LedgerOK' /\ dispatch' = dispatch
  BY QuietGit, QuietLedger DEF IInv, AlignQueue
<1>2. PICK m : m = proc[p]
  OBVIOUS
<1>3. /\ m.pc = "alignQueue" /\ m \in Tick /\ m.card \in Cards /\ m.gen \in Gens
      /\ TickOK(m, receipt, dispatch)
  BY <1>2, TickFacts DEF IInv, AlignQueue, At
<1>4. /\ dispatch[m.card] # None /\ m.receipt \in ReceiptPhase
      /\ receipt[<<m.card, m.gen>>] = "DISPATCHED"
  BY <1>3 DEF TickOK, Transited, Informed
<1>5. StoreOK' /\ Forward
  <2>1. CASE m.entry = "SELECTED"
    <3>1. PICK f : f = F("queue", m.card, m.gen, "DISPATCHED")
      OBVIOUS
    <3>2. /\ entry[m.card].gen = m.gen
          /\ Write(p, If(entry[m.card].state = "SELECTED", f))
      BY <1>2, <2>1, <3>1 DEF AlignQueue
    <3>3. f \in File /\ <<f>> \in Seq(File) /\ <<f>> # <<>> /\ Sound(<<f>>)
      BY <1>3, <1>4, <3>1, <3>2, AlignmentSound
    <3>4. CASE entry[m.card].state = "SELECTED"
      <4>1. Write(p, <<f>>)
        BY <3>2, <3>4 DEF If
      <4> QED
        BY <1>1, <3>3, <4>1, Names, WriteStore DEF IInv
    <3>5. CASE entry[m.card].state # "SELECTED"
      <4>1. UNCHANGED <<files, lock, todo>>
        BY <3>2, <3>5 DEF If, Write
      <4> QED
        BY <1>1, <4>1, QuietStore DEF IInv
    <3> QED
      BY <3>4, <3>5
  <2>2. CASE m.entry # "SELECTED"
    <3>1. UNCHANGED <<files, lock, todo>>
      BY <1>2, <2>2 DEF AlignQueue
    <3> QED
      BY <1>1, <3>1, QuietStore DEF IInv
  <2> QED
    BY <2>1, <2>2
<1>6. TicksOK'
  <2>1. /\ proc' \in [Processes -> Tick] /\ proc'[p] = [m EXCEPT !.pc = "admitted"]
        /\ \A q \in Processes \ {p} : proc'[q] = proc[q]
    BY <1>2, TickGoes DEF IInv, AlignQueue, Unlocked
  <2>2. /\ proc'[p].pc = "admitted" /\ proc'[p].card = m.card /\ proc'[p].gen = m.gen
        /\ proc'[p].receipt = m.receipt
    BY <1>3, <2>1 DEF Tick
  <2>3. receipt'[<<m.card, m.gen>>] = "DISPATCHED"
    <3>1. <<m.card, m.gen>> \in Cards \X Gens
      BY <1>3
    <3> QED
      BY <1>4, <1>5, <3>1 DEF Forward
  <2>4. TickOK(proc'[p], receipt', dispatch')
    BY <1>1, <1>3, <1>4, <2>2, <2>3 DEF TickOK
  <2> QED
    BY <1>5, <2>1, <2>4, OneTick DEF IInv
<1> QED
  BY <1>1, <1>5, <1>6 DEF IInv

\* A tick stops: it gives up, fails or dies; or it goes on writing.
LEMMA StopsKeep ==
  ASSUME IInv, NEW p \in Processes, GiveUp(p) \/ Fail(p) \/ Die(p) \/ WriteOn(p)
  PROVE  IInv' /\ Forward
<1>1. CASE GiveUp(p)
  <2>1. GitOK' /\ dispatch' = dispatch
    BY <1>1, QuietGit DEF IInv, GiveUp, ledger
  <2>2. LedgerOK'
    <3>1. lease' \subseteq lease /\ UNCHANGED ledger
      BY <1>1 DEF GiveUp
    <3> QED
      BY <3>1 DEF IInv, LedgerOK, ledger
  <2>3. StoreOK' /\ Forward
    BY <1>1, <2>1, QuietStore DEF IInv, GiveUp
  <2>4. TicksOK'
    BY <1>1, <2>3, TickEnds DEF IInv, GiveUp
  <2> QED
    BY <2>1, <2>2, <2>3, <2>4 DEF IInv
<1>2. CASE Fail(p)
  <2>1. GitOK' /\ LedgerOK' /\ dispatch' = dispatch
    BY <1>2, Faulty, QuietLedger DEF IInv, Fail, WriteFails
  <2>2. StoreOK' /\ Forward
    BY <1>2, <2>1, ReleasedStore DEF IInv, Fail, WriteFails
  <2>3. TicksOK'
    BY <1>2, <2>2, TickEnds DEF IInv, Fail
  <2> QED
    BY <2>1, <2>2, <2>3 DEF IInv
<1>3. CASE Die(p)
  <2>1. GitOK' /\ LedgerOK' /\ dispatch' = dispatch
    BY <1>3, Faulty, QuietLedger DEF IInv, Die
  <2>2. StoreOK' /\ Forward
    <3>1. UNCHANGED files /\ todo' = IF lock = p THEN <<>> ELSE todo
      BY <1>3 DEF Die
    <3>2. CASE lock = p
      <4>1. todo' = <<>> /\ lock' = Orphan
        BY <1>3, <3>1, <3>2, Names DEF Die
      <4> QED
        BY <2>1, <3>1, <4>1, ReleasedStore DEF IInv
    <3>3. CASE lock = None /\ lock' = Orphan
      <4>1. todo' = <<>>
        BY <3>1, <3>3, Names DEF IInv, StoreOK
      <4> QED
        BY <2>1, <3>1, <3>3, <4>1, ReleasedStore DEF IInv
    <3>4. CASE lock # p /\ UNCHANGED lock
      BY <2>1, <3>1, <3>4, QuietStore DEF IInv
    <3> QED
      BY <1>3, <3>2, <3>3, <3>4 DEF Die
  <2>3. TicksOK'
    BY <1>3, <2>2, TickEnds DEF IInv, Die
  <2> QED
    BY <2>1, <2>2, <2>3 DEF IInv
<1>4. CASE WriteOn(p)
  <2>1. GitOK' /\ LedgerOK'
    BY <1>4, QuietGit, QuietLedger DEF IInv, WriteOn
  <2>2. StoreOK' /\ Forward
    BY <1>4, Names, WriteOnStore DEF IInv
  <2>3. TicksOK'
    BY <1>4, <2>2, NoTick DEF IInv, WriteOn
  <2> QED
    BY <2>1, <2>2, <2>3 DEF IInv
<1> QED
  BY <1>1, <1>2, <1>3, <1>4

\* Every step of a tick keeps the invariant.
LEMMA StepKeeps ==
  ASSUME IInv, NEW p \in Processes, Step(p)
  PROVE  IInv' /\ Forward
BY SubmitKeeps, ReadsKeep, ReserveKeeps, AcquireSlotKeeps, TransitKeeps, TransitTornKeeps,
   AlignReceiptKeeps, AlignQueueKeeps, StopsKeep DEF Step

\* So does what else happens.
LEMMA EnvironmentKeeps ==
  ASSUME IInv, Environment
  PROVE  IInv' /\ Forward
<1>1. CASE MoveHead
  <2>1. GitOK' /\ LedgerOK' /\ dispatch' = dispatch
    <3>1. GitOK'
      BY <1>1, BoundsAreNat DEF IInv, GitOK, MoveHead
    <3> QED
      BY <1>1, <3>1, QuietLedger DEF IInv, MoveHead
  <2>2. StoreOK' /\ Forward
    BY <1>1, <2>1, QuietStore DEF IInv, MoveHead
  <2> QED
    BY <1>1, <2>1, <2>2, NoTick DEF IInv, MoveHead
<1>2. ASSUME NEW slot \in Cards \X Gens, LeaseEnds(slot)
      PROVE  IInv' /\ Forward
  <2>1. GitOK' /\ dispatch' = dispatch
    BY <1>2, QuietGit DEF IInv, LeaseEnds, ledger
  <2>2. LedgerOK'
    <3>1. lease' \subseteq lease /\ UNCHANGED ledger
      BY <1>2 DEF LeaseEnds
    <3> QED
      BY <3>1 DEF IInv, LedgerOK, ledger
  <2>3. StoreOK' /\ Forward
    BY <1>2, <2>1, QuietStore DEF IInv, LeaseEnds
  <2> QED
    BY <1>2, <2>1, <2>2, <2>3, NoTick DEF IInv, LeaseEnds
<1>3. ASSUME NEW c \in Cards, HandOver(c)
      PROVE  IInv' /\ Forward
  <2>1. /\ task[c] = "none" /\ lock = None /\ head' = head /\ dispatch' = dispatch
        /\ events' = events /\ lease' = lease /\ plan' = plan /\ receipt' = receipt
        /\ reservation' = reservation /\ tombstone' = tombstone /\ execution' = execution
        /\ lock' = lock /\ todo' = todo /\ proc' = proc /\ faults' = faults
        /\ \E h \in 1..head : commit' = [commit EXCEPT ![c] = h]
        /\ task' = [task EXCEPT ![c] = "ready"]
        /\ entry' = [entry EXCEPT ![c].state = "QUEUED"]
    BY <1>3 DEF HandOver
  <2>2. GitOK'
    <3>1. PICK h \in 1..head : commit' = [commit EXCEPT ![c] = h]
      BY <2>1
    <3>2. h \in 0..MaxHead
      BY BoundsAreNat DEF IInv, GitOK
    <3> QED
      BY <2>1, <3>1, <3>2 DEF IInv, GitOK
  <2>3. LedgerOK'
    BY <2>1 DEF IInv, LedgerOK
  <2>4. /\ FilesTyped' /\ entry'[c] = [entry[c] EXCEPT !.state = "QUEUED"]
        /\ \A a \in Cards \ {c} : entry'[a] = entry[a]
    BY <2>1 DEF IInv, StoreOK, FilesOK, FilesTyped, Entry, QueuePhase
  <2>5. /\ entry'[c].gen = entry[c].gen /\ entry'[c].state = "QUEUED"
        /\ entry[c].gen \in Gens
    BY <2>4 DEF IInv, StoreOK, FilesOK, FilesTyped, Entry
  <2>6. GenerationFenced' /\ EvidenceFollowsLedger'
    <3>1. GenerationFenced /\ EvidenceFollowsLedger /\ FilesTyped
      BY DEF IInv, StoreOK, FilesOK
    <3>2. ASSUME NEW b \in Gens
          PROVE  /\ Fence(b, entry'[c].gen, receipt'[<<c, b>>], tombstone'[<<c, b>>])
                 /\ receipt'[<<c, b>>] = "DISPATCHED" => dispatch[c] # None
      <4>1. Fence(b, entry[c].gen, receipt[<<c, b>>], tombstone[<<c, b>>])
        BY <3>1 DEF GenerationFenced, Fence
      <4>2. receipt[<<c, b>>] = "DISPATCHED" => dispatch[c] # None
        BY <3>1 DEF EvidenceFollowsLedger
      <4> QED
        BY <2>1, <2>5, <4>1, <4>2
    <3> QED
      BY <2>1, <2>4, <2>5, <3>1, <3>2, OneCard
  <2>7. StoreOK' /\ Forward
    <3>1. todo = <<>>
      BY <2>1 DEF IInv, StoreOK
    <3> QED
      BY <2>1, <2>4, <2>6, <3>1 DEF IInv, StoreOK, FilesOK, Forward
  <2> QED
    BY <2>1, <2>2, <2>3, <2>7, NoTick DEF IInv
<1> QED
  BY <1>1, <1>2, <1>3 DEF Environment

\* The invariant holds at first.
LEMMA Starts ==
  ASSUME Init
  PROVE  IInv
<1>1. GitOK
  BY BoundsAreNat DEF Init, GitOK
<1>2. LedgerOK
  BY DEF Init, LedgerOK
<1>3. NoEntry \in Entry /\ NoEntry.gen = 1 /\ NoEntry.state = None
  BY IdleTick DEF NoEntry
<1>4. FilesTyped
  BY <1>3 DEF Init, FilesTyped
<1>5. GenerationFenced /\ EvidenceFollowsLedger
  <2>1. ASSUME NEW c \in Cards, NEW b \in Gens
        PROVE  /\ entry[c].gen = 1 /\ entry[c].state = None
               /\ receipt[<<c, b>>] = None /\ tombstone[<<c, b>>] = None
    BY <1>3 DEF Init
  <2>2. \A b \in Gens : ~(b < 1)
    BY DEF Gens
  <2>3. 1 \in Gens
    BY BoundsAreNat DEF Gens
  <2>4. \A c \in Cards : entry[c].gen = 1 /\ entry[c].state = None
    BY <2>1, <2>3
  <2> QED
    BY <2>1, <2>2, <2>4, NoneIsNothing
       DEF GenerationFenced, EvidenceFollowsLedger, QueuePhase, ReceiptPhase
<1>6. StoreOK
  BY <1>4, <1>5 DEF Init, StoreOK, FilesOK
<1>7. TicksOK
  BY IdleTick DEF Init, TicksOK, TickOK
<1> QED
  BY <1>1, <1>2, <1>6, <1>7 DEF IInv

\* It is the type invariant, and more.
LEMMA Typed ==
  ASSUME IInv
  PROVE  TypeOK
BY DEF IInv, GitOK, LedgerOK, StoreOK, FilesOK, FilesTyped, TicksOK, TypeOK

\* Nothing happens.
LEMMA StutterKeeps ==
  ASSUME IInv, UNCHANGED vars
  PROVE  IInv' /\ Forward
<1>1. /\ UNCHANGED git /\ UNCHANGED ledger /\ UNCHANGED <<files, lock, todo>>
      /\ lease' = lease /\ faults' = faults /\ proc' = proc
  BY DEF vars
<1>2. GitOK' /\ LedgerOK' /\ dispatch' = dispatch
  BY <1>1, QuietGit, QuietLedger DEF IInv
<1>3. StoreOK' /\ Forward
  BY <1>1, <1>2, QuietStore DEF IInv
<1> QED
  BY <1>1, <1>2, <1>3, NoTick DEF IInv

-----------------------------------------------------------------------------
(* The recovery. *)

\* A decision to align comes from a dispatch, one to requeue has a generation
\* to go to.
Justified(q, di) ==
  q # NoRequest =>
    /\ q.evidence.event # None => di[q.card] # None
    /\ ActionFor(q.evidence) = "REQUEUE_SELECTED" => q.evidence.entry.gen < MaxGen

RequestsOK ==
  /\ request \in [Recoverers -> {NoRequest} \cup [card : Cards, evidence : Evidence]]
  /\ \A r \in Recoverers : Justified(request[r], dispatch)

RInv == IInv /\ RequestsOK

\* The requests are as they were, or one is done with.
LEMMA RequestsStay ==
  ASSUME RequestsOK, Forward,
         \/ request' = request
         \/ \E r \in Recoverers : request' = [request EXCEPT ![r] = NoRequest]
  PROVE  RequestsOK'
<1>1. ASSUME NEW q \in {NoRequest} \cup [card : Cards, evidence : Evidence],
             Justified(q, dispatch)
      PROVE  Justified(q, dispatch')
  <2>1. CASE q = NoRequest
    BY <2>1 DEF Justified
  <2>2. CASE q \in [card : Cards, evidence : Evidence]
    <3>1. q.card \in Cards
      BY <2>2
    <3> QED
      BY <1>1, <3>1 DEF Justified, Forward
  <2> QED
    BY <2>1, <2>2
<1>2. Justified(NoRequest, dispatch')
  BY DEF Justified
<1>3. CASE request' = request
  BY <1>1, <1>3 DEF RequestsOK
<1>4. ASSUME NEW r \in Recoverers, request' = [request EXCEPT ![r] = NoRequest]
      PROVE  RequestsOK'
  <2>1. ASSUME NEW q \in Recoverers
        PROVE  Justified(request'[q], dispatch')
    <3>1. CASE q = r
      BY <1>2, <1>4, <3>1 DEF RequestsOK
    <3>2. CASE q # r
      BY <1>1, <1>4, <3>2 DEF RequestsOK
    <3> QED
      BY <3>1, <3>2
  <2> QED
    BY <1>4, <2>1 DEF RequestsOK
<1> QED
  BY <1>3, <1>4

\* A shape stays one between files whose order does not matter.
LEMMA Around ==
  ASSUME NEW u \in Seq(File), NEW x \in Seq(File), NEW v \in Seq(File),
         \A i \in 1..Len(u) : Light(u[i]), \A i \in 1..Len(v) : Light(v[i]),
         NEW c \in Cards, NEW g \in Gens, NEW e, NEW r, NEW t, NEW d,
         Shape(x, c, g, e, r, t, d)
  PROVE  Shape(u \o x \o v, c, g, e, r, t, d)
<1> DEFINE w == u \o x \o v
<1>1. w \in Seq(File) /\ Len(w) = Len(u) + Len(x) + Len(v)
  OBVIOUS
<1>2. Len(u) \in Nat /\ Len(x) \in Nat /\ Len(v) \in Nat /\ Len(w) \in Nat
  OBVIOUS
<1>3. \A i \in 1..Len(x) : w[i + Len(u)] = x[i] /\ i + Len(u) \in 1..Len(w)
  OBVIOUS
<1>4. ASSUME NEW i \in 1..Len(w)
      PROVE  \/ Light(w[i])
             \/ i - Len(u) \in 1..Len(x) /\ w[i] = x[i - Len(u)]
  <2>1. CASE i <= Len(u)
    <3>1. w[i] = u[i] /\ i \in 1..Len(u)
      BY <1>1, <1>2, <2>1
    <3> QED
      BY <3>1
  <2>2. CASE i > Len(u) /\ i <= Len(u) + Len(x)
    <3>1. i - Len(u) \in 1..Len(x) /\ (i - Len(u)) + Len(u) = i
      BY <1>2, <2>2
    <3> QED
      BY <1>3, <3>1
  <2>3. CASE i > Len(u) + Len(x)
    <3>1. i - (Len(u) + Len(x)) \in 1..Len(v)
      BY <1>1, <1>2, <2>3
    <3>2. w[i] = v[i - (Len(u) + Len(x))]
      BY <1>1, <1>2, <2>3, <3>1
    <3> QED
      BY <3>1, <3>2
  <2> QED
    BY <1>2, <2>1, <2>2, <2>3
<1> HIDE DEF w
<1>5. CASE \A i \in 1..Len(x) : Light(x[i])
  BY <1>4, <1>5 DEF Shape, w
<1>6. CASE Selects(x, c, g, e, r)
  <2>1. Selects(w, c, g, e, r)
    BY <1>4, <1>6 DEF Selects
  <2> QED
    BY <2>1 DEF Shape, w
<1>7. CASE Requeues(x, c, g, e, r, t)
  <2>1. ASSUME NEW i \in 1..Len(w), w[i].file = "queue"
        PROVE  /\ t = "selected_recovery" \/ \E j \in 1..(i - 1) : w[j].file = "tombstone"
               /\ \A j \in (i + 1)..Len(w) : Light(w[j])
    <3>1. PICK k \in 1..Len(x) : k = i - Len(u) /\ w[i] = x[k]
      BY <1>4, <2>1 DEF Light
    <3>2. /\ t = "selected_recovery" \/ \E j \in 1..(k - 1) : x[j].file = "tombstone"
          /\ \A j \in (k + 1)..Len(x) : Light(x[j])
      BY <1>7, <2>1, <3>1 DEF Requeues
    <3>3. ASSUME NEW j \in 1..(k - 1), x[j].file = "tombstone"
          PROVE  \E l \in 1..(i - 1) : w[l].file = "tombstone"
      <4>1. j \in 1..Len(x) /\ j + Len(u) \in 1..(i - 1)
        BY <1>2, <3>1
      <4> QED
        BY <1>3, <3>3, <4>1
    <3>4. ASSUME NEW j \in (i + 1)..Len(w)
          PROVE  Light(w[j])
      <4>1. j \in 1..Len(w) /\ (j - Len(u) \in 1..Len(x) => j - Len(u) \in (k + 1)..Len(x))
        BY <1>2, <3>1
      <4> QED
        BY <1>4, <3>2, <4>1
    <3> QED
      BY <3>2, <3>3, <3>4
  <2>2. Requeues(w, c, g, e, r, t)
    BY <1>4, <1>7, <2>1 DEF Requeues
  <2> QED
    BY <2>2 DEF Shape, w
<1>8. CASE Aligns(x, c, g, e, r, d)
  <2>1. ASSUME NEW i \in 1..Len(w), w[i].file = "queue"
        PROVE  r = "DISPATCHED" \/ \E j \in 1..(i - 1) : w[j].file = "receipt"
    <3>1. PICK k \in 1..Len(x) : k = i - Len(u) /\ w[i] = x[k]
      BY <1>4, <2>1 DEF Light
    <3>2. r = "DISPATCHED" \/ \E j \in 1..(k - 1) : x[j].file = "receipt"
      BY <1>8, <2>1, <3>1 DEF Aligns
    <3>3. ASSUME NEW j \in 1..(k - 1), x[j].file = "receipt"
          PROVE  \E l \in 1..(i - 1) : w[l].file = "receipt"
      <4>1. j \in 1..Len(x) /\ j + Len(u) \in 1..(i - 1)
        BY <1>2, <3>1
      <4> QED
        BY <1>3, <3>3, <4>1
    <3> QED
      BY <3>2, <3>3
  <2>2. Aligns(w, c, g, e, r, d)
    BY <1>4, <1>8, <2>1 DEF Aligns
  <2> QED
    BY <2>2 DEF Shape, w
<1> QED
  BY <1>5, <1>6, <1>7, <1>8 DEF Shape

\* Few files, one after the other.
LEMMA Concats ==
  ASSUME NEW S, NEW f \in S, NEW q \in S
  PROVE  /\ <<f>> \o <<q>> \in Seq(S) /\ Len(<<f>> \o <<q>>) = 2
         /\ (<<f>> \o <<q>>)[1] = f /\ (<<f>> \o <<q>>)[2] = q
         /\ <<>> \o <<q>> = <<q>> /\ <<f>> \o <<>> = <<f>> /\ <<>> \o <<>> = <<>>
<1>1. <<f>> \in Seq(S) /\ <<q>> \in Seq(S) /\ <<>> \in Seq(S)
  OBVIOUS
<1>2. <<f>> \o <<q>> \in Seq(S) /\ Len(<<f>> \o <<q>>) = 2
  BY <1>1
<1>3. (<<f>> \o <<q>>)[1] = f /\ (<<f>> \o <<q>>)[2] = q
  BY <1>1
<1>4. <<>> \o <<q>> = <<q>>
  BY <1>1
<1>5. <<f>> \o <<>> = <<f>>
  BY <1>1
<1>6. <<>> \o <<>> = <<>>
  BY <1>1
<1> QED
  BY <1>2, <1>3, <1>4, <1>5, <1>6

\* No file is a sequence of files.
LEMMA Nothing ==
  ASSUME NEW S
  PROVE  <<>> \in Seq(S) /\ \A i \in 1..Len(<<>>) : FALSE
OBVIOUS

\* The files of a requeue.
LEMMA RequeueSound ==
  ASSUME FilesTyped, NEW c \in Cards, NEW g \in Gens, g + 1 \in Gens, CanRequeue(c, g),
         NEW e, e = entry[c], NEW r, r = receipt[<<c, g>>], NEW t, t = tombstone[<<c, g>>],
         NEW d
  PROVE  RequeueWrites(c, g) \in Seq(File) /\ Shape(RequeueWrites(c, g), c, g, e, r, t, d)
<1>1. PICK f, q : f = F("tombstone", c, g, "selected_recovery") /\ q = F("queue", c, g + 1, "QUEUED")
  OBVIOUS
<1>2. /\ f \in File /\ q \in File /\ f.file = "tombstone" /\ q.file = "queue"
  <2>1. f \in File /\ q \in File
    BY <1>1, FileTypes DEF TombstoneKind, QueuePhase
  <2> QED
    BY <1>1, <2>1 DEF F
<1>3. e.gen = g /\ r = "SELECTED" /\ t \in {None, "selected_recovery"}
  BY DEF CanRequeue
<1>4. CASE t = None
  <2>1. PICK w : w = <<f>> \o <<q>>
    OBVIOUS
  <2>2. RequeueWrites(c, g) = w
    BY <1>1, <1>2, <1>4, <2>1, Concats DEF RequeueWrites, If
  <2>3. w \in Seq(File) /\ Len(w) = 2 /\ w[1] = f /\ w[2] = q
    BY <1>2, <2>1, Concats
  <2>4. \A i \in 1..Len(w) : (i = 1 /\ w[i] = f) \/ (i = 2 /\ w[i] = q)
    BY <2>3
  <2>5. ASSUME NEW i \in 1..Len(w), w[i].file = "queue"
        PROVE  /\ \E j \in 1..(i - 1) : w[j].file = "tombstone"
               /\ \A j \in (i + 1)..Len(w) : Light(w[j])
    <3>1. i = 2
      BY <1>2, <2>4, <2>5
    <3>2. 1 \in 1..(i - 1) /\ \A j \in (i + 1)..Len(w) : FALSE
      BY <2>3, <3>1
    <3> QED
      BY <1>2, <2>3, <3>2
  <2>6. Requeues(w, c, g, e, r, t)
    BY <1>1, <1>3, <2>4, <2>5 DEF Requeues
  <2> QED
    BY <2>2, <2>3, <2>6 DEF Shape
<1>5. CASE t = "selected_recovery"
  <2>1. PICK w : w = <<q>>
    OBVIOUS
  <2>2. RequeueWrites(c, g) = w
    BY <1>1, <1>2, <1>5, <2>1, NoneIsNothing, Concats DEF RequeueWrites, If, TombstoneKind
  <2>3. w \in Seq(File) /\ Len(w) = 1 /\ w[1] = q
    BY <1>2, <2>1
  <2>4. \A i \in 1..Len(w) : i = 1 /\ w[i] = q /\ \A j \in (i + 1)..Len(w) : FALSE
    BY <2>3
  <2>5. Requeues(w, c, g, e, r, t)
    BY <1>1, <1>3, <1>5, <2>4 DEF Requeues
  <2> QED
    BY <2>2, <2>3, <2>5 DEF Shape
<1> QED
  BY <1>3, <1>4, <1>5

\* The files of an alignment.
LEMMA AdoptSound ==
  ASSUME FilesTyped, NEW c \in Cards, NEW g \in Gens, entry[c].gen = g,
         receipt[<<c, g>>] # None,
         NEW e, e = entry[c], NEW r, r = receipt[<<c, g>>], NEW t, NEW d, d # None
  PROVE  AdoptWrites(c, g) \in Seq(File) /\ Shape(AdoptWrites(c, g), c, g, e, r, t, d)
<1>1. PICK f, q : f = F("receipt", c, g, "DISPATCHED") /\ q = F("queue", c, g, "DISPATCHED")
  OBVIOUS
<1>2. /\ f \in File /\ q \in File /\ f.file = "receipt" /\ q.file = "queue"
  <2>1. f \in File /\ q \in File
    BY <1>1, FileTypes DEF ReceiptPhase, QueuePhase
  <2> QED
    BY <1>1, <2>1 DEF F
<1>3. r \in {"SELECTED", "DISPATCHED"}
  BY DEF FilesTyped, ReceiptPhase
<1>4. CASE r = "SELECTED" /\ entry[c].state = "SELECTED"
  <2>1. PICK w : w = <<f>> \o <<q>>
    OBVIOUS
  <2>2. AdoptWrites(c, g) = w
    BY <1>1, <1>2, <1>4, <2>1, Concats DEF AdoptWrites, If
  <2>3. w \in Seq(File) /\ Len(w) = 2 /\ w[1] = f /\ w[2] = q
    BY <1>2, <2>1, Concats
  <2>4. \A i \in 1..Len(w) : (i = 1 /\ w[i] = f) \/ (i = 2 /\ w[i] = q)
    BY <2>3
  <2>5. ASSUME NEW i \in 1..Len(w), w[i].file = "queue"
        PROVE  \E j \in 1..(i - 1) : w[j].file = "receipt"
    <3>1. i = 2
      BY <1>2, <2>4, <2>5
    <3>2. 1 \in 1..(i - 1)
      BY <3>1
    <3> QED
      BY <1>2, <2>3, <3>2
  <2>6. Aligns(w, c, g, e, r, d)
    BY <1>1, <2>4, <2>5 DEF Aligns
  <2> QED
    BY <2>2, <2>3, <2>6 DEF Shape
<1>5. CASE r = "SELECTED" /\ entry[c].state # "SELECTED"
  <2>1. PICK w : w = <<f>>
    OBVIOUS
  <2>2. AdoptWrites(c, g) = w
    BY <1>1, <1>2, <1>5, <2>1, Concats DEF AdoptWrites, If
  <2>3. w \in Seq(File) /\ Len(w) = 1 /\ w[1] = f
    BY <1>2, <2>1
  <2>4. \A i \in 1..Len(w) : w[i] = f
    BY <2>3
  <2>5. Aligns(w, c, g, e, r, d)
    BY <1>1, <1>2, <2>4 DEF Aligns
  <2> QED
    BY <2>2, <2>3, <2>5 DEF Shape
<1>6. CASE r = "DISPATCHED" /\ entry[c].state = "SELECTED"
  <2>1. PICK w : w = <<q>>
    OBVIOUS
  <2>2. AdoptWrites(c, g) = w
    BY <1>1, <1>2, <1>6, <2>1, Concats DEF AdoptWrites, If
  <2>3. w \in Seq(File) /\ Len(w) = 1 /\ w[1] = q
    BY <1>2, <2>1
  <2>4. \A i \in 1..Len(w) : w[i] = q
    BY <2>3
  <2>5. Aligns(w, c, g, e, r, d)
    BY <1>1, <1>6, <2>4 DEF Aligns
  <2> QED
    BY <2>2, <2>3, <2>5 DEF Shape
<1>7. CASE r = "DISPATCHED" /\ entry[c].state # "SELECTED"
  <2>1. PICK w : w = <<>> /\ w \in Seq(File) /\ \A i \in 1..Len(w) : FALSE
    BY Nothing
  <2>2. AdoptWrites(c, g) = w
    BY <1>1, <1>2, <1>7, <2>1, Concats DEF AdoptWrites, If
  <2>3. \A i \in 1..Len(w) : Light(w[i])
    BY <2>1
  <2> QED
    BY <2>1, <2>2, <2>3 DEF Shape
<1> QED
  BY <1>3, <1>4, <1>5, <1>6, <1>7

\* The files of a recovery action that can be applied.
LEMMA ActionSound ==
  ASSUME IInv, RequestsOK, NEW r \in Recoverers, request[r] # NoRequest, Applies(r),
         NEW c, c = request[r].card, NEW g, g = request[r].evidence.entry.gen
  PROVE  /\ c \in Cards /\ g \in Gens
         /\ ActionWrites(r) \in Seq(File)
         /\ Shape(ActionWrites(r), c, g, entry[c], receipt[<<c, g>>],
                  tombstone[<<c, g>>], dispatch[c])
<1>1. PICK e : e = request[r].evidence
  OBVIOUS
<1>2. /\ c \in Cards /\ g \in Gens /\ e \in Evidence /\ e.entry.gen = g
      /\ e.event # None => dispatch[c] # None
      /\ ActionFor(e) = "REQUEUE_SELECTED" => g < MaxGen
  <2>1. request[r] \in [card : Cards, evidence : Evidence] /\ Justified(request[r], dispatch)
    BY DEF RequestsOK
  <2>2. c \in Cards /\ e \in Evidence /\ e.entry.gen = g
    BY <1>1, <2>1
  <2>3. g \in Gens
    BY <2>2 DEF Evidence, Entry
  <2> QED
    BY <1>1, <2>1, <2>2, <2>3 DEF Justified
<1>3. FilesTyped /\ EvidenceFollowsLedger
  BY DEF IInv, StoreOK, FilesOK
<1>4. PICK a : a = ActionFor(e) /\ a = ActionOf(r)
  BY <1>1 DEF ActionOf
<1>5. /\ e.receipt # None => receipt[<<c, g>>] # None
      /\ \/ entry[c].gen = g
         \/ a = "REQUEUE_SELECTED" /\ entry[c].gen = g + 1
  BY <1>1, <1>2, <1>4 DEF Applies, StillLive
<1>6. CASE a = "REQUEUE_SELECTED" /\ entry[c].gen = g
  <2>1. ActionWrites(r) = RequeueWrites(c, g)
    BY <1>4, <1>6 DEF ActionWrites
  <2>2. CanRequeue(c, g) \/ entry[c].gen = g + 1
    BY <1>4, <1>6 DEF Applies
  <2>3. g + 1 \in Gens /\ g # g + 1
    BY <1>2, <1>4, <1>6, BoundsAreNat DEF Gens
  <2>4. CanRequeue(c, g)
    BY <1>6, <2>2, <2>3
  <2> QED
    BY <1>2, <1>3, <2>1, <2>3, <2>4, RequeueSound
<1>7. CASE a = "ADOPT_CANONICAL_DISPATCH"
  <2>1. ActionWrites(r) = AdoptWrites(c, g)
    BY <1>4, <1>7 DEF ActionWrites
  <2>2. e.receipt # None
    BY <1>1, <1>4, <1>7 DEF Applies
  <2>3. e.event # None
    BY <1>4, <1>7 DEF ActionFor
  <2> QED
    BY <1>2, <1>3, <1>5, <1>7, <2>1, <2>2, <2>3, AdoptSound
<1>8. CASE a = "RETIRE_QUEUE_ENTRY"
  <2>1. PICK f : f = F("queue", c, g, "RETIRED")
    OBVIOUS
  <2>2. ActionWrites(r) = If(entry[c].state = "DISPATCHED", f)
    BY <1>4, <1>8, <2>1 DEF ActionWrites
  <2>3. receipt[<<c, g>>] = "DISPATCHED"
    BY <1>4, <1>8 DEF Applies
  <2>4. dispatch[c] # None /\ entry[c].gen = g
    BY <1>2, <1>3, <1>5, <1>8, <2>3 DEF EvidenceFollowsLedger
  <2>5. f \in File
    BY <1>2, <2>1, FileTypes DEF QueuePhase
  <2>6. CASE entry[c].state = "DISPATCHED"
    <3>1. PICK w : w = <<f>>
      OBVIOUS
    <3>2. w \in Seq(File) /\ \A i \in 1..Len(w) : w[i] = f
      BY <2>5, <3>1
    <3>3. Aligns(w, c, g, entry[c], receipt[<<c, g>>], dispatch[c])
      BY <2>1, <2>3, <2>4, <3>2 DEF Aligns
    <3> QED
      BY <1>2, <2>2, <2>6, <3>1, <3>2, <3>3 DEF Shape, If
  <2>7. CASE entry[c].state # "DISPATCHED"
    <3>1. PICK w : w = <<>> /\ w \in Seq(File) /\ \A i \in 1..Len(w) : FALSE
      BY Nothing
    <3> QED
      BY <1>2, <2>2, <2>7, <3>1 DEF Shape, If
  <2> QED
    BY <2>6, <2>7
<1>9. CASE /\ ~(a = "REQUEUE_SELECTED" /\ entry[c].gen = g)
           /\ a \notin {"ADOPT_CANONICAL_DISPATCH", "RETIRE_QUEUE_ENTRY"}
  <2>1. PICK w : w = <<>> /\ w \in Seq(File) /\ \A i \in 1..Len(w) : FALSE
    BY Nothing
  <2>2. ActionWrites(r) = w
    BY <1>4, <1>9, <2>1 DEF ActionWrites
  <2> QED
    BY <1>2, <2>1, <2>2 DEF Shape
<1> QED
  BY <1>6, <1>7, <1>8, <1>9

\* The files of a recovery, with those of its action in the middle.
LEMMA RecoverySound ==
  ASSUME IInv, RequestsOK, NEW r \in Recoverers, Recover(r)
  PROVE  \E w \in Seq(File) : Write(r, w) /\ (w # <<>> => Sound(w))
<1>1. PICK c, g : c = request[r].card /\ g = request[r].evidence.entry.gen
  OBVIOUS
<1>2. request[r] # NoRequest /\ request[r] \in [card : Cards, evidence : Evidence]
  BY DEF Recover, RequestsOK
<1>3. c \in Cards /\ g \in Gens
  BY <1>1, <1>2 DEF Evidence, Entry
<1>4. PICK u, v1, v2 :
        /\ u = If(execution[<<c, g>>] = None, F("execution", c, g, "APPLYING"))
        /\ v1 = If(execution[<<c, g>>] # "APPLIED", F("execution", c, g, "APPLIED"))
        /\ v2 = <<F("execution", c, g, "FINALIZED")>>
  OBVIOUS
<1>5. Write(r, u \o (IF Applies(r)
                    THEN ActionWrites(r) \o IF RefusedAfter(r) THEN <<>> ELSE v1 \o v2
                    ELSE <<>>))
  BY <1>1, <1>4 DEF Recover, Applied
<1>6. PICK S : S = {f \in File : Light(f)}
  OBVIOUS
<1>7. /\ u \in Seq(S) /\ v1 \in Seq(S) /\ v2 \in Seq(S)
  <2>1. \A t \in ExecutionPhase : F("execution", c, g, t) \in S
    <3>1. \A t : Light(F("execution", c, g, t))
      BY DEF Light, F
    <3> QED
      BY <1>3, <1>6, <3>1, FileTypes
  <2>2. /\ F("execution", c, g, "APPLYING") \in S /\ F("execution", c, g, "APPLIED") \in S
        /\ F("execution", c, g, "FINALIZED") \in S
    BY <2>1 DEF ExecutionPhase
  <2>3. v2 \in Seq(S)
    BY <1>4, <2>2
  <2> QED
    BY <1>4, <2>2, <2>3, IfSeq
<1>8. PICK v : v = (IF RefusedAfter(r) THEN <<>> ELSE v1 \o v2) /\ v \in Seq(S)
  <2>1. v1 \o v2 \in Seq(S) /\ <<>> \in Seq(S)
    BY <1>7, ConcatProperties
  <2> QED
    BY <2>1
<1>9. /\ u \in Seq(File) /\ v1 \in Seq(File) /\ v2 \in Seq(File) /\ v \in Seq(File)
      /\ \A i \in 1..Len(u) : Light(u[i])
      /\ \A i \in 1..Len(v) : Light(v[i])
  <2>1. ASSUME NEW s \in Seq(S)
        PROVE  s \in Seq(File) /\ \A i \in 1..Len(s) : Light(s[i])
    <3>1. S \subseteq File /\ \A f \in S : Light(f)
      BY <1>6
    <3>2. \A i \in 1..Len(s) : s[i] \in S
      OBVIOUS
    <3> QED
      BY <3>1, <3>2
  <2> QED
    BY <1>7, <1>8, <2>1
<1>10. CASE ~Applies(r)
  <2>1. u \o <<>> = u
    BY <1>9, ConcatEmptySeq
  <2>2. Write(r, u)
    BY <1>5, <1>10, <2>1
  <2>3. Sound(u)
    BY <1>3, <1>9 DEF Sound, Shape
  <2> QED
    BY <1>9, <2>2, <2>3
<1>11. CASE Applies(r)
  <2>1. PICK x : x = ActionWrites(r)
    OBVIOUS
  <2>2. /\ x \in Seq(File)
        /\ Shape(x, c, g, entry[c], receipt[<<c, g>>], tombstone[<<c, g>>], dispatch[c])
    BY <1>1, <1>2, <1>11, <2>1, ActionSound
  <2>3. PICK w : w = u \o x \o v
    OBVIOUS
  <2>4. w \in Seq(File)
    BY <1>9, <2>2, <2>3
  <2>5. Shape(w, c, g, entry[c], receipt[<<c, g>>], tombstone[<<c, g>>], dispatch[c])
    BY <1>3, <1>9, <2>2, <2>3, Around
  <2>6. u \o (x \o v) = w
    <3>1. u \in Seq(File) /\ x \in Seq(File) /\ v \in Seq(File)
      BY <1>9, <2>2
    <3>2. u \o (x \o v) = (u \o x) \o v
      BY <3>1, ConcatAssociative
    <3> QED
      BY <2>3, <3>2
  <2>7. Write(r, w)
    <3>1. Write(r, u \o (x \o IF RefusedAfter(r) THEN <<>> ELSE v1 \o v2))
      BY <1>5, <1>11, <2>1, Zenon
    <3>2. x \o (IF RefusedAfter(r) THEN <<>> ELSE v1 \o v2) = x \o v
      BY <1>8
    <3> QED
      BY <2>6, <3>1, <3>2
  <2>8. Sound(w)
    BY <1>3, <2>5 DEF Sound
  <2> QED
    BY <2>4, <2>7, <2>8
<1> QED
  BY <1>10, <1>11

\* A recoverer decides.
LEMMA ExamineKeeps ==
  ASSUME RInv, NEW r \in Recoverers, NEW c \in Cards, Examine(r, c)
  PROVE  RInv' /\ Forward
<1>1. IInv' /\ Forward
  BY StutterKeeps DEF RInv, Examine
<1>2. PICK q : q = [card |-> c, evidence |-> EvidenceOf(c)]
  OBVIOUS
<1>3. request' = [request EXCEPT ![r] = q] /\ dispatch' = dispatch
  BY <1>2 DEF Examine, vars, ledger
<1>4. q \in [card : Cards, evidence : Evidence]
  <2>1. entry[c] \in Entry /\ receipt[<<c, entry[c].gen>>] \in ReceiptPhase \cup {None}
    BY DEF RInv, IInv, StoreOK, FilesOK, FilesTyped, Entry
  <2>2. CanonicalEvent(c) \in Gens \cup {None}
    BY DEF RInv, IInv, LedgerOK, CanonicalEvent
  <2>3. EvidenceOf(c) \in Evidence
    BY <2>1, <2>2 DEF EvidenceOf, Evidence
  <2> QED
    BY <1>2, <2>3
<1>5. Justified(q, dispatch')
  <2>1. q.card = c /\ q.evidence = EvidenceOf(c)
    BY <1>2
  <2>2. q.evidence.event = CanonicalEvent(c) /\ q.evidence.entry = entry[c]
    BY <2>1 DEF EvidenceOf
  <2>3. q.evidence.event # None => dispatch'[c] # None
    BY <1>3, <2>2 DEF CanonicalEvent
  <2>4. ActionFor(q.evidence) = "REQUEUE_SELECTED" => q.evidence.entry.gen < MaxGen
    BY <2>1, <2>2 DEF Examine
  <2> QED
    BY <2>1, <2>3, <2>4 DEF Justified
<1>6. RequestsOK'
  <2>1. ASSUME NEW a \in Recoverers
        PROVE  Justified(request'[a], dispatch')
    BY <1>3, <1>5 DEF RInv, RequestsOK
  <2> QED
    BY <1>3, <1>4, <2>1 DEF RInv, RequestsOK
<1> QED
  BY <1>1, <1>6 DEF RInv

\* A recoverer carries out its decision.
LEMMA RecoverKeeps ==
  ASSUME RInv, NEW r \in Recoverers, Recover(r)
  PROVE  RInv' /\ Forward
<1>1. GitOK' /\ LedgerOK' /\ dispatch' = dispatch
  BY QuietGit, QuietLedger DEF RInv, IInv, Recover
<1>2. PICK w \in Seq(File) : Write(r, w) /\ (w # <<>> => Sound(w))
  BY RecoverySound DEF RInv
<1>3. StoreOK' /\ Forward
  BY <1>1, <1>2, Names, WriteStore DEF RInv, IInv
<1>4. TicksOK' /\ RequestsOK'
  BY <1>3, NoTick, RequestsStay DEF RInv, IInv, Recover
<1> QED
  BY <1>1, <1>3, <1>4 DEF RInv, IInv

\* A recoverer goes on writing, fails, dies or is done.
LEMMA RecovererStops ==
  ASSUME RInv, NEW r \in Recoverers,
         \/ WriteOn(r) /\ UNCHANGED <<request, decided>>
         \/ Drop(r) \/ RecoveryFails(r) \/ RecovererDies(r)
  PROVE  RInv' /\ Forward
<1>1. CASE WriteOn(r) /\ UNCHANGED <<request, decided>>
  <2>1. GitOK' /\ LedgerOK' /\ StoreOK' /\ Forward
    BY <1>1, QuietGit, QuietLedger, Names, WriteOnStore DEF RInv, IInv, WriteOn
  <2>2. TicksOK' /\ RequestsOK'
    BY <1>1, <2>1, NoTick, RequestsStay DEF RInv, IInv, WriteOn
  <2> QED
    BY <2>1, <2>2 DEF RInv, IInv
<1>2. CASE Drop(r)
  <2>1. IInv' /\ Forward
    BY <1>2, StutterKeeps DEF RInv, Drop
  <2> QED
    BY <1>2, <2>1, RequestsStay DEF RInv, Drop
<1>3. CASE RecoveryFails(r)
  <2>1. GitOK' /\ LedgerOK' /\ dispatch' = dispatch
    BY <1>3, Faulty, QuietLedger DEF RInv, IInv, RecoveryFails, WriteFails
  <2>2. StoreOK' /\ Forward
    BY <1>3, <2>1, ReleasedStore DEF RInv, IInv, RecoveryFails, WriteFails
  <2>3. TicksOK' /\ RequestsOK'
    BY <1>3, <2>2, NoTick, RequestsStay DEF RInv, IInv, RecoveryFails
  <2> QED
    BY <2>1, <2>2, <2>3 DEF RInv, IInv
<1>4. CASE RecovererDies(r)
  <2>1. GitOK' /\ LedgerOK' /\ dispatch' = dispatch
    BY <1>4, Faulty, QuietLedger DEF RInv, IInv, RecovererDies
  <2>2. StoreOK' /\ Forward
    BY <1>4, <2>1, ReleasedStore DEF RInv, IInv, RecovererDies
  <2>3. TicksOK' /\ RequestsOK'
    BY <1>4, <2>2, NoTick, RequestsStay DEF RInv, IInv, RecovererDies
  <2> QED
    BY <2>1, <2>2, <2>3 DEF RInv, IInv
<1> QED
  BY <1>1, <1>2, <1>3, <1>4

\* An entry is retired.
LEMMA RetireKeeps ==
  ASSUME RInv, NEW c \in Cards, Retire(c)
  PROVE  RInv' /\ Forward
<1>1. GitOK' /\ LedgerOK' /\ dispatch' = dispatch
  BY QuietGit, QuietLedger DEF RInv, IInv, Retire
<1>2. PICK g, f : g = entry[c].gen /\ f = F("queue", c, g, "RETIRED")
  OBVIOUS
<1>3. /\ lock = None /\ todo = <<>> /\ lock' = lock /\ todo' = todo
      /\ entry[c].state = "DISPATCHED" /\ Put(f)
  BY <1>2 DEF Retire, RInv, IInv, StoreOK
<1>4. /\ g \in Gens /\ receipt[<<c, g>>] = "DISPATCHED" /\ dispatch[c] # None
  <2>1. FilesTyped /\ EvidenceFollowsLedger
    BY DEF RInv, IInv, StoreOK, FilesOK
  <2>2. g \in Gens
    BY <1>2, <2>1 DEF FilesTyped, Entry
  <2> QED
    BY <1>2, <1>3, <2>1, <2>2 DEF EvidenceFollowsLedger
<1>5. PICK w : w = <<f>>
  OBVIOUS
<1>6. f \in File /\ w \in Seq(File) /\ w # <<>> /\ Sound(w)
  BY <1>2, <1>4, <1>5, AlignmentSound
<1>7. PICK a \in Cards, b \in Gens :
        Shape(w, a, b, entry[a], receipt[<<a, b>>], tombstone[<<a, b>>], dispatch[a])
  BY <1>6 DEF Sound
<1>8. Put(Head(w))
  BY <1>3, <1>5
<1>9. FilesOK' /\ \A s \in Cards \X Gens : receipt[s] = "DISPATCHED" => receipt'[s] = "DISPATCHED"
  BY <1>1, <1>6, <1>7, <1>8, PutFirst DEF RInv, IInv, StoreOK
<1>10. StoreOK' /\ Forward
  BY <1>1, <1>3, <1>9 DEF RInv, IInv, StoreOK, Forward
<1>11. TicksOK' /\ RequestsOK'
  BY <1>10, NoTick, RequestsStay DEF RInv, IInv, Retire
<1> QED
  BY <1>1, <1>10, <1>11 DEF RInv, IInv

\* A receipt is finalized.
LEMMA FinalizeKeeps ==
  ASSUME RInv, NEW c \in Cards, Finalize(c)
  PROVE  RInv' /\ Forward
<1>1. GitOK' /\ LedgerOK' /\ dispatch' = dispatch
  BY QuietGit, QuietLedger DEF RInv, IInv, Finalize
<1>2. PICK g, f : g = entry[c].gen /\ f = F("tombstone", c, g, "finalized")
  OBVIOUS
<1>3. /\ lock = None /\ todo = <<>> /\ lock' = lock /\ todo' = todo
      /\ receipt[<<c, g>>] = "DISPATCHED" /\ Put(f)
  BY <1>2 DEF Finalize, RInv, IInv, StoreOK
<1>4. FilesTyped /\ GenerationFenced /\ EvidenceFollowsLedger /\ g \in Gens
  BY <1>2 DEF RInv, IInv, StoreOK, FilesOK, FilesTyped, Entry
<1>5. f \in File /\ f.file = "tombstone" /\ f.card = c /\ f.gen = g
  <2>1. f \in File
    BY <1>2, <1>4, FileTypes DEF TombstoneKind
  <2> QED
    BY <1>2, <2>1 DEF F
<1>6. /\ FilesTyped' /\ \A a \in Cards : entry'[a] = entry[a]
      /\ \A a \in Cards, b \in Gens :
           /\ receipt'[<<a, b>>] = receipt[<<a, b>>]
           /\ a # c \/ b # g => tombstone'[<<a, b>>] = tombstone[<<a, b>>]
  <2>1. /\ FilesTyped'
        /\ \A a \in Cards :
             entry'[a] = IF f.file = "queue" /\ f.card = a
                         THEN [state |-> f.to, gen |-> f.gen] ELSE entry[a]
        /\ \A a \in Cards, b \in Gens :
             /\ receipt'[<<a, b>>] = IF f.file = "receipt" /\ f.card = a /\ f.gen = b
                                     THEN f.to ELSE receipt[<<a, b>>]
             /\ tombstone'[<<a, b>>] = IF f.file = "tombstone" /\ f.card = a /\ f.gen = b
                                       THEN f.to ELSE tombstone[<<a, b>>]
    <3>1. PICK h \in File : h = f /\ Put(h)
      BY <1>3, <1>5
    <3> QED
      BY <1>4, <3>1, PutFile
  <2> QED
    BY <1>5, <2>1
<1>7. GenerationFenced' /\ EvidenceFollowsLedger'
  <2>1. ASSUME NEW b \in Gens
        PROVE  /\ Fence(b, entry'[c].gen, receipt'[<<c, b>>], tombstone'[<<c, b>>])
               /\ receipt'[<<c, b>>] = "DISPATCHED" => dispatch[c] # None
    <3>1. Fence(b, g, receipt[<<c, b>>], tombstone[<<c, b>>])
      BY <1>2, <1>4 DEF GenerationFenced, Fence
    <3>2. receipt[<<c, b>>] = "DISPATCHED" => dispatch[c] # None
      BY <1>4 DEF EvidenceFollowsLedger
    <3>3. entry'[c].gen = g /\ receipt'[<<c, b>>] = receipt[<<c, b>>]
      BY <1>2, <1>6
    <3>4. CASE b = g
      BY <1>4, <3>2, <3>3, <3>4 DEF Fence, Gens
    <3>5. CASE b # g
      <4>1. tombstone'[<<c, b>>] = tombstone[<<c, b>>]
        BY <1>6, <3>5
      <4> QED
        BY <3>1, <3>2, <3>3, <4>1
    <3> QED
      BY <3>4, <3>5
  <2>2. receipt'[<<c, entry'[c].gen>>] = "DISPATCHED"
    BY <1>2, <1>3, <1>4, <1>6
  <2>3. \A a \in Cards \ {c}, b \in Gens :
          receipt'[<<a, b>>] = receipt[<<a, b>>] /\ tombstone'[<<a, b>>] = tombstone[<<a, b>>]
    BY <1>6
  <2> QED
    BY <1>1, <1>4, <1>6, <2>1, <2>2, <2>3, OneCard
<1>8. StoreOK' /\ Forward
  <2>1. ASSUME NEW a \in Cards, NEW b \in Gens
        PROVE  receipt'[<<a, b>>] = receipt[<<a, b>>]
    BY <1>6
  <2>2. \A s \in Cards \X Gens : receipt'[s] = receipt[s]
    BY <2>1
  <2> QED
    BY <1>1, <1>3, <1>6, <1>7, <2>2 DEF RInv, IInv, StoreOK, FilesOK, Forward
<1>9. TicksOK' /\ RequestsOK'
  BY <1>8, NoTick, RequestsStay DEF RInv, IInv, Finalize
<1> QED
  BY <1>1, <1>8, <1>9 DEF RInv, IInv

\* A tick for a later generation.
LEMMA ResubmitKeeps ==
  ASSUME RInv, NEW p \in Processes, NEW c \in Cards, Resubmit(p, c)
  PROVE  RInv' /\ Forward
<1>1. GitOK' /\ LedgerOK' /\ dispatch' = dispatch
  BY QuietGit, QuietLedger DEF RInv, IInv, Resubmit
<1>2. StoreOK' /\ Forward
  BY <1>1, QuietStore DEF RInv, IInv, Resubmit
<1>3. TicksOK'
  <2>1. PICK m : m = [Idle EXCEPT !.pc = "read", !.card = c, !.gen = entry[c].gen, !.snap = head]
    OBVIOUS
  <2>2. head \in 0..MaxHead /\ entry[c].gen \in Gens
    BY DEF RInv, IInv, GitOK, StoreOK, FilesOK, FilesTyped, Entry
  <2>3. m \in Tick /\ m.pc = "read" /\ m.card = c /\ m.receipt = None
    BY <2>1, <2>2, IdleTick DEF Idle, Tick, Unlocked
  <2>4. proc' = [proc EXCEPT ![p] = m]
    BY <2>1 DEF Resubmit
  <2> QED
    BY <1>2, <2>3, <2>4, TickStarts DEF RInv, IInv
<1>4. RequestsOK'
  BY <1>2, RequestsStay DEF RInv, Resubmit
<1> QED
  BY <1>1, <1>2, <1>3, <1>4 DEF RInv, IInv

\* So does every step.
LEMMA RecoveryStep ==
  ASSUME RInv, [RecoveryNext]_recoveryVars
  PROVE  RInv' /\ Forward
<1>1. CASE Next /\ UNCHANGED <<request, decided>>
  <2>1. IInv' /\ Forward
    BY <1>1, StepKeeps, EnvironmentKeeps DEF RInv, Next
  <2>2. RequestsOK'
    BY <1>1, <2>1, RequestsStay DEF RInv
  <2> QED
    BY <2>1, <2>2 DEF RInv
<1>2. CASE \E r \in Recoverers :
             \/ \E c \in Cards : Examine(r, c)
             \/ Recover(r)
             \/ WriteOn(r) /\ UNCHANGED <<request, decided>>
             \/ Drop(r) \/ RecoveryFails(r) \/ RecovererDies(r)
  BY <1>2, ExamineKeeps, RecoverKeeps, RecovererStops
<1>3. CASE \/ \E p \in Processes, c \in Cards : Resubmit(p, c)
           \/ \E c \in Cards : Retire(c) \/ Finalize(c)
  BY <1>3, ResubmitKeeps, RetireKeeps, FinalizeKeeps
<1>4. CASE UNCHANGED recoveryVars
  <2>1. IInv' /\ Forward
    BY <1>4, StutterKeeps DEF RInv, recoveryVars
  <2> QED
    BY <1>4, <2>1, RequestsStay DEF RInv, recoveryVars
<1> QED
  BY <1>1, <1>2, <1>3, <1>4 DEF RecoveryNext

-----------------------------------------------------------------------------
(* The theorems. *)

\* The invariant holds throughout, with any number of ticks and recoveries.
THEOREM RecoveryInvariance == RecoverySpec => []RInv
<1>1. RecoveryInit => RInv
  <2> SUFFICES ASSUME RecoveryInit
               PROVE  RInv
    OBVIOUS
  <2>1. IInv
    BY Starts DEF RecoveryInit
  <2>2. \A r \in Recoverers : Justified(request[r], dispatch)
    BY DEF RecoveryInit, Justified
  <2> QED
    BY <2>1, <2>2 DEF RInv, RequestsOK, RecoveryInit
<1>2. RInv /\ [RecoveryNext]_recoveryVars => RInv'
  BY RecoveryStep
<1> QED
  BY <1>1, <1>2, PTL DEF RecoverySpec

\* TypeOK: every variable of the scheduler has its type.
THEOREM SchedulerTyped == RecoverySpec => []TypeOK
<1>1. RInv => TypeOK
  BY Typed DEF RInv
<1> QED
  BY <1>1, RecoveryInvariance, PTL

\* GenerationFenced: a generation that the entry of a card has left keeps a
\* receipt that is SELECTED and the tombstone of a recovery
\* (_requeue_selected_locked), whoever fails or dies in between.
THEOREM Fenced == RecoverySpec => []GenerationFenced
<1>1. RInv => GenerationFenced
  BY DEF RInv, IInv, StoreOK, FilesOK
<1> QED
  BY <1>1, RecoveryInvariance, PTL

\* EvidenceFollowsLedger: the store never runs ahead of the ledger
\* (advance_schedule_receipt, advance_queue_phase and the recovery's alignment).
THEOREM LedgerFirst == RecoverySpec => []EvidenceFollowsLedger
<1>1. RInv => EvidenceFollowsLedger
  BY DEF RInv, IInv, StoreOK, FilesOK
<1> QED
  BY <1>1, RecoveryInvariance, PTL

\* NeverRepeated: no tick and no recovery replaces the dispatch of a card
\* (apply_transition wants the task to be ready).
THEOREM DispatchedOnce == RecoverySpec => NeverRepeated
<1>1. RInv /\ [RecoveryNext]_recoveryVars
        => [\A c \in Cards : dispatch[c] # None => dispatch'[c] = dispatch[c]]_vars
  BY RecoveryStep DEF Forward
<1> QED
  BY <1>1, RecoveryInvariance, PTL DEF RecoverySpec, NeverRepeated

-----------------------------------------------------------------------------
(* The inductive invariant of the admission. *)

\* The receipts of a card: how far each of them is, and what it has to show.
LadderOK(c) ==
  /\ progress[c] >= 2 => DependenciesReady(c)
  /\ progress[c] >= 3 => prepared[c] # None
  /\ progress[c] >= 5 => handoff[c] = 7
  /\ handoff[c] >= 1 => progress[c] >= 4
  /\ prepared[c] \in 0..head \cup {None}

\* What is made for a card, in this order, speaks of its commit.
BoundOK(c) ==
  /\ handoff[c] >= 2 => c \in tracked /\ commit[c] \in 1..head /\ prepared[c] <= commit[c]
  /\ grant[c] # None => grant[c] = commit[c] /\ handoff[c] >= 2
  /\ registered[c] # None => registered[c] = commit[c] /\ grant[c] # None
  /\ handoff[c] >= 3 => registered[c] # None
  /\ task[c] = "none" <=> registered[c] = None
  /\ plan[<<c, 1>>] # None => plan[<<c, 1>>] = commit[c] /\ grant[c] # None

\* The queue entry of a card has the sequence that the receipt names.
QueueOK(c) ==
  /\ entry[c].gen = 1
  /\ entry[c].state # "RETIRED"
  /\ InQueue(c) => handoff[c] >= 3
  /\ InQueue(c) <=> queued[c] # 0
  /\ queued[c] \in 0..sequence
  /\ handoff[c] >= 4 => InQueue(c) /\ claimed[c] = queued[c]

\* The dispatch of a card, in the ledger and in the store.
Submitted(c) ==
  /\ dispatch[c] = 1
  /\ receipt[<<c, 1>>] = "DISPATCHED"
  /\ entry[c].state = "DISPATCHED"

DispatchOK(c) ==
  /\ dispatch[c] # None => dispatch[c] = 1 /\ progress[c] >= 4
  /\ handoff[c] >= 6 => Submitted(c)
  /\ c \in working \/ worker[c] # "none" => task[c] = "dispatched"
  /\ task[c] = "dispatched" => entry[c].state # None

CardOK(c) == LadderOK(c) /\ BoundOK(c) /\ QueueOK(c) /\ DispatchOK(c)

\* A thread before the handoff, and after it.
OutsideHandoff == {"none", "dependencies", "prepare", "inputs", "prepared", "start", "post", "finish"}

\* What a thread with job m, at card c, goes by.
Outer(m, c) ==
  /\ m.at = "dependencies" => progress[c] = 1 /\ DependenciesReady(c)
  /\ m.at \in {"prepare", "inputs", "prepared"} => progress[c] \in {2, 3, 5}
  /\ m.at \in {"inputs", "prepared", "start"} => prepared[c] # None
  /\ m.at = "start" => progress[c] \in {3, 5}
  /\ m.at \in {"post", "finish"} => progress[c] = 5
  /\ m.at \notin OutsideHandoff => progress[c] = 4
  /\ m.at = "admit" => handoff[c] = 7

Inner(m, c) ==
  /\ m.at = "handoff" => handoff[c] \in 0..6
  /\ m.at \in {"bind", "add", "commit", "bound"} => handoff[c] = 1
  /\ m.at = "bound" => c \in tracked /\ m.value \in 1..head /\ prepared[c] <= m.value
  /\ m.at = "authorize" => handoff[c] \in 2..6
  /\ m.at \in {"register", "registered"} => handoff[c] = 2
  /\ m.at = "register" => grant[c] # None
  /\ m.at = "registered" => registered[c] # None
  /\ m.at \in {"reserve", "enqueue", "queued"} => handoff[c] = 3
  /\ m.at = "enqueue" => m.value \in 1..sequence /\ queued[c] < m.value
  /\ m.at = "queued" => m.value = queued[c] /\ InQueue(c)
  /\ m.at = "plan" => handoff[c] \in 4..6
  /\ m.at \in {"submit", "tick", "submitted"} => handoff[c] \in 5..6
  /\ m.at = "submitted" => Submitted(c)
  /\ m.at = "final" => handoff[c] = 6

\* Its tick is for the plan of the card; an entry read as DISPATCHED is so still.
Ticking(t, c) ==
  /\ t.card = c /\ t.gen = 1 /\ t.snap = commit[c]
  /\ t.entry # "RETIRED"
  /\ t.entry = "DISPATCHED" \/ t.pc = "admitted" => entry[c].state = "DISPATCHED"

ThreadOK(p) ==
  /\ job[p] # NoJob => job[p].card \in Cards /\ job[p].at \notin {"none", "ready"}
  /\ proc[p].pc # "idle" <=> job[p].at = "tick"
  /\ job[p] # NoJob => Outer(job[p], job[p].card) /\ Inner(job[p], job[p].card)
  /\ job[p].at = "tick" => Ticking(proc[p], job[p].card)

\* A tick writes files of the first generation, and neither requeues nor retires.
PlainFile(f) ==
  /\ f.gen = 1
  /\ f.file = "queue" => f.to \in {"SELECTED", "DISPATCHED"} /\ InQueue(f.card)
  /\ f.file = "plan" => f.to = commit[f.card] /\ grant[f.card] # None

Plain(w) == \A i \in 1..Len(w) : PlainFile(w[i])

Alone == \A p, q \in Processes : Card(p) = Card(q) => p = q \/ Card(p) = None

RecordsTyped ==
  /\ needs \subseteq Cards \X Cards
  /\ integrated \subseteq Cards /\ inputs \subseteq Cards /\ index \subseteq Cards
  /\ tracked \subseteq Cards /\ working \subseteq Cards
  /\ progress \in [Cards -> 0..6]
  /\ handoff \in [Cards -> 0..7]
  /\ prepared \in [Cards -> 0..MaxHead \cup {None}]
  /\ registered \in [Cards -> 0..MaxHead \cup {None}]
  /\ grant \in [Cards -> 0..MaxHead \cup {None}]
  /\ sequence \in 0..MaxSeq
  /\ queued \in [Cards -> 0..MaxSeq]
  /\ claimed \in [Cards -> 0..MaxSeq]
  /\ worker \in [Cards -> {"none", "reserved", "finalized"}]
  /\ job \in [Processes -> Job]

AInv ==
  /\ IInv
  /\ RecordsTyped
  /\ \A c \in Cards : CardOK(c)
  /\ \A p \in Processes : ThreadOK(p)
  /\ Alone
  /\ Plain(todo)
  /\ tracked # {} => head >= 1

-----------------------------------------------------------------------------
(* Phases, and what stays as it is. *)

\* How far a receipt is, as a number.
LEMMA HandoffPhases ==
  ASSUME NEW n \in 0..7
  PROVE  /\ Reached(Handoff, n, "GIT_EVIDENCE_COMMITTED") <=> n >= 2
         /\ Reached(Handoff, n, "CANONICAL_TASK_REGISTERED") <=> n >= 3
         /\ Reached(Handoff, n, "QUEUE_RESERVED") <=> n >= 4
         /\ Reached(Handoff, n, "ADMISSION_READY") <=> n >= 5
         /\ Reached(Handoff, n, "ADMISSION_SUBMITTED") <=> n >= 6
         /\ Reached(Handoff, n, "FINALIZED") <=> n = 7
<1>1. /\ Handoff[1] = "MATERIALIZED" /\ Handoff[2] = "GIT_EVIDENCE_COMMITTED"
      /\ Handoff[3] = "CANONICAL_TASK_REGISTERED" /\ Handoff[4] = "QUEUE_RESERVED"
      /\ Handoff[5] = "ADMISSION_READY" /\ Handoff[6] = "ADMISSION_SUBMITTED"
      /\ Handoff[7] = "FINALIZED"
  BY DEF Handoff
<1>2. \A i \in 1..n : i \in {1, 2, 3, 4, 5, 6, 7}
  OBVIOUS
<1>3. /\ Reached(Handoff, n, "GIT_EVIDENCE_COMMITTED") <=> 2 \in 1..n
      /\ Reached(Handoff, n, "CANONICAL_TASK_REGISTERED") <=> 3 \in 1..n
      /\ Reached(Handoff, n, "QUEUE_RESERVED") <=> 4 \in 1..n
  BY <1>1, <1>2 DEF Reached
<1>4. /\ Reached(Handoff, n, "ADMISSION_READY") <=> 5 \in 1..n
      /\ Reached(Handoff, n, "ADMISSION_SUBMITTED") <=> 6 \in 1..n
      /\ Reached(Handoff, n, "FINALIZED") <=> 7 \in 1..n
  BY <1>1, <1>2 DEF Reached
<1> QED
  BY <1>3, <1>4

\* And how far the composition's receipt is.
LEMMA ProgressPhases ==
  ASSUME NEW n \in 0..6
  PROVE  /\ Reached(Progress, n, "ADMITTED") <=> n >= 5
         /\ Reached(Progress, n, "FINALIZED") <=> n = 6
<1>1. /\ Progress[1] = "MATERIALIZED" /\ Progress[2] = "DEPENDENCIES_READY"
      /\ Progress[3] = "PREPARED" /\ Progress[4] = "HANDOFF_STARTED"
      /\ Progress[5] = "ADMITTED" /\ Progress[6] = "FINALIZED"
  BY DEF Progress
<1>2. \A i \in 1..n : i \in {1, 2, 3, 4, 5, 6}
  OBVIOUS
<1>3. /\ Reached(Progress, n, "ADMITTED") <=> 5 \in 1..n
      /\ Reached(Progress, n, "FINALIZED") <=> 6 \in 1..n
  BY <1>1, <1>2 DEF Reached
<1> QED
  BY <1>3

\* What is recorded of a card is as it was.
Same(a) ==
  /\ progress'[a] = progress[a] /\ prepared'[a] = prepared[a] /\ handoff'[a] = handoff[a]
  /\ commit'[a] = commit[a] /\ grant'[a] = grant[a] /\ registered'[a] = registered[a]
  /\ queued'[a] = queued[a] /\ claimed'[a] = claimed[a]
  /\ task'[a] = task[a] /\ dispatch'[a] = dispatch[a]
  /\ entry'[a] = entry[a] /\ plan'[<<a, 1>>] = plan[<<a, 1>>]
  /\ receipt'[<<a, 1>>] = receipt[<<a, 1>>]

SameWork(a) == (a \in working' <=> a \in working) /\ worker'[a] = worker[a]

\* What only grows.
Grows ==
  /\ needs' = needs
  /\ head' >= head /\ sequence' >= sequence
  /\ integrated \subseteq integrated' /\ tracked \subseteq tracked'

\* A card of which nothing recorded has changed is still in order.
LEMMA SameCard ==
  ASSUME GitOK, GitOK', RecordsTyped, RecordsTyped', NEW a \in Cards, CardOK(a),
         Same(a), SameWork(a), Grows
  PROVE  CardOK(a)'
<1>1. head \in Int /\ head' \in Int /\ head' >= head /\ sequence \in Int
      /\ sequence' \in Int /\ sequence' >= sequence
  BY DEF GitOK, RecordsTyped, Grows
<1>2. LadderOK(a)'
  <2>1. DependenciesReady(a) => DependenciesReady(a)'
    BY DEF DependenciesReady, Grows
  <2> QED
    BY <1>1, <2>1 DEF CardOK, LadderOK, Same
<1>3. BoundOK(a)'
  BY <1>1 DEF CardOK, BoundOK, Same, Grows
<1>4. QueueOK(a)'
  BY <1>1 DEF CardOK, QueueOK, InQueue, Same
<1>5. DispatchOK(a)'
  BY DEF CardOK, DispatchOK, Submitted, Same, SameWork
<1> QED
  BY <1>2, <1>3, <1>4, <1>5 DEF CardOK

\* So is a thread that has not moved, at such a card.
LEMMA SameThread ==
  ASSUME GitOK, GitOK', RecordsTyped, RecordsTyped', NEW q \in Processes, ThreadOK(q),
         job'[q] = job[q], proc'[q] = proc[q],
         job[q] # NoJob => Same(job[q].card), Grows
  PROVE  ThreadOK(q)'
<1>1. head \in Int /\ head' \in Int /\ head' >= head /\ sequence \in Int
      /\ sequence' \in Int /\ sequence' >= sequence
  BY DEF GitOK, RecordsTyped, Grows
<1>2. CASE job[q] = NoJob
  BY <1>2 DEF ThreadOK, NoJob
<1>3. CASE job[q] # NoJob
  <2>1. PICK m, c : m = job[q] /\ c = m.card
    OBVIOUS
  <2>2. /\ c \in Cards /\ m.at \notin {"none", "ready"} /\ Outer(m, c) /\ Inner(m, c)
        /\ proc[q].pc # "idle" <=> m.at = "tick"
        /\ m.at = "tick" => Ticking(proc[q], c)
        /\ Same(c)
    BY <1>3, <2>1 DEF ThreadOK
  <2>3. Outer(m, c)'
    <3>1. DependenciesReady(c) => DependenciesReady(c)'
      BY DEF DependenciesReady, Grows
    <3> QED
      BY <2>2, <3>1 DEF Outer, Same
  <2>4. Inner(m, c)'
    <3>1. c \in tracked => c \in tracked'
      BY DEF Grows
    <3>2. m.value \in 1..head => m.value \in 1..head'
      BY <1>1
    <3>3. m.value \in 1..sequence => m.value \in 1..sequence'
      BY <1>1
    <3>4. Submitted(c) => Submitted(c)'
      BY <2>2 DEF Submitted, Same
    <3>5. InQueue(c) => InQueue(c)'
      BY <2>2 DEF InQueue, Same
    <3> QED
      BY <2>2, <3>1, <3>2, <3>3, <3>4, <3>5 DEF Inner, Same
  <2>5. m.at = "tick" => Ticking(proc[q], c)'
    BY <2>2 DEF Ticking, Same
  <2> QED
    BY <1>3, <2>1, <2>2, <2>3, <2>4, <2>5 DEF ThreadOK
<1> QED
  BY <1>2, <1>3

-----------------------------------------------------------------------------
(* A thread at its card. *)

\* The phase after the one that is stored.
LEMMA NextPhases ==
  /\ \A n \in 0..6 :
       /\ Handoff[n + 1] = "MATERIALIZED" <=> n = 0
       /\ Handoff[n + 1] = "GIT_EVIDENCE_COMMITTED" <=> n = 1
       /\ Handoff[n + 1] = "CANONICAL_TASK_REGISTERED" <=> n = 2
       /\ Handoff[n + 1] = "QUEUE_RESERVED" <=> n = 3
       /\ Handoff[n + 1] = "ADMISSION_READY" <=> n = 4
       /\ Handoff[n + 1] = "ADMISSION_SUBMITTED" <=> n = 5
       /\ Handoff[n + 1] = "FINALIZED" <=> n = 6
  /\ \A n \in 0..5 :
       /\ Progress[n + 1] = "MATERIALIZED" <=> n = 0
       /\ Progress[n + 1] = "DEPENDENCIES_READY" <=> n = 1
       /\ Progress[n + 1] = "PREPARED" <=> n = 2
       /\ Progress[n + 1] = "HANDOFF_STARTED" <=> n = 3
       /\ Progress[n + 1] = "ADMITTED" <=> n = 4
       /\ Progress[n + 1] = "FINALIZED" <=> n = 5
<1>1. ASSUME NEW n \in 0..6
      PROVE  /\ Handoff[n + 1] = "MATERIALIZED" <=> n = 0
             /\ Handoff[n + 1] = "GIT_EVIDENCE_COMMITTED" <=> n = 1
             /\ Handoff[n + 1] = "CANONICAL_TASK_REGISTERED" <=> n = 2
             /\ Handoff[n + 1] = "QUEUE_RESERVED" <=> n = 3
             /\ Handoff[n + 1] = "ADMISSION_READY" <=> n = 4
             /\ Handoff[n + 1] = "ADMISSION_SUBMITTED" <=> n = 5
             /\ Handoff[n + 1] = "FINALIZED" <=> n = 6
  <2>1. n + 1 \in {1, 2, 3, 4, 5, 6, 7}
    OBVIOUS
  <2>2. /\ Handoff[1] = "MATERIALIZED" /\ Handoff[2] = "GIT_EVIDENCE_COMMITTED"
        /\ Handoff[3] = "CANONICAL_TASK_REGISTERED" /\ Handoff[4] = "QUEUE_RESERVED"
        /\ Handoff[5] = "ADMISSION_READY" /\ Handoff[6] = "ADMISSION_SUBMITTED"
        /\ Handoff[7] = "FINALIZED"
    BY DEF Handoff
  <2> QED
    BY <2>1, <2>2
<1>2. ASSUME NEW n \in 0..5
      PROVE  /\ Progress[n + 1] = "MATERIALIZED" <=> n = 0
             /\ Progress[n + 1] = "DEPENDENCIES_READY" <=> n = 1
             /\ Progress[n + 1] = "PREPARED" <=> n = 2
             /\ Progress[n + 1] = "HANDOFF_STARTED" <=> n = 3
             /\ Progress[n + 1] = "ADMITTED" <=> n = 4
             /\ Progress[n + 1] = "FINALIZED" <=> n = 5
  <2>1. n + 1 \in {1, 2, 3, 4, 5, 6}
    OBVIOUS
  <2>2. /\ Progress[1] = "MATERIALIZED" /\ Progress[2] = "DEPENDENCIES_READY"
        /\ Progress[3] = "PREPARED" /\ Progress[4] = "HANDOFF_STARTED"
        /\ Progress[5] = "ADMITTED" /\ Progress[6] = "FINALIZED"
    BY DEF Progress
  <2> QED
    BY <2>1, <2>2
<1> QED
  BY <1>1, <1>2

\* A thread that is at a card is alone there, and goes by what it knows.
AtWork(p, c) ==
  /\ c \in Cards /\ c # None
  /\ job[p] \in Job /\ job[p] # NoJob /\ job[p].card = c
  /\ job[p].at \notin {"none", "ready"}
  /\ proc[p].pc # "idle" <=> job[p].at = "tick"
  /\ Outer(job[p], c) /\ Inner(job[p], c)
  /\ job[p].at = "tick" => Ticking(proc[p], c)
  /\ CardOK(c)
  /\ \A q \in Processes \ {p} : Card(q) # c

\* What the invariant says of a thread at work.
LEMMA ThreadFacts ==
  ASSUME AInv, NEW p \in Processes, job[p] # NoJob
  PROVE  AtWork(p, Card(p))
<1>1. ThreadOK(p) /\ job[p] \in Job
  BY DEF AInv, RecordsTyped
<1>2. Card(p) \in Cards /\ Card(p) # None
  BY <1>1, NoneIsNothing DEF ThreadOK, Card
<1>3. \A q \in Processes \ {p} : Card(q) # Card(p)
  BY <1>2 DEF AInv, Alone
<1> QED
  BY <1>1, <1>2, <1>3 DEF AInv, ThreadOK, AtWork, Card

\* Nobody is at a card.
LEMMA IdleThread ==
  ASSUME AInv, NEW p \in Processes, job[p] = NoJob
  PROVE  proc[p].pc = "idle"
BY DEF AInv, ThreadOK, NoJob

\* It goes on, or its job ends.
LEMMA Goes ==
  ASSUME RecordsTyped, NEW p \in Processes, job[p] # NoJob, NEW next \in JobStep
  PROVE  /\ \A v \in 0..MaxHead \cup 0..MaxSeq :
              GoOnWith(p, next, v) =>
                \E m \in Job : /\ m.card = Card(p) /\ m.at = next /\ m.value = v
                               /\ job' = [job EXCEPT ![p] = m]
         /\ GoOn(p, next) =>
              \E m \in Job : /\ m.card = Card(p) /\ m.at = next /\ m.value = 0
                             /\ job' = [job EXCEPT ![p] = m]
<1>1. job \in [Processes -> Job] /\ 0 \in 0..MaxHead
  BY BoundsAreNat DEF RecordsTyped
<1>2. ASSUME NEW v \in 0..MaxHead \cup 0..MaxSeq, GoOnWith(p, next, v)
      PROVE  \E m \in Job : /\ m.card = Card(p) /\ m.at = next /\ m.value = v
                            /\ job' = [job EXCEPT ![p] = m]
  <2>1. PICK m : m = [job[p] EXCEPT !.at = next, !.value = v]
    OBVIOUS
  <2>2. m \in Job /\ m.card = Card(p) /\ m.at = next /\ m.value = v
    BY <1>1, <2>1 DEF Job, Card
  <2>3. job' = [job EXCEPT ![p] = m]
    BY <1>1, <1>2, <2>1 DEF GoOnWith, Job
  <2> QED
    BY <2>2, <2>3
<1>3. GoOn(p, next) => GoOnWith(p, next, 0)
  BY DEF GoOn, GoOnWith
<1> QED
  BY <1>1, <1>2, <1>3

\* A thread that does nothing has the type of the others.
LEMMA NoJobIsOne == NoJob \in Job
BY BoundsAreNat DEF NoJob, Job, JobStep

\* One thread and one card change, and both are in order.
OneMoves(p, c, m) ==
  /\ job' = [job EXCEPT ![p] = m]
  /\ m = NoJob \/ m.card = c
  /\ \A q \in Processes \ {p} : Card(q) # c /\ proc'[q] = proc[q]
  /\ \A a \in Cards \ {c} : Same(a) /\ SameWork(a)
  /\ Grows

\* A step of one thread at its card keeps the invariant when it leaves both in order.
LEMMA Moves ==
  ASSUME AInv, IInv', RecordsTyped', Plain(todo)', tracked' # {} => head' >= 1,
         NEW p \in Processes, NEW c \in Cards, NEW m \in Job, OneMoves(p, c, m),
         CardOK(c)', ThreadOK(p)'
  PROVE  AInv'
<1>1. GitOK /\ GitOK' /\ RecordsTyped /\ job \in [Processes -> Job]
  BY DEF AInv, IInv, RecordsTyped
<1>2. ASSUME NEW a \in Cards
      PROVE  CardOK(a)'
  <2>1. CASE a # c
    BY <1>1, <2>1, SameCard DEF AInv, OneMoves
  <2> QED
    BY <2>1
<1>3. ASSUME NEW q \in Processes
      PROVE  ThreadOK(q)'
  <2>1. CASE q # p
    <3>1. job'[q] = job[q] /\ proc'[q] = proc[q] /\ Card(q) # c /\ Grows
      BY <1>1, <2>1 DEF OneMoves
    <3>2. job[q] # NoJob => Same(job[q].card)
      BY <1>1, <2>1, <3>1 DEF OneMoves, AInv, ThreadOK, Card
    <3> QED
      BY <1>1, <3>1, <3>2, SameThread DEF AInv
  <2> QED
    BY <2>1
<1>4. Alone'
  <2>1. job'[p] = m /\ \A q \in Processes \ {p} : job'[q] = job[q] /\ job[q].card # c
    BY <1>1 DEF OneMoves, Card
  <2>2. m.card \in {c, None}
    BY DEF OneMoves, NoJob
  <2>3. \A q, r \in Processes : job[q].card = job[r].card => q = r \/ job[q].card = None
    BY DEF AInv, Alone, Card
  <2>4. \A q, r \in Processes :
          job'[q].card = job'[r].card => q = r \/ job'[q].card = None
    BY <2>1, <2>2, <2>3
  <2> QED
    BY <2>4 DEF Alone, Card
<1> QED
  BY <1>2, <1>3, <1>4 DEF AInv

\* The thread has no tick and the scheduler does nothing.
LEMMA QuietMoves ==
  ASSUME AInv, RecordsTyped', NEW p \in Processes, proc[p].pc = "idle", UNCHANGED vars,
         NEW c \in Cards, NEW m \in Job, OneMoves(p, c, m), tracked' = tracked,
         grant[c] # None => grant'[c] # None,
         CardOK(c)',
         m # NoJob => /\ m.at \notin {"none", "ready", "tick"}
                      /\ Outer(m, c)' /\ Inner(m, c)'
  PROVE  AInv'
<1>1. IInv'
  BY StutterKeeps DEF AInv
<1>2. /\ head' = head /\ commit' = commit /\ entry' = entry /\ todo' = todo /\ proc' = proc
      /\ todo \in Seq(File)
  BY DEF vars, git, files, AInv, IInv, StoreOK
<1>3. Plain(todo)'
  <2>1. ASSUME NEW i \in 1..Len(todo)
        PROVE  PlainFile(todo[i])'
    <3>1. PICK f \in File : f = todo[i]
      BY <1>2
    <3>2. PlainFile(f) /\ f.card \in Cards
      BY <3>1 DEF AInv, Plain, File
    <3>3. grant[f.card] # None => grant'[f.card] # None
      BY <3>2 DEF OneMoves, Same
    <3>4. PlainFile(f)'
      BY <1>2, <3>2, <3>3 DEF PlainFile, InQueue
    <3> QED
      BY <1>2, <3>1, <3>4
  <2> QED
    BY <1>2, <2>1 DEF Plain
<1>4. ThreadOK(p)'
  <2>1. job'[p] = m /\ (m = NoJob \/ m.card = c)
    BY DEF OneMoves, AInv, RecordsTyped
  <2>2. CASE m = NoJob
    BY <1>2, <2>1, <2>2 DEF ThreadOK, NoJob
  <2>3. CASE m # NoJob
    <3>1. job'[p] = m /\ m.card = c /\ m.at \notin {"none", "ready", "tick"}
          /\ Outer(m, c)' /\ Inner(m, c)'
      BY <2>1, <2>3
    <3> QED
      BY <1>2, <2>3, <3>1 DEF ThreadOK
  <2> QED
    BY <2>2, <2>3
<1>5. tracked' # {} => head' >= 1
  BY <1>2 DEF AInv
<1> QED
  BY <1>1, <1>3, <1>4, <1>5, Moves

-----------------------------------------------------------------------------
(* The steps of the composition. *)

\* A thread may be with this at the card, outside a tick.
Lawful(m) == m = NoJob \/ m.at \notin {"none", "ready", "tick"}

\* Only the thread and things that are its own business change.
LEMMA JobMoves ==
  ASSUME AInv, RecordsTyped', NEW p \in Processes, proc[p].pc = "idle", UNCHANGED vars,
         NEW c \in Cards, NEW m \in Job, OneMoves(p, c, m), Same(c), SameWork(c),
         tracked' = tracked, Lawful(m), m # NoJob => Outer(m, c)' /\ Inner(m, c)'
  PROVE  AInv'
<1>1. CardOK(c)'
  <2>1. GitOK /\ GitOK' /\ RecordsTyped /\ CardOK(c) /\ Grows
    BY StutterKeeps DEF AInv, IInv, OneMoves
  <2> QED
    BY <2>1, SameCard
<1> QED
  BY <1>1, QuietMoves DEF Lawful, Same

\* The receipt of the composition moves on.
ProgressStep(p, c, m, n) ==
  /\ job' = [job EXCEPT ![p] = m]
  /\ m = NoJob \/ m.card = c
  /\ \A q \in Processes \ {p} : Card(q) # c
  /\ progress' = [progress EXCEPT ![c] = n]
  /\ UNCHANGED <<vars, needs, prepared, inputs, handoff, claimed, effects, after>>

\* Such a step keeps the invariant when the receipt has what it needs to show.
LEMMA ProgressMoves ==
  ASSUME AInv, NEW p \in Processes, proc[p].pc = "idle", NEW c \in Cards, NEW m \in Job,
         NEW n \in 1..6, n >= progress[c], ProgressStep(p, c, m, n),
         n >= 2 => DependenciesReady(c), n >= 3 => prepared[c] # None,
         n >= 5 => handoff[c] = 7,
         Lawful(m), m # NoJob => Outer(m, c)' /\ Inner(m, c)'
  PROVE  AInv'
<1>1. /\ needs' = needs /\ prepared' = prepared /\ inputs' = inputs /\ handoff' = handoff
      /\ claimed' = claimed /\ sequence' = sequence /\ queued' = queued /\ index' = index
      /\ tracked' = tracked /\ registered' = registered /\ grant' = grant
      /\ integrated' = integrated /\ working' = working /\ worker' = worker
      /\ UNCHANGED vars
  BY DEF ProgressStep, effects, after
<1>2. /\ head' = head /\ commit' = commit /\ task' = task /\ dispatch' = dispatch
      /\ entry' = entry /\ plan' = plan /\ receipt' = receipt /\ proc' = proc
  BY <1>1 DEF vars, git, ledger, files
<1>3. RecordsTyped /\ CardOK(c) /\ head \in Int /\ sequence \in Int
  BY DEF AInv, IInv, GitOK, RecordsTyped
<1>4. /\ progress' \in [Cards -> 0..6] /\ progress'[c] = n
      /\ \A a \in Cards \ {c} : progress'[a] = progress[a]
      /\ job' \in [Processes -> Job]
  BY <1>3 DEF RecordsTyped, ProgressStep
<1>5. RecordsTyped'
  BY <1>1, <1>3, <1>4 DEF RecordsTyped
<1>6. Grows
  BY <1>1, <1>2, <1>3 DEF Grows
<1>7. \A a \in Cards \ {c} : Same(a) /\ SameWork(a)
  BY <1>1, <1>2, <1>4 DEF Same, SameWork
<1>8. OneMoves(p, c, m)
  BY <1>2, <1>6, <1>7 DEF OneMoves, ProgressStep
<1>9. CardOK(c)'
  <2>1. progress[c] \in 0..6 /\ handoff[c] \in 0..7
    BY <1>3 DEF RecordsTyped
  <2>2. LadderOK(c)'
    BY <1>1, <1>2, <1>3, <1>4, <2>1 DEF CardOK, LadderOK, DependenciesReady
  <2>3. BoundOK(c)' /\ QueueOK(c)'
    BY <1>1, <1>2, <1>3 DEF CardOK, BoundOK, QueueOK, InQueue
  <2>4. DispatchOK(c)'
    BY <1>1, <1>2, <1>3, <1>4, <2>1 DEF CardOK, DispatchOK, Submitted
  <2> QED
    BY <2>2, <2>3, <2>4 DEF CardOK
<1> QED
  BY <1>1, <1>5, <1>8, <1>9, QuietMoves DEF Lawful

\* Where a card is taken up.
LEMMA NextSteps ==
  ASSUME NEW c, progress[c] \in 0..6, handoff[c] \in 0..7
  PROVE  /\ NextStep(c) \in {"none", "dependencies", "prepare", "handoff", "admit"}
         /\ NextStep(c) = "dependencies" => progress[c] \in {0, 1} /\ DependenciesReady(c)
         /\ NextStep(c) = "prepare" => progress[c] \in {2, 3, 5}
         /\ NextStep(c) = "handoff" => progress[c] = 4 /\ handoff[c] \in 1..6
         /\ NextStep(c) = "admit" => progress[c] = 4 /\ handoff[c] = 7
<1> DEFINE phase == IF progress[c] = 0 THEN "MATERIALIZED" ELSE Progress[progress[c]]
<1>1. /\ Progress[1] = "MATERIALIZED" /\ Progress[2] = "DEPENDENCIES_READY"
      /\ Progress[3] = "PREPARED" /\ Progress[4] = "HANDOFF_STARTED"
      /\ Progress[5] = "ADMITTED" /\ Progress[6] = "FINALIZED"
  BY DEF Progress
<1>2. progress[c] \in {0, 1, 2, 3, 4, 5, 6}
  OBVIOUS
<1>3. /\ phase = "HANDOFF_STARTED" <=> progress[c] = 4
      /\ phase = "FINALIZED" <=> progress[c] = 6
      /\ phase = "MATERIALIZED" <=> progress[c] \in {0, 1}
  BY <1>1, <1>2
<1>4. /\ ResumedHandoff(c) \in {"none", "handoff", "admit"}
      /\ ResumedHandoff(c) = "admit" => handoff[c] = 7
      /\ ResumedHandoff(c) = "handoff" => handoff[c] \in 1..6
  <2>1. Reached(Handoff, handoff[c], "FINALIZED") <=> handoff[c] = 7
    BY HandoffPhases
  <2>2. CASE handoff[c] = 7
    BY <2>1, <2>2 DEF ResumedHandoff
  <2>3. CASE handoff[c] # 7 /\ handoff[c] # 0 /\ c \in inputs
    BY <2>1, <2>3 DEF ResumedHandoff
  <2>4. CASE handoff[c] # 7 /\ ~(handoff[c] # 0 /\ c \in inputs)
    BY <2>1, <2>4 DEF ResumedHandoff
  <2> QED
    BY <2>2, <2>3, <2>4
<1>5. NextStep(c) = IF phase = "HANDOFF_STARTED" THEN ResumedHandoff(c)
                     ELSE IF phase = "FINALIZED" \/ ~DependenciesReady(c) THEN "none"
                     ELSE IF phase = "MATERIALIZED" THEN "dependencies" ELSE "prepare"
  BY DEF NextStep
<1> HIDE DEF phase
<1>6. CASE progress[c] = 4
  BY <1>3, <1>4, <1>5, <1>6
<1>7. CASE progress[c] # 4
  <2>1. phase # "HANDOFF_STARTED"
    BY <1>3, <1>7
  <2>2. CASE phase = "FINALIZED" \/ ~DependenciesReady(c)
    <3>1. NextStep(c) = "none"
      BY <1>5, <2>1, <2>2
    <3> QED
      BY <3>1
  <2>3. CASE phase # "FINALIZED" /\ DependenciesReady(c) /\ phase = "MATERIALIZED"
    <3>1. NextStep(c) = "dependencies"
      BY <1>5, <2>1, <2>3
    <3> QED
      BY <1>3, <2>3, <3>1
  <2>4. CASE phase # "FINALIZED" /\ DependenciesReady(c) /\ phase # "MATERIALIZED"
    <3>1. NextStep(c) = "prepare"
      BY <1>5, <2>1, <2>4
    <3> QED
      BY <1>2, <1>3, <1>7, <2>4, <3>1
  <2> QED
    BY <2>2, <2>3, <2>4
<1> QED
  BY <1>6, <1>7

\* A card is taken up.
LEMMA ExecuteKeeps ==
  ASSUME AInv, NEW p \in Processes, NEW c \in Cards, Execute(p, c)
  PROVE  AInv'
<1>1. /\ progress[c] \in 0..6 /\ handoff[c] \in 0..7 /\ job \in [Processes -> Job]
      /\ progress \in [Cards -> 0..6] /\ CardOK(c) /\ NoJob \in Job /\ c # None
  BY NoJobIsOne, NoneIsNothing DEF AInv, RecordsTyped
<1>2. /\ job[p] = NoJob /\ proc[p].pc = "idle" /\ \A q \in Processes : Card(q) # c
      /\ progress[c] = 0 \/ NextStep(c) # "none"
      /\ progress' = IF progress[c] = 0 THEN [progress EXCEPT ![c] = 1] ELSE progress
      /\ job' = IF NextStep(c) = "none" THEN job
                ELSE [job EXCEPT ![p] = [NoJob EXCEPT !.card = c, !.at = NextStep(c)]]
      /\ UNCHANGED <<vars, needs, prepared, inputs, handoff, claimed, effects, after>>
  BY DEF Execute
<1>3. PICK n \in 1..6 : n = IF progress[c] = 0 THEN 1 ELSE progress[c]
  BY <1>1
<1>4. progress' = [progress EXCEPT ![c] = n]
  BY <1>1, <1>2, <1>3
<1>5. /\ n >= progress[c]
      /\ n >= 2 => DependenciesReady(c)
      /\ n >= 3 => prepared[c] # None
      /\ n >= 5 => handoff[c] = 7
  BY <1>1, <1>3 DEF CardOK, LadderOK
<1>6. CASE NextStep(c) = "none"
  <2>1. job' = [job EXCEPT ![p] = NoJob]
    BY <1>1, <1>2, <1>6
  <2>2. ProgressStep(p, c, NoJob, n)
    BY <1>2, <1>4, <2>1 DEF ProgressStep
  <2> QED
    BY <1>1, <1>2, <1>5, <2>2, ProgressMoves DEF Lawful
<1>7. CASE NextStep(c) # "none"
  <2>1. NextStep(c) \in {"dependencies", "prepare", "handoff", "admit"}
    BY <1>1, <1>7, NextSteps
  <2>2. PICK m : m = [NoJob EXCEPT !.card = c, !.at = NextStep(c)]
    OBVIOUS
  <2>3. m \in Job /\ m.card = c /\ m.at = NextStep(c)
    BY <1>1, <2>1, <2>2 DEF NoJob, Job, JobStep
  <2>4. job' = [job EXCEPT ![p] = m]
    BY <1>2, <1>7, <2>2
  <2>5. ProgressStep(p, c, m, n)
    BY <1>2, <1>4, <2>3, <2>4 DEF ProgressStep
  <2>6. progress'[c] = n /\ handoff' = handoff /\ needs' = needs /\ integrated' = integrated
    BY <1>1, <1>2, <1>4 DEF after
  <2>7. /\ m.at = "dependencies" => n = 1 /\ DependenciesReady(c)
        /\ m.at = "prepare" => n \in {2, 3, 5}
        /\ m.at \in {"handoff", "admit"} => n = 4
        /\ m.at = "handoff" => handoff[c] \in 1..6
        /\ m.at = "admit" => handoff[c] = 7
    BY <1>1, <1>3, <2>3, NextSteps
  <2>8. Outer(m, c)' /\ Inner(m, c)'
    BY <1>1, <2>1, <2>3, <2>6, <2>7 DEF Outer, Inner, OutsideHandoff, DependenciesReady
  <2>9. Lawful(m)
    BY <2>1, <2>3 DEF Lawful
  <2> QED
    BY <1>2, <1>5, <2>3, <2>5, <2>8, <2>9, ProgressMoves
<1> QED
  BY <1>6, <1>7

\* Its dependencies are met.
LEMMA SaveDependenciesReadyKeeps ==
  ASSUME AInv, NEW p \in Processes, SaveDependenciesReady(p)
  PROVE  AInv'
<1>1. PICK c \in Cards : c = Card(p)
  BY ThreadFacts DEF SaveDependenciesReady, AtStep, AtWork, NoJob
<1>2. AtWork(p, c) /\ job[p].at = "dependencies" /\ job[p] # NoJob
  BY <1>1, ThreadFacts DEF SaveDependenciesReady, AtStep, NoJob
<1>3. /\ progress[c] = 1 /\ DependenciesReady(c) /\ proc[p].pc = "idle"
      /\ \A q \in Processes \ {p} : Card(q) # c
  BY <1>2 DEF AtWork, Outer
<1>4. progress' = [progress EXCEPT ![c] = 2] /\ progress'[c] = 2
  BY <1>1, <1>3 DEF SaveDependenciesReady, Advance, AInv, RecordsTyped
<1>5. PICK m \in Job : m.card = c /\ m.at = "prepare" /\ job' = [job EXCEPT ![p] = m]
  <2>1. "prepare" \in JobStep /\ GoOn(p, "prepare") /\ RecordsTyped
    BY DEF JobStep, SaveDependenciesReady, AInv
  <2> QED
    BY <1>1, <1>2, <2>1, Goes
<1>6. ProgressStep(p, c, m, 2)
  BY <1>3, <1>4, <1>5 DEF ProgressStep, SaveDependenciesReady
<1>7. Outer(m, c)' /\ Inner(m, c)' /\ Lawful(m)
  BY <1>4, <1>5 DEF Outer, Inner, OutsideHandoff, Lawful
<1> QED
  BY <1>3, <1>5, <1>6, <1>7, ProgressMoves

\* A thread at a step, in one fact.
LEMMA AtStepFacts ==
  ASSUME AInv, NEW p \in Processes, NEW step \in JobStep \ {"none"}, AtStep(p, step)
  PROVE  \E c \in Cards :
           /\ c = Card(p) /\ AtWork(p, c) /\ job[p].at = step /\ job[p] # NoJob
           /\ Outer(job[p], c) /\ Inner(job[p], c) /\ CardOK(c)
           /\ \A q \in Processes \ {p} : Card(q) # c
           /\ step # "tick" => proc[p].pc = "idle"
<1>1. job[p] # NoJob /\ job[p].at = step
  BY DEF AtStep, NoJob
<1>2. AtWork(p, Card(p))
  BY <1>1, ThreadFacts
<1> QED
  BY <1>1, <1>2 DEF AtWork

\* It is prepared.
LEMMA SavePreparedKeeps ==
  ASSUME AInv, NEW p \in Processes, SavePrepared(p)
  PROVE  AInv'
<1>1. "prepared" \in JobStep \ {"none"} /\ "start" \in JobStep
  BY DEF JobStep
<1>2. PICK c \in Cards :
        /\ c = Card(p) /\ AtWork(p, c) /\ job[p].at = "prepared" /\ job[p] # NoJob
        /\ Outer(job[p], c) /\ Inner(job[p], c) /\ CardOK(c)
        /\ \A q \in Processes \ {p} : Card(q) # c
        /\ proc[p].pc = "idle"
  BY <1>1, AtStepFacts DEF SavePrepared
<1>3. progress[c] \in {2, 3, 5} /\ prepared[c] # None
  BY <1>2 DEF Outer
<1>4. RecordsTyped /\ progress \in [Cards -> 0..6]
  BY DEF AInv, RecordsTyped
<1>5. PICK n \in 1..6 : n = IF progress[c] = 2 THEN 3 ELSE progress[c]
  BY <1>3
<1>6. progress' = [progress EXCEPT ![c] = n] /\ progress'[c] = n
  <2>1. Progress[progress[c]] = "DEPENDENCIES_READY" <=> progress[c] = 2
    BY <1>3 DEF Progress
  <2>2. /\ progress[c] = 2 => progress' = [progress EXCEPT ![c] = 3]
        /\ progress[c] # 2 => progress' = progress
    BY <1>2, <2>1 DEF SavePrepared, Advance
  <2> QED
    BY <1>4, <1>5, <2>2
<1>7. PICK m \in Job : m.card = c /\ m.at = "start" /\ job' = [job EXCEPT ![p] = m]
  BY <1>1, <1>2, <1>4, Goes DEF SavePrepared
<1>8. ProgressStep(p, c, m, n)
  BY <1>2, <1>6, <1>7 DEF ProgressStep, SavePrepared
<1>9. n \in {3, 5} /\ n >= progress[c] /\ (n = 5 => handoff[c] = 7) /\ DependenciesReady(c)
  BY <1>2, <1>3, <1>5 DEF CardOK, LadderOK
<1>10. Outer(m, c)' /\ Inner(m, c)' /\ Lawful(m)
  <2>1. prepared'[c] # None
    BY <1>3 DEF SavePrepared
  <2> QED
    BY <1>6, <1>7, <1>9, <2>1 DEF Outer, Inner, OutsideHandoff, Lawful
<1> QED
  BY <1>2, <1>3, <1>7, <1>8, <1>9, <1>10, ProgressMoves

\* Its handoff is started.
LEMMA SaveHandoffStartedKeeps ==
  ASSUME AInv, NEW p \in Processes, SaveHandoffStarted(p)
  PROVE  AInv'
<1>1. "start" \in JobStep \ {"none"} /\ "handoff" \in JobStep
  BY DEF JobStep
<1>2. PICK c \in Cards :
        /\ c = Card(p) /\ AtWork(p, c) /\ job[p].at = "start" /\ job[p] # NoJob
        /\ Outer(job[p], c) /\ Inner(job[p], c) /\ CardOK(c)
        /\ \A q \in Processes \ {p} : Card(q) # c
        /\ proc[p].pc = "idle"
  BY <1>1, AtStepFacts DEF SaveHandoffStarted
<1>3. progress[c] \in {3, 5} /\ prepared[c] # None
  BY <1>2 DEF Outer
<1>4. RecordsTyped /\ progress \in [Cards -> 0..6]
  BY DEF AInv, RecordsTyped
<1>5. progress[c] = 3 /\ progress' = [progress EXCEPT ![c] = 4] /\ progress'[c] = 4
  <2>1. Progress[progress[c] + 1] = "HANDOFF_STARTED"
        /\ progress' = [progress EXCEPT ![c] = @ + 1]
    BY <1>2 DEF SaveHandoffStarted, Advance
  <2>2. progress[c] = 3
    BY <1>3, <2>1, NextPhases
  <2> QED
    BY <1>4, <2>1, <2>2
<1>6. handoff[c] = 0 /\ DependenciesReady(c)
  BY <1>2, <1>5 DEF CardOK, LadderOK, AInv, RecordsTyped
<1>7. PICK m \in Job : m.card = c /\ m.at = "handoff" /\ job' = [job EXCEPT ![p] = m]
  BY <1>1, <1>2, <1>4, Goes DEF SaveHandoffStarted
<1>8. ProgressStep(p, c, m, 4)
  BY <1>2, <1>5, <1>7 DEF ProgressStep, SaveHandoffStarted
<1>9. Outer(m, c)' /\ Inner(m, c)' /\ Lawful(m)
  <2>1. handoff'[c] = 0
    BY <1>6 DEF SaveHandoffStarted
  <2> QED
    BY <1>5, <1>7, <2>1 DEF Outer, Inner, OutsideHandoff, Lawful
<1> QED
  BY <1>2, <1>3, <1>5, <1>6, <1>7, <1>8, <1>9, ProgressMoves

\* It is admitted, when its handoff is over.
LEMMA SaveAdmittedKeeps ==
  ASSUME AInv, NEW p \in Processes, SaveAdmitted(p)
  PROVE  AInv'
<1>1. "admit" \in JobStep \ {"none"} /\ "post" \in JobStep
  BY DEF JobStep
<1>2. PICK c \in Cards :
        /\ c = Card(p) /\ AtWork(p, c) /\ job[p].at = "admit" /\ job[p] # NoJob
        /\ Outer(job[p], c) /\ Inner(job[p], c) /\ CardOK(c)
        /\ \A q \in Processes \ {p} : Card(q) # c
        /\ proc[p].pc = "idle"
  BY <1>1, AtStepFacts DEF SaveAdmitted
<1>3. progress[c] = 4 /\ handoff[c] = 7 /\ prepared[c] # None /\ DependenciesReady(c)
  BY <1>2 DEF Outer, OutsideHandoff, CardOK, LadderOK
<1>4. RecordsTyped /\ progress \in [Cards -> 0..6]
  BY DEF AInv, RecordsTyped
<1>5. progress' = [progress EXCEPT ![c] = 5] /\ progress'[c] = 5
  BY <1>2, <1>3, <1>4 DEF SaveAdmitted, Advance
<1>6. PICK m \in Job : m.card = c /\ m.at = "post" /\ job' = [job EXCEPT ![p] = m]
  BY <1>1, <1>2, <1>4, Goes DEF SaveAdmitted
<1>7. ProgressStep(p, c, m, 5)
  BY <1>2, <1>5, <1>6 DEF ProgressStep, SaveAdmitted
<1>8. Outer(m, c)' /\ Inner(m, c)' /\ Lawful(m)
  BY <1>5, <1>6 DEF Outer, Inner, OutsideHandoff, Lawful
<1> QED
  BY <1>2, <1>3, <1>6, <1>7, <1>8, ProgressMoves

\* The composition is done with it.
LEMMA SaveFinalizedKeeps ==
  ASSUME AInv, NEW p \in Processes, SaveFinalized(p)
  PROVE  AInv'
<1>1. "finish" \in JobStep \ {"none"}
  BY DEF JobStep
<1>2. PICK c \in Cards :
        /\ c = Card(p) /\ AtWork(p, c) /\ job[p].at = "finish" /\ job[p] # NoJob
        /\ Outer(job[p], c) /\ Inner(job[p], c) /\ CardOK(c)
        /\ \A q \in Processes \ {p} : Card(q) # c
        /\ proc[p].pc = "idle"
  BY <1>1, AtStepFacts DEF SaveFinalized
<1>3. progress[c] = 5 /\ handoff[c] = 7 /\ prepared[c] # None /\ DependenciesReady(c)
  BY <1>2 DEF Outer, CardOK, LadderOK
<1>4. progress' = [progress EXCEPT ![c] = 6]
  BY <1>2, <1>3 DEF SaveFinalized, Advance, AInv, RecordsTyped
<1>5. ProgressStep(p, c, NoJob, 6)
  BY <1>2, <1>4 DEF ProgressStep, SaveFinalized, EndJob
<1> QED
  BY <1>2, <1>3, <1>5, NoJobIsOne, ProgressMoves DEF Lawful

-----------------------------------------------------------------------------
(* The steps of the handoff's receipt. *)

\* The receipt of the handoff moves on.
HandoffStep(p, c, m, n) ==
  /\ job' = [job EXCEPT ![p] = m]
  /\ m.card = c
  /\ \A q \in Processes \ {p} : Card(q) # c
  /\ handoff' = [handoff EXCEPT ![c] = n]
  /\ UNCHANGED <<vars, needs, progress, prepared, inputs, claimed, effects, after>>

\* Such a step keeps the invariant when the receipt has what it needs to show.
LEMMA HandoffMoves ==
  ASSUME AInv, NEW p \in Processes, proc[p].pc = "idle", NEW c \in Cards, NEW m \in Job,
         NEW n \in 1..7, n >= handoff[c], HandoffStep(p, c, m, n), progress[c] = 4,
         n >= 2 => handoff[c] >= 2, n >= 3 => registered[c] # None,
         n >= 4 => InQueue(c) /\ claimed[c] = queued[c], n >= 6 => Submitted(c),
         Lawful(m), Outer(m, c)' /\ Inner(m, c)'
  PROVE  AInv'
<1>1. /\ needs' = needs /\ prepared' = prepared /\ inputs' = inputs /\ progress' = progress
      /\ claimed' = claimed /\ sequence' = sequence /\ queued' = queued /\ index' = index
      /\ tracked' = tracked /\ registered' = registered /\ grant' = grant
      /\ integrated' = integrated /\ working' = working /\ worker' = worker
      /\ UNCHANGED vars
  BY DEF HandoffStep, effects, after
<1>2. /\ head' = head /\ commit' = commit /\ task' = task /\ dispatch' = dispatch
      /\ entry' = entry /\ plan' = plan /\ receipt' = receipt /\ proc' = proc
  BY <1>1 DEF vars, git, ledger, files
<1>3. RecordsTyped /\ CardOK(c) /\ head \in Int /\ sequence \in Int
  BY DEF AInv, IInv, GitOK, RecordsTyped
<1>4. /\ handoff' \in [Cards -> 0..7] /\ handoff'[c] = n
      /\ \A a \in Cards \ {c} : handoff'[a] = handoff[a]
      /\ job' \in [Processes -> Job]
  BY <1>3 DEF RecordsTyped, HandoffStep
<1>5. RecordsTyped'
  BY <1>1, <1>3, <1>4 DEF RecordsTyped
<1>6. Grows
  BY <1>1, <1>2, <1>3 DEF Grows
<1>7. \A a \in Cards \ {c} : Same(a) /\ SameWork(a)
  BY <1>1, <1>2, <1>4 DEF Same, SameWork
<1>8. OneMoves(p, c, m)
  BY <1>2, <1>6, <1>7 DEF OneMoves, HandoffStep
<1>9. CardOK(c)'
  <2>1. handoff[c] \in 0..7
    BY <1>3 DEF RecordsTyped
  <2>2. LadderOK(c)'
    BY <1>1, <1>2, <1>3, <1>4, <2>1 DEF CardOK, LadderOK, DependenciesReady
  <2>3. BoundOK(c)'
    BY <1>1, <1>2, <1>3, <1>4, <2>1 DEF CardOK, BoundOK
  <2>4. QueueOK(c)'
    BY <1>1, <1>2, <1>3, <1>4, <2>1 DEF CardOK, QueueOK, InQueue
  <2>5. DispatchOK(c)'
    BY <1>1, <1>2, <1>3, <1>4, <2>1 DEF CardOK, DispatchOK, Submitted
  <2> QED
    BY <2>2, <2>3, <2>4, <2>5 DEF CardOK
<1> QED
  BY <1>1, <1>5, <1>8, <1>9, QuietMoves DEF Lawful

\* The receipt is made.
LEMMA BeginHandoffKeeps ==
  ASSUME AInv, NEW p \in Processes, BeginHandoff(p)
  PROVE  AInv'
<1>1. "handoff" \in JobStep \ {"none"} /\ {"bind", "authorize"} \subseteq JobStep
  BY DEF JobStep
<1>2. PICK c \in Cards :
        /\ c = Card(p) /\ AtWork(p, c) /\ job[p].at = "handoff" /\ job[p] # NoJob
        /\ Outer(job[p], c) /\ Inner(job[p], c) /\ CardOK(c)
        /\ \A q \in Processes \ {p} : Card(q) # c
        /\ proc[p].pc = "idle"
  BY <1>1, AtStepFacts DEF BeginHandoff
<1>3. progress[c] = 4 /\ handoff[c] \in 0..6 /\ RecordsTyped
  BY <1>2 DEF Outer, Inner, OutsideHandoff, AInv
<1>4. PICK n \in 1..7 : n = IF handoff[c] = 0 THEN 1 ELSE handoff[c]
  BY <1>3
<1>5. handoff' = [handoff EXCEPT ![c] = n] /\ handoff'[c] = n
  <2>1. handoff \in [Cards -> 0..7]
    BY <1>3 DEF RecordsTyped
  <2>2. /\ handoff[c] = 0 => handoff' = [handoff EXCEPT ![c] = 1]
        /\ handoff[c] # 0 => handoff' = handoff
    BY <1>2 DEF BeginHandoff, Save
  <2> QED
    BY <1>4, <2>1, <2>2
<1>6. PICK next \in JobStep :
        next = IF HandoffIs(c, "GIT_EVIDENCE_COMMITTED") THEN "authorize" ELSE "bind"
  BY <1>1
<1>7. PICK m \in Job : m.card = c /\ m.at = next /\ job' = [job EXCEPT ![p] = m]
  <2>1. GoOn(p, next)
    BY <1>2, <1>6 DEF BeginHandoff
  <2> QED
    BY <1>2, <1>3, <2>1, Goes
<1>8. /\ next \in {"bind", "authorize"}
      /\ next = "bind" => handoff[c] \in 0..1
      /\ next = "authorize" => handoff[c] \in 2..6
  <2>1. HandoffIs(c, "GIT_EVIDENCE_COMMITTED") <=> handoff[c] >= 2
    BY <1>3, HandoffPhases DEF HandoffIs
  <2> QED
    BY <1>3, <1>6, <2>1
<1>9. HandoffStep(p, c, m, n)
  BY <1>2, <1>5, <1>7 DEF HandoffStep, BeginHandoff
<1>10. /\ n >= handoff[c] /\ (n >= 2 => handoff[c] >= 2) /\ (n >= 3 => registered[c] # None)
       /\ n >= 4 => InQueue(c) /\ claimed[c] = queued[c]
       /\ n >= 6 => Submitted(c)
  BY <1>2, <1>3, <1>4 DEF CardOK, BoundOK, QueueOK, DispatchOK
<1>11. Outer(m, c)' /\ Inner(m, c)' /\ Lawful(m)
  <2>1. progress'[c] = 4
    BY <1>3 DEF BeginHandoff
  <2> QED
    BY <1>4, <1>5, <1>7, <1>8, <2>1 DEF Outer, Inner, OutsideHandoff, Lawful
<1> QED
  BY <1>2, <1>3, <1>7, <1>9, <1>10, <1>11, HandoffMoves

\* The task is registered.
LEMMA SaveRegisteredKeeps ==
  ASSUME AInv, NEW p \in Processes, SaveRegistered(p)
  PROVE  AInv'
<1>1. "registered" \in JobStep \ {"none"} /\ "reserve" \in JobStep
  BY DEF JobStep
<1>2. PICK c \in Cards :
        /\ c = Card(p) /\ AtWork(p, c) /\ job[p].at = "registered" /\ job[p] # NoJob
        /\ Outer(job[p], c) /\ Inner(job[p], c) /\ CardOK(c)
        /\ \A q \in Processes \ {p} : Card(q) # c
        /\ proc[p].pc = "idle"
  BY <1>1, AtStepFacts DEF SaveRegistered
<1>3. progress[c] = 4 /\ handoff[c] = 2 /\ registered[c] # None
  BY <1>2 DEF Outer, Inner, OutsideHandoff
<1>4. RecordsTyped /\ handoff \in [Cards -> 0..7]
  BY DEF AInv, RecordsTyped
<1>5. handoff' = [handoff EXCEPT ![c] = 3] /\ handoff'[c] = 3
  BY <1>2, <1>3, <1>4 DEF SaveRegistered, Save
<1>6. PICK m \in Job : m.card = c /\ m.at = "reserve" /\ job' = [job EXCEPT ![p] = m]
  BY <1>1, <1>2, <1>4, Goes DEF SaveRegistered
<1>7. HandoffStep(p, c, m, 3)
  BY <1>2, <1>5, <1>6 DEF HandoffStep, SaveRegistered
<1>8. Outer(m, c)' /\ Inner(m, c)' /\ Lawful(m)
  <2>1. progress'[c] = 4
    BY <1>3 DEF SaveRegistered
  <2> QED
    BY <1>5, <1>6, <2>1 DEF Outer, Inner, OutsideHandoff, Lawful
<1>9. /\ 3 >= 3 => registered[c] # None
      /\ 3 >= 4 => InQueue(c) /\ claimed[c] = queued[c]
      /\ 3 >= 6 => Submitted(c)
  BY <1>2, <1>3 DEF CardOK, BoundOK, QueueOK, DispatchOK
<1> QED
  BY <1>2, <1>3, <1>6, <1>7, <1>8, <1>9, HandoffMoves

\* The handoff is over.
LEMMA SaveHandoffFinalizedKeeps ==
  ASSUME AInv, NEW p \in Processes, SaveHandoffFinalized(p)
  PROVE  AInv'
<1>1. "final" \in JobStep \ {"none"} /\ "admit" \in JobStep
  BY DEF JobStep
<1>2. PICK c \in Cards :
        /\ c = Card(p) /\ AtWork(p, c) /\ job[p].at = "final" /\ job[p] # NoJob
        /\ Outer(job[p], c) /\ Inner(job[p], c) /\ CardOK(c)
        /\ \A q \in Processes \ {p} : Card(q) # c
        /\ proc[p].pc = "idle"
  BY <1>1, AtStepFacts DEF SaveHandoffFinalized
<1>3. progress[c] = 4 /\ handoff[c] = 6
  BY <1>2 DEF Outer, Inner, OutsideHandoff
<1>4. RecordsTyped /\ handoff \in [Cards -> 0..7]
  BY DEF AInv, RecordsTyped
<1>5. handoff' = [handoff EXCEPT ![c] = 7] /\ handoff'[c] = 7
  BY <1>2, <1>3, <1>4 DEF SaveHandoffFinalized, Save
<1>6. PICK m \in Job : m.card = c /\ m.at = "admit" /\ job' = [job EXCEPT ![p] = m]
  BY <1>1, <1>2, <1>4, Goes DEF SaveHandoffFinalized
<1>7. HandoffStep(p, c, m, 7)
  BY <1>2, <1>5, <1>6 DEF HandoffStep, SaveHandoffFinalized
<1>8. Outer(m, c)' /\ Inner(m, c)' /\ Lawful(m)
  <2>1. progress'[c] = 4
    BY <1>3 DEF SaveHandoffFinalized
  <2> QED
    BY <1>5, <1>6, <2>1 DEF Outer, Inner, OutsideHandoff, Lawful
<1>9. /\ 7 >= 3 => registered[c] # None
      /\ 7 >= 4 => InQueue(c) /\ claimed[c] = queued[c]
      /\ 7 >= 6 => Submitted(c)
  BY <1>2, <1>3 DEF CardOK, BoundOK, QueueOK, DispatchOK
<1> QED
  BY <1>2, <1>3, <1>6, <1>7, <1>8, <1>9, HandoffMoves

\* The plan is stored.
LEMMA SavePlanKeeps ==
  ASSUME AInv, NEW p \in Processes, SavePlan(p)
  PROVE  AInv'
<1>1. "plan" \in JobStep \ {"none"} /\ "submit" \in JobStep
  BY DEF JobStep
<1>2. PICK c \in Cards :
        /\ c = Card(p) /\ AtWork(p, c) /\ job[p].at = "plan" /\ job[p] # NoJob
        /\ Outer(job[p], c) /\ Inner(job[p], c) /\ CardOK(c)
        /\ \A q \in Processes \ {p} : Card(q) # c
        /\ proc[p].pc = "idle"
  BY <1>1, AtStepFacts DEF SavePlan
<1>3. progress[c] = 4 /\ handoff[c] \in 4..6
  BY <1>2 DEF Outer, Inner, OutsideHandoff
<1>4. RecordsTyped /\ handoff \in [Cards -> 0..7]
  BY DEF AInv, RecordsTyped
<1>5. PICK n \in 5..6 : n = IF handoff[c] = 6 THEN 6 ELSE 5
  BY <1>3
<1>6. handoff' = [handoff EXCEPT ![c] = n] /\ handoff'[c] = n
  <2>1. HandoffIs(c, "ADMISSION_READY") <=> handoff[c] >= 5
    BY <1>3, HandoffPhases DEF HandoffIs
  <2>2. /\ handoff[c] < 5 => handoff' = [handoff EXCEPT ![c] = 5]
        /\ handoff[c] >= 5 => handoff' = handoff
    BY <1>2, <1>3, <2>1 DEF SavePlan, Save
  <2> QED
    BY <1>3, <1>4, <1>5, <2>2
<1>7. PICK m \in Job : m.card = c /\ m.at = "submit" /\ job' = [job EXCEPT ![p] = m]
  BY <1>1, <1>2, <1>4, Goes DEF SavePlan
<1>8. HandoffStep(p, c, m, n)
  BY <1>2, <1>6, <1>7 DEF HandoffStep, SavePlan
<1>9. Outer(m, c)' /\ Inner(m, c)' /\ Lawful(m)
  <2>1. progress'[c] = 4
    BY <1>3 DEF SavePlan
  <2> QED
    BY <1>5, <1>6, <1>7, <2>1 DEF Outer, Inner, OutsideHandoff, Lawful
<1>10. /\ n >= 3 => registered[c] # None
       /\ n >= 4 => InQueue(c) /\ claimed[c] = queued[c]
       /\ n >= 6 => Submitted(c)
  BY <1>2, <1>3, <1>5 DEF CardOK, BoundOK, QueueOK, DispatchOK
<1> QED
  BY <1>2, <1>3, <1>5, <1>7, <1>8, <1>9, <1>10, HandoffMoves

\* The card is submitted.
LEMMA SaveSubmittedKeeps ==
  ASSUME AInv, NEW p \in Processes, SaveSubmitted(p)
  PROVE  AInv'
<1>1. "submitted" \in JobStep \ {"none"} /\ "final" \in JobStep
  BY DEF JobStep
<1>2. PICK c \in Cards :
        /\ c = Card(p) /\ AtWork(p, c) /\ job[p].at = "submitted" /\ job[p] # NoJob
        /\ Outer(job[p], c) /\ Inner(job[p], c) /\ CardOK(c)
        /\ \A q \in Processes \ {p} : Card(q) # c
        /\ proc[p].pc = "idle"
  BY <1>1, AtStepFacts DEF SaveSubmitted
<1>3. progress[c] = 4 /\ handoff[c] \in 5..6 /\ Submitted(c)
  BY <1>2 DEF Outer, Inner, OutsideHandoff
<1>4. RecordsTyped /\ handoff \in [Cards -> 0..7]
  BY DEF AInv, RecordsTyped
<1>5. PICK n \in 6..6 : n = 6
  BY <1>3
<1>6. handoff' = [handoff EXCEPT ![c] = n] /\ handoff'[c] = n
  <2>1. HandoffIs(c, "ADMISSION_SUBMITTED") <=> handoff[c] >= 6
    BY <1>3, HandoffPhases DEF HandoffIs
  <2>2. /\ handoff[c] < 6 => handoff' = [handoff EXCEPT ![c] = 6]
        /\ handoff[c] >= 6 => handoff' = handoff
    BY <1>2, <1>3, <2>1 DEF SaveSubmitted, Save
  <2> QED
    BY <1>3, <1>4, <1>5, <2>2
<1>7. PICK m \in Job : m.card = c /\ m.at = "final" /\ job' = [job EXCEPT ![p] = m]
  BY <1>1, <1>2, <1>4, Goes DEF SaveSubmitted
<1>8. HandoffStep(p, c, m, n)
  BY <1>2, <1>6, <1>7 DEF HandoffStep, SaveSubmitted
<1>9. Outer(m, c)' /\ Inner(m, c)' /\ Lawful(m)
  <2>1. progress'[c] = 4
    BY <1>3 DEF SaveSubmitted
  <2> QED
    BY <1>5, <1>6, <1>7, <2>1 DEF Outer, Inner, OutsideHandoff, Lawful
<1>10. /\ n >= 3 => registered[c] # None
       /\ n >= 4 => InQueue(c) /\ claimed[c] = queued[c]
       /\ n >= 6 => Submitted(c)
  BY <1>2, <1>3, <1>5 DEF CardOK, BoundOK, QueueOK, DispatchOK
<1> QED
  BY <1>2, <1>3, <1>5, <1>7, <1>8, <1>9, <1>10, HandoffMoves


-----------------------------------------------------------------------------
(* The steps around the receipts. *)

\* What a thread has to itself: the inputs, the index and the next sequence.
OwnStep(p, c, m) ==
  /\ job' = [job EXCEPT ![p] = m]
  /\ m = NoJob \/ m.card = c
  /\ \A q \in Processes \ {p} : Card(q) # c
  /\ inputs' \subseteq Cards /\ index' \subseteq Cards /\ sequence' \in sequence..MaxSeq
  /\ UNCHANGED vars
  /\ UNCHANGED <<needs, progress, prepared, handoff, claimed, queued, tracked,
                 registered, grant, after>>

\* Such a step keeps the invariant.
LEMMA OwnMoves ==
  ASSUME AInv, NEW p \in Processes, proc[p].pc = "idle", NEW c \in Cards, NEW m \in Job,
         OwnStep(p, c, m), Lawful(m), m # NoJob => Outer(m, c)' /\ Inner(m, c)'
  PROVE  AInv'
<1>1. /\ needs' = needs /\ prepared' = prepared /\ progress' = progress
      /\ claimed' = claimed /\ queued' = queued /\ handoff' = handoff
      /\ tracked' = tracked /\ registered' = registered /\ grant' = grant
      /\ integrated' = integrated /\ working' = working /\ worker' = worker
      /\ UNCHANGED vars
  BY DEF OwnStep, after
<1>2. /\ head' = head /\ commit' = commit /\ task' = task /\ dispatch' = dispatch
      /\ entry' = entry /\ plan' = plan /\ receipt' = receipt /\ proc' = proc
  BY <1>1 DEF vars, git, ledger, files
<1>3. RecordsTyped /\ head \in Int /\ sequence \in 0..MaxSeq
  BY DEF AInv, IInv, GitOK, RecordsTyped
<1>4. /\ sequence' \in 0..MaxSeq /\ sequence' >= sequence
      /\ job' \in [Processes -> Job]
  BY <1>3, AdmissionBoundsAreNat DEF RecordsTyped, OwnStep
<1>5. RecordsTyped'
  BY <1>1, <1>3, <1>4 DEF RecordsTyped, OwnStep
<1>6. Grows
  BY <1>1, <1>2, <1>3, <1>4 DEF Grows
<1>7. \A a \in Cards : Same(a) /\ SameWork(a)
  BY <1>1, <1>2 DEF Same, SameWork
<1>8. OneMoves(p, c, m)
  BY <1>2, <1>6, <1>7 DEF OneMoves, OwnStep
<1> QED
  BY <1>1, <1>5, <1>7, <1>8, JobMoves

\* The inputs of the handoff are stored.
LEMMA BindInputsKeeps ==
  ASSUME AInv, NEW p \in Processes, BindInputs(p)
  PROVE  AInv'
<1>1. "inputs" \in JobStep \ {"none"} /\ "prepared" \in JobStep
  BY DEF JobStep
<1>2. PICK c \in Cards :
        /\ c = Card(p) /\ AtWork(p, c) /\ job[p].at = "inputs" /\ job[p] # NoJob
        /\ Outer(job[p], c) /\ Inner(job[p], c) /\ CardOK(c)
        /\ \A q \in Processes \ {p} : Card(q) # c
        /\ proc[p].pc = "idle"
  BY <1>1, AtStepFacts DEF BindInputs
<1>3. progress[c] \in {2, 3, 5} /\ prepared[c] # None /\ RecordsTyped
  BY <1>2 DEF Outer, AInv
<1>4. PICK m \in Job : m.card = c /\ m.at = "prepared" /\ job' = [job EXCEPT ![p] = m]
  BY <1>1, <1>2, <1>3, Goes DEF BindInputs
<1>5. OwnStep(p, c, m)
  <2>1. sequence' = sequence /\ index' = index /\ inputs' = inputs \cup {c}
    BY <1>2 DEF BindInputs, effects
  <2>2. sequence' \in sequence..MaxSeq
    BY <1>3, <2>1, AdmissionBoundsAreNat DEF RecordsTyped
  <2> QED
    BY <1>2, <1>3, <1>4, <2>1, <2>2 DEF BindInputs, OwnStep, effects, after, RecordsTyped
<1>6. Outer(m, c)' /\ Inner(m, c)' /\ Lawful(m)
  <2>1. progress' = progress /\ prepared' = prepared
    BY DEF BindInputs
  <2> QED
    BY <1>3, <1>4, <2>1 DEF Outer, Inner, OutsideHandoff, Lawful
<1> QED
  BY <1>2, <1>4, <1>5, <1>6, OwnMoves

\* HEAD is looked at: it has the evidence, or this is staged.
LEMMA BindKeeps ==
  ASSUME AInv, NEW p \in Processes, Bind(p)
  PROVE  AInv'
<1>1. "bind" \in JobStep \ {"none"} /\ {"bound", "add"} \subseteq JobStep
  BY DEF JobStep
<1>2. PICK c \in Cards :
        /\ c = Card(p) /\ AtWork(p, c) /\ job[p].at = "bind" /\ job[p] # NoJob
        /\ Outer(job[p], c) /\ Inner(job[p], c) /\ CardOK(c)
        /\ \A q \in Processes \ {p} : Card(q) # c
        /\ proc[p].pc = "idle"
  BY <1>1, AtStepFacts DEF Bind
<1>3. progress[c] = 4 /\ handoff[c] = 1 /\ RecordsTyped
  BY <1>2 DEF Outer, Inner, OutsideHandoff, AInv
<1>4. head \in 0..MaxHead /\ prepared[c] \in 0..head
  BY <1>2, <1>3 DEF CardOK, LadderOK, AInv, IInv, GitOK
<1>5. PICK m \in Job :
        /\ m.card = c /\ m.at \in {"bound", "add"} /\ job' = [job EXCEPT ![p] = m]
        /\ m.at = "bound" => m.value = head /\ c \in tracked
  <2>1. CASE Card(p) \in tracked /\ GoOnWith(p, "bound", head)
    <3>1. \E k \in Job : /\ k.card = c /\ k.at = "bound" /\ k.value = head
                         /\ job' = [job EXCEPT ![p] = k]
      BY <1>1, <1>2, <1>3, <1>4, <2>1, Goes
    <3> QED
      BY <1>2, <2>1, <3>1
  <2>2. CASE GoOn(p, "add")
    <3>1. \E k \in Job : k.card = c /\ k.at = "add" /\ job' = [job EXCEPT ![p] = k]
      BY <1>1, <1>2, <1>3, <2>2, Goes
    <3> QED
      BY <3>1
  <2> QED
    BY <2>1, <2>2 DEF Bind
<1>6. OwnStep(p, c, m)
  <2>1. sequence' = sequence /\ index' = index /\ inputs' = inputs
    BY DEF Bind, effects, records
  <2>2. sequence' \in sequence..MaxSeq
    BY <1>3, <2>1, AdmissionBoundsAreNat DEF RecordsTyped
  <2> QED
    BY <1>2, <1>3, <1>5, <2>1, <2>2 DEF Bind, OwnStep, effects, records, after, RecordsTyped
<1>7. Outer(m, c)' /\ Inner(m, c)' /\ Lawful(m)
  <2>1. /\ progress' = progress /\ handoff' = handoff /\ head' = head
        /\ prepared' = prepared /\ tracked' = tracked
    BY DEF Bind, records, effects, vars, git
  <2>2. m.at = "bound" => m.value \in 1..head /\ prepared[c] <= m.value /\ c \in tracked
    BY <1>4, <1>5 DEF AInv
  <2> QED
    BY <1>3, <1>5, <2>1, <2>2 DEF Outer, Inner, OutsideHandoff, Lawful
<1> QED
  BY <1>2, <1>5, <1>6, <1>7, OwnMoves

\* The evidence is staged, next to what else may have come there.
LEMMA AddKeeps ==
  ASSUME AInv, NEW p \in Processes, Add(p)
  PROVE  AInv'
<1>1. "add" \in JobStep \ {"none"} /\ "commit" \in JobStep
  BY DEF JobStep
<1>2. PICK c \in Cards :
        /\ c = Card(p) /\ AtWork(p, c) /\ job[p].at = "add" /\ job[p] # NoJob
        /\ Outer(job[p], c) /\ Inner(job[p], c) /\ CardOK(c)
        /\ \A q \in Processes \ {p} : Card(q) # c
        /\ proc[p].pc = "idle"
  BY <1>1, AtStepFacts DEF Add
<1>3. progress[c] = 4 /\ handoff[c] = 1 /\ RecordsTyped
  BY <1>2 DEF Outer, Inner, OutsideHandoff, AInv
<1>4. PICK m \in Job :
        /\ m = NoJob \/ (m.card = c /\ m.at = "commit")
        /\ job' = [job EXCEPT ![p] = m]
  <2>1. CASE GoOn(p, "commit")
    <3>1. \E k \in Job : k.card = c /\ k.at = "commit" /\ job' = [job EXCEPT ![p] = k]
      BY <1>1, <1>2, <1>3, <2>1, Goes
    <3> QED
      BY <3>1
  <2>2. CASE EndJob(p)
    BY <2>2, NoJobIsOne DEF EndJob
  <2> QED
    BY <2>1, <2>2 DEF Add
<1>5. OwnStep(p, c, m)
  <2>1. sequence' = sequence /\ index' = index \cup {c} /\ inputs' = inputs
    BY <1>2 DEF Add, records
  <2>2. sequence' \in sequence..MaxSeq
    BY <1>3, <2>1, AdmissionBoundsAreNat DEF RecordsTyped
  <2> QED
    BY <1>2, <1>3, <1>4, <2>1, <2>2 DEF Add, OwnStep, records, after, RecordsTyped
<1>6. Lawful(m) /\ (m # NoJob => Outer(m, c)' /\ Inner(m, c)')
  <2>1. progress' = progress /\ handoff' = handoff
    BY DEF Add, records
  <2> QED
    BY <1>3, <1>4, <2>1 DEF Outer, Inner, OutsideHandoff, Lawful
<1> QED
  BY <1>2, <1>4, <1>5, <1>6, OwnMoves

\* A sequence is given out.
LEMMA ReserveSequenceKeeps ==
  ASSUME AInv, NEW p \in Processes, ReserveSequence(p)
  PROVE  AInv'
<1>1. "reserve" \in JobStep \ {"none"} /\ "enqueue" \in JobStep
  BY DEF JobStep
<1>2. PICK c \in Cards :
        /\ c = Card(p) /\ AtWork(p, c) /\ job[p].at = "reserve" /\ job[p] # NoJob
        /\ Outer(job[p], c) /\ Inner(job[p], c) /\ CardOK(c)
        /\ \A q \in Processes \ {p} : Card(q) # c
        /\ proc[p].pc = "idle"
  BY <1>1, AtStepFacts DEF ReserveSequence
<1>3. progress[c] = 4 /\ handoff[c] = 3 /\ RecordsTyped
  BY <1>2 DEF Outer, Inner, OutsideHandoff, AInv
<1>4. /\ sequence \in Nat /\ MaxSeq \in Nat /\ sequence + 1 \in 0..MaxSeq
      /\ sequence' = sequence + 1 /\ queued[c] \in 0..sequence
  BY <1>2, <1>3, AdmissionBoundsAreNat DEF ReserveSequence, RecordsTyped, CardOK, QueueOK
<1>5. PICK m \in Job : /\ m.card = c /\ m.at = "enqueue" /\ m.value = sequence + 1
                      /\ job' = [job EXCEPT ![p] = m]
  BY <1>1, <1>2, <1>3, <1>4, Goes DEF ReserveSequence
<1>6. OwnStep(p, c, m)
  <2>1. index' = index /\ inputs' = inputs
    BY DEF ReserveSequence, records
  <2>2. sequence' \in sequence..MaxSeq
    BY <1>4
  <2> QED
    BY <1>2, <1>3, <1>5, <2>1, <2>2
      DEF ReserveSequence, OwnStep, records, after, RecordsTyped
<1>7. Outer(m, c)' /\ Inner(m, c)' /\ Lawful(m)
  <2>1. progress' = progress /\ handoff' = handoff /\ queued' = queued
    BY DEF ReserveSequence, records
  <2>2. m.value \in 1..sequence' /\ queued[c] < m.value
    BY <1>4, <1>5
  <2> QED
    BY <1>3, <1>5, <2>1, <2>2 DEF Outer, Inner, OutsideHandoff, Lawful
<1> QED
  BY <1>2, <1>5, <1>6, <1>7, OwnMoves

\* HEAD is bound to the preparation.
LEMMA PrepareKeeps ==
  ASSUME AInv, NEW p \in Processes, Prepare(p)
  PROVE  AInv'
<1>1. "prepare" \in JobStep \ {"none"} /\ "inputs" \in JobStep
  BY DEF JobStep
<1>2. PICK c \in Cards :
        /\ c = Card(p) /\ AtWork(p, c) /\ job[p].at = "prepare" /\ job[p] # NoJob
        /\ Outer(job[p], c) /\ Inner(job[p], c) /\ CardOK(c)
        /\ \A q \in Processes \ {p} : Card(q) # c
        /\ proc[p].pc = "idle"
  BY <1>1, AtStepFacts DEF Prepare
<1>3. /\ progress[c] \in {2, 3, 5} /\ RecordsTyped /\ prepared[c] \in {None, head}
      /\ handoff[c] \in 0..7 /\ head \in 0..MaxHead /\ head # None
  BY <1>2, NoneIsNothing DEF Outer, AInv, IInv, GitOK, Prepare, RecordsTyped
<1>4. PICK m \in Job : m.card = c /\ m.at = "inputs" /\ job' = [job EXCEPT ![p] = m]
  BY <1>1, <1>2, <1>3, Goes DEF Prepare
<1>5. /\ prepared' = [prepared EXCEPT ![c] = head] /\ prepared'[c] = head
      /\ \A a \in Cards \ {c} : prepared'[a] = prepared[a]
      /\ prepared' \in [Cards -> 0..MaxHead \cup {None}]
      /\ job' \in [Processes -> Job]
  BY <1>2, <1>3, <1>4 DEF Prepare, RecordsTyped
<1>6. /\ needs' = needs /\ inputs' = inputs /\ progress' = progress /\ handoff' = handoff
      /\ claimed' = claimed /\ sequence' = sequence /\ queued' = queued /\ index' = index
      /\ tracked' = tracked /\ registered' = registered /\ grant' = grant
      /\ integrated' = integrated /\ working' = working /\ worker' = worker
      /\ UNCHANGED vars
  BY DEF Prepare, effects, after
<1>7. /\ head' = head /\ commit' = commit /\ task' = task /\ dispatch' = dispatch
      /\ entry' = entry /\ plan' = plan /\ receipt' = receipt /\ proc' = proc
  BY <1>6 DEF vars, git, ledger, files
<1>8. RecordsTyped'
  BY <1>3, <1>5, <1>6 DEF RecordsTyped
<1>9. OneMoves(p, c, m)
  <2>1. Grows
    BY <1>3, <1>6, <1>7 DEF Grows, RecordsTyped
  <2>2. \A a \in Cards \ {c} : Same(a) /\ SameWork(a)
    BY <1>5, <1>6, <1>7 DEF Same, SameWork
  <2> QED
    BY <1>2, <1>4, <1>7, <2>1, <2>2 DEF OneMoves
<1>10. CardOK(c)'
  <2>1. handoff[c] >= 2 => prepared[c] = head
    BY <1>2, <1>3 DEF CardOK, LadderOK
  <2>2. LadderOK(c)'
    BY <1>2, <1>3, <1>5, <1>6, <1>7 DEF CardOK, LadderOK, DependenciesReady
  <2>3. BoundOK(c)'
    BY <1>2, <1>5, <1>6, <1>7, <2>1 DEF CardOK, BoundOK
  <2>4. QueueOK(c)' /\ DispatchOK(c)'
    BY <1>2, <1>6, <1>7 DEF CardOK, QueueOK, InQueue, DispatchOK, Submitted
  <2> QED
    BY <2>2, <2>3, <2>4 DEF CardOK
<1>11. m.at \notin {"none", "ready", "tick"} /\ Outer(m, c)' /\ Inner(m, c)'
  BY <1>3, <1>4, <1>5, <1>6 DEF Outer, Inner, OutsideHandoff
<1> QED
  BY <1>2, <1>4, <1>6, <1>8, <1>9, <1>10, <1>11, QuietMoves

\* A thread is started for its worker.
LEMMA StartPostAdmissionKeeps ==
  ASSUME AInv, NEW p \in Processes, StartPostAdmission(p)
  PROVE  AInv'
<1>1. "post" \in JobStep \ {"none"} /\ "finish" \in JobStep
  BY DEF JobStep
<1>2. PICK c \in Cards :
        /\ c = Card(p) /\ AtWork(p, c) /\ job[p].at = "post" /\ job[p] # NoJob
        /\ Outer(job[p], c) /\ Inner(job[p], c) /\ CardOK(c)
        /\ \A q \in Processes \ {p} : Card(q) # c
        /\ proc[p].pc = "idle"
  BY <1>1, AtStepFacts DEF StartPostAdmission
<1>3. progress[c] = 5 /\ handoff[c] = 7 /\ RecordsTyped /\ Submitted(c)
  BY <1>2 DEF Outer, AInv, CardOK, LadderOK, DispatchOK
<1>4. PICK m \in Job : m.card = c /\ m.at = "finish" /\ job' = [job EXCEPT ![p] = m]
  BY <1>1, <1>2, <1>3, Goes DEF StartPostAdmission
<1>5. working' = working \cup {c} /\ job' \in [Processes -> Job]
  BY <1>2, <1>3, <1>4 DEF StartPostAdmission, RecordsTyped
<1>6. /\ needs' = needs /\ inputs' = inputs /\ progress' = progress /\ handoff' = handoff
      /\ claimed' = claimed /\ sequence' = sequence /\ queued' = queued /\ index' = index
      /\ tracked' = tracked /\ registered' = registered /\ grant' = grant
      /\ integrated' = integrated /\ prepared' = prepared /\ worker' = worker
      /\ UNCHANGED vars
  BY DEF StartPostAdmission, records, effects
<1>7. /\ head' = head /\ commit' = commit /\ task' = task /\ dispatch' = dispatch
      /\ entry' = entry /\ plan' = plan /\ receipt' = receipt /\ proc' = proc
  BY <1>6 DEF vars, git, ledger, files
<1>8. RecordsTyped'
  BY <1>3, <1>5, <1>6 DEF RecordsTyped
<1>9. OneMoves(p, c, m)
  <2>1. Grows
    BY <1>3, <1>6, <1>7 DEF Grows, RecordsTyped, AInv, IInv, GitOK
  <2>2. \A a \in Cards \ {c} : Same(a) /\ SameWork(a)
    BY <1>5, <1>6, <1>7 DEF Same, SameWork
  <2> QED
    BY <1>2, <1>4, <1>7, <2>1, <2>2 DEF OneMoves
<1>10. CardOK(c)'
  <2>1. task[c] = "dispatched"
    <3>1. 1 \in Gens
      BY BoundsAreNat DEF Gens
    <3>2. 1 # None
      BY <3>1, NoneIsNothing
    <3> QED
      BY <1>3, <3>2 DEF Submitted, AInv, IInv, LedgerOK
  <2>2. LadderOK(c)' /\ BoundOK(c)' /\ QueueOK(c)'
    BY <1>2, <1>6, <1>7 DEF CardOK, LadderOK, DependenciesReady, BoundOK, QueueOK, InQueue
  <2>3. DispatchOK(c)'
    BY <1>2, <1>6, <1>7, <2>1 DEF CardOK, DispatchOK, Submitted
  <2> QED
    BY <2>2, <2>3 DEF CardOK
<1>11. m.at \notin {"none", "ready", "tick"} /\ Outer(m, c)' /\ Inner(m, c)'
  BY <1>3, <1>4, <1>6 DEF Outer, Inner, OutsideHandoff
<1> QED
  BY <1>2, <1>4, <1>6, <1>8, <1>9, <1>10, <1>11, QuietMoves

\* The dispatch is approved for the commit of the card.
LEMMA AuthorizeKeeps ==
  ASSUME AInv, NEW p \in Processes, Authorize(p)
  PROVE  AInv'
<1>1. "authorize" \in JobStep \ {"none"} /\ {"register", "reserve", "plan", "admit"} \subseteq JobStep
  BY DEF JobStep
<1>2. PICK c \in Cards :
        /\ c = Card(p) /\ AtWork(p, c) /\ job[p].at = "authorize" /\ job[p] # NoJob
        /\ Outer(job[p], c) /\ Inner(job[p], c) /\ CardOK(c)
        /\ \A q \in Processes \ {p} : Card(q) # c
        /\ proc[p].pc = "idle"
  BY <1>1, AtStepFacts DEF Authorize
<1>3. /\ progress[c] = 4 /\ handoff[c] \in 2..6 /\ RecordsTyped /\ commit[c] \in 1..head
      /\ head \in 0..MaxHead /\ MaxHead \in Nat
  BY <1>2, BoundsAreNat DEF Outer, Inner, OutsideHandoff, CardOK, BoundOK, AInv, IInv, GitOK
<1>4. commit[c] \in 0..MaxHead /\ commit[c] # None
  BY <1>3, NoneIsNothing
<1>5. PICK next \in JobStep : next = Unauthorized(c)
  BY <1>1 DEF Unauthorized
<1>6. PICK m \in Job : m.card = c /\ m.at = next /\ job' = [job EXCEPT ![p] = m]
  BY <1>2, <1>3, <1>5, Goes DEF Authorize
<1>7. /\ next \in {"register", "reserve", "plan"}
      /\ next = "register" => handoff[c] = 2
      /\ next = "reserve" => handoff[c] = 3
      /\ next = "plan" => handoff[c] \in 4..6
  <2>1. /\ HandoffIs(c, "CANONICAL_TASK_REGISTERED") <=> handoff[c] >= 3
        /\ HandoffIs(c, "QUEUE_RESERVED") <=> handoff[c] >= 4
        /\ HandoffIs(c, "FINALIZED") <=> handoff[c] = 7
    BY <1>3, HandoffPhases DEF HandoffIs
  <2> QED
    BY <1>3, <1>5, <2>1 DEF Unauthorized
<1>8. /\ grant' = [grant EXCEPT ![c] = commit[c]] /\ grant'[c] = commit[c]
      /\ \A a \in Cards \ {c} : grant'[a] = grant[a]
      /\ grant' \in [Cards -> 0..MaxHead \cup {None}]
      /\ job' \in [Processes -> Job]
  BY <1>2, <1>3, <1>4, <1>6 DEF Authorize, RecordsTyped
<1>9. /\ needs' = needs /\ inputs' = inputs /\ progress' = progress /\ handoff' = handoff
      /\ claimed' = claimed /\ sequence' = sequence /\ queued' = queued /\ index' = index
      /\ tracked' = tracked /\ registered' = registered /\ prepared' = prepared
      /\ integrated' = integrated /\ working' = working /\ worker' = worker
      /\ UNCHANGED vars
  BY DEF Authorize, records, after
<1>10. /\ head' = head /\ commit' = commit /\ task' = task /\ dispatch' = dispatch
       /\ entry' = entry /\ plan' = plan /\ receipt' = receipt /\ proc' = proc
  BY <1>9 DEF vars, git, ledger, files
<1>11. RecordsTyped'
  BY <1>3, <1>8, <1>9 DEF RecordsTyped
<1>12. OneMoves(p, c, m)
  <2>1. Grows
    BY <1>3, <1>9, <1>10 DEF Grows, RecordsTyped
  <2>2. \A a \in Cards \ {c} : Same(a) /\ SameWork(a)
    BY <1>8, <1>9, <1>10 DEF Same, SameWork
  <2> QED
    BY <1>2, <1>6, <1>10, <2>1, <2>2 DEF OneMoves
<1>13. CardOK(c)'
  <2>1. LadderOK(c)' /\ QueueOK(c)' /\ DispatchOK(c)'
    BY <1>2, <1>9, <1>10
      DEF CardOK, LadderOK, DependenciesReady, QueueOK, InQueue, DispatchOK, Submitted
  <2>2. BoundOK(c)'
    BY <1>2, <1>3, <1>4, <1>8, <1>9, <1>10 DEF CardOK, BoundOK
  <2> QED
    BY <2>1, <2>2 DEF CardOK
<1>14. m.at \notin {"none", "ready", "tick"} /\ Outer(m, c)' /\ Inner(m, c)'
  <2>1. progress'[c] = 4 /\ handoff'[c] = handoff[c] /\ grant'[c] # None
    BY <1>3, <1>4, <1>8, <1>9
  <2> QED
    BY <1>6, <1>7, <2>1 DEF Outer, Inner, OutsideHandoff
<1> QED
  BY <1>2, <1>4, <1>6, <1>8, <1>9, <1>11, <1>12, <1>13, <1>14, QuietMoves

\* The receipt names the sequence of the queue entry.
LEMMA SaveQueuedKeeps ==
  ASSUME AInv, NEW p \in Processes, SaveQueued(p)
  PROVE  AInv'
<1>1. "queued" \in JobStep \ {"none"} /\ "plan" \in JobStep
  BY DEF JobStep
<1>2. PICK c \in Cards :
        /\ c = Card(p) /\ AtWork(p, c) /\ job[p].at = "queued" /\ job[p] # NoJob
        /\ Outer(job[p], c) /\ Inner(job[p], c) /\ CardOK(c)
        /\ \A q \in Processes \ {p} : Card(q) # c
        /\ proc[p].pc = "idle"
  BY <1>1, AtStepFacts DEF SaveQueued
<1>3. /\ progress[c] = 4 /\ handoff[c] = 3 /\ RecordsTyped
      /\ job[p].value = queued[c] /\ InQueue(c)
  BY <1>2 DEF Outer, Inner, OutsideHandoff, AInv
<1>4. PICK m \in Job : m.card = c /\ m.at = "plan" /\ job' = [job EXCEPT ![p] = m]
  BY <1>1, <1>2, <1>3, Goes DEF SaveQueued
<1>5. /\ handoff' = [handoff EXCEPT ![c] = 4] /\ handoff'[c] = 4
      /\ \A a \in Cards \ {c} : handoff'[a] = handoff[a]
      /\ handoff' \in [Cards -> 0..7]
  BY <1>2, <1>3 DEF SaveQueued, Save, RecordsTyped
<1>6. /\ claimed' = [claimed EXCEPT ![c] = queued[c]] /\ claimed'[c] = queued[c]
      /\ \A a \in Cards \ {c} : claimed'[a] = claimed[a]
      /\ claimed' \in [Cards -> 0..MaxSeq]
      /\ job' \in [Processes -> Job]
  BY <1>2, <1>3, <1>4 DEF SaveQueued, RecordsTyped
<1>7. /\ needs' = needs /\ inputs' = inputs /\ progress' = progress /\ grant' = grant
      /\ sequence' = sequence /\ queued' = queued /\ index' = index
      /\ tracked' = tracked /\ registered' = registered /\ prepared' = prepared
      /\ integrated' = integrated /\ working' = working /\ worker' = worker
      /\ UNCHANGED vars
  BY DEF SaveQueued, effects, after
<1>8. /\ head' = head /\ commit' = commit /\ task' = task /\ dispatch' = dispatch
      /\ entry' = entry /\ plan' = plan /\ receipt' = receipt /\ proc' = proc
  BY <1>7 DEF vars, git, ledger, files
<1>9. RecordsTyped'
  BY <1>3, <1>5, <1>6, <1>7 DEF RecordsTyped
<1>10. OneMoves(p, c, m)
  <2>1. Grows
    BY <1>3, <1>7, <1>8 DEF Grows, RecordsTyped, AInv, IInv, GitOK
  <2>2. \A a \in Cards \ {c} : Same(a) /\ SameWork(a)
    BY <1>5, <1>6, <1>7, <1>8 DEF Same, SameWork
  <2> QED
    BY <1>2, <1>4, <1>8, <2>1, <2>2 DEF OneMoves
<1>11. CardOK(c)'
  <2>1. LadderOK(c)' /\ DispatchOK(c)'
    BY <1>2, <1>3, <1>5, <1>7, <1>8 DEF CardOK, LadderOK, DependenciesReady, DispatchOK, Submitted
  <2>2. BoundOK(c)'
    BY <1>2, <1>3, <1>5, <1>7, <1>8 DEF CardOK, BoundOK
  <2>3. QueueOK(c)'
    BY <1>2, <1>3, <1>5, <1>6, <1>7, <1>8 DEF CardOK, QueueOK, InQueue
  <2> QED
    BY <2>1, <2>2, <2>3 DEF CardOK
<1>12. m.at \notin {"none", "ready", "tick"} /\ Outer(m, c)' /\ Inner(m, c)'
  <2>1. progress'[c] = 4
    BY <1>3, <1>7
  <2> QED
    BY <1>4, <1>5, <2>1 DEF Outer, Inner, OutsideHandoff
<1> QED
  BY <1>2, <1>4, <1>7, <1>9, <1>10, <1>11, <1>12, QuietMoves

-----------------------------------------------------------------------------
(* The steps that move HEAD, the ledger and the queue. *)

\* What is left to write stays plain.
LEMMA PlainStays ==
  ASSUME AInv, todo' = todo,
         \A a \in Cards : /\ entry[a].state # None => entry'[a].state # None
                          /\ grant[a] # None => commit'[a] = commit[a] /\ grant'[a] # None
  PROVE  Plain(todo)'
<1>1. todo \in Seq(File)
  BY DEF AInv, IInv, StoreOK
<1>2. ASSUME NEW i \in 1..Len(todo)
      PROVE  PlainFile(todo[i])'
  <2>1. PICK f \in File : f = todo[i]
    BY <1>1
  <2>2. PlainFile(f) /\ f.card \in Cards
    BY <2>1 DEF AInv, Plain, File
  <2>3. PICK a \in Cards : a = f.card
    BY <2>2
  <2>4. /\ entry[a].state # None => entry'[a].state # None
        /\ grant[a] # None => commit'[a] = commit[a] /\ grant'[a] # None
    OBVIOUS
  <2>5. PlainFile(f)'
    BY <2>2, <2>3, <2>4 DEF PlainFile, InQueue
  <2> QED
    BY <2>1, <2>5, todo' = todo
<1> QED
  BY <1>2 DEF Plain

\* The evidence is committed, with what else is staged.
LEMMA CommitKeeps ==
  ASSUME AInv, NEW p \in Processes, Commit(p)
  PROVE  AInv'
<1>1. "commit" \in JobStep \ {"none"} /\ "bind" \in JobStep
  BY DEF JobStep
<1>2. PICK c \in Cards :
        /\ c = Card(p) /\ AtWork(p, c) /\ job[p].at = "commit" /\ job[p] # NoJob
        /\ Outer(job[p], c) /\ Inner(job[p], c) /\ CardOK(c)
        /\ \A q \in Processes \ {p} : Card(q) # c
        /\ proc[p].pc = "idle"
  BY <1>1, AtStepFacts DEF Commit
<1>3. /\ progress[c] = 4 /\ handoff[c] = 1 /\ RecordsTyped /\ GitOK
      /\ head \in Nat /\ head' = head + 1
  BY <1>2, BoundsAreNat DEF Outer, Inner, OutsideHandoff, AInv, IInv, GitOK, Commit
<1>4. PICK m \in Job : m.card = c /\ m.at = "bind" /\ job' = [job EXCEPT ![p] = m]
  BY <1>1, <1>2, <1>3, Goes DEF Commit
<1>5. IInv'
  <2>1. MoveHead
    BY DEF Commit, MoveHead
  <2> QED
    BY <2>1, EnvironmentKeeps DEF Environment, AInv
<1>6. /\ needs' = needs /\ inputs' = inputs /\ progress' = progress /\ handoff' = handoff
      /\ claimed' = claimed /\ sequence' = sequence /\ queued' = queued /\ index' = {}
      /\ tracked' = tracked \cup index /\ registered' = registered /\ grant' = grant
      /\ integrated' = integrated /\ working' = working /\ worker' = worker
      /\ prepared' = prepared
  BY DEF Commit, records, after
<1>7. /\ commit' = commit /\ task' = task /\ dispatch' = dispatch /\ todo' = todo
      /\ entry' = entry /\ plan' = plan /\ receipt' = receipt /\ proc' = proc
  BY DEF Commit, ledger, files
<1>8. RecordsTyped'
  <2>1. job' \in [Processes -> Job]
    BY <1>3, <1>4 DEF RecordsTyped
  <2> QED
    BY <1>3, <1>6, <2>1 DEF RecordsTyped
<1>9. Grows
  BY <1>3, <1>6 DEF Grows, RecordsTyped
<1>10. \A a \in Cards : Same(a) /\ SameWork(a)
  BY <1>6, <1>7 DEF Same, SameWork
<1>11. OneMoves(p, c, m)
  BY <1>2, <1>4, <1>7, <1>9, <1>10 DEF OneMoves
<1>12. CardOK(c)'
  BY <1>2, <1>3, <1>5, <1>8, <1>9, <1>10, SameCard DEF IInv
<1>13. ThreadOK(p)'
  <2>1. job'[p] = m /\ proc'[p].pc = "idle"
    BY <1>2, <1>3, <1>4, <1>7 DEF RecordsTyped
  <2>2. Outer(m, c)' /\ Inner(m, c)'
    BY <1>3, <1>4, <1>6 DEF Outer, Inner, OutsideHandoff
  <2> QED
    BY <1>4, <2>1, <2>2 DEF ThreadOK
<1>14. Plain(todo)'
  BY <1>6, <1>7, PlainStays
<1> QED
  BY <1>3, <1>5, <1>8, <1>11, <1>12, <1>13, <1>14, Moves

\* The receipt is bound to a commit that has the evidence.
LEMMA SaveGitEvidenceKeeps ==
  ASSUME AInv, NEW p \in Processes, SaveGitEvidence(p)
  PROVE  AInv'
<1>1. "bound" \in JobStep \ {"none"} /\ "authorize" \in JobStep
  BY DEF JobStep
<1>2. PICK c \in Cards :
        /\ c = Card(p) /\ AtWork(p, c) /\ job[p].at = "bound" /\ job[p] # NoJob
        /\ Outer(job[p], c) /\ Inner(job[p], c) /\ CardOK(c)
        /\ \A q \in Processes \ {p} : Card(q) # c
        /\ proc[p].pc = "idle"
  BY <1>1, AtStepFacts DEF SaveGitEvidence
<1>3. /\ progress[c] = 4 /\ handoff[c] = 1 /\ RecordsTyped /\ GitOK /\ head \in 0..MaxHead
      /\ c \in tracked /\ job[p].value \in 1..head /\ prepared[c] <= job[p].value
  BY <1>2 DEF Outer, Inner, OutsideHandoff, AInv, IInv, GitOK
<1>4. PICK m \in Job : m.card = c /\ m.at = "authorize" /\ job' = [job EXCEPT ![p] = m]
  BY <1>1, <1>2, <1>3, Goes DEF SaveGitEvidence
<1>5. PICK h \in 0..MaxHead : h = job[p].value /\ h \in 1..head /\ prepared[c] <= h
  BY <1>3, BoundsAreNat
<1>6. /\ needs' = needs /\ inputs' = inputs /\ progress' = progress
      /\ claimed' = claimed /\ sequence' = sequence /\ queued' = queued /\ index' = index
      /\ tracked' = tracked /\ registered' = registered /\ grant' = grant
      /\ integrated' = integrated /\ working' = working /\ worker' = worker
      /\ prepared' = prepared
  BY DEF SaveGitEvidence, effects, after
<1>7. /\ head' = head /\ task' = task /\ dispatch' = dispatch /\ todo' = todo
      /\ entry' = entry /\ plan' = plan /\ receipt' = receipt /\ proc' = proc
  BY DEF SaveGitEvidence, ledger, files
<1>8. /\ handoff' = [handoff EXCEPT ![c] = 2] /\ handoff'[c] = 2
      /\ \A a \in Cards \ {c} : handoff'[a] = handoff[a]
      /\ handoff' \in [Cards -> 0..7]
  BY <1>2, <1>3 DEF SaveGitEvidence, Save, RecordsTyped
<1>9. /\ commit' = [commit EXCEPT ![c] = h] /\ commit'[c] = h
      /\ \A a \in Cards \ {c} : commit'[a] = commit[a]
      /\ commit' \in [Cards -> 0..MaxHead]
  BY <1>2, <1>3, <1>5 DEF SaveGitEvidence, GitOK
<1>10. IInv'
  <2>1. GitOK'
    BY <1>3, <1>7, <1>9 DEF GitOK, SaveGitEvidence
  <2>2. LedgerOK' /\ dispatch' = dispatch
    BY QuietLedger DEF SaveGitEvidence, AInv, IInv
  <2>3. StoreOK' /\ Forward
    BY <2>2, QuietStore DEF SaveGitEvidence, AInv, IInv
  <2>4. TicksOK'
    BY <1>7, <2>3, NoTick DEF AInv, IInv
  <2> QED
    BY <2>1, <2>2, <2>3, <2>4 DEF IInv
<1>11. RecordsTyped'
  <2>1. job' \in [Processes -> Job]
    BY <1>3, <1>4 DEF RecordsTyped
  <2> QED
    BY <1>3, <1>6, <1>8, <2>1 DEF RecordsTyped
<1>12. OneMoves(p, c, m)
  <2>1. Grows
    BY <1>3, <1>6, <1>7 DEF Grows, RecordsTyped
  <2>2. \A a \in Cards \ {c} : Same(a) /\ SameWork(a)
    BY <1>6, <1>7, <1>8, <1>9 DEF Same, SameWork
  <2> QED
    BY <1>2, <1>4, <1>7, <2>1, <2>2 DEF OneMoves
<1>13. grant[c] = None /\ registered[c] = None /\ plan[<<c, 1>>] = None
  BY <1>2, <1>3 DEF CardOK, BoundOK
<1>14. CardOK(c)'
  <2>1. LadderOK(c)'
    BY <1>2, <1>3, <1>6, <1>7, <1>8 DEF CardOK, LadderOK, DependenciesReady
  <2>2. BoundOK(c)'
    BY <1>2, <1>3, <1>5, <1>6, <1>7, <1>8, <1>9, <1>13 DEF CardOK, BoundOK
  <2>3. QueueOK(c)'
    BY <1>2, <1>3, <1>6, <1>7, <1>8 DEF CardOK, QueueOK, InQueue
  <2>4. DispatchOK(c)'
    BY <1>2, <1>3, <1>6, <1>7, <1>8 DEF CardOK, DispatchOK, Submitted
  <2> QED
    BY <2>1, <2>2, <2>3, <2>4 DEF CardOK
<1>15. ThreadOK(p)'
  <2>1. job'[p] = m /\ proc'[p].pc = "idle"
    BY <1>2, <1>3, <1>4, <1>7 DEF RecordsTyped
  <2>2. Outer(m, c)' /\ Inner(m, c)'
    BY <1>3, <1>4, <1>6, <1>8 DEF Outer, Inner, OutsideHandoff
  <2> QED
    BY <1>4, <2>1, <2>2 DEF ThreadOK
<1>16. Plain(todo)'
  BY <1>6, <1>7, <1>9, <1>13, PlainStays
<1> QED
  BY <1>6, <1>7, <1>10, <1>11, <1>12, <1>14, <1>15, <1>16, Moves DEF AInv

\* The task is registered.
LEMMA RegisterKeeps ==
  ASSUME AInv, NEW p \in Processes, Register(p)
  PROVE  AInv'
<1>1. "register" \in JobStep \ {"none"} /\ "registered" \in JobStep
  BY DEF JobStep
<1>2. PICK c \in Cards :
        /\ c = Card(p) /\ AtWork(p, c) /\ job[p].at = "register" /\ job[p] # NoJob
        /\ Outer(job[p], c) /\ Inner(job[p], c) /\ CardOK(c)
        /\ \A q \in Processes \ {p} : Card(q) # c
        /\ proc[p].pc = "idle"
  BY <1>1, AtStepFacts DEF Register
<1>3. /\ progress[c] = 4 /\ handoff[c] = 2 /\ grant[c] # None /\ RecordsTyped /\ LedgerOK
      /\ commit[c] \in 1..head /\ head \in 0..MaxHead /\ commit[c] \in 0..MaxHead
  BY <1>2 DEF Outer, Inner, OutsideHandoff, AInv, IInv, GitOK, CardOK, BoundOK
<1>4. PICK m \in Job : m.card = c /\ m.at = "registered" /\ job' = [job EXCEPT ![p] = m]
  BY <1>1, <1>2, <1>3, Goes DEF Register
<1>5. commit[c] # None /\ task[c] \in {"none", "ready"}
  BY <1>2, <1>3, NoneIsNothing DEF Register
<1>6. /\ needs' = needs /\ inputs' = inputs /\ progress' = progress /\ handoff' = handoff
      /\ claimed' = claimed /\ sequence' = sequence /\ queued' = queued /\ index' = index
      /\ tracked' = tracked /\ grant' = grant /\ prepared' = prepared
      /\ integrated' = integrated /\ working' = working /\ worker' = worker
  BY DEF Register, records, after
<1>7. /\ head' = head /\ commit' = commit /\ dispatch' = dispatch /\ todo' = todo
      /\ entry' = entry /\ plan' = plan /\ receipt' = receipt /\ proc' = proc
  BY DEF Register, git, files
<1>8. /\ task' = [task EXCEPT ![c] = "ready"] /\ task'[c] = "ready"
      /\ \A a \in Cards \ {c} : task'[a] = task[a]
      /\ task' \in [Cards -> {"none", "ready", "dispatched"}]
  BY <1>2, <1>3 DEF Register, LedgerOK
<1>9. /\ registered' = [registered EXCEPT ![c] = commit[c]] /\ registered'[c] = commit[c]
      /\ \A a \in Cards \ {c} : registered'[a] = registered[a]
      /\ registered' \in [Cards -> 0..MaxHead \cup {None}]
  BY <1>2, <1>3 DEF Register, RecordsTyped
<1>10. IInv'
  <2>1. GitOK'
    BY QuietGit DEF Register, AInv, IInv
  <2>2. LedgerOK'
    <3>1. events' = events /\ lease' = lease /\ dispatch' = dispatch
      BY DEF Register
    <3>2. \A a \in Cards : dispatch'[a] # None => task'[a] = "dispatched"
      BY <1>3, <1>5, <1>8, <3>1 DEF LedgerOK
    <3> QED
      BY <1>3, <1>8, <3>1, <3>2 DEF LedgerOK
  <2>3. StoreOK' /\ Forward
    BY <1>7, QuietStore DEF Register, AInv, IInv
  <2>4. TicksOK'
    BY <1>7, <2>3, NoTick DEF AInv, IInv
  <2> QED
    BY <2>1, <2>2, <2>3, <2>4 DEF IInv
<1>11. RecordsTyped'
  <2>1. job' \in [Processes -> Job]
    BY <1>3, <1>4 DEF RecordsTyped
  <2> QED
    BY <1>3, <1>6, <1>9, <2>1 DEF RecordsTyped
<1>12. OneMoves(p, c, m)
  <2>1. Grows
    BY <1>3, <1>6, <1>7 DEF Grows, RecordsTyped
  <2>2. \A a \in Cards \ {c} : Same(a) /\ SameWork(a)
    BY <1>6, <1>7, <1>8, <1>9 DEF Same, SameWork
  <2> QED
    BY <1>2, <1>4, <1>7, <2>1, <2>2 DEF OneMoves
<1>13. CardOK(c)'
  <2>1. LadderOK(c)' /\ QueueOK(c)'
    BY <1>2, <1>6, <1>7 DEF CardOK, LadderOK, DependenciesReady, QueueOK, InQueue
  <2>2. BoundOK(c)'
    BY <1>2, <1>3, <1>5, <1>6, <1>7, <1>8, <1>9 DEF CardOK, BoundOK
  <2>3. DispatchOK(c)'
    BY <1>2, <1>3, <1>5, <1>6, <1>7, <1>8 DEF CardOK, DispatchOK, Submitted, LedgerOK
  <2> QED
    BY <2>1, <2>2, <2>3 DEF CardOK
<1>14. ThreadOK(p)'
  <2>1. job'[p] = m /\ proc'[p].pc = "idle"
    BY <1>2, <1>3, <1>4, <1>7 DEF RecordsTyped
  <2>2. Outer(m, c)' /\ Inner(m, c)'
    BY <1>3, <1>4, <1>5, <1>6, <1>9 DEF Outer, Inner, OutsideHandoff
  <2> QED
    BY <1>4, <2>1, <2>2 DEF ThreadOK
<1>15. Plain(todo)'
  BY <1>6, <1>7, PlainStays
<1> QED
  BY <1>6, <1>7, <1>10, <1>11, <1>12, <1>13, <1>14, <1>15, Moves DEF AInv

\* The queue entry is made.
LEMMA EnqueueKeeps ==
  ASSUME AInv, NEW p \in Processes, Enqueue(p)
  PROVE  AInv'
<1>1. "enqueue" \in JobStep \ {"none"} /\ "queued" \in JobStep
  BY DEF JobStep
<1>2. PICK c \in Cards :
        /\ c = Card(p) /\ AtWork(p, c) /\ job[p].at = "enqueue" /\ job[p] # NoJob
        /\ Outer(job[p], c) /\ Inner(job[p], c) /\ CardOK(c)
        /\ \A q \in Processes \ {p} : Card(q) # c
        /\ proc[p].pc = "idle"
  BY <1>1, AtStepFacts DEF Enqueue
<1>3. /\ progress[c] = 4 /\ handoff[c] = 3 /\ RecordsTyped /\ LedgerOK
      /\ job[p].value \in 1..sequence /\ queued[c] < job[p].value
      /\ sequence \in 0..MaxSeq /\ registered[c] # None
  BY <1>2 DEF Outer, Inner, OutsideHandoff, AInv, IInv, RecordsTyped, CardOK, BoundOK
<1>4. PICK v \in 0..MaxSeq : v = job[p].value /\ v \in 1..sequence
  BY <1>3, AdmissionBoundsAreNat
<1>5. PICK m \in Job : /\ m.card = c /\ m.at = "queued" /\ m.value = v
                      /\ job' = [job EXCEPT ![p] = m]
  <2>1. GoOnWith(p, "queued", v)
    BY <1>4 DEF Enqueue
  <2> QED
    BY <1>1, <1>2, <1>3, <1>4, <2>1, Goes
<1>6. PICK f \in File : f = F("queue", c, 1, "QUEUED") /\ Put(f)
  <2>1. 1 \in Gens /\ "QUEUED" \in QueuePhase
    BY BoundsAreNat DEF Gens, QueuePhase
  <2>2. F("queue", c, 1, "QUEUED") \in File
    BY <2>1, FileTypes
  <2> QED
    BY <1>2, <2>2 DEF Enqueue
<1>7. f.file = "queue" /\ f.card = c /\ f.gen = 1 /\ f.to = "QUEUED"
  BY <1>6 DEF F
<1>8. FilesTyped /\ GenerationFenced /\ EvidenceFollowsLedger
  BY DEF AInv, IInv, StoreOK, FilesOK
<1>9. /\ FilesTyped'
      /\ entry'[c] = [state |-> "QUEUED", gen |-> 1]
      /\ \A a \in Cards \ {c} : entry'[a] = entry[a]
      /\ \A a \in Cards, g \in Gens :
           /\ receipt'[<<a, g>>] = receipt[<<a, g>>]
           /\ tombstone'[<<a, g>>] = tombstone[<<a, g>>]
           /\ plan'[<<a, g>>] = plan[<<a, g>>]
  BY <1>6, <1>7, <1>8, PutFile
<1>10. entry'[c].state = "QUEUED" /\ entry'[c].gen = 1 /\ entry[c].gen = 1
       /\ entry[c].state = None /\ queued[c] = 0 /\ "QUEUED" # None
  <2>1. queued[c] \in 0..sequence /\ queued[c] \in {0, job[p].value}
    BY <1>2 DEF CardOK, QueueOK, Enqueue
  <2>2. queued[c] = 0
    BY <1>3, <2>1
  <2>3. entry[c].state = None /\ entry[c].gen = 1
    BY <1>2, <2>2 DEF CardOK, QueueOK, InQueue
  <2> QED
    BY <1>9, <2>2, <2>3, NoneIsNothing DEF QueuePhase
<1>11. /\ needs' = needs /\ inputs' = inputs /\ progress' = progress /\ handoff' = handoff
       /\ claimed' = claimed /\ sequence' = sequence /\ registered' = registered
       /\ tracked' = tracked /\ grant' = grant /\ prepared' = prepared /\ index' = index
       /\ integrated' = integrated /\ working' = working /\ worker' = worker
  BY DEF Enqueue, records, after
<1>12. /\ head' = head /\ commit' = commit /\ task' = task /\ dispatch' = dispatch
       /\ lock' = lock /\ todo' = todo /\ proc' = proc /\ lock = None
  BY DEF Enqueue, git, ledger
<1>13. /\ queued' = [queued EXCEPT ![c] = v] /\ queued'[c] = v
       /\ \A a \in Cards \ {c} : queued'[a] = queued[a]
       /\ queued' \in [Cards -> 0..MaxSeq]
  BY <1>2, <1>3, <1>4 DEF Enqueue, RecordsTyped
<1>14. IInv'
  <2>1. GitOK' /\ LedgerOK'
    BY QuietGit, QuietLedger DEF Enqueue, AInv, IInv
  <2>2. GenerationFenced' /\ EvidenceFollowsLedger'
    <3>1. ASSUME NEW b \in Gens
          PROVE  /\ Fence(b, entry'[c].gen, receipt'[<<c, b>>], tombstone'[<<c, b>>])
                 /\ receipt'[<<c, b>>] = "DISPATCHED" => dispatch[c] # None
      <4>1. Fence(b, entry[c].gen, receipt[<<c, b>>], tombstone[<<c, b>>])
        BY <1>8 DEF GenerationFenced, Fence
      <4>2. receipt[<<c, b>>] = "DISPATCHED" => dispatch[c] # None
        BY <1>8 DEF EvidenceFollowsLedger
      <4> QED
        BY <1>9, <1>10, <4>1, <4>2
    <3> QED
      BY <1>8, <1>9, <1>10, <1>12, <3>1, OneCard
  <2>3. StoreOK' /\ Forward
    <3>1. todo = <<>> /\ todo \in Seq(File)
      BY <1>12 DEF AInv, IInv, StoreOK
    <3>2. \A s \in Cards \X Gens : receipt'[s] = receipt[s]
      BY <1>9
    <3> QED
      BY <1>9, <1>12, <2>2, <3>1, <3>2 DEF StoreOK, FilesOK, Forward
  <2>4. TicksOK'
    BY <1>12, <2>3, NoTick DEF AInv, IInv
  <2> QED
    BY <2>1, <2>3, <2>4 DEF IInv
<1>15. RecordsTyped'
  <2>1. job' \in [Processes -> Job]
    BY <1>3, <1>5 DEF RecordsTyped
  <2> QED
    BY <1>3, <1>11, <1>13, <2>1 DEF RecordsTyped
<1>16. \A a \in Cards : /\ plan'[<<a, 1>>] = plan[<<a, 1>>]
                        /\ receipt'[<<a, 1>>] = receipt[<<a, 1>>]
  <2>1. 1 \in Gens
    BY BoundsAreNat DEF Gens
  <2> QED
    BY <1>9, <2>1
<1>17. OneMoves(p, c, m)
  <2>1. Grows
    BY <1>3, <1>11, <1>12 DEF Grows, AInv, IInv, GitOK
  <2>2. \A a \in Cards \ {c} : Same(a) /\ SameWork(a)
    BY <1>9, <1>11, <1>12, <1>13, <1>16 DEF Same, SameWork
  <2> QED
    BY <1>2, <1>5, <1>12, <2>1, <2>2 DEF OneMoves
<1>18. CardOK(c)'
  <2>1. LadderOK(c)'
    BY <1>2, <1>11, <1>12 DEF CardOK, LadderOK, DependenciesReady
  <2>2. BoundOK(c)'
    BY <1>2, <1>11, <1>12, <1>16 DEF CardOK, BoundOK
  <2>3. QueueOK(c)'
    BY <1>3, <1>4, <1>10, <1>11, <1>13 DEF QueueOK, InQueue
  <2>4. DispatchOK(c)'
    BY <1>2, <1>3, <1>10, <1>11, <1>12 DEF CardOK, DispatchOK, Submitted
  <2> QED
    BY <2>1, <2>2, <2>3, <2>4 DEF CardOK
<1>19. ThreadOK(p)'
  <2>1. job'[p] = m /\ proc'[p].pc = "idle"
    BY <1>2, <1>3, <1>5, <1>12 DEF RecordsTyped
  <2>2. Outer(m, c)' /\ Inner(m, c)'
    BY <1>3, <1>5, <1>10, <1>11, <1>13 DEF Outer, Inner, OutsideHandoff, InQueue
  <2> QED
    BY <1>5, <2>1, <2>2 DEF ThreadOK
<1>20. Plain(todo)'
  <2>1. \A a \in Cards : entry[a].state # None => entry'[a].state # None
    BY <1>9, <1>10
  <2> QED
    BY <1>11, <1>12, <2>1, PlainStays
<1> QED
  BY <1>11, <1>12, <1>14, <1>15, <1>17, <1>18, <1>19, <1>20, Moves DEF AInv

-----------------------------------------------------------------------------
(* What happens next to the threads. *)

\* No thread and no tick moves.
LEMMA Stays ==
  ASSUME AInv, IInv', RecordsTyped', Plain(todo)', tracked' # {} => head' >= 1,
         job' = job, proc' = proc, Grows, \A a \in Cards : Same(a),
         \A a \in Cards : a \in working' \/ worker'[a] # "none" => task[a] = "dispatched"
  PROVE  AInv'
<1>1. GitOK /\ GitOK' /\ RecordsTyped
  BY DEF AInv, IInv
<1>2. ASSUME NEW a \in Cards
      PROVE  CardOK(a)'
  <2>1. CardOK(a) /\ Same(a)
    BY DEF AInv
  <2>2. head \in Int /\ head' \in Int /\ head' >= head /\ sequence \in Int
        /\ sequence' \in Int /\ sequence' >= sequence
    BY <1>1 DEF GitOK, RecordsTyped, Grows
  <2>3. DependenciesReady(a) => DependenciesReady(a)'
    BY DEF DependenciesReady, Grows
  <2>4. LadderOK(a)'
    BY <2>1, <2>2, <2>3 DEF CardOK, LadderOK, Same
  <2>5. BoundOK(a)'
    BY <2>1, <2>2 DEF CardOK, BoundOK, Same, Grows
  <2>6. QueueOK(a)'
    BY <2>1, <2>2 DEF CardOK, QueueOK, InQueue, Same
  <2>7. DispatchOK(a)'
    BY <2>1 DEF CardOK, DispatchOK, Submitted, Same
  <2> QED
    BY <2>4, <2>5, <2>6, <2>7 DEF CardOK
<1>3. ASSUME NEW q \in Processes
      PROVE  ThreadOK(q)'
  <2>1. ThreadOK(q) /\ (job[q] # NoJob => Same(job[q].card))
    BY DEF AInv, ThreadOK
  <2> QED
    BY <1>1, <2>1, SameThread
<1>4. Alone'
  BY DEF AInv, Alone, Card
<1> QED
  BY <1>2, <1>3, <1>4 DEF AInv

\* A worker goes on, or HEAD moves.
LEMMA WorkKeeps ==
  ASSUME AInv, NEW c \in Cards, Work(c)
  PROVE  AInv'
<1>1. RecordsTyped /\ CardOK(c) /\ head \in Nat /\ MaxHead \in Nat
  BY BoundsAreNat DEF AInv, IInv, GitOK
<1>2. c \in working \/ worker[c] # "none" => task[c] = "dispatched"
  BY <1>1 DEF CardOK, DispatchOK
<1>3. /\ IInv' /\ head' >= head /\ integrated \subseteq integrated'
      /\ integrated' \subseteq Cards
  <2>1. CASE WorkerReserves(c) \/ WorkerStops(c) \/ ResumeWorker(c)
    <3>1. UNCHANGED vars /\ head' = head /\ integrated' = integrated
      BY <2>1 DEF WorkerReserves, WorkerStops, ResumeWorker, vars, git
    <3> QED
      BY <1>1, <3>1, StutterKeeps DEF AInv, RecordsTyped
  <2>2. CASE WorkerFinishes(c)
    <3>1. LeaseEnds(<<c, 1>>) /\ head' = head /\ integrated' = integrated
      BY <2>2 DEF WorkerFinishes, LeaseEnds, git
    <3>2. Environment
      <4>1. <<c, 1>> \in Cards \X Gens
        BY BoundsAreNat DEF Gens
      <4> QED
        BY <3>1, <4>1 DEF Environment
    <3> QED
      BY <1>1, <3>1, <3>2, EnvironmentKeeps DEF AInv, RecordsTyped
  <2>3. CASE Integrate(c)
    <3>1. MoveHead /\ head' = head + 1 /\ integrated' = integrated \cup {c}
      BY <2>3 DEF Integrate, MoveHead
    <3> QED
      BY <1>1, <3>1, EnvironmentKeeps DEF Environment, AInv, RecordsTyped
  <2> QED
    BY <2>1, <2>2, <2>3 DEF Work
<1>4. /\ needs' = needs /\ inputs' = inputs /\ progress' = progress /\ handoff' = handoff
      /\ claimed' = claimed /\ sequence' = sequence /\ registered' = registered
      /\ tracked' = tracked /\ grant' = grant /\ prepared' = prepared /\ index' = index
      /\ queued' = queued /\ job' = job
  BY DEF Work, WorkerReserves, WorkerStops, ResumeWorker, WorkerFinishes, Integrate, records,
         effects
<1>5. /\ commit' = commit /\ task' = task /\ dispatch' = dispatch /\ entry' = entry
      /\ plan' = plan /\ receipt' = receipt /\ todo' = todo /\ proc' = proc
  BY DEF Work, WorkerReserves, WorkerStops, ResumeWorker, WorkerFinishes, Integrate, LeaseEnds,
         vars, git, ledger, files
<1>6. /\ working' \in {working, working \cup {c}, working \ {c}}
      /\ \/ worker' = worker
         \/ \E w \in {"reserved", "finalized"} : worker' = [worker EXCEPT ![c] = w]
      /\ c \in working \/ worker[c] # "none" \/ (working' = working /\ worker' = worker)
  BY DEF Work, WorkerReserves, WorkerStops, ResumeWorker, WorkerFinishes, Integrate
<1>7. RecordsTyped'
  <2>1. working' \subseteq Cards /\ worker' \in [Cards -> {"none", "reserved", "finalized"}]
    BY <1>1, <1>6 DEF RecordsTyped
  <2> QED
    BY <1>1, <1>3, <1>4, <2>1 DEF RecordsTyped
<1>8. \A a \in Cards : a \in working' \/ worker'[a] # "none" => task[a] = "dispatched"
  <2>1. ASSUME NEW a \in Cards, a \in working' \/ worker'[a] # "none"
        PROVE  task[a] = "dispatched"
    <3>1. CASE a = c
      BY <1>2, <1>6, <2>1, <3>1
    <3>2. CASE a # c
      <4>1. a \in working \/ worker[a] # "none"
        BY <1>1, <1>6, <2>1, <3>2 DEF RecordsTyped
      <4> QED
        BY <4>1 DEF AInv, CardOK, DispatchOK
    <3> QED
      BY <3>1, <3>2
  <2> QED
    BY <2>1
<1>9. Plain(todo)'
  BY <1>4, <1>5, PlainStays
<1>10. Grows /\ \A a \in Cards : Same(a)
  BY <1>1, <1>3, <1>4, <1>5 DEF Grows, Same, RecordsTyped
<1>11. tracked' # {} => head' >= 1
  BY <1>1, <1>3, <1>4 DEF AInv, IInv, GitOK
<1> QED
  BY <1>3, <1>4, <1>5, <1>7, <1>8, <1>9, <1>10, <1>11, Stays

\* What happens outside.
LEMMA OutsideKeeps ==
  ASSUME AInv, Outside
  PROVE  AInv'
<1>1. RecordsTyped /\ head \in Nat
  BY BoundsAreNat DEF AInv, IInv, GitOK
<1>2. IInv' /\ head' >= head
  <2>1. Environment /\ head' \in {head, head + 1}
    <3>1. \A c \in Cards : <<c, 1>> \in Cards \X Gens
      BY BoundsAreNat DEF Gens
    <3> QED
      BY <3>1 DEF Outside, Environment, MoveHead, LeaseEnds, git
  <2> QED
    BY <1>1, <2>1, EnvironmentKeeps DEF AInv
<1>3. /\ needs' = needs /\ inputs' = inputs /\ progress' = progress /\ handoff' = handoff
      /\ claimed' = claimed /\ sequence' = sequence /\ registered' = registered
      /\ tracked' = tracked /\ grant' = grant /\ prepared' = prepared /\ index' = index
      /\ queued' = queued /\ job' = job /\ working' = working /\ worker' = worker
      /\ integrated' = integrated
  BY DEF Outside, records, effects, after
<1>4. /\ commit' = commit /\ task' = task /\ dispatch' = dispatch /\ entry' = entry
      /\ plan' = plan /\ receipt' = receipt /\ todo' = todo /\ proc' = proc
  BY DEF Outside, MoveHead, LeaseEnds, git, ledger, files
<1>5. RecordsTyped'
  BY <1>1, <1>3 DEF RecordsTyped
<1>6. Grows /\ \A a \in Cards : Same(a)
  BY <1>1, <1>2, <1>3, <1>4 DEF Grows, Same, RecordsTyped
<1>7. \A a \in Cards : a \in working' \/ worker'[a] # "none" => task[a] = "dispatched"
  BY <1>3 DEF AInv, CardOK, DispatchOK
<1>8. Plain(todo)'
  BY <1>3, <1>4, PlainStays
<1>9. tracked' # {} => head' >= 1
  BY <1>1, <1>2, <1>3 DEF AInv, IInv, GitOK
<1> QED
  BY <1>2, <1>3, <1>4, <1>5, <1>6, <1>7, <1>8, <1>9, Stays

-----------------------------------------------------------------------------
(* The ticks, as the handoffs see them. *)

\* What a tick may do to the files of a card, and to its dispatch.
StoreOnward(a) ==
  /\ entry'[a].gen = 1 /\ entry'[a].state # "RETIRED"
  /\ entry'[a].state = None <=> entry[a].state = None
  /\ entry[a].state = "DISPATCHED" => entry'[a].state = "DISPATCHED"
  /\ receipt[<<a, 1>>] = "DISPATCHED" => receipt'[<<a, 1>>] = "DISPATCHED"
  /\ \/ plan'[<<a, 1>>] = plan[<<a, 1>>]
     \/ plan'[<<a, 1>>] = commit[a] /\ grant[a] # None

LedgerOnward(a) ==
  /\ dispatch'[a] = dispatch[a] \/ (dispatch'[a] = 1 /\ progress[a] = 4)
  /\ dispatch[a] # None => dispatch'[a] = dispatch[a]
  /\ \/ task'[a] = task[a]
     \/ task[a] = "ready" /\ task'[a] = "dispatched" /\ entry[a].state # None

\* The rest of a plain sequence is plain, and stays so.
LEMMA PlainOnward ==
  ASSUME NEW w \in Seq(File), Plain(w), todo' = w, \A a \in Cards : StoreOnward(a),
         commit' = commit, grant' = grant
  PROVE  Plain(todo)'
<1>1. ASSUME NEW i \in 1..Len(w)
      PROVE  PlainFile(w[i])'
  <2>1. PICK f \in File : f = w[i]
    OBVIOUS
  <2>2. PlainFile(f) /\ f.card \in Cards
    BY <2>1 DEF Plain, File
  <2>3. PICK a \in Cards : a = f.card
    BY <2>2
  <2>4. entry[a].state # None => entry'[a].state # None
    BY DEF StoreOnward
  <2>5. PlainFile(f)'
    BY <2>2, <2>3, <2>4 DEF PlainFile, InQueue
  <2> QED
    BY <2>1, <2>5
<1> QED
  BY <1>1 DEF Plain

\* The first of several plain files, and the others.
LEMMA PlainTail ==
  ASSUME NEW w \in Seq(File), w # <<>>, Plain(w)
  PROVE  Tail(w) \in Seq(File) /\ Plain(Tail(w)) /\ w[1] \in File /\ PlainFile(w[1])
         /\ Head(w) = w[1]
<1> DEFINE v == Tail(w)
<1>1. /\ v \in Seq(File) /\ Head(w) = w[1] /\ w[1] \in File /\ 1 \in 1..Len(w)
      /\ Len(v) = Len(w) - 1 /\ Len(w) \in Nat
      /\ \A i \in 1..Len(v) : v[i] = w[i + 1] /\ i + 1 \in 1..Len(w)
  OBVIOUS
<1> HIDE DEF v
<1>2. \A i \in 1..Len(v) : PlainFile(v[i])
  <2>1. ASSUME NEW i \in 1..Len(v)
        PROVE  PlainFile(v[i])
    <3>1. v[i] = w[i + 1] /\ i + 1 \in 1..Len(w)
      BY <1>1
    <3>2. PICK j \in 1..Len(w) : j = i + 1
      BY <3>1
    <3> QED
      BY <3>1, <3>2 DEF Plain
  <2> QED
    BY <2>1
<1>3. Plain(v) /\ PlainFile(w[1])
  BY <1>1, <1>2 DEF Plain
<1> QED
  BY <1>1, <1>3 DEF v

\* A plain file is written.
LEMMA PlainPut ==
  ASSUME AInv, NEW w \in Seq(File), w # <<>>, Plain(w), Sound(w), Put(Head(w)),
         dispatch' = dispatch
  PROVE  \A a \in Cards : StoreOnward(a)
<1>1. FilesOK /\ FilesTyped
  BY DEF AInv, IInv, StoreOK, FilesOK
<1>2. PICK c \in Cards, g \in Gens :
        Shape(w, c, g, entry[c], receipt[<<c, g>>], tombstone[<<c, g>>], dispatch[c])
  BY DEF Sound
<1>3. \A s \in Cards \X Gens : receipt[s] = "DISPATCHED" => receipt'[s] = "DISPATCHED"
  BY <1>1, <1>2, PutFirst
<1>4. PICK f \in File : f = w[1] /\ Put(f) /\ PlainFile(f)
  BY PlainTail
<1>5. /\ \A a \in Cards :
           entry'[a] = IF f.file = "queue" /\ f.card = a
                       THEN [state |-> f.to, gen |-> f.gen] ELSE entry[a]
      /\ \A a \in Cards, b \in Gens :
           plan'[<<a, b>>] = IF f.file = "plan" /\ f.card = a /\ f.gen = b
                             THEN f.to ELSE plan[<<a, b>>]
  BY <1>1, <1>4, PutFile
<1>6. 1 \in Gens
  BY BoundsAreNat DEF Gens
<1>7. 1 \in 1..Len(w)
  OBVIOUS
<1>8. ASSUME NEW a \in Cards
      PROVE  StoreOnward(a)
  <2>1. QueueOK(a)
    BY DEF AInv, CardOK
  <2>2. receipt[<<a, 1>>] = "DISPATCHED" => receipt'[<<a, 1>>] = "DISPATCHED"
    BY <1>3, <1>6
  <2>3. \/ plan'[<<a, 1>>] = plan[<<a, 1>>]
        \/ plan'[<<a, 1>>] = commit[a] /\ grant[a] # None
    <3>1. plan'[<<a, 1>>] = IF f.file = "plan" /\ f.card = a /\ f.gen = 1
                            THEN f.to ELSE plan[<<a, 1>>]
      BY <1>5, <1>6
    <3> QED
      BY <1>4, <3>1 DEF PlainFile
  <2>4. CASE ~(f.file = "queue" /\ f.card = a)
    <3>1. entry'[a] = entry[a]
      BY <1>5, <2>4
    <3> QED
      BY <2>1, <2>2, <2>3, <3>1 DEF StoreOnward, QueueOK
  <2>5. CASE f.file = "queue" /\ f.card = a
    <3>1. /\ entry'[a].state = f.to /\ entry'[a].gen = f.gen /\ f.gen = 1
          /\ f.to \in {"SELECTED", "DISPATCHED"} /\ entry[a].state # None
      BY <1>4, <1>5, <2>5 DEF PlainFile, InQueue
    <3>2. f.to # None
      BY <3>1, NoneIsNothing DEF QueuePhase
    <3>3. f.to = "SELECTED" => entry[a].state # "DISPATCHED"
      <4>1. SUFFICES ASSUME f.to = "SELECTED"
                     PROVE  entry[a].state # "DISPATCHED"
        OBVIOUS
      <4>2. ~Light(w[1]) /\ w[1].file = "queue" /\ w[1].to = "SELECTED" /\ w[1].card = a
        BY <1>4, <2>5, <4>1 DEF Light
      <4>3. CASE Selects(w, c, g, entry[c], receipt[<<c, g>>])
        <5>1. w[1] \in {F("receipt", c, g, "SELECTED"), F("queue", c, g, "SELECTED")}
          BY <1>7, <4>2, <4>3 DEF Selects
        <5>2. c = a
          BY <4>2, <5>1 DEF F
        <5> QED
          BY <4>3, <5>2 DEF Selects
      <4>4. ~Requeues(w, c, g, entry[c], receipt[<<c, g>>], tombstone[<<c, g>>])
        <5>1. SUFFICES ASSUME Requeues(w, c, g, entry[c], receipt[<<c, g>>], tombstone[<<c, g>>])
                       PROVE  FALSE
          OBVIOUS
        <5>2. w[1] \in {F("tombstone", c, g, "selected_recovery"), F("queue", c, g + 1, "QUEUED")}
          BY <1>7, <4>2, <5>1 DEF Requeues
        <5> QED
          BY <4>2, <5>2 DEF F
      <4>5. ~Aligns(w, c, g, entry[c], receipt[<<c, g>>], dispatch[c])
        <5>1. SUFFICES ASSUME Aligns(w, c, g, entry[c], receipt[<<c, g>>], dispatch[c])
                       PROVE  FALSE
          OBVIOUS
        <5>2. \/ w[1] = F("receipt", c, g, "DISPATCHED")
              \/ w[1] \in {F("queue", c, g, "DISPATCHED"), F("queue", c, g, "RETIRED")}
          BY <1>7, <4>2, <5>1 DEF Aligns
        <5> QED
          BY <4>2, <5>2 DEF F
      <4>6. ~\A i \in 1..Len(w) : Light(w[i])
        BY <1>7, <4>2
      <4> QED
        BY <1>2, <4>3, <4>4, <4>5, <4>6 DEF Shape
    <3> QED
      BY <2>2, <2>3, <3>1, <3>2, <3>3 DEF StoreOnward
  <2> QED
    BY <2>4, <2>5
<1> QED
  BY <1>8

\* Nothing is written.
LEMMA QuietOnward ==
  ASSUME AInv, UNCHANGED files
  PROVE  \A a \in Cards : StoreOnward(a)
<1>1. entry' = entry /\ receipt' = receipt /\ plan' = plan
  BY DEF files
<1>2. \A a \in Cards : QueueOK(a)
  BY DEF AInv, CardOK
<1> QED
  BY <1>1, <1>2 DEF StoreOnward, QueueOK

\* An operation writes the first of its plain files, if there is one.
LEMMA WriteOnward ==
  ASSUME AInv, NEW x, NEW w \in Seq(File), Plain(w), w # <<>> => Sound(w), Write(x, w),
         dispatch' = dispatch, commit' = commit, grant' = grant
  PROVE  Plain(todo)' /\ \A a \in Cards : StoreOnward(a)
<1>1. CASE w = <<>>
  <2>1. UNCHANGED files /\ todo' = todo
    BY <1>1 DEF Write
  <2>2. \A a \in Cards : StoreOnward(a)
    BY <2>1, QuietOnward
  <2>3. todo \in Seq(File) /\ Plain(todo)
    BY DEF AInv, IInv, StoreOK
  <2> QED
    BY <2>1, <2>2, <2>3, PlainOnward
<1>2. CASE w # <<>>
  <2>1. Put(Head(w)) /\ todo' = Tail(w)
    BY <1>2 DEF Write
  <2>2. \A a \in Cards : StoreOnward(a)
    BY <1>2, <2>1, PlainPut
  <2>3. Tail(w) \in Seq(File) /\ Plain(Tail(w))
    BY <1>2, PlainTail
  <2> QED
    BY <2>1, <2>2, <2>3, PlainOnward
<1> QED
  BY <1>1, <1>2

\* The holder of the lock writes the next one.
LEMMA WriteOnOnward ==
  ASSUME AInv, NEW x, x \notin {None, Orphan}, WriteOn(x), grant' = grant
  PROVE  Plain(todo)' /\ \A a \in Cards : StoreOnward(a)
<1>1. /\ todo \in Seq(File) /\ todo # <<>> /\ Sound(todo) /\ Plain(todo)
      /\ Put(Head(todo)) /\ todo' = Tail(todo) /\ dispatch' = dispatch /\ commit' = commit
  BY DEF AInv, IInv, StoreOK, WriteOn, ledger, git
<1>2. PICK w \in Seq(File) : w = todo
  BY <1>1
<1>3. w # <<>> /\ Plain(w) /\ Sound(w) /\ Put(Head(w)) /\ todo' = Tail(w)
  BY <1>1, <1>2 DEF Sound
<1>4. \A a \in Cards : StoreOnward(a)
  BY <1>1, <1>3, PlainPut
<1>5. Tail(w) \in Seq(File) /\ Plain(Tail(w))
  BY <1>3, PlainTail
<1> QED
  BY <1>1, <1>3, <1>4, <1>5, PlainOnward

\* A step of a tick: the receipts are as they were, the store and the ledger move
\* only onward.
TickStep ==
  /\ UNCHANGED git
  /\ UNCHANGED <<needs, records, effects, after>>
  /\ \A a \in Cards : StoreOnward(a) /\ LedgerOnward(a)
  /\ Plain(todo)'

\* What a card has is still in order after a step of somebody's tick.
LEMMA TickCard ==
  ASSUME AInv, TickStep, NEW a \in Cards
  PROVE  CardOK(a)'
<1>1. /\ progress' = progress /\ prepared' = prepared /\ handoff' = handoff
      /\ claimed' = claimed /\ sequence' = sequence /\ queued' = queued
      /\ tracked' = tracked /\ registered' = registered /\ grant' = grant
      /\ needs' = needs /\ integrated' = integrated /\ working' = working
      /\ worker' = worker /\ head' = head /\ commit' = commit
  BY DEF TickStep, records, effects, after, git
<1>2. StoreOnward(a) /\ LedgerOnward(a)
  BY DEF TickStep
<1>3. LadderOK(a) /\ BoundOK(a) /\ QueueOK(a) /\ DispatchOK(a) /\ 1 # None
  <2>1. 1 \in Gens
    BY BoundsAreNat DEF Gens
  <2> QED
    BY <2>1, NoneIsNothing DEF AInv, CardOK
<1>4. LadderOK(a)'
  BY <1>1, <1>3 DEF LadderOK, DependenciesReady
<1>5. BoundOK(a)'
  BY <1>1, <1>2, <1>3 DEF BoundOK, StoreOnward, LedgerOnward
<1>6. QueueOK(a)'
  BY <1>1, <1>2, <1>3 DEF QueueOK, InQueue, StoreOnward
<1>7. DispatchOK(a)'
  <2>1. dispatch'[a] # None => dispatch'[a] = 1 /\ progress[a] >= 4
    BY <1>2, <1>3 DEF DispatchOK, LedgerOnward
  <2>2. Submitted(a) => Submitted(a)'
    BY <1>2, <1>3 DEF Submitted, StoreOnward, LedgerOnward
  <2>3. /\ task[a] = "dispatched" => task'[a] = "dispatched"
        /\ task'[a] = "dispatched" => entry'[a].state # None
    BY <1>2, <1>3 DEF StoreOnward, LedgerOnward, DispatchOK
  <2> QED
    BY <1>1, <1>3, <2>1, <2>2, <2>3 DEF DispatchOK
<1> QED
  BY <1>4, <1>5, <1>6, <1>7 DEF CardOK

\* So is what another thread goes by.
LEMMA TickThread ==
  ASSUME AInv, TickStep, NEW q \in Processes, job'[q] = job[q], proc'[q] = proc[q]
  PROVE  ThreadOK(q)'
<1>1. /\ progress' = progress /\ prepared' = prepared /\ handoff' = handoff
      /\ sequence' = sequence /\ queued' = queued /\ needs' = needs
      /\ tracked' = tracked /\ registered' = registered /\ grant' = grant
      /\ integrated' = integrated /\ head' = head /\ commit' = commit
  BY DEF TickStep, records, effects, after, git
<1>2. ThreadOK(q)
  BY DEF AInv
<1>3. CASE job[q] = NoJob
  BY <1>2, <1>3 DEF ThreadOK, NoJob
<1>4. CASE job[q] # NoJob
  <2>1. PICK c \in Cards : c = job[q].card
    BY <1>2, <1>4 DEF ThreadOK
  <2>2. PICK m : m = job[q]
    OBVIOUS
  <2>3. /\ m.at \notin {"none", "ready"} /\ Outer(m, c) /\ Inner(m, c) /\ m.card = c
        /\ proc[q].pc # "idle" <=> m.at = "tick"
        /\ m.at = "tick" => Ticking(proc[q], c)
    BY <1>2, <1>4, <2>1, <2>2 DEF ThreadOK
  <2>4. StoreOnward(c) /\ LedgerOnward(c) /\ 1 # None
    <3>1. 1 \in Gens
      BY BoundsAreNat DEF Gens
    <3> QED
      BY <3>1, NoneIsNothing DEF TickStep
  <2>5. Outer(m, c)'
    BY <1>1, <2>3 DEF Outer, DependenciesReady
  <2>6. Inner(m, c)'
    <3>1. Submitted(c) => Submitted(c)'
      BY <2>4 DEF Submitted, StoreOnward, LedgerOnward
    <3>2. InQueue(c) => InQueue(c)'
      BY <2>4 DEF InQueue, StoreOnward
    <3> QED
      BY <1>1, <2>3, <3>1, <3>2 DEF Inner
  <2>7. m.at = "tick" => Ticking(proc[q], c)'
    BY <1>1, <2>3, <2>4 DEF Ticking, StoreOnward
  <2> QED
    BY <1>4, <2>2, <2>3, <2>5, <2>6, <2>7 DEF ThreadOK
<1> QED
  BY <1>3, <1>4

\* A thread begins a tick, makes a step of it or is done with it.
LEMMA TickMoves ==
  ASSUME AInv, IInv', TickStep, NEW p \in Processes, NEW m \in Job,
         job' = [job EXCEPT ![p] = m], m = NoJob \/ m.card = job[p].card,
         \A q \in Processes \ {p} : proc'[q] = proc[q], ThreadOK(p)'
  PROVE  AInv'
<1>1. RecordsTyped /\ job \in [Processes -> Job]
  BY DEF AInv, RecordsTyped
<1>2. /\ job' \in [Processes -> Job] /\ job'[p] = m
      /\ \A q \in Processes \ {p} : job'[q] = job[q]
  BY <1>1
<1>3. RecordsTyped'
  BY <1>1, <1>2 DEF RecordsTyped, TickStep, records, effects, after
<1>4. \A a \in Cards : CardOK(a)'
  BY TickCard
<1>5. \A q \in Processes : ThreadOK(q)'
  BY <1>2, TickThread
<1>6. Alone'
  <2>1. \A q, r \in Processes : job[q].card = job[r].card => q = r \/ job[q].card = None
    BY DEF AInv, Alone, Card
  <2>2. m.card \in {job[p].card, None}
    BY DEF NoJob
  <2>3. \A q, r \in Processes :
          job'[q].card = job'[r].card => q = r \/ job'[q].card = None
    BY <1>2, <2>1, <2>2
  <2> QED
    BY <2>3 DEF Alone, Card
<1>7. tracked' # {} => head' >= 1
  BY DEF AInv, TickStep, effects, git
<1> QED
  BY <1>3, <1>4, <1>5, <1>6, <1>7 DEF AInv, TickStep

\* The tick goes on.
LEMMA TickGoesOn ==
  ASSUME AInv, IInv', TickStep, NEW p \in Processes, AtStep(p, "tick"), job' = job,
         \A q \in Processes \ {p} : proc'[q] = proc[q],
         proc'[p].pc # "idle", proc'[p].card = proc[p].card, proc'[p].gen = proc[p].gen,
         proc'[p].snap = proc[p].snap, proc'[p].entry # "RETIRED",
         proc'[p].entry = "DISPATCHED" \/ proc'[p].pc = "admitted"
           => entry'[job[p].card].state = "DISPATCHED"
  PROVE  AInv'
<1>1. "tick" \in JobStep \ {"none"}
  BY DEF JobStep
<1>2. PICK c \in Cards :
        /\ c = Card(p) /\ AtWork(p, c) /\ job[p].at = "tick" /\ job[p] # NoJob
        /\ Outer(job[p], c) /\ Inner(job[p], c)
  BY <1>1, AtStepFacts
<1>3. PICK m \in Job : m = job[p]
  BY <1>2 DEF AtWork
<1>4. job' = [job EXCEPT ![p] = m] /\ job'[p] = m
  BY <1>3 DEF AInv, RecordsTyped
<1>5. /\ progress' = progress /\ prepared' = prepared /\ handoff' = handoff
      /\ needs' = needs /\ integrated' = integrated /\ commit' = commit
  BY DEF TickStep, records, after, git
<1>6. m.at = "tick" /\ m.card = c /\ m # NoJob /\ Ticking(proc[p], c)
  BY <1>2, <1>3 DEF AtWork, Card
<1>7. Outer(m, c)' /\ Inner(m, c)'
  BY <1>2, <1>3, <1>5, <1>6 DEF Outer, Inner
<1>8. Ticking(proc[p], c)'
  BY <1>3, <1>5, <1>6 DEF Ticking
<1>9. ThreadOK(p)'
  BY <1>4, <1>6, <1>7, <1>8 DEF ThreadOK
<1> QED
  BY <1>3, <1>4, <1>9, TickMoves

\* The tick is over, and with it the thread's work.
LEMMA TickStops ==
  ASSUME AInv, IInv', TickStep, NEW p \in Processes, EndJob(p), EndTick(p)
  PROVE  AInv'
<1>1. /\ proc'[p] = Idle /\ \A q \in Processes \ {p} : proc'[q] = proc[q]
  BY DEF AInv, IInv, TicksOK, EndTick
<1>2. job' = [job EXCEPT ![p] = NoJob] /\ job'[p] = NoJob
  BY DEF AInv, RecordsTyped, EndJob
<1>3. ThreadOK(p)'
  BY <1>1, <1>2, IdleTick DEF ThreadOK, NoJob
<1> QED
  BY <1>1, <1>2, <1>3, NoJobIsOne, TickMoves

\* Nothing but slots is touched.
LEMMA QuietTick ==
  ASSUME AInv, UNCHANGED git, UNCHANGED ledger, UNCHANGED files, todo' \in {todo, <<>>},
         UNCHANGED <<needs, records, effects, after>>
  PROVE  TickStep
<1>1. \A a \in Cards : StoreOnward(a)
  BY QuietOnward
<1>2. \A a \in Cards : LedgerOnward(a)
  BY DEF LedgerOnward, ledger
<1>3. Plain(todo)'
  <2>1. commit' = commit /\ grant' = grant
    BY DEF git, effects
  <2>2. CASE todo' = todo
    <3>1. todo \in Seq(File) /\ Plain(todo)
      BY DEF AInv, IInv, StoreOK
    <3> QED
      BY <1>1, <2>1, <2>2, <3>1, PlainOnward
  <2>3. CASE todo' = <<>>
    BY <2>3 DEF Plain
  <2> QED
    BY <2>2, <2>3
<1> QED
  BY <1>1, <1>2, <1>3 DEF TickStep

\* A thread at its tick.
LEMMA AtTick ==
  ASSUME AInv, NEW p \in Processes, AtStep(p, "tick")
  PROVE  \E c \in Cards :
           /\ c = job[p].card /\ c = Card(p) /\ CardOK(c) /\ job[p] # NoJob
           /\ progress[c] = 4 /\ handoff[c] \in 5..6 /\ grant[c] # None /\ InQueue(c)
           /\ proc[p].pc # "idle" /\ proc[p] \in Tick /\ Ticking(proc[p], c)
           /\ TickOK(proc[p], receipt, dispatch)
           /\ commit[c] \in 0..MaxHead
           /\ 1 \in Gens
<1>1. "tick" \in JobStep \ {"none"}
  BY DEF JobStep
<1>2. PICK c \in Cards :
        /\ c = Card(p) /\ AtWork(p, c) /\ job[p].at = "tick" /\ job[p] # NoJob
        /\ Outer(job[p], c) /\ Inner(job[p], c) /\ CardOK(c)
  BY <1>1, AtStepFacts
<1>3. progress[c] = 4 /\ handoff[c] \in 5..6 /\ c = job[p].card
  BY <1>2 DEF Outer, Inner, OutsideHandoff, Card
<1>4. grant[c] # None /\ InQueue(c)
  BY <1>2, <1>3 DEF CardOK, BoundOK, QueueOK
<1>5. proc[p].pc # "idle" /\ Ticking(proc[p], c)
  BY <1>2 DEF AtWork
<1>6. proc[p] \in Tick /\ TickOK(proc[p], receipt, dispatch) /\ commit[c] \in 0..MaxHead
  BY DEF AInv, IInv, TicksOK, GitOK
<1>7. 1 \in Gens
  BY BoundsAreNat DEF Gens
<1> QED
  BY <1>2, <1>3, <1>4, <1>5, <1>6, <1>7

\* The tick goes on with the same card and plan.
LEMMA TickBecomes ==
  ASSUME AInv, IInv', TickStep, NEW p \in Processes, AtStep(p, "tick"), job' = job,
         NEW n, proc' = [proc EXCEPT ![p] = n], n.pc # "idle",
         n.card = proc[p].card, n.gen = proc[p].gen, n.snap = proc[p].snap,
         n.entry # "RETIRED",
         n.entry = "DISPATCHED" \/ n.pc = "admitted"
           => entry'[job[p].card].state = "DISPATCHED"
  PROVE  AInv'
<1>1. /\ proc'[p] = n
      /\ \A q \in Processes \ {p} : proc'[q] = proc[q]
  BY DEF AInv, IInv, TicksOK
<1> QED
  BY <1>1, TickGoesOn

\* The plan is submitted.
LEMMA SubmitPlanKeeps ==
  ASSUME AInv, NEW p \in Processes, SubmitPlan(p)
  PROVE  AInv'
<1>1. "submit" \in JobStep \ {"none"} /\ "tick" \in JobStep
  BY DEF JobStep
<1>2. PICK c \in Cards :
        /\ c = Card(p) /\ AtWork(p, c) /\ job[p].at = "submit" /\ job[p] # NoJob
        /\ Outer(job[p], c) /\ Inner(job[p], c) /\ CardOK(c)
        /\ proc[p].pc = "idle"
  BY <1>1, AtStepFacts DEF SubmitPlan
<1>3. progress[c] = 4 /\ handoff[c] \in 5..6 /\ RecordsTyped /\ proc \in [Processes -> Tick]
  BY <1>2 DEF Outer, Inner, OutsideHandoff, AInv, IInv, TicksOK
<1>4. PICK m \in Job : m.card = c /\ m.at = "tick" /\ job' = [job EXCEPT ![p] = m]
  BY <1>1, <1>2, <1>3, Goes DEF SubmitPlan
<1>5. Submit(p, c) /\ UNCHANGED <<needs, records, effects, after>>
  BY <1>2 DEF SubmitPlan
<1>6. IInv'
  BY <1>5, SubmitKeeps DEF AInv
<1>7. TickStep
  BY <1>5, QuietTick DEF Submit
<1>8. PICK n : n = [Idle EXCEPT !.pc = "read", !.card = c, !.snap = commit[c]]
  OBVIOUS
<1>9. /\ n.pc = "read" /\ n.card = c /\ n.gen = 1 /\ n.snap = commit[c] /\ n.entry = None
  BY <1>8 DEF Idle
<1>10. proc' = [proc EXCEPT ![p] = n]
  BY <1>5, <1>8 DEF Submit
<1>11. proc'[p] = n /\ \A q \in Processes \ {p} : proc'[q] = proc[q]
  BY <1>3, <1>10
<1>12. ThreadOK(p)'
  <2>1. progress' = progress /\ handoff' = handoff /\ commit' = commit
    BY <1>5 DEF Submit, records, git
  <2>2. Outer(m, c)' /\ Inner(m, c)'
    BY <1>3, <1>4, <2>1 DEF Outer, Inner
  <2>3. Ticking(n, c)'
    BY <1>9, <2>1, NoneIsNothing DEF Ticking, QueuePhase
  <2>4. job'[p] = m
    BY <1>3, <1>4 DEF RecordsTyped
  <2> QED
    BY <1>4, <1>9, <1>11, <2>2, <2>3, <2>4 DEF ThreadOK
<1>13. m.card = job[p].card
  BY <1>2, <1>4 DEF Card
<1> QED
  BY <1>4, <1>6, <1>7, <1>11, <1>12, <1>13, TickMoves

\* The tick reads.
LEMMA TickReads ==
  ASSUME AInv, NEW p \in Processes, AtStep(p, "tick"),
         \/ ReadQueue(p) \/ Decide(p) \/ LoadEntry(p) \/ LoadReceipt(p) \/ LoadCanonical(p),
         UNCHANGED <<needs, records, effects, after, job>>
  PROVE  AInv'
<1>1. PICK c \in Cards :
        /\ c = job[p].card /\ CardOK(c) /\ proc[p] \in Tick /\ Ticking(proc[p], c)
  BY AtTick
<1>2. /\ UNCHANGED git /\ UNCHANGED ledger /\ UNCHANGED files /\ todo' = todo
      /\ UNCHANGED <<needs, records, effects, after>> /\ job' = job
  BY DEF ReadQueue, Decide, LoadEntry, LoadReceipt, LoadCanonical
<1>3. IInv'
  BY ReadsKeep DEF AInv
<1>4. TickStep
  BY <1>2, QuietTick
<1>5. PICK t : t = proc[p]
  OBVIOUS
<1>6. /\ t \in Tick /\ t.card = c /\ t.entry # "RETIRED" /\ entry' = entry
      /\ t.entry = "DISPATCHED" => entry[c].state = "DISPATCHED"
  BY <1>1, <1>2, <1>5 DEF Ticking, files
<1>7. CASE ReadQueue(p)
  <2>1. PICK n : n = [t EXCEPT !.queue = entry, !.pc = "decide"]
    OBVIOUS
  <2>2. /\ n.pc = "decide" /\ n.card = t.card /\ n.gen = t.gen /\ n.snap = t.snap
        /\ n.entry = t.entry
    BY <1>6, <2>1 DEF Tick
  <2>3. proc' = [proc EXCEPT ![p] = n]
    BY <1>5, <1>7, <2>1 DEF ReadQueue
  <2> QED
    BY <1>1, <1>2, <1>3, <1>4, <1>5, <1>6, <2>2, <2>3, TickBecomes
<1>8. CASE Decide(p)
  <2>1. PICK next : /\ next = Decision(t.queue, t.card, t.gen, t.snap)
                    /\ next # "refuse"
                    /\ proc' = [proc EXCEPT ![p].pc = next,
                                            ![p].expect = t.queue[t.card].state,
                                            ![p].queue = Idle.queue]
    BY <1>5, <1>8 DEF Decide
  <2>2. next \in {"reserve", "entry"}
    BY <2>1 DEF Decision
  <2>3. PICK n : n = [t EXCEPT !.pc = next, !.expect = t.queue[t.card].state,
                               !.queue = Idle.queue]
    OBVIOUS
  <2>4. /\ n.pc = next /\ n.card = t.card /\ n.gen = t.gen /\ n.snap = t.snap
        /\ n.entry = t.entry
    BY <1>6, <2>3 DEF Tick
  <2>5. proc' = [proc EXCEPT ![p] = n]
    BY <1>5, <2>1, <2>3
  <2>6. n.pc \notin {"idle", "admitted"}
    BY <2>2, <2>4
  <2> QED
    BY <1>1, <1>2, <1>3, <1>4, <1>5, <1>6, <2>4, <2>5, <2>6, TickBecomes
<1>9. CASE LoadEntry(p)
  <2>1. PICK n : n = [t EXCEPT !.entry = entry[t.card].state, !.pc = "receipt"]
    OBVIOUS
  <2>2. /\ n.pc = "receipt" /\ n.card = t.card /\ n.gen = t.gen /\ n.snap = t.snap
        /\ n.entry = entry[c].state
    BY <1>6, <2>1 DEF Tick
  <2>3. proc' = [proc EXCEPT ![p] = n]
    BY <1>5, <1>9, <2>1 DEF LoadEntry
  <2>4. entry[c].state # "RETIRED"
    BY <1>1 DEF CardOK, QueueOK
  <2> QED
    BY <1>1, <1>2, <1>3, <1>4, <1>5, <1>6, <2>2, <2>3, <2>4, TickBecomes
<1>10. CASE LoadReceipt(p)
  <2>1. PICK n : n = [t EXCEPT !.receipt = receipt[<<t.card, t.gen>>], !.pc = "canonical"]
    OBVIOUS
  <2>2. /\ n.pc = "canonical" /\ n.card = t.card /\ n.gen = t.gen /\ n.snap = t.snap
        /\ n.entry = t.entry
    BY <1>6, <2>1 DEF Tick
  <2>3. proc' = [proc EXCEPT ![p] = n]
    BY <1>5, <1>10, <2>1 DEF LoadReceipt
  <2> QED
    BY <1>1, <1>2, <1>3, <1>4, <1>5, <1>6, <2>2, <2>3, TickBecomes
<1>11. CASE LoadCanonical(p)
  <2>1. PICK next \in {"alignReceipt", "slot"} : Goto(p, next)
    BY <1>11 DEF LoadCanonical
  <2>2. PICK n : n = [t EXCEPT !.pc = next]
    OBVIOUS
  <2>3. /\ n.pc = next /\ n.card = t.card /\ n.gen = t.gen /\ n.snap = t.snap
        /\ n.entry = t.entry
    BY <1>6, <2>2 DEF Tick
  <2>4. proc' = [proc EXCEPT ![p] = n]
    BY <1>5, <2>1, <2>2 DEF Goto
  <2>5. n.pc \notin {"idle", "admitted"}
    BY <2>1, <2>3
  <2> QED
    BY <1>1, <1>2, <1>3, <1>4, <1>5, <1>6, <2>3, <2>4, <2>5, TickBecomes
<1> QED
  BY <1>7, <1>8, <1>9, <1>10, <1>11

\* It takes a slot.
LEMMA TickAcquires ==
  ASSUME AInv, NEW p \in Processes, AtStep(p, "tick"), AcquireSlot(p),
         UNCHANGED <<needs, records, effects, after, job>>
  PROVE  AInv'
<1>1. PICK c \in Cards : c = job[p].card /\ proc[p] \in Tick /\ Ticking(proc[p], c)
  BY AtTick
<1>2. IInv' /\ job' = job
  BY AcquireSlotKeeps DEF AInv
<1>3. TickStep
  BY QuietTick DEF AcquireSlot
<1>4. PICK n : n = [proc[p] EXCEPT !.pc = "transit"]
  OBVIOUS
<1>5. /\ n.pc = "transit" /\ n.card = proc[p].card /\ n.gen = proc[p].gen
      /\ n.snap = proc[p].snap /\ n.entry = proc[p].entry
      /\ proc' = [proc EXCEPT ![p] = n]
  BY <1>1, <1>4 DEF Tick, AcquireSlot, Goto
<1>6. /\ n.entry # "RETIRED"
      /\ n.entry = "DISPATCHED" => entry'[c].state = "DISPATCHED"
  BY <1>1, <1>5 DEF Ticking, AcquireSlot, files
<1> QED
  BY <1>1, <1>2, <1>3, <1>5, <1>6, TickBecomes

\* It dispatches its card.
LEMMA TickTransits ==
  ASSUME AInv, NEW p \in Processes, AtStep(p, "tick"), Transit(p),
         UNCHANGED <<needs, records, effects, after, job>>
  PROVE  AInv'
<1>1. PICK c \in Cards :
        /\ c = job[p].card /\ progress[c] = 4 /\ proc[p] \in Tick /\ Ticking(proc[p], c)
        /\ InQueue(c)
  BY AtTick
<1>2. IInv' /\ job' = job
  BY TransitKeeps DEF AInv
<1>3. /\ proc[p].card = c /\ proc[p].gen = 1 /\ task[c] = "ready"
      /\ task' = [task EXCEPT ![c] = "dispatched"]
      /\ dispatch' = [dispatch EXCEPT ![c] = 1]
      /\ proc' = [proc EXCEPT ![p].pc = "alignReceipt", ![p].fresh = TRUE]
      /\ UNCHANGED git /\ UNCHANGED files /\ todo' = todo
  BY <1>1 DEF Transit, Ticking
<1>4. TickStep
  <2>1. LedgerOK
    BY DEF AInv, IInv
  <2>2. \A a \in Cards : LedgerOnward(a)
    BY <1>1, <1>3, <2>1 DEF LedgerOnward, LedgerOK, InQueue
  <2>3. \A a \in Cards : StoreOnward(a)
    BY <1>3, QuietOnward
  <2>4. Plain(todo)'
    <3>1. todo \in Seq(File) /\ Plain(todo) /\ commit' = commit /\ grant' = grant
      BY <1>3 DEF AInv, IInv, StoreOK, git, effects
    <3> QED
      BY <1>3, <2>3, <3>1, PlainOnward
  <2> QED
    BY <1>3, <2>2, <2>3, <2>4 DEF TickStep
<1>5. PICK n : n = [proc[p] EXCEPT !.pc = "alignReceipt", !.fresh = TRUE]
  OBVIOUS
<1>6. /\ n.pc = "alignReceipt" /\ n.card = proc[p].card /\ n.gen = proc[p].gen
      /\ n.snap = proc[p].snap /\ n.entry = proc[p].entry
      /\ proc' = [proc EXCEPT ![p] = n]
  BY <1>1, <1>3, <1>5 DEF Tick
<1>7. /\ n.entry # "RETIRED"
      /\ n.entry = "DISPATCHED" => entry'[c].state = "DISPATCHED"
  BY <1>1, <1>3, <1>6 DEF Ticking, files
<1> QED
  BY <1>1, <1>2, <1>4, <1>6, <1>7, TickBecomes

\* It writes plain files, or leaves the ledger as it was at least.
LEMMA WrittenTick ==
  ASSUME UNCHANGED git, UNCHANGED ledger, UNCHANGED <<needs, records, effects, after>>,
         Plain(todo)', \A a \in Cards : StoreOnward(a)
  PROVE  TickStep
<1>1. \A a \in Cards : LedgerOnward(a)
  BY DEF LedgerOnward, ledger
<1> QED
  BY <1>1 DEF TickStep

\* The files of a selection are plain.
LEMMA SelectionPlain ==
  ASSUME NEW c \in Cards, 1 \in Gens, commit[c] \in 0..MaxHead, grant[c] # None, InQueue(c)
  PROVE  Plain(SelectionWrites(c, 1, commit[c]))
<1> DEFINE S == {f \in File : PlainFile(f)}
           w == SelectionWrites(c, 1, commit[c])
<1>1. /\ F("plan", c, 1, commit[c]) \in File /\ F("receipt", c, 1, "SELECTED") \in File
      /\ F("reservation", c, 1, TRUE) \in File /\ F("queue", c, 1, "SELECTED") \in File
  BY FileTypes DEF ReceiptPhase, QueuePhase
<1>2. /\ PlainFile(F("plan", c, 1, commit[c])) /\ PlainFile(F("receipt", c, 1, "SELECTED"))
      /\ PlainFile(F("reservation", c, 1, TRUE)) /\ PlainFile(F("queue", c, 1, "SELECTED"))
  BY DEF PlainFile, F
<1>3. /\ F("plan", c, 1, commit[c]) \in S /\ F("receipt", c, 1, "SELECTED") \in S
      /\ F("reservation", c, 1, TRUE) \in S /\ F("queue", c, 1, "SELECTED") \in S
  BY <1>1, <1>2
<1> HIDE DEF S
<1>4. /\ If(plan[<<c, 1>>] = None, F("plan", c, 1, commit[c])) \in Seq(S)
      /\ If(receipt[<<c, 1>>] = None, F("receipt", c, 1, "SELECTED")) \in Seq(S)
      /\ If(~reservation[<<c, 1>>], F("reservation", c, 1, TRUE)) \in Seq(S)
      /\ If(entry[c].state = "QUEUED", F("queue", c, 1, "SELECTED")) \in Seq(S)
  BY <1>3, IfSeq
<1>5. w \in Seq(S)
  <2>1. \A u, x, y, z \in Seq(S) : u \o x \o y \o z \in Seq(S)
    OBVIOUS
  <2> QED
    BY <1>4, <2>1 DEF SelectionWrites
<1>6. \A i \in 1..Len(w) : w[i] \in S
  BY <1>5
<1> HIDE DEF w
<1>7. \A i \in 1..Len(w) : PlainFile(w[i])
  BY <1>6 DEF S
<1> QED
  BY <1>7 DEF Plain, w

\* It reserves the selection.
LEMMA TickReserves ==
  ASSUME AInv, NEW p \in Processes, AtStep(p, "tick"), Reserve(p),
         UNCHANGED <<needs, records, effects, after, job>>
  PROVE  AInv'
<1>1. PICK c \in Cards :
        /\ c = job[p].card /\ grant[c] # None /\ InQueue(c) /\ proc[p] \in Tick
        /\ Ticking(proc[p], c) /\ commit[c] \in 0..MaxHead /\ 1 \in Gens
  BY AtTick
<1>2. IInv' /\ job' = job
  BY ReserveKeeps DEF AInv
<1>3. PICK w : w = SelectionWrites(c, 1, commit[c])
  OBVIOUS
<1>4. /\ entry[c].state \in {"QUEUED", "SELECTED"} /\ entry[c].gen = 1
      /\ receipt[<<c, 1>>] # "DISPATCHED" /\ Write(p, w)
      /\ proc' = [proc EXCEPT ![p].pc = "entry", ![p].expect = "SELECTED"]
      /\ UNCHANGED git /\ UNCHANGED ledger
  BY <1>1, <1>3 DEF Reserve, Ticking
<1>5. w \in Seq(File) /\ Sound(w)
  BY <1>1, <1>3, <1>4, SelectionSound DEF AInv, IInv, StoreOK
<1>6. Plain(w)
  BY <1>1, <1>3, SelectionPlain
<1>7. Plain(todo)' /\ \A a \in Cards : StoreOnward(a)
  <2>1. dispatch' = dispatch /\ commit' = commit /\ grant' = grant
    BY <1>4 DEF git, ledger, effects
  <2> QED
    BY <1>4, <1>5, <1>6, <2>1, WriteOnward
<1>8. TickStep
  BY <1>4, <1>7, WrittenTick
<1>9. PICK n : n = [proc[p] EXCEPT !.pc = "entry", !.expect = "SELECTED"]
  OBVIOUS
<1>10. /\ n.pc = "entry" /\ n.card = proc[p].card /\ n.gen = proc[p].gen
       /\ n.snap = proc[p].snap /\ n.entry = proc[p].entry
       /\ proc' = [proc EXCEPT ![p] = n]
  BY <1>1, <1>4, <1>9 DEF Tick
<1>11. /\ n.entry # "RETIRED"
       /\ n.entry = "DISPATCHED" => entry'[c].state = "DISPATCHED"
  BY <1>1, <1>7, <1>10 DEF Ticking, StoreOnward
<1> QED
  BY <1>1, <1>2, <1>8, <1>10, <1>11, TickBecomes

\* One plain file.
LEMMA PlainOne ==
  ASSUME NEW f \in File, PlainFile(f)
  PROVE  Plain(<<f>>)
<1>1. PICK w : w = <<f>>
  OBVIOUS
<1>2. Len(w) = 1 /\ w[1] = f
  BY <1>1
<1>3. \A i \in 1..Len(w) : i = 1
  BY <1>2
<1> QED
  BY <1>1, <1>2, <1>3 DEF Plain

\* It aligns the receipt.
LEMMA TickAlignsReceipt ==
  ASSUME AInv, NEW p \in Processes, AtStep(p, "tick"), AlignReceipt(p),
         UNCHANGED <<needs, records, effects, after, job>>
  PROVE  AInv'
<1>1. PICK c \in Cards :
        /\ c = job[p].card /\ proc[p] \in Tick /\ Ticking(proc[p], c) /\ 1 \in Gens
        /\ TickOK(proc[p], receipt, dispatch)
  BY AtTick
<1>2. IInv' /\ job' = job
  BY AlignReceiptKeeps DEF AInv
<1>3. PICK t : t = proc[p]
  OBVIOUS
<1>4. /\ t.card = c /\ t.gen = 1 /\ t.pc = "alignReceipt" /\ dispatch[c] # None
      /\ t \in Tick
  BY <1>1, <1>3 DEF Ticking, AlignReceipt, At, TickOK, Transited
<1>5. /\ UNCHANGED git /\ UNCHANGED ledger /\ Goto(p, "alignQueue")
      /\ dispatch' = dispatch /\ commit' = commit /\ grant' = grant
  BY DEF AlignReceipt, git, ledger, effects
<1>6. TickStep
  <2>1. CASE t.receipt = "SELECTED"
    <3>1. PICK f : f = F("receipt", c, 1, "DISPATCHED")
      OBVIOUS
    <3>2. /\ entry[c].gen = 1
          /\ Write(p, If(receipt[<<c, 1>>] = "SELECTED", f))
      BY <1>3, <1>4, <2>1, <3>1 DEF AlignReceipt, Binds
    <3>3. f.file = "receipt" /\ f.gen = 1
      BY <3>1 DEF F
    <3>4. f \in File /\ <<f>> \in Seq(File) /\ <<f>> # <<>> /\ Sound(<<f>>)
      BY <1>1, <1>4, <3>1, <3>2, <3>3, AlignmentSound
    <3>5. Plain(<<f>>)
      BY <3>3, <3>4, PlainOne DEF PlainFile
    <3>6. CASE receipt[<<c, 1>>] = "SELECTED"
      <4>1. Write(p, <<f>>)
        BY <3>2, <3>6 DEF If
      <4>2. Plain(todo)' /\ \A a \in Cards : StoreOnward(a)
        BY <1>5, <3>4, <3>5, <4>1, WriteOnward
      <4> QED
        BY <1>5, <4>2, WrittenTick
    <3>7. CASE receipt[<<c, 1>>] # "SELECTED"
      <4>1. UNCHANGED files /\ todo' = todo
        BY <3>2, <3>7 DEF If, Write
      <4> QED
        BY <1>5, <4>1, QuietTick
    <3> QED
      BY <3>6, <3>7
  <2>2. CASE t.receipt # "SELECTED"
    <3>1. UNCHANGED files /\ todo' = todo
      BY <1>3, <2>2 DEF AlignReceipt
    <3> QED
      BY <1>5, <3>1, QuietTick
  <2> QED
    BY <2>1, <2>2
<1>7. PICK n : n = [t EXCEPT !.pc = "alignQueue"]
  OBVIOUS
<1>8. /\ n.pc = "alignQueue" /\ n.card = t.card /\ n.gen = t.gen
      /\ n.snap = t.snap /\ n.entry = t.entry
      /\ proc' = [proc EXCEPT ![p] = n]
  BY <1>3, <1>4, <1>5, <1>7 DEF Tick, Goto
<1>9. /\ n.entry # "RETIRED"
      /\ n.entry = "DISPATCHED" => entry'[c].state = "DISPATCHED"
  BY <1>1, <1>3, <1>6, <1>8 DEF Ticking, TickStep, StoreOnward
<1> QED
  BY <1>1, <1>2, <1>3, <1>6, <1>8, <1>9, TickBecomes

\* It aligns the entry, which is DISPATCHED then.
LEMMA TickAlignsQueue ==
  ASSUME AInv, NEW p \in Processes, AtStep(p, "tick"), AlignQueue(p),
         UNCHANGED <<needs, records, effects, after, job>>
  PROVE  AInv'
<1>1. PICK c \in Cards :
        /\ c = job[p].card /\ proc[p] \in Tick /\ Ticking(proc[p], c) /\ 1 \in Gens
        /\ TickOK(proc[p], receipt, dispatch) /\ InQueue(c)
  BY AtTick
<1>2. IInv' /\ job' = job
  BY AlignQueueKeeps DEF AInv
<1>3. PICK t : t = proc[p]
  OBVIOUS
<1>4. /\ t.card = c /\ t.gen = 1 /\ t.pc = "alignQueue" /\ dispatch[c] # None
      /\ t \in Tick /\ receipt[<<c, 1>>] = "DISPATCHED" /\ t.entry # "RETIRED"
  BY <1>1, <1>3 DEF Ticking, AlignQueue, At, TickOK, Transited
<1>5. /\ UNCHANGED git /\ UNCHANGED ledger /\ Goto(p, "admitted")
      /\ dispatch' = dispatch /\ commit' = commit /\ grant' = grant
  BY DEF AlignQueue, git, ledger, effects
<1>6. TickStep /\ entry'[c].state = "DISPATCHED"
  <2>1. CASE t.entry = "SELECTED"
    <3>1. PICK f : f = F("queue", c, 1, "DISPATCHED")
      OBVIOUS
    <3>2. /\ entry[c].gen = 1 /\ entry[c].state \in {"SELECTED", "DISPATCHED"}
          /\ Write(p, If(entry[c].state = "SELECTED", f))
      BY <1>3, <1>4, <2>1, <3>1 DEF AlignQueue
    <3>3. f.file = "queue" /\ f.gen = 1 /\ f.card = c /\ f.to = "DISPATCHED"
      BY <3>1 DEF F
    <3>4. f \in File /\ <<f>> \in Seq(File) /\ <<f>> # <<>> /\ Sound(<<f>>)
      BY <1>1, <1>4, <3>1, <3>2, <3>3, AlignmentSound
    <3>5. Plain(<<f>>)
      BY <1>1, <3>3, <3>4, PlainOne DEF PlainFile
    <3>6. CASE entry[c].state = "SELECTED"
      <4>1. Write(p, <<f>>)
        BY <3>2, <3>6 DEF If
      <4>2. Plain(todo)' /\ \A a \in Cards : StoreOnward(a)
        BY <1>5, <3>4, <3>5, <4>1, WriteOnward
      <4>3. Put(f)
        BY <4>1 DEF Write
      <4>4. FilesTyped
        BY DEF AInv, IInv, StoreOK, FilesOK
      <4>5. entry'[c] = IF f.file = "queue" /\ f.card = c
                        THEN [state |-> f.to, gen |-> f.gen] ELSE entry[c]
        BY <3>4, <4>3, <4>4, PutFile
      <4>6. entry'[c].state = "DISPATCHED"
        BY <3>3, <4>5
      <4> QED
        BY <1>5, <4>2, <4>6, WrittenTick
    <3>7. CASE entry[c].state # "SELECTED"
      <4>1. UNCHANGED files /\ todo' = todo
        BY <3>2, <3>7 DEF If, Write
      <4>2. entry'[c].state = "DISPATCHED"
        BY <3>2, <3>7, <4>1 DEF files
      <4> QED
        BY <1>5, <4>1, <4>2, QuietTick
    <3> QED
      BY <3>6, <3>7
  <2>2. CASE t.entry # "SELECTED"
    <3>1. UNCHANGED files /\ todo' = todo /\ t.entry = "DISPATCHED"
      BY <1>3, <1>4, <2>2 DEF AlignQueue
    <3>2. entry'[c].state = "DISPATCHED"
      BY <1>1, <1>3, <3>1 DEF Ticking, files
    <3> QED
      BY <1>5, <3>1, <3>2, QuietTick
  <2> QED
    BY <2>1, <2>2
<1>7. PICK n : n = [t EXCEPT !.pc = "admitted"]
  OBVIOUS
<1>8. /\ n.pc = "admitted" /\ n.card = t.card /\ n.gen = t.gen
      /\ n.snap = t.snap /\ n.entry = t.entry
      /\ proc' = [proc EXCEPT ![p] = n]
  BY <1>3, <1>4, <1>5, <1>7 DEF Tick, Goto
<1>9. n.entry # "RETIRED"
  BY <1>4, <1>8
<1> QED
  BY <1>1, <1>2, <1>3, <1>6, <1>8, <1>9, TickBecomes

\* It writes the next file.
LEMMA TickWrites ==
  ASSUME AInv, NEW p \in Processes, AtStep(p, "tick"), WriteOn(p),
         UNCHANGED <<needs, records, effects, after, job>>
  PROVE  AInv'
<1>1. PICK c \in Cards :
        /\ c = job[p].card /\ proc[p] \in Tick /\ Ticking(proc[p], c) /\ proc[p].pc # "idle"
  BY AtTick
<1>2. IInv' /\ job' = job
  BY StopsKeep DEF AInv
<1>3. UNCHANGED git /\ UNCHANGED ledger /\ proc' = proc /\ grant' = grant
  BY DEF WriteOn, effects
<1>4. Plain(todo)' /\ \A a \in Cards : StoreOnward(a)
  BY <1>3, Names, WriteOnOnward
<1>5. TickStep
  BY <1>3, <1>4, WrittenTick
<1>6. entry[c].state = "DISPATCHED" => entry'[c].state = "DISPATCHED"
  BY <1>4 DEF StoreOnward
<1> QED
  BY <1>1, <1>2, <1>3, <1>5, <1>6, TickGoesOn DEF Ticking

\* A step of the tick that leaves the handoff where it is.
LEMMA TickOnKeeps ==
  ASSUME AInv, NEW p \in Processes, TickOn(p)
  PROVE  AInv'
<1>1. AtStep(p, "tick") /\ UNCHANGED <<needs, records, effects, after, job>>
  BY DEF TickOn
<1> QED
  BY <1>1, TickReads, TickReserves, TickAcquires, TickTransits, TickAlignsReceipt,
     TickAlignsQueue, TickWrites DEF TickOn

\* The tick is over and the plan is submitted.
LEMMA TickAdmitsKeeps ==
  ASSUME AInv, NEW p \in Processes, TickAdmits(p)
  PROVE  AInv'
<1>1. "submitted" \in JobStep /\ AtStep(p, "tick") /\ Admitted(p)
      /\ UNCHANGED <<needs, records, effects, after>>
  BY DEF JobStep, TickAdmits
<1>2. PICK c \in Cards :
        /\ c = job[p].card /\ c = Card(p) /\ CardOK(c) /\ job[p] # NoJob
        /\ progress[c] = 4 /\ handoff[c] \in 5..6 /\ Ticking(proc[p], c)
        /\ TickOK(proc[p], receipt, dispatch)
  BY <1>1, AtTick
<1>3. PICK m \in Job : m.card = c /\ m.at = "submitted" /\ job' = [job EXCEPT ![p] = m]
  BY <1>1, <1>2, Goes DEF TickAdmits, AInv
<1>4. IInv'
  BY <1>1, ReadsKeep DEF AInv
<1>5. TickStep
  BY <1>1, QuietTick DEF Admitted
<1>6. /\ proc'[p] = Idle /\ \A q \in Processes \ {p} : proc'[q] = proc[q]
  BY <1>1 DEF AInv, IInv, TicksOK, Admitted, EndTick
<1>7. Submitted(c)
  <2>1. /\ proc[p].pc = "admitted" /\ proc[p].card = c /\ proc[p].gen = 1
        /\ entry[c].state = "DISPATCHED"
    BY <1>1, <1>2 DEF Admitted, At, Ticking
  <2>2. dispatch[c] # None /\ receipt[<<c, 1>>] = "DISPATCHED"
    BY <1>2, <2>1 DEF TickOK, Transited
  <2>3. dispatch[c] = 1
    BY <1>2, <2>2 DEF CardOK, DispatchOK
  <2> QED
    BY <2>1, <2>2, <2>3 DEF Submitted
<1>8. ThreadOK(p)'
  <2>1. /\ progress' = progress /\ handoff' = handoff /\ dispatch' = dispatch
        /\ receipt' = receipt /\ entry' = entry
    BY <1>1 DEF Admitted, records, ledger, files
  <2>2. Outer(m, c)' /\ Inner(m, c)'
    BY <1>2, <1>3, <1>7, <2>1 DEF Outer, Inner, Submitted
  <2>3. job'[p] = m
    BY <1>3 DEF AInv, RecordsTyped
  <2> QED
    BY <1>3, <1>6, <2>2, <2>3, IdleTick DEF ThreadOK
<1> QED
  BY <1>2, <1>3, <1>4, <1>5, <1>6, <1>8, TickMoves

\* A thread stops where it is.
LEMMA StopKeeps ==
  ASSUME AInv, NEW p \in Processes, Stop(p)
  PROVE  AInv'
<1>1. AtWork(p, Card(p)) /\ EndJob(p) /\ UNCHANGED <<needs, records, effects, after>>
  BY ThreadFacts DEF Stop
<1>2. CASE ~AtStep(p, "tick") /\ UNCHANGED vars
  <2>1. PICK c \in Cards : c = Card(p) /\ \A q \in Processes \ {p} : Card(q) # c
    BY <1>1 DEF AtWork
  <2>2. proc[p].pc = "idle"
    BY <1>1, <1>2 DEF AtWork, AtStep
  <2>3. /\ needs' = needs /\ prepared' = prepared /\ progress' = progress
        /\ claimed' = claimed /\ queued' = queued /\ handoff' = handoff
        /\ tracked' = tracked /\ registered' = registered /\ grant' = grant
        /\ integrated' = integrated /\ working' = working /\ worker' = worker
        /\ inputs' = inputs /\ index' = index /\ sequence' = sequence
    BY <1>1 DEF records, effects, after
  <2>4. OwnStep(p, c, NoJob)
    <3>1. inputs' \subseteq Cards /\ index' \subseteq Cards /\ sequence' \in sequence..MaxSeq
      BY <2>3, AdmissionBoundsAreNat DEF AInv, RecordsTyped
    <3>2. job' = [job EXCEPT ![p] = NoJob]
      BY <1>1 DEF EndJob
    <3> QED
      BY <1>2, <2>1, <2>3, <3>1, <3>2 DEF OwnStep, after
  <2> QED
    BY <2>2, <2>4, NoJobIsOne, OwnMoves DEF Lawful
<1>3. CASE AtStep(p, "tick") /\ (GiveUp(p) \/ Fail(p) \/ Die(p))
  <2>1. IInv' /\ EndTick(p)
    BY <1>3, StopsKeep DEF AInv, GiveUp, Fail, Die
  <2>2. UNCHANGED git /\ UNCHANGED ledger /\ UNCHANGED files /\ todo' \in {todo, <<>>}
    BY <1>3 DEF GiveUp, Fail, WriteFails, Die
  <2>3. TickStep
    BY <1>1, <2>2, QuietTick
  <2> QED
    BY <1>1, <2>1, <2>3, TickStops
<1>4. CASE AtStep(p, "tick") /\ TransitTorn(p)
  <2>1. IInv' /\ EndTick(p)
    BY <1>4, TransitTornKeeps DEF AInv, TransitTorn
  <2>2. /\ UNCHANGED git /\ task' = task /\ dispatch' = dispatch /\ UNCHANGED files
        /\ todo' = todo
    BY <1>4 DEF TransitTorn
  <2>3. \A a \in Cards : StoreOnward(a) /\ LedgerOnward(a)
    BY <2>2, QuietOnward DEF LedgerOnward
  <2>4. Plain(todo)'
    <3>1. commit' = commit /\ grant' = grant /\ todo \in Seq(File) /\ Plain(todo)
      BY <1>1, <2>2 DEF git, effects, AInv, IInv, StoreOK
    <3> QED
      BY <2>2, <2>3, <3>1, PlainOnward
  <2>5. TickStep
    BY <1>1, <2>2, <2>3, <2>4 DEF TickStep
  <2> QED
    BY <1>1, <2>1, <2>5, TickStops
<1> QED
  BY <1>2, <1>3, <1>4 DEF Stop

\* The invariant holds at first.
LEMMA AdmissionStarts ==
  ASSUME AdmissionInit
  PROVE  AInv
<1>1. IInv
  BY Starts DEF AdmissionInit
<1>2. 1 \in Gens /\ 0 \in 0..MaxHead /\ 0 \in 0..MaxSeq /\ head = 0 /\ todo = <<>>
  BY BoundsAreNat, AdmissionBoundsAreNat DEF Gens, AdmissionInit, Init
<1>3. RecordsTyped
  BY <1>2, NoJobIsOne DEF AdmissionInit, RecordsTyped
<1>4. ASSUME NEW c \in Cards
      PROVE  CardOK(c)
  <2>1. /\ entry[c].gen = 1 /\ entry[c].state = None /\ task[c] = "none"
        /\ dispatch[c] = None /\ plan[<<c, 1>>] = None
    BY <1>2 DEF AdmissionInit, Init, NoEntry
  <2>2. /\ progress[c] = 0 /\ handoff[c] = 0 /\ prepared[c] = None /\ grant[c] = None
        /\ registered[c] = None /\ queued[c] = 0 /\ sequence = 0 /\ worker[c] = "none"
        /\ working = {}
    BY DEF AdmissionInit
  <2>3. LadderOK(c)
    BY <2>2 DEF LadderOK
  <2>4. BoundOK(c)
    BY <2>1, <2>2 DEF BoundOK
  <2>5. QueueOK(c)
    BY <2>1, <2>2, NoneIsNothing DEF QueueOK, InQueue, QueuePhase
  <2>6. DispatchOK(c)
    BY <2>1, <2>2 DEF DispatchOK
  <2> QED
    BY <2>3, <2>4, <2>5, <2>6 DEF CardOK
<1>5. ASSUME NEW p \in Processes
      PROVE  ThreadOK(p) /\ Card(p) = None
  <2>1. job[p] = NoJob /\ proc[p].pc = "idle"
    BY IdleTick DEF AdmissionInit, Init
  <2> QED
    BY <2>1 DEF ThreadOK, NoJob, Card
<1>6. Alone
  BY <1>5 DEF Alone
<1>7. Plain(todo) /\ tracked = {}
  BY <1>2 DEF Plain, AdmissionInit
<1> QED
  BY <1>1, <1>3, <1>4, <1>5, <1>6, <1>7 DEF AInv

\* Nothing happens.
LEMMA AdmissionStutters ==
  ASSUME AInv, UNCHANGED admissionVars
  PROVE  AInv'
<1>1. IInv'
  BY StutterKeeps DEF AInv, admissionVars
<1>2. /\ UNCHANGED git /\ UNCHANGED ledger /\ UNCHANGED files /\ todo' = todo
      /\ UNCHANGED <<needs, records, effects, after>> /\ job' = job /\ proc' = proc
  BY DEF admissionVars, vars
<1>3. TickStep
  BY <1>2, QuietTick
<1>4. \A a \in Cards : CardOK(a)'
  BY <1>3, TickCard
<1>5. \A q \in Processes : ThreadOK(q)'
  BY <1>2, <1>3, TickThread
<1>6. RecordsTyped' /\ Alone' /\ (tracked' # {} => head' >= 1)
  BY <1>2 DEF AInv, RecordsTyped, Alone, Card, records, effects, after, git
<1> QED
  BY <1>1, <1>3, <1>4, <1>5, <1>6 DEF AInv, TickStep

\* The invariant of the admission: every thread, stopped or not, leaves the
\* receipts, the repository, the queue and the ledger in order.
THEOREM AdmissionInvariance == AdmissionSpec => []AInv
<1>1. AdmissionInit => AInv
  BY AdmissionStarts
<1>2. AInv /\ [AdmissionNext]_admissionVars => AInv'
  <2> SUFFICES ASSUME AInv, [AdmissionNext]_admissionVars
               PROVE  AInv'
    OBVIOUS
  <2>1. ASSUME NEW p \in Processes, Admit(p)
        PROVE  AInv'
    BY <2>1, ExecuteKeeps, SaveDependenciesReadyKeeps, PrepareKeeps, BindInputsKeeps,
       SavePreparedKeeps, SaveHandoffStartedKeeps, BeginHandoffKeeps, BindKeeps, AddKeeps,
       CommitKeeps, SaveGitEvidenceKeeps, AuthorizeKeeps, RegisterKeeps,
       SaveRegisteredKeeps, ReserveSequenceKeeps, EnqueueKeeps, SaveQueuedKeeps,
       SavePlanKeeps, SubmitPlanKeeps, TickOnKeeps, TickAdmitsKeeps, SaveSubmittedKeeps,
       SaveHandoffFinalizedKeeps, SaveAdmittedKeeps, StartPostAdmissionKeeps,
       SaveFinalizedKeeps DEF Admit
  <2>2. ASSUME NEW p \in Processes, Stop(p)
        PROVE  AInv'
    BY <2>2, StopKeeps
  <2>3. ASSUME NEW c \in Cards, Work(c)
        PROVE  AInv'
    BY <2>3, WorkKeeps
  <2>4. CASE Outside
    BY <2>4, OutsideKeeps
  <2>5. CASE UNCHANGED admissionVars
    BY <2>5, AdmissionStutters
  <2> QED
    BY <2>1, <2>2, <2>3, <2>4, <2>5 DEF AdmissionNext
<1> QED
  BY <1>1, <1>2, PTL DEF AdmissionSpec

\* Every receipt, queue entry and thread of the admission has its type, and two
\* threads are never at one card: the lock of the process does what it is for.
THEOREM AdmissionTyped == AdmissionSpec => []AdmissionTypeOK
<1>1. AInv => AdmissionTypeOK
  <2>1. Len(Progress) = 6 /\ Len(Handoff) = 7
    BY DEF Progress, Handoff
  <2>2. AInv => TypeOK
    BY Typed DEF AInv
  <2> QED
    BY <2>1, <2>2 DEF AInv, RecordsTyped, Alone, AdmissionTypeOK
<1> QED
  BY <1>1, AdmissionInvariance, PTL

\* The dispatch approval, the registered task and the admission plan of a card
\* are of the commit that its handoff was bound to first, whatever HEAD does.
THEOREM OneCommitForAll == AdmissionSpec => []OneCommit
<1>1. AInv => OneCommit
  <2>1. ASSUME AInv, NEW c \in Cards
        PROVE  /\ {grant[c], registered[c], plan[<<c, 1>>]} \subseteq {None, commit[c]}
               /\ HandoffIs(c, "GIT_EVIDENCE_COMMITTED") =>
                    c \in tracked /\ prepared[c] <= commit[c]
               /\ grant[c] = None => registered[c] = None /\ plan[<<c, 1>>] = None
    <3>1. BoundOK(c) /\ handoff[c] \in 0..7
      BY <2>1 DEF AInv, CardOK, RecordsTyped
    <3>2. HandoffIs(c, "GIT_EVIDENCE_COMMITTED") => handoff[c] >= 2
      BY <3>1, HandoffPhases DEF HandoffIs
    <3> QED
      BY <3>1, <3>2 DEF BoundOK
  <2> QED
    BY <2>1 DEF OneCommit
<1> QED
  BY <1>1, AdmissionInvariance, PTL

\* No receipt of the composition or of the handoff is ahead of the approval, the
\* task, the queue or the dispatch that it speaks of, in another store.
THEOREM TruthfulReceipts == AdmissionSpec => []ReceiptsTruthful
<1>1. AInv => ReceiptsTruthful
  <2>1. ASSUME AInv, NEW c \in Cards
        PROVE  /\ Reached(Progress, progress[c], "ADMITTED") => HandoffIs(c, "FINALIZED")
               /\ HandoffIs(c, "CANONICAL_TASK_REGISTERED") => registered[c] = commit[c]
               /\ HandoffIs(c, "QUEUE_RESERVED") => /\ entry[c].state # None
                                                    /\ queued[c] = claimed[c]
               /\ HandoffIs(c, "ADMISSION_SUBMITTED") => Submitted(c)
    <3>1. /\ LadderOK(c) /\ BoundOK(c) /\ QueueOK(c) /\ DispatchOK(c)
          /\ handoff[c] \in 0..7 /\ progress[c] \in 0..6
      BY <2>1 DEF AInv, CardOK, RecordsTyped
    <3>2. /\ HandoffIs(c, "CANONICAL_TASK_REGISTERED") <=> handoff[c] >= 3
          /\ HandoffIs(c, "QUEUE_RESERVED") <=> handoff[c] >= 4
          /\ HandoffIs(c, "ADMISSION_SUBMITTED") <=> handoff[c] >= 6
          /\ HandoffIs(c, "FINALIZED") <=> handoff[c] = 7
          /\ Reached(Progress, progress[c], "ADMITTED") <=> progress[c] >= 5
      BY <3>1, HandoffPhases, ProgressPhases DEF HandoffIs
    <3>3. handoff[c] >= 4 => entry[c].state # None /\ queued[c] = claimed[c]
      BY <3>1 DEF QueueOK, InQueue
    <3>4. handoff[c] >= 6 => Submitted(c)
      BY <3>1 DEF DispatchOK
    <3>5. handoff[c] >= 3 => registered[c] = commit[c]
      BY <3>1 DEF BoundOK
    <3>6. progress[c] >= 5 => handoff[c] = 7
      BY <3>1 DEF LadderOK
    <3> QED
      BY <3>2, <3>3, <3>4, <3>5, <3>6
  <2> QED
    BY <2>1 DEF ReceiptsTruthful, Submitted
<1> QED
  BY <1>1, AdmissionInvariance, PTL

\* A card is dispatched only when the cards it waits for are integrated, and has
\* a worker only when it is dispatched.
THEOREM DispatchedInOrder == AdmissionSpec => []InOrder
<1>1. AInv => InOrder
  <2>1. ASSUME AInv, NEW c \in Cards
        PROVE  /\ \A d \in Cards : dispatch[c] # None /\ <<c, d>> \in needs => d \in integrated
               /\ c \in working \/ worker[c] # "none" => task[c] = "dispatched"
    <3>1. LadderOK(c) /\ DispatchOK(c) /\ progress[c] \in 0..6
      BY <2>1 DEF AInv, CardOK, RecordsTyped
    <3>2. dispatch[c] # None => DependenciesReady(c)
      BY <3>1 DEF LadderOK, DispatchOK
    <3> QED
      BY <3>1, <3>2 DEF DispatchOK, DependenciesReady
  <2> QED
    BY <2>1 DEF InOrder
<1> QED
  BY <1>1, AdmissionInvariance, PTL

-----------------------------------------------------------------------------
(* What the scheduler sees of the admission. *)

\* The task and the commit of a card as the scheduler sees them.
SeenTask == [c \in Cards |-> IF InQueue(c) THEN task[c] ELSE "none"]
SeenCommit == [c \in Cards |-> IF InQueue(c) THEN commit[c] ELSE 0]

\* It sees no change.
SeenStill == SeenTask' = SeenTask /\ SeenCommit' = SeenCommit

\* A card is in the queue when it has a sequence there.
LEMMA QueuedIsSeen ==
  ASSUME AInv, AInv', queued' = queued
  PROVE  \A c \in Cards : InQueue(c)' <=> InQueue(c)
<1>1. ASSUME NEW c \in Cards
      PROVE  /\ InQueue(c) <=> queued[c] # 0
             /\ InQueue(c)' <=> queued'[c] # 0
  <2>1. QueueOK(c) /\ QueueOK(c)'
    BY DEF AInv, CardOK
  <2> QED
    BY <2>1 DEF QueueOK
<1> QED
  BY <1>1

\* Nothing that the scheduler sees has changed.
LEMMA SeesNothing ==
  ASSUME AInv, AInv', queued' = queued,
         \A c \in Cards : InQueue(c) => task'[c] = task[c] /\ commit'[c] = commit[c]
  PROVE  SeenStill
<1>1. \A c \in Cards : InQueue(c)' <=> InQueue(c)
  BY QueuedIsSeen
<1> QED
  BY <1>1 DEF SeenStill, SeenTask, SeenCommit

\* The variables that a step of the scheduler leaves alone.
LEMMA LeftAlone ==
  /\ SeenStill /\ UNCHANGED git => UNCHANGED Scheduler!git
  /\ SeenStill /\ UNCHANGED ledger => UNCHANGED Scheduler!ledger
  /\ UNCHANGED files => UNCHANGED Scheduler!files
  /\ SeenStill /\ UNCHANGED vars => UNCHANGED Scheduler!vars
BY DEF SeenStill, SeenTask, SeenCommit, git, ledger, files, vars,
       Scheduler!git, Scheduler!ledger, Scheduler!files, Scheduler!vars

\* It writes as the store does.
LEMMA SameWrites ==
  /\ \A f : Put(f) <=> Scheduler!Put(f)
  /\ \A x, w : Write(x, w) => Scheduler!Write(x, w)
<1>1. ASSUME NEW f
      PROVE  Put(f) <=> Scheduler!Put(f)
  BY DEF Put, Scheduler!Put
<1>2. ASSUME NEW x, NEW w, Write(x, w)
      PROVE  Scheduler!Write(x, w)
  BY <1>1, <1>2, LeftAlone DEF Write, Scheduler!Write, files, Scheduler!files
<1> QED
  BY <1>1, <1>2

\* A tick reads.
LEMMA ReadsAreSteps ==
  ASSUME NEW p \in Processes, SeenStill,
         ReadQueue(p) \/ Decide(p) \/ LoadEntry(p) \/ LoadReceipt(p) \/ Admitted(p)
  PROVE  Scheduler!Step(p)
<1>1. UNCHANGED <<Scheduler!git, Scheduler!ledger, lease, Scheduler!files, lock, todo, faults>>
  BY LeftAlone DEF ReadQueue, Decide, LoadEntry, LoadReceipt, Admitted
<1>2. ReadQueue(p) => Scheduler!ReadQueue(p)
  BY <1>1 DEF ReadQueue, Scheduler!ReadQueue, At, Scheduler!At
<1>3. LoadEntry(p) => Scheduler!LoadEntry(p)
  BY <1>1 DEF LoadEntry, Scheduler!LoadEntry, At, Scheduler!At
<1>4. LoadReceipt(p) => Scheduler!LoadReceipt(p)
  BY <1>1 DEF LoadReceipt, Scheduler!LoadReceipt, At, Scheduler!At,
              Readable, Scheduler!Readable
<1>5. Admitted(p) => Scheduler!Admitted(p)
  BY <1>1 DEF Admitted, Scheduler!Admitted, At, Scheduler!At, Slot, Scheduler!Slot,
              Readable, Scheduler!Readable, EndTick, Scheduler!EndTick, Idle, Scheduler!Idle,
              NoEntry, Scheduler!NoEntry
<1>6. Decide(p) => Scheduler!Decide(p)
  <2>1. ASSUME NEW queue, NEW c, NEW g, NEW snap
        PROVE  Scheduler!Decision(queue, c, g, snap) = Decision(queue, c, g, snap)
    BY DEF Decision, Scheduler!Decision, Visible, Scheduler!Visible, Pending,
           Scheduler!Pending, Selectable, Scheduler!Selectable, Readable,
           Scheduler!Readable, Gens, Scheduler!Gens
  <2> QED
    BY <1>1, <2>1 DEF Decide, Scheduler!Decide, At, Scheduler!At, Idle, Scheduler!Idle,
                      NoEntry, Scheduler!NoEntry
<1> QED
  BY <1>2, <1>3, <1>4, <1>5, <1>6 DEF Scheduler!Step

\* A tick writes.
LEMMA WritesAreSteps ==
  ASSUME NEW p \in Processes, SeenStill,
         Reserve(p) \/ AlignReceipt(p) \/ AlignQueue(p) \/ WriteOn(p)
  PROVE  Scheduler!Step(p)
<1>1. UNCHANGED <<Scheduler!git, Scheduler!ledger, lease, faults>>
  BY LeftAlone DEF Reserve, AlignReceipt, AlignQueue, WriteOn
<1>2. Reserve(p) => Scheduler!Reserve(p)
  <2>1. ASSUME NEW c, NEW g, NEW snap
        PROVE  Scheduler!SelectionWrites(c, g, snap) = SelectionWrites(c, g, snap)
    BY DEF SelectionWrites, Scheduler!SelectionWrites, If, Scheduler!If, F, Scheduler!F
  <2>2. SUFFICES ASSUME Reserve(p)
                 PROVE  Scheduler!Reserve(p)
    OBVIOUS
  <2>3. PICK w : w = SelectionWrites(proc[p].card, proc[p].gen, proc[p].snap)
    OBVIOUS
  <2>4. Scheduler!Write(p, w)
    BY <2>2, <2>3, SameWrites DEF Reserve
  <2>5. Scheduler!Write(p, Scheduler!SelectionWrites(proc[p].card, proc[p].gen, proc[p].snap))
    BY <2>1, <2>3, <2>4
  <2> QED
    BY <1>1, <2>2, <2>5 DEF Reserve, Scheduler!Reserve, At, Scheduler!At
<1>3. AlignReceipt(p) => Scheduler!AlignReceipt(p)
  <2>1. ASSUME NEW c, NEW g
        PROVE  If(receipt[<<c, g>>] = "SELECTED", F("receipt", c, g, "DISPATCHED"))
               = Scheduler!If(receipt[<<c, g>>] = "SELECTED",
                              Scheduler!F("receipt", c, g, "DISPATCHED"))
    BY DEF If, Scheduler!If, F, Scheduler!F
  <2> QED
    BY <1>1, <2>1, SameWrites, LeftAlone
       DEF AlignReceipt, Scheduler!AlignReceipt, At, Scheduler!At, Binds, Scheduler!Binds,
           Goto, Scheduler!Goto
<1>4. AlignQueue(p) => Scheduler!AlignQueue(p)
  <2>1. ASSUME NEW c, NEW g
        PROVE  If(entry[c].state = "SELECTED", F("queue", c, g, "DISPATCHED"))
               = Scheduler!If(entry[c].state = "SELECTED",
                              Scheduler!F("queue", c, g, "DISPATCHED"))
    BY DEF If, Scheduler!If, F, Scheduler!F
  <2> QED
    BY <1>1, <2>1, SameWrites, LeftAlone
       DEF AlignQueue, Scheduler!AlignQueue, At, Scheduler!At, Goto, Scheduler!Goto
<1>5. WriteOn(p) => Scheduler!WriteOn(p)
  BY <1>1, SameWrites DEF WriteOn, Scheduler!WriteOn
<1> QED
  BY <1>2, <1>3, <1>4, <1>5 DEF Scheduler!Step

\* A tick takes a slot, or stops.
LEMMA StopsAreSteps ==
  ASSUME NEW p \in Processes, SeenStill, AcquireSlot(p) \/ GiveUp(p) \/ Fail(p) \/ Die(p)
  PROVE  Scheduler!Step(p)
<1>1. UNCHANGED <<Scheduler!git, Scheduler!ledger, Scheduler!files>>
  BY LeftAlone DEF AcquireSlot, GiveUp, Fail, Die
<1>2. EndTick(p) => Scheduler!EndTick(p)
  <2>1. Scheduler!Idle = Idle
    BY DEF Idle, Scheduler!Idle, NoEntry, Scheduler!NoEntry
  <2> QED
    BY <2>1 DEF EndTick, Scheduler!EndTick
<1>3. AcquireSlot(p) => Scheduler!AcquireSlot(p)
  <2>1. Scheduler!Cardinality(lease) = Cardinality(lease)
    BY DEF Cardinality, Scheduler!Cardinality
  <2> QED
    BY <1>1, <2>1 DEF AcquireSlot, Scheduler!AcquireSlot, At, Scheduler!At, Slot,
                      Scheduler!Slot, Goto, Scheduler!Goto
<1>4. GiveUp(p) => Scheduler!GiveUp(p)
  BY <1>1, <1>2 DEF GiveUp, Scheduler!GiveUp, Slot, Scheduler!Slot
<1>5. Fail(p) => Scheduler!Fail(p)
  BY <1>1, <1>2 DEF Fail, Scheduler!Fail, WriteFails, Scheduler!WriteFails
<1>6. Die(p) => Scheduler!Die(p)
  BY <1>1, <1>2 DEF Die, Scheduler!Die, LockTakers, Scheduler!LockTakers
<1> QED
  BY <1>3, <1>4, <1>5, <1>6 DEF Scheduler!Step

\* A tick looks at the ledger and moves it; the card is in the queue.
LEMMA LedgerStepsAreSteps ==
  ASSUME AInv, AInv', NEW p \in Processes, queued' = queued, NEW c \in Cards,
         proc[p].card = c, InQueue(c), LoadCanonical(p) \/ Transit(p) \/ TransitTorn(p)
  PROVE  Scheduler!Step(p)
<1>1. SeenTask[c] = task[c] /\ \A a \in Cards : InQueue(a)' <=> InQueue(a)
  BY QueuedIsSeen DEF SeenTask
<1>2. UNCHANGED git /\ UNCHANGED files
  BY DEF LoadCanonical, Transit, TransitTorn
<1>3. SeenCommit' = SeenCommit /\ UNCHANGED Scheduler!git /\ UNCHANGED Scheduler!files
  BY <1>1, <1>2 DEF SeenCommit, git, files, Scheduler!git, Scheduler!files
<1>4. LoadCanonical(p) => Scheduler!LoadCanonical(p)
  <2>1. SUFFICES ASSUME LoadCanonical(p)
                 PROVE  Scheduler!LoadCanonical(p)
    OBVIOUS
  <2>2. SeenStill
    <3>1. task' = task /\ commit' = commit
      BY <2>1 DEF LoadCanonical, git, ledger
    <3> QED
      BY <3>1, SeesNothing
  <2>3. UNCHANGED Scheduler!ledger
    BY <2>1, <2>2, LeftAlone DEF LoadCanonical
  <2>4. Replays(c, proc[p].gen) => Scheduler!Replays(c, proc[p].gen)
    BY <1>1 DEF Replays, Scheduler!Replays, SeenTask
  <2>5. Fresh(p) => Scheduler!Fresh(p)
    BY <1>1 DEF Fresh, Scheduler!Fresh, SeenTask
  <2> QED
    BY <1>3, <2>1, <2>3, <2>4, <2>5
       DEF LoadCanonical, Scheduler!LoadCanonical, At, Scheduler!At, Goto, Scheduler!Goto
<1>5. Transit(p) => Scheduler!Transit(p)
  <2>1. SUFFICES ASSUME Transit(p)
                 PROVE  Scheduler!Transit(p)
    OBVIOUS
  <2>2. task[c] = "ready" /\ task' = [task EXCEPT ![c] = "dispatched"]
    BY <2>1 DEF Transit
  <2>3. task \in [Cards -> {"none", "ready", "dispatched"}]
    BY DEF AInv, IInv, LedgerOK
  <2>4. SeenTask' = [SeenTask EXCEPT ![c] = "dispatched"] /\ SeenTask[c] = "ready"
    BY <1>1, <2>2, <2>3 DEF SeenTask
  <2> QED
    BY <1>3, <2>1, <2>4
       DEF Transit, Scheduler!Transit, At, Scheduler!At, Slot, Scheduler!Slot, SeenTask
<1>6. TransitTorn(p) => Scheduler!TransitTorn(p)
  <2>1. SUFFICES ASSUME TransitTorn(p)
                 PROVE  Scheduler!TransitTorn(p)
    OBVIOUS
  <2>2. task[c] = "ready" /\ task' = task
    BY <2>1 DEF TransitTorn
  <2>3. SeenTask' = SeenTask /\ SeenTask[c] = "ready"
    BY <1>1, <2>2 DEF SeenTask
  <2>4. Scheduler!EndTick(p)
    <3>1. Scheduler!Idle = Idle
      BY DEF Idle, Scheduler!Idle, NoEntry, Scheduler!NoEntry
    <3> QED
      BY <2>1, <3>1 DEF TransitTorn, EndTick, Scheduler!EndTick
  <2> QED
    BY <1>3, <2>1, <2>3, <2>4
       DEF TransitTorn, Scheduler!TransitTorn, At, Scheduler!At, Slot, Scheduler!Slot, SeenTask
<1> QED
  BY <1>4, <1>5, <1>6 DEF Scheduler!Step

\* A plan is submitted.
LEMMA SubmitIsStep ==
  ASSUME SeenStill, NEW p \in Processes, NEW c \in Cards, InQueue(c), Submit(p, c)
  PROVE  Scheduler!Step(p)
<1>1. UNCHANGED <<Scheduler!git, Scheduler!ledger, lease, Scheduler!files, lock, todo, faults>>
  BY LeftAlone DEF Submit
<1>2. SeenTask[c] = task[c] /\ SeenCommit[c] = commit[c]
  BY DEF SeenTask, SeenCommit
<1>3. Scheduler!Idle = Idle
  BY DEF Idle, Scheduler!Idle, NoEntry, Scheduler!NoEntry
<1>4. Scheduler!Submit(p, c)
  BY <1>1, <1>2, <1>3
     DEF Submit, Scheduler!Submit, At, Scheduler!At, SeenTask, SeenCommit
<1> QED
  BY <1>4 DEF Scheduler!Step

\* HEAD moves, or a slot is released.
LEMMA OutsideIsStep ==
  ASSUME SeenStill,
         \/ MoveHead
         \/ \E c \in Cards : LeaseEnds(<<c, 1>>)
  PROVE  Scheduler!Environment
<1>1. MoveHead => Scheduler!MoveHead
  BY LeftAlone DEF MoveHead, Scheduler!MoveHead, SeenStill, SeenTask, SeenCommit
<1>2. ASSUME NEW c \in Cards, LeaseEnds(<<c, 1>>)
      PROVE  \E slot \in Cards \X Scheduler!Gens : Scheduler!LeaseEnds(slot)
  <2>1. <<c, 1>> \in Cards \X Scheduler!Gens
    BY BoundsAreNat DEF Scheduler!Gens
  <2>2. Scheduler!LeaseEnds(<<c, 1>>)
    BY <1>2, LeftAlone DEF LeaseEnds, Scheduler!LeaseEnds
  <2> QED
    BY <2>1, <2>2
<1> QED
  BY <1>1, <1>2 DEF Scheduler!Environment

\* A card is queued: for the scheduler it is handed over then.
LEMMA EnqueueIsStep ==
  ASSUME AInv, AInv', NEW p \in Processes, Enqueue(p)
  PROVE  Scheduler!Environment
<1>1. "enqueue" \in JobStep \ {"none"}
  BY DEF JobStep
<1>2. PICK c \in Cards :
        /\ c = Card(p) /\ job[p].at = "enqueue"
        /\ Outer(job[p], c) /\ Inner(job[p], c) /\ CardOK(c)
  BY <1>1, AtStepFacts DEF Enqueue
<1>3. /\ handoff[c] = 3 /\ job[p].value \in 1..sequence /\ queued[c] < job[p].value
      /\ queued[c] \in {0, job[p].value} /\ queued[c] \in 0..sequence /\ sequence \in Nat
  BY <1>2, AdmissionBoundsAreNat DEF Inner, Enqueue, CardOK, QueueOK, AInv, RecordsTyped
<1>4. queued[c] = 0
  BY <1>3
<1>5. /\ entry[c].state = None /\ entry[c].gen = 1 /\ task[c] # "dispatched"
      /\ task[c] # "none" /\ commit[c] \in 1..head
  BY <1>2, <1>3, <1>4 DEF CardOK, QueueOK, InQueue, BoundOK, DispatchOK
<1>6. task[c] = "ready" /\ entry \in [Cards -> Entry]
  BY <1>5 DEF AInv, IInv, LedgerOK, StoreOK, FilesOK, FilesTyped
<1>7. entry' = [entry EXCEPT ![c].state = "QUEUED", ![c].gen = 1]
      /\ UNCHANGED <<plan, receipt, reservation, tombstone, execution>>
  BY <1>2 DEF Enqueue, Put, F
<1>8. /\ entry' = [entry EXCEPT ![c].state = "QUEUED"]
      /\ entry'[c].state = "QUEUED" /\ \A a \in Cards \ {c} : entry'[a] = entry[a]
  BY <1>5, <1>6, <1>7 DEF Entry
<1>9. /\ UNCHANGED git /\ UNCHANGED ledger
      /\ UNCHANGED <<head, commit, task, dispatch, events, lease, lock, todo, proc, faults>>
      /\ lock = None
  BY DEF Enqueue, git, ledger
<1>10. "QUEUED" # None
  BY NoneIsNothing DEF QueuePhase
<1>11. /\ SeenTask[c] = "none"
       /\ SeenTask' = [SeenTask EXCEPT ![c] = "ready"]
       /\ SeenCommit' = [SeenCommit EXCEPT ![c] = commit[c]]
  BY <1>5, <1>6, <1>8, <1>9, <1>10 DEF SeenTask, SeenCommit, InQueue
<1>12. Scheduler!HandOver(c)
  BY <1>5, <1>7, <1>8, <1>9, <1>11 DEF Scheduler!HandOver, SeenTask, SeenCommit
<1> QED
  BY <1>12 DEF Scheduler!Environment

\* What a thread does that is not at the dispatch of its card changes nothing
\* that the scheduler sees.
LEMMA RecordStepSeesNothing ==
  ASSUME AInv, AInv', queued' = queued, UNCHANGED vars
  PROVE  UNCHANGED Scheduler!vars
<1>1. task' = task /\ commit' = commit
  BY DEF vars, git, ledger
<1> QED
  BY <1>1, SeesNothing, LeftAlone

\* A card that has no sequence is not in the queue.
LEMMA NotYetSeen ==
  ASSUME AInv, NEW c \in Cards, handoff[c] < 3
  PROVE  ~InQueue(c)
<1>1. QueueOK(c) /\ handoff[c] \in 0..7
  BY DEF AInv, CardOK, RecordsTyped
<1> QED
  BY <1>1 DEF QueueOK

\* The evidence of a card is bound.
LEMMA SaveGitEvidenceUnseen ==
  ASSUME AInv, AInv', NEW p \in Processes, SaveGitEvidence(p)
  PROVE  UNCHANGED Scheduler!vars
<1>1. "bound" \in JobStep \ {"none"}
  BY DEF JobStep
<1>2. PICK c \in Cards :
        /\ c = Card(p) /\ job[p].at = "bound"
        /\ Outer(job[p], c) /\ Inner(job[p], c) /\ CardOK(c)
  BY <1>1, AtStepFacts DEF SaveGitEvidence
<1>3. ~InQueue(c)
  BY <1>2, NotYetSeen DEF Inner
<1>4. task' = task /\ commit' = [commit EXCEPT ![c] = job[p].value] /\ queued' = queued
  BY <1>2 DEF SaveGitEvidence, ledger, effects
<1>5. \A a \in Cards : InQueue(a) => task'[a] = task[a] /\ commit'[a] = commit[a]
  BY <1>3, <1>4
<1>6. SeenStill
  BY <1>4, <1>5, SeesNothing
<1> QED
  BY <1>6 DEF SaveGitEvidence, SeenStill, SeenTask, SeenCommit, ledger, files,
              Scheduler!vars, Scheduler!git, Scheduler!ledger, Scheduler!files

\* A card is registered as a task.
LEMMA RegisterUnseen ==
  ASSUME AInv, AInv', NEW p \in Processes, Register(p)
  PROVE  UNCHANGED Scheduler!vars
<1>1. "register" \in JobStep \ {"none"}
  BY DEF JobStep
<1>2. PICK c \in Cards :
        /\ c = Card(p) /\ job[p].at = "register"
        /\ Outer(job[p], c) /\ Inner(job[p], c) /\ CardOK(c)
  BY <1>1, AtStepFacts DEF Register
<1>3. ~InQueue(c)
  BY <1>2, NotYetSeen DEF Inner
<1>4. commit' = commit /\ task' = [task EXCEPT ![c] = "ready"] /\ queued' = queued
  BY <1>2 DEF Register, git
<1>5. \A a \in Cards : InQueue(a) => task'[a] = task[a] /\ commit'[a] = commit[a]
  BY <1>3, <1>4
<1>6. SeenStill
  BY <1>4, <1>5, SeesNothing
<1> QED
  BY <1>6 DEF Register, SeenStill, SeenTask, SeenCommit, git, files,
              Scheduler!vars, Scheduler!git, Scheduler!ledger, Scheduler!files

\* git commit, and the integration of a card, move HEAD.
LEMMA HeadMoves ==
  ASSUME AInv, AInv',
         \/ \E p \in Processes : Commit(p)
         \/ \E c \in Cards : Integrate(c)
  PROVE  Scheduler!Environment
<1>1. /\ task' = task /\ commit' = commit /\ queued' = queued
      /\ head < MaxHead /\ head' = head + 1
      /\ UNCHANGED ledger /\ UNCHANGED files
      /\ UNCHANGED <<commit, lease, lock, todo, proc, faults>>
  BY DEF Commit, Integrate, ledger, effects
<1>2. SeenStill
  BY <1>1, SeesNothing
<1>3. MoveHead
  BY <1>1 DEF MoveHead
<1> QED
  BY <1>2, <1>3, OutsideIsStep

\* A step of the tick of a plan that is submitted.
LEMMA TickOnImplements ==
  ASSUME AInv, AInv', NEW p \in Processes, TickOn(p) \/ TickAdmits(p)
  PROVE  Scheduler!Step(p)
<1>1. AtStep(p, "tick") /\ queued' = queued
  BY DEF TickOn, TickAdmits, effects
<1>2. PICK c \in Cards : c = Card(p) /\ InQueue(c) /\ Ticking(proc[p], c)
  BY <1>1, AtTick
<1>3. proc[p].card = c
  BY <1>2 DEF Ticking
<1>4. CASE LoadCanonical(p) \/ Transit(p)
  BY <1>1, <1>2, <1>3, <1>4, LedgerStepsAreSteps
<1>5. ASSUME ReadQueue(p) \/ Decide(p) \/ Reserve(p) \/ LoadEntry(p) \/ LoadReceipt(p)
             \/ AcquireSlot(p) \/ AlignReceipt(p) \/ AlignQueue(p) \/ WriteOn(p)
             \/ Admitted(p)
      PROVE  SeenStill
  <2>1. UNCHANGED git /\ UNCHANGED ledger
    BY <1>5 DEF ReadQueue, Decide, Reserve, LoadEntry, LoadReceipt, AcquireSlot,
                AlignReceipt, AlignQueue, WriteOn, Admitted
  <2> QED
    BY <1>1, <2>1, SeesNothing DEF git, ledger
<1> QED
  BY <1>4, <1>5, ReadsAreSteps, WritesAreSteps, StopsAreSteps DEF TickOn, TickAdmits

\* A thread that stops.
LEMMA StopImplements ==
  ASSUME AInv, AInv', NEW p \in Processes, Stop(p)
  PROVE  Scheduler!Step(p) \/ UNCHANGED Scheduler!vars
<1>1. queued' = queued
  BY DEF Stop, effects
<1>2. CASE UNCHANGED vars
  BY <1>1, <1>2, RecordStepSeesNothing
<1>3. CASE AtStep(p, "tick") /\ TransitTorn(p)
  <2>1. PICK c \in Cards : c = Card(p) /\ InQueue(c) /\ Ticking(proc[p], c)
    BY <1>3, AtTick
  <2>2. proc[p].card = c
    BY <2>1 DEF Ticking
  <2> QED
    BY <1>1, <1>3, <2>1, <2>2, LedgerStepsAreSteps
<1>4. CASE GiveUp(p) \/ Fail(p) \/ Die(p)
  <2>1. UNCHANGED git /\ UNCHANGED ledger
    BY <1>4 DEF GiveUp, Fail, Die
  <2>2. SeenStill
    BY <1>1, <2>1, SeesNothing DEF git, ledger
  <2> QED
    BY <1>4, <2>2, StopsAreSteps
<1> QED
  BY <1>2, <1>3, <1>4 DEF Stop

\* A step of a thread of the admission.
LEMMA AdmitImplements ==
  ASSUME AInv, AInv', NEW p \in Processes, Admit(p)
  PROVE  Scheduler!Step(p) \/ Scheduler!Environment \/ UNCHANGED Scheduler!vars
<1>1. CASE \/ \E c \in Cards : Execute(p, c)
           \/ SaveDependenciesReady(p) \/ Prepare(p) \/ BindInputs(p) \/ SavePrepared(p)
           \/ SaveHandoffStarted(p) \/ BeginHandoff(p) \/ Bind(p) \/ Add(p)
           \/ Authorize(p) \/ SaveRegistered(p) \/ ReserveSequence(p) \/ SaveQueued(p)
           \/ SavePlan(p) \/ SaveSubmitted(p) \/ SaveHandoffFinalized(p)
           \/ SaveAdmitted(p) \/ StartPostAdmission(p) \/ SaveFinalized(p)
  <2>1. UNCHANGED vars /\ queued' = queued
    BY <1>1 DEF Execute, SaveDependenciesReady, Prepare, BindInputs, SavePrepared,
       SaveHandoffStarted, BeginHandoff, Bind, Add, Authorize, SaveRegistered,
       ReserveSequence, SaveQueued, SavePlan, SaveSubmitted, SaveHandoffFinalized,
       SaveAdmitted, StartPostAdmission, SaveFinalized, effects
  <2> QED
    BY <2>1, RecordStepSeesNothing
<1>2. CASE Commit(p)
  BY <1>2, HeadMoves
<1>3. CASE SaveGitEvidence(p) \/ Register(p)
  BY <1>3, SaveGitEvidenceUnseen, RegisterUnseen
<1>4. CASE Enqueue(p)
  BY <1>4, EnqueueIsStep
<1>5. CASE SubmitPlan(p)
  <2>1. "submit" \in JobStep \ {"none"}
    BY DEF JobStep
  <2>2. PICK c \in Cards :
          /\ c = Card(p) /\ job[p].at = "submit"
          /\ Outer(job[p], c) /\ Inner(job[p], c) /\ CardOK(c)
    BY <1>5, <2>1, AtStepFacts DEF SubmitPlan
  <2>3. handoff[c] >= 4
    BY <2>2 DEF Inner
  <2>4. InQueue(c)
    BY <2>2, <2>3 DEF CardOK, QueueOK
  <2>5. Submit(p, c) /\ queued' = queued
    BY <1>5, <2>2 DEF SubmitPlan, effects
  <2>6. SeenStill
    BY <2>5, SeesNothing DEF Submit, git, ledger
  <2> QED
    BY <2>4, <2>5, <2>6, SubmitIsStep
<1>6. CASE TickOn(p) \/ TickAdmits(p)
  BY <1>6, TickOnImplements
<1> QED
  BY <1>1, <1>2, <1>3, <1>4, <1>5, <1>6 DEF Admit

\* What happens elsewhere.
LEMMA ElsewhereImplements ==
  ASSUME AInv, AInv', Outside \/ \E c \in Cards : Work(c)
  PROVE  Scheduler!Environment \/ UNCHANGED Scheduler!vars
<1>1. CASE Outside
  <2>1. UNCHANGED git \/ MoveHead
    BY <1>1 DEF Outside, LeaseEnds
  <2>2. queued' = queued /\ task' = task /\ commit' = commit
    BY <1>1, <2>1 DEF Outside, MoveHead, LeaseEnds, effects, git, ledger
  <2>3. SeenStill
    BY <2>2, SeesNothing
  <2> QED
    BY <1>1, <2>3, OutsideIsStep DEF Outside
<1>2. ASSUME NEW c \in Cards, WorkerFinishes(c)
      PROVE  Scheduler!Environment
  <2>1. LeaseEnds(<<c, 1>>) /\ queued' = queued /\ task' = task /\ commit' = commit
    BY <1>2 DEF WorkerFinishes, LeaseEnds, effects, git, ledger
  <2>2. SeenStill
    BY <2>1, SeesNothing
  <2> QED
    BY <2>1, <2>2, OutsideIsStep
<1>3. ASSUME NEW c \in Cards, WorkerReserves(c) \/ WorkerStops(c) \/ ResumeWorker(c)
      PROVE  UNCHANGED Scheduler!vars
  <2>1. UNCHANGED vars /\ queued' = queued
    BY <1>3 DEF WorkerReserves, WorkerStops, ResumeWorker, effects
  <2> QED
    BY <2>1, RecordStepSeesNothing
<1>4. ASSUME NEW c \in Cards, Integrate(c)
      PROVE  Scheduler!Environment
  BY <1>4, HeadMoves
<1> QED
  BY <1>1, <1>2, <1>3, <1>4 DEF Work

\* At first no card is handed over.
LEMMA StartImplements ==
  ASSUME AdmissionInit
  PROVE  Scheduler!Init
<1>1. Init
  BY DEF AdmissionInit
<1>2. SeenTask = [c \in Cards |-> "none"] /\ SeenCommit = [c \in Cards |-> 0]
  BY <1>1 DEF Init, NoEntry, InQueue, SeenTask, SeenCommit
<1>3. Scheduler!Idle = Idle /\ Scheduler!NoEntry = NoEntry
  BY DEF Idle, Scheduler!Idle, NoEntry, Scheduler!NoEntry
<1>4. Scheduler!Gens = Gens
  BY DEF Gens, Scheduler!Gens
<1> QED
  BY <1>1, <1>2, <1>3, <1>4 DEF Init, Scheduler!Init, SeenTask, SeenCommit

\* What the admission does to the queue, the ledger and the slots is what the
\* scheduler does for cards that are handed over to it one at a time: binding,
\* registering and queueing a card, in three steps of which any may be made
\* again by another thread, are one handing over.
THEOREM AdmissionImplementsScheduler == AdmissionSpec => ImplementsScheduler
<1>1. AdmissionInit => Scheduler!Init
  BY StartImplements
<1>2. AInv /\ AInv' /\ [AdmissionNext]_admissionVars => [Scheduler!Next]_(Scheduler!vars)
  <2> SUFFICES ASSUME AInv, AInv', [AdmissionNext]_admissionVars
               PROVE  Scheduler!Next \/ UNCHANGED Scheduler!vars
    OBVIOUS
  <2>1. ASSUME NEW p \in Processes, Admit(p) \/ Stop(p)
        PROVE  Scheduler!Step(p) \/ Scheduler!Environment \/ UNCHANGED Scheduler!vars
    BY <2>1, AdmitImplements, StopImplements
  <2>2. CASE Outside \/ \E c \in Cards : Work(c)
    BY <2>2, ElsewhereImplements DEF Scheduler!Next
  <2>3. CASE UNCHANGED admissionVars
    BY <2>3, RecordStepSeesNothing DEF admissionVars, effects
  <2> QED
    BY <2>1, <2>2, <2>3 DEF AdmissionNext, Scheduler!Next
<1> QED
  BY <1>1, <1>2, AdmissionInvariance, PTL
     DEF AdmissionSpec, ImplementsScheduler, Scheduler!Spec
=============================================================================
