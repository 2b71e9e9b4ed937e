----------------------- MODULE WorkerSlotLeaseProofs -----------------------
(***************************************************************************)
(* Proofs about WorkerSlotLease, for every set of clients, kinds, slots    *)
(* and worktrees, every TTL and every bound.                               *)
(***************************************************************************)
EXTENDS WorkerSlotLease, TLAPS

-----------------------------------------------------------------------------
(* The inductive invariant. *)

\* The lock file: a client inside the locked section is the one it names.
LockHeld == \A c \in Clients : pc[c] \in Locked => lock = c

\* What a client has read is still the store when it acts on it.
SnapCurrent == \A c \in Clients : pc[c] = "loaded" => snap[c] = store

\* A call carries a time that has passed; an operation on a lease has one.
CallsMade ==
  \A c \in Clients : pc[c] # "idle" =>
    /\ call[c] \in Call
    /\ call[c].now <= clock
    /\ call[c].op # "acquire" => handle[c] \in Lease
    /\ call[c].op = "release" => c \in returned

\* A stored lease ends TTL after its last heartbeat.
ExpiryFixed ==
  \A s \in Slots : store.leases[s] # NoLease =>
    store.leases[s].expires = store.leases[s].heartbeat + TTL

\* A client's lease object is its own; while its epoch is the stored one, the
\* stored lease is that object, renewed or not.
HandleFaithful ==
  \A c \in Clients : handle[c] # NoLease =>
    /\ handle[c].holder = c
    /\ handle[c].kind = KindOf[handle[c].slot]
    /\ handle[c].epoch <= store.epochs[handle[c].slot]
    /\ Stored(handle[c]) =>
         /\ store.leases[handle[c].slot].worktree = handle[c].worktree
         /\ store.leases[handle[c].slot].acquired = handle[c].acquired
         /\ store.leases[handle[c].slot].expires >= handle[c].expires

\* The lease that a call is about to return is the stored one.
ReturnStored ==
  \A c \in Clients :
    /\ pc[c] # "unlock" => ret[c] = NoLease
    /\ ret[c] \in Lease => /\ ret[c].holder = c
                           /\ store.leases[ret[c].slot] = ret[c]

OwnedStored == \A c \in Clients : Owns(c) => Stored(handle[c])

FencedStored == \A c \in Clients : pc[c] = "fenced" => Stored(handle[c])

IInv ==
  /\ TypeOK
  /\ LockHeld
  /\ SnapCurrent
  /\ CallsMade
  /\ StoreValid
  /\ ExpiryFixed
  /\ HandleFaithful
  /\ ReturnStored
  /\ OwnedStored
  /\ FencedStored

-----------------------------------------------------------------------------
(* The steps that leave the store as it is. *)

\* A process that calls acquire_worker_slot keeps the inductive invariant.
LEMMA CallAcquireStep ==
  ASSUME IInv, NEW c \in Clients, CallAcquire(c)
  PROVE  IInv'
<1>1. TypeOK'
  BY NullsAssumption, ConstantsAssumption DEF IInv, TypeOK, PCs, Locked, Call, Ops, Lease, clientVars, vars, CallAcquire
<1>2. LockHeld' /\ SnapCurrent' /\ CallsMade'
  BY NullsAssumption, ConstantsAssumption DEF IInv, TypeOK, LockHeld, SnapCurrent, CallsMade, Locked, Call, Ops, Lease, clientVars, vars, CallAcquire
<1>3. StoreValid' /\ ExpiryFixed'
  BY DEF IInv, StoreValid, StoreValidFor, ExpiryFixed, clientVars, vars, CallAcquire
<1>4. HandleFaithful' /\ ReturnStored'
  BY NullsAssumption DEF IInv, TypeOK, HandleFaithful, ReturnStored, StoreValid, StoreValidFor, Stored, Lease, clientVars, vars, CallAcquire
<1>5. OwnedStored' /\ FencedStored'
  BY NullsAssumption DEF IInv, TypeOK, OwnedStored, FencedStored, ReturnStored, SnapCurrent, CallsMade, Owns, Stored, Lease, clientVars, vars, CallAcquire
<1> QED BY <1>1, <1>2, <1>3, <1>4, <1>5 DEF IInv

\* A process that calls renew, release or fence keeps the inductive invariant.
LEMMA CallWithLeaseStep ==
  ASSUME IInv, NEW c \in Clients, NEW op \in {"renew", "release", "fence"}, CallWithLease(c, op)
  PROVE  IInv'
<1>1. TypeOK'
  BY NullsAssumption, ConstantsAssumption DEF IInv, TypeOK, PCs, Locked, Call, Ops, Lease, clientVars, vars, CallWithLease
<1>2. LockHeld' /\ SnapCurrent' /\ CallsMade'
  BY NullsAssumption, ConstantsAssumption DEF IInv, TypeOK, LockHeld, SnapCurrent, CallsMade, Locked, Call, Ops, Lease, clientVars, vars, CallWithLease
<1>3. StoreValid' /\ ExpiryFixed'
  BY DEF IInv, StoreValid, StoreValidFor, ExpiryFixed, clientVars, vars, CallWithLease
<1>4. HandleFaithful' /\ ReturnStored'
  BY NullsAssumption DEF IInv, TypeOK, HandleFaithful, ReturnStored, StoreValid, StoreValidFor, Stored, Lease, clientVars, vars, CallWithLease
<1>5. OwnedStored' /\ FencedStored'
  BY NullsAssumption DEF IInv, TypeOK, OwnedStored, FencedStored, ReturnStored, SnapCurrent, CallsMade, Owns, Stored, Lease, clientVars, vars, CallWithLease
<1> QED BY <1>1, <1>2, <1>3, <1>4, <1>5 DEF IInv

\* _exclusive_store_lock that creates the lock file keeps the invariant.
LEMMA LockStep ==
  ASSUME IInv, NEW c \in Clients, Lock(c)
  PROVE  IInv'
<1>1. TypeOK'
  BY NullsAssumption, ConstantsAssumption DEF IInv, TypeOK, PCs, Locked, Call, Ops, Lease, clientVars, vars, Lock
<1>2. LockHeld' /\ SnapCurrent' /\ CallsMade'
  BY NullsAssumption, ConstantsAssumption DEF IInv, TypeOK, LockHeld, SnapCurrent, CallsMade, Locked, Call, Ops, Lease, clientVars, vars, Lock
<1>3. StoreValid' /\ ExpiryFixed'
  BY DEF IInv, StoreValid, StoreValidFor, ExpiryFixed, clientVars, vars, Lock
<1>4. HandleFaithful' /\ ReturnStored'
  BY NullsAssumption DEF IInv, TypeOK, HandleFaithful, ReturnStored, StoreValid, StoreValidFor, Stored, Lease, clientVars, vars, Lock
<1>5. OwnedStored' /\ FencedStored'
  BY NullsAssumption DEF IInv, TypeOK, OwnedStored, FencedStored, ReturnStored, SnapCurrent, CallsMade, Owns, Stored, Lease, clientVars, vars, Lock
<1> QED BY <1>1, <1>2, <1>3, <1>4, <1>5 DEF IInv

\* _exclusive_store_lock that finds a lock file keeps the invariant.
LEMMA ContendStep ==
  ASSUME IInv, NEW c \in Clients, Contend(c)
  PROVE  IInv'
<1>1. TypeOK'
  BY NullsAssumption, ConstantsAssumption DEF IInv, TypeOK, PCs, Locked, Call, Ops, Lease, clientVars, vars, Contend
<1>2. LockHeld' /\ SnapCurrent' /\ CallsMade'
  BY NullsAssumption, ConstantsAssumption DEF IInv, TypeOK, LockHeld, SnapCurrent, CallsMade, Locked, Call, Ops, Lease, clientVars, vars, Contend
<1>3. StoreValid' /\ ExpiryFixed'
  BY DEF IInv, StoreValid, StoreValidFor, ExpiryFixed, clientVars, vars, Contend
<1>4. HandleFaithful' /\ ReturnStored'
  BY NullsAssumption DEF IInv, TypeOK, HandleFaithful, ReturnStored, StoreValid, StoreValidFor, Stored, Lease, clientVars, vars, Contend
<1>5. OwnedStored' /\ FencedStored'
  BY NullsAssumption DEF IInv, TypeOK, OwnedStored, FencedStored, ReturnStored, SnapCurrent, CallsMade, Owns, Stored, Lease, clientVars, vars, Contend
<1> QED BY <1>1, <1>2, <1>3, <1>4, <1>5 DEF IInv

\* _read_store_unlocked, under the lock, keeps the invariant.
LEMMA ReadStep ==
  ASSUME IInv, NEW c \in Clients, Read(c)
  PROVE  IInv'
<1>1. TypeOK'
  BY NullsAssumption, ConstantsAssumption DEF IInv, TypeOK, PCs, Locked, Call, Ops, Lease, clientVars, vars, Read
<1>2. LockHeld' /\ SnapCurrent' /\ CallsMade'
  BY NullsAssumption, ConstantsAssumption DEF IInv, TypeOK, LockHeld, SnapCurrent, CallsMade, Locked, Call, Ops, Lease, clientVars, vars, Read
<1>3. StoreValid' /\ ExpiryFixed'
  BY DEF IInv, StoreValid, StoreValidFor, ExpiryFixed, clientVars, vars, Read
<1>4. HandleFaithful' /\ ReturnStored'
  BY NullsAssumption DEF IInv, TypeOK, HandleFaithful, ReturnStored, StoreValid, StoreValidFor, Stored, Lease, clientVars, vars, Read
<1>5. OwnedStored' /\ FencedStored'
  BY NullsAssumption DEF IInv, TypeOK, OwnedStored, FencedStored, ReturnStored, SnapCurrent, CallsMade, Owns, Stored, Lease, clientVars, vars, Read
<1> QED BY <1>1, <1>2, <1>3, <1>4, <1>5 DEF IInv

\* A call that is refused, and writes nothing, keeps the invariant.
LEMMA RefuseStep ==
  ASSUME IInv, NEW c \in Clients, Refuse(c)
  PROVE  IInv'
<1>1. TypeOK'
  BY NullsAssumption, ConstantsAssumption DEF IInv, TypeOK, PCs, Locked, Call, Ops, Lease, clientVars, vars, Refuse
<1>2. LockHeld' /\ SnapCurrent' /\ CallsMade'
  BY NullsAssumption, ConstantsAssumption DEF IInv, TypeOK, LockHeld, SnapCurrent, CallsMade, Locked, Call, Ops, Lease, clientVars, vars, Refuse
<1>3. StoreValid' /\ ExpiryFixed'
  BY DEF IInv, StoreValid, StoreValidFor, ExpiryFixed, clientVars, vars, Refuse
<1>4. HandleFaithful' /\ ReturnStored'
  BY NullsAssumption DEF IInv, TypeOK, HandleFaithful, ReturnStored, StoreValid, StoreValidFor, Stored, Lease, clientVars, vars, Refuse
<1>5. OwnedStored' /\ FencedStored'
  BY NullsAssumption DEF IInv, TypeOK, OwnedStored, FencedStored, ReturnStored, SnapCurrent, CallsMade, Owns, Stored, Lease, clientVars, vars, Refuse
<1> QED BY <1>1, <1>2, <1>3, <1>4, <1>5 DEF IInv

\* hold_worker_slot_fence, its checks passed, keeps the invariant.
LEMMA EnterFenceStep ==
  ASSUME IInv, NEW c \in Clients, EnterFence(c)
  PROVE  IInv'
<1>1. TypeOK'
  BY NullsAssumption, ConstantsAssumption DEF IInv, TypeOK, PCs, Locked, Call, Ops, Lease, clientVars, vars, EnterFence
<1>2. LockHeld' /\ SnapCurrent' /\ CallsMade'
  <2>1. LockHeld'
    BY DEF IInv, TypeOK, LockHeld, Locked, clientVars, EnterFence
  <2>2. SnapCurrent'
    BY DEF IInv, TypeOK, SnapCurrent, Locked, clientVars, EnterFence
  <2>3. CallsMade'
    BY DEF IInv, CallsMade, clientVars, EnterFence
  <2> QED
    BY <2>1, <2>2, <2>3
<1>3. StoreValid' /\ ExpiryFixed'
  BY DEF IInv, StoreValid, StoreValidFor, ExpiryFixed, clientVars, vars, EnterFence
<1>4. HandleFaithful' /\ ReturnStored'
  BY NullsAssumption DEF IInv, TypeOK, HandleFaithful, ReturnStored, StoreValid, StoreValidFor, Stored, Lease, clientVars, vars, EnterFence
<1>5. OwnedStored'
  BY DEF IInv, OwnedStored, Owns, Stored, clientVars, EnterFence
<1>6. FencedStored'
  <2>1. Stored(handle[c])
    BY DEF IInv, SnapCurrent, Stored, EnterFence, MayUse, SameLease, StoredFor
  <2>2. \A d \in Clients : d # c => pc'[d] = pc[d]
    BY DEF IInv, TypeOK, EnterFence
  <2> QED
    BY <2>1, <2>2 DEF IInv, FencedStored, Stored, clientVars, EnterFence
<1> QED BY <1>1, <1>2, <1>3, <1>4, <1>5, <1>6 DEF IInv

\* The end of a fenced block keeps the invariant.
LEMMA LeaveFenceStep ==
  ASSUME IInv, NEW c \in Clients, LeaveFence(c)
  PROVE  IInv'
<1>1. TypeOK'
  BY NullsAssumption, ConstantsAssumption DEF IInv, TypeOK, PCs, Locked, Call, Ops, Lease, clientVars, vars, LeaveFence
<1>2. LockHeld' /\ SnapCurrent' /\ CallsMade'
  BY NullsAssumption, ConstantsAssumption DEF IInv, TypeOK, LockHeld, SnapCurrent, CallsMade, Locked, Call, Ops, Lease, clientVars, vars, LeaveFence
<1>3. StoreValid' /\ ExpiryFixed'
  BY DEF IInv, StoreValid, StoreValidFor, ExpiryFixed, clientVars, vars, LeaveFence
<1>4. HandleFaithful' /\ ReturnStored'
  BY NullsAssumption DEF IInv, TypeOK, HandleFaithful, ReturnStored, StoreValid, StoreValidFor, Stored, Lease, clientVars, vars, LeaveFence
<1>5. OwnedStored' /\ FencedStored'
  BY NullsAssumption DEF IInv, TypeOK, OwnedStored, FencedStored, ReturnStored, SnapCurrent, CallsMade, Owns, Stored, Lease, clientVars, vars, LeaveFence
<1> QED BY <1>1, <1>2, <1>3, <1>4, <1>5 DEF IInv

\* The unlink of the own lock file, and the return to the caller, keep it.
LEMMA UnlockStep ==
  ASSUME IInv, NEW c \in Clients, Unlock(c)
  PROVE  IInv'
<1>1. TypeOK'
  BY NullsAssumption, ConstantsAssumption DEF IInv, TypeOK, PCs, Locked, Call, Ops, Lease, clientVars, vars, Unlock, Deliver
<1>2. LockHeld' /\ SnapCurrent' /\ CallsMade'
  BY NullsAssumption, ConstantsAssumption DEF IInv, TypeOK, LockHeld, SnapCurrent, CallsMade, Locked, Call, Ops, Lease, clientVars, vars, Unlock, Deliver
<1>3. StoreValid' /\ ExpiryFixed'
  BY DEF IInv, StoreValid, StoreValidFor, ExpiryFixed, clientVars, vars, Unlock, Deliver
<1>4. HandleFaithful' /\ ReturnStored'
  BY NullsAssumption DEF IInv, TypeOK, HandleFaithful, ReturnStored, StoreValid, StoreValidFor, Stored, Lease, clientVars, vars, Unlock, Deliver
<1>5. OwnedStored' /\ FencedStored'
  BY NullsAssumption DEF IInv, TypeOK, OwnedStored, FencedStored, ReturnStored, SnapCurrent, CallsMade, Owns, Stored, Lease, clientVars, vars, Unlock, Deliver
<1> QED BY <1>1, <1>2, <1>3, <1>4, <1>5 DEF IInv

\* An unlink of the lock file that fails keeps the invariant.
LEMMA UnlockFailsStep ==
  ASSUME IInv, NEW c \in Clients, UnlockFails(c)
  PROVE  IInv'
<1>1. TypeOK'
  BY NullsAssumption, ConstantsAssumption DEF IInv, TypeOK, PCs, Locked, Call, Ops, Lease, clientVars, vars, UnlockFails, Deliver
<1>2. LockHeld' /\ SnapCurrent' /\ CallsMade'
  BY NullsAssumption, ConstantsAssumption DEF IInv, TypeOK, LockHeld, SnapCurrent, CallsMade, Locked, Call, Ops, Lease, clientVars, vars, UnlockFails, Deliver
<1>3. StoreValid' /\ ExpiryFixed'
  BY DEF IInv, StoreValid, StoreValidFor, ExpiryFixed, clientVars, vars, UnlockFails, Deliver
<1>4. HandleFaithful' /\ ReturnStored'
  BY NullsAssumption DEF IInv, TypeOK, HandleFaithful, ReturnStored, StoreValid, StoreValidFor, Stored, Lease, clientVars, vars, UnlockFails, Deliver
<1>5. OwnedStored' /\ FencedStored'
  BY NullsAssumption DEF IInv, TypeOK, OwnedStored, FencedStored, ReturnStored, SnapCurrent, CallsMade, Owns, Stored, Lease, clientVars, vars, UnlockFails, Deliver
<1> QED BY <1>1, <1>2, <1>3, <1>4, <1>5 DEF IInv

\* The death of a process, anywhere in a call, keeps the invariant.
LEMMA CrashStep ==
  ASSUME IInv, NEW c \in Clients, Crash(c)
  PROVE  IInv'
<1>1. TypeOK'
  BY NullsAssumption, ConstantsAssumption DEF IInv, TypeOK, PCs, Locked, Call, Ops, Lease, clientVars, vars, Crash
<1>2. LockHeld' /\ SnapCurrent' /\ CallsMade'
  BY NullsAssumption, ConstantsAssumption DEF IInv, TypeOK, LockHeld, SnapCurrent, CallsMade, Locked, Call, Ops, Lease, clientVars, vars, Crash
<1>3. StoreValid' /\ ExpiryFixed'
  BY DEF IInv, StoreValid, StoreValidFor, ExpiryFixed, clientVars, vars, Crash
<1>4. HandleFaithful' /\ ReturnStored'
  BY NullsAssumption DEF IInv, TypeOK, HandleFaithful, ReturnStored, StoreValid, StoreValidFor, Stored, Lease, clientVars, vars, Crash
<1>5. OwnedStored' /\ FencedStored'
  BY NullsAssumption DEF IInv, TypeOK, OwnedStored, FencedStored, ReturnStored, SnapCurrent, CallsMade, Owns, Stored, Lease, clientVars, vars, Crash
<1> QED BY <1>1, <1>2, <1>3, <1>4, <1>5 DEF IInv

\* Removing by hand the lock file of a dead process keeps the invariant.
LEMMA RemoveOrphanLockStep ==
  ASSUME IInv, RemoveOrphanLock
  PROVE  IInv'
<1>1. TypeOK'
  BY NullsAssumption, ConstantsAssumption DEF IInv, TypeOK, PCs, Locked, Call, Ops, Lease, clientVars, vars, RemoveOrphanLock
<1>2. LockHeld' /\ SnapCurrent' /\ CallsMade'
  BY NullsAssumption, ConstantsAssumption DEF IInv, TypeOK, LockHeld, SnapCurrent, CallsMade, Locked, Call, Ops, Lease, clientVars, vars, RemoveOrphanLock
<1>3. StoreValid' /\ ExpiryFixed'
  BY DEF IInv, StoreValid, StoreValidFor, ExpiryFixed, clientVars, vars, RemoveOrphanLock
<1>4. HandleFaithful' /\ ReturnStored'
  BY NullsAssumption DEF IInv, TypeOK, HandleFaithful, ReturnStored, StoreValid, StoreValidFor, Stored, Lease, clientVars, vars, RemoveOrphanLock
<1>5. OwnedStored' /\ FencedStored'
  BY NullsAssumption DEF IInv, TypeOK, OwnedStored, FencedStored, ReturnStored, SnapCurrent, CallsMade, Owns, Stored, Lease, clientVars, vars, RemoveOrphanLock
<1> QED BY <1>1, <1>2, <1>3, <1>4, <1>5 DEF IInv

\* The passing of time keeps the invariant: a lease can only run out.
LEMMA TickStep ==
  ASSUME IInv, Tick
  PROVE  IInv'
<1>1. TypeOK'
  BY NullsAssumption, ConstantsAssumption DEF IInv, TypeOK, PCs, Locked, Call, Ops, Lease, clientVars, vars, Tick
<1>2. LockHeld' /\ SnapCurrent' /\ CallsMade'
  BY NullsAssumption, ConstantsAssumption DEF IInv, TypeOK, LockHeld, SnapCurrent, CallsMade, Locked, Call, Ops, Lease, clientVars, vars, Tick
<1>3. StoreValid' /\ ExpiryFixed'
  BY DEF IInv, StoreValid, StoreValidFor, ExpiryFixed, clientVars, vars, Tick
<1>4. HandleFaithful' /\ ReturnStored'
  BY NullsAssumption DEF IInv, TypeOK, HandleFaithful, ReturnStored, StoreValid, StoreValidFor, Stored, Lease, clientVars, vars, Tick
<1>5. OwnedStored' /\ FencedStored'
  BY NullsAssumption DEF IInv, TypeOK, OwnedStored, FencedStored, ReturnStored, SnapCurrent, CallsMade, Owns, Stored, Lease, clientVars, vars, Tick
<1> QED BY <1>1, <1>2, <1>3, <1>4, <1>5 DEF IInv

\* A step that changes nothing keeps the invariant.
LEMMA StutterStep ==
  ASSUME IInv, UNCHANGED vars
  PROVE  IInv'
<1>1. TypeOK'
  BY NullsAssumption, ConstantsAssumption DEF IInv, TypeOK, PCs, Locked, Call, Ops, Lease, clientVars, vars
<1>2. LockHeld' /\ SnapCurrent' /\ CallsMade'
  BY NullsAssumption, ConstantsAssumption DEF IInv, TypeOK, LockHeld, SnapCurrent, CallsMade, Locked, Call, Ops, Lease, clientVars, vars
<1>3. StoreValid' /\ ExpiryFixed'
  BY DEF IInv, StoreValid, StoreValidFor, ExpiryFixed, clientVars, vars
<1>4. HandleFaithful' /\ ReturnStored'
  BY NullsAssumption DEF IInv, TypeOK, HandleFaithful, ReturnStored, StoreValid, StoreValidFor, Stored, Lease, clientVars, vars
<1>5. OwnedStored' /\ FencedStored'
  BY NullsAssumption DEF IInv, TypeOK, OwnedStored, FencedStored, ReturnStored, SnapCurrent, CallsMade, Owns, Stored, Lease, clientVars, vars
<1> QED BY <1>1, <1>2, <1>3, <1>4, <1>5 DEF IInv

-----------------------------------------------------------------------------
(* The steps that write the store. *)

\* What an acquire writes has the types of a lease and of a store.
LEMMA AcquireTypes ==
  ASSUME IInv, NEW c \in Clients, pc[c] = "loaded", NEW s \in Slots
  PROVE  /\ NewLease(c, s, snap[c].epochs[s] + 1) \in Lease
         /\ AcquiredStore(c, s) \in Store
<1>1. call[c] \in Call /\ snap[c] \in Store
  BY DEF IInv, TypeOK, SnapCurrent, CallsMade
<1>2. call[c].now \in Nat /\ call[c].kind \in Kinds /\ call[c].worktree \in Worktrees
  BY <1>1 DEF Call
<1>3. snap[c].epochs \in [Slots -> Nat] /\ snap[c].leases \in [Slots -> Lease \cup {NoLease}]
  BY <1>1 DEF Store
<1>4. NewLease(c, s, snap[c].epochs[s] + 1) \in Lease
  BY <1>2, <1>3, ConstantsAssumption DEF NewLease, Lease
<1>5. Purged(snap[c].leases, call[c].now) \in [Slots -> Lease \cup {NoLease}]
  BY <1>3 DEF Purged
<1>6. AcquiredStore(c, s) \in Store
  BY <1>2, <1>3, <1>4, <1>5 DEF AcquiredStore, Store
<1> QED BY <1>4, <1>6

\* release_worker_slot: the holder's own lease goes, and nobody else's.
LEMMA ReleaseStep ==
  ASSUME IInv, NEW c \in Clients, Release(c)
  PROVE  IInv'
<1> DEFINE sl == handle[c].slot
<1>1. /\ call[c] \in Call /\ snap[c] = store /\ store \in Store
      /\ handle[c] \in Lease /\ c \in returned /\ lock = c /\ pc[c] = "loaded"
  BY DEF IInv, TypeOK, SnapCurrent, CallsMade, Release, LockHeld, Locked
<1>2. /\ sl \in Slots /\ call[c].now \in Nat
      /\ store.leases \in [Slots -> Lease \cup {NoLease}]
      /\ store.epochs \in [Slots -> Nat]
  BY <1>1 DEF Call, Lease, Store
<1>3. /\ store' = [updated |-> call[c].now, epochs |-> store.epochs,
                   leases |-> [store.leases EXCEPT ![sl] = NoLease]]
      /\ store' \in Store
  BY <1>1, <1>2 DEF Release, Replace, StoreWith, Store
<1>3a. ret' \in {[ret EXCEPT ![c] = NoLease], [ret EXCEPT ![c] = Raised]}
  BY DEF Release, Replace
<1>3b. /\ UNCHANGED <<clock, lock, call, snap, handle, returned>>
       /\ pc' = [pc EXCEPT ![c] = "unlock"]
  BY DEF Release, Replace
<1>4. Stored(handle[c])
  BY <1>1 DEF Release, MayRelease, SameLease, StoredFor, Stored
<1>5. TypeOK'
  BY <1>3, <1>3a, <1>3b DEF IInv, TypeOK, PCs, Locked
<1>6. LockHeld' /\ SnapCurrent' /\ CallsMade' /\ FencedStored'
  BY <1>1, <1>3b DEF IInv, TypeOK, LockHeld, SnapCurrent, CallsMade, FencedStored, Locked
<1>7. StoreValid' /\ ExpiryFixed'
  BY <1>2, <1>3 DEF IInv, StoreValid, StoreValidFor, ExpiryFixed
<1>8. HandleFaithful'
  BY <1>2, <1>3, <1>3b DEF IInv, TypeOK, HandleFaithful, Stored, Lease
<1>9. ReturnStored'
  BY <1>1, <1>3, <1>3a, <1>3b, NullsAssumption DEF IInv, TypeOK, LockHeld, Locked, ReturnStored
<1>10. OwnedStored'
  BY <1>1, <1>2, <1>3, <1>3b, <1>4, NullsAssumption DEF IInv, TypeOK, OwnedStored, HandleFaithful, Owns, Stored, Lease
<1> QED BY <1>5, <1>6, <1>7, <1>8, <1>9, <1>10 DEF IInv

\* renew_worker_slot: the slot keeps its lease, with a later end.
LEMMA RenewStep ==
  ASSUME IInv, NEW c \in Clients, Renew(c)
  PROVE  IInv'
<1> DEFINE sl == handle[c].slot
           old == store.leases[sl]
           new == Renewed(handle[c], call[c].now)
<1>1. /\ call[c] \in Call /\ snap[c] = store /\ store \in Store
      /\ handle[c] \in Lease /\ lock = c /\ pc[c] = "loaded"
  BY DEF IInv, TypeOK, SnapCurrent, CallsMade, Renew, LockHeld, Locked
<1>2. /\ sl \in Slots /\ call[c].now \in Nat /\ TTL \in Nat /\ TTL > 0
      /\ store.leases \in [Slots -> Lease \cup {NoLease}]
      /\ store.epochs \in [Slots -> Nat]
  BY <1>1, ConstantsAssumption DEF Call, Lease, Store
<1>3. /\ Stored(handle[c])
      /\ old \in Lease
      /\ call[c].now >= old.heartbeat
      /\ call[c].now < old.expires
  BY <1>1, <1>2 DEF Renew, MayUse, SameLease, StoredFor, Stored
<1>4. /\ handle[c].holder = c
      /\ handle[c].kind = KindOf[sl]
      /\ old.worktree = handle[c].worktree
      /\ old.acquired = handle[c].acquired
      /\ old.expires >= handle[c].expires
  BY <1>1, <1>3, NullsAssumption DEF IInv, HandleFaithful
<1>5. /\ old.slot = sl /\ old.kind = KindOf[sl] /\ old.epoch = store.epochs[sl]
      /\ old.acquired <= old.heartbeat
      /\ old.expires = old.heartbeat + TTL
      /\ old.epoch = handle[c].epoch /\ old.holder = c
  BY <1>2, <1>3, <1>4 DEF IInv, StoreValid, StoreValidFor, ExpiryFixed, Stored
<1>6. new = [handle[c] EXCEPT !.heartbeat = call[c].now,
                              !.expires = call[c].now + TTL]
  BY DEF Renewed
<1>7. new \in Lease
  <2>1. call[c].now + TTL \in Nat
    BY <1>2
  <2> QED BY <1>1, <1>2, <1>6, <2>1 DEF Lease
<1>8. /\ new.slot = sl /\ new.epoch = old.epoch /\ new.kind = old.kind
      /\ new.holder = c /\ new.worktree = old.worktree
      /\ new.acquired = old.acquired /\ new.heartbeat = call[c].now
      /\ new.expires = call[c].now + TTL
  BY <1>1, <1>4, <1>5, <1>6 DEF Lease
<1>9. /\ old.acquired \in Nat /\ old.heartbeat \in Nat /\ old.expires \in Nat
  BY <1>3 DEF Lease
<1>10. /\ new.acquired <= new.heartbeat
       /\ new.heartbeat < new.expires
       /\ new.expires >= old.expires
  BY <1>2, <1>3, <1>5, <1>8, <1>9
<1>11. /\ store' = [updated |-> call[c].now, epochs |-> store.epochs,
                    leases |-> [store.leases EXCEPT ![sl] = new]]
       /\ store' \in Store
  BY <1>1, <1>2, <1>7 DEF Renew, Replace, StoreWith, Store
<1>12. /\ ret' \in {[ret EXCEPT ![c] = new], [ret EXCEPT ![c] = Raised]}
       /\ UNCHANGED <<clock, lock, call, snap, handle, returned>>
       /\ pc' = [pc EXCEPT ![c] = "unlock"]
  BY DEF Renew, Replace
<1> HIDE DEF new
<1>13. TypeOK'
  BY <1>7, <1>11, <1>12 DEF IInv, TypeOK, PCs, Locked
<1>14. LockHeld' /\ SnapCurrent' /\ CallsMade' /\ FencedStored'
  BY <1>1, <1>12 DEF IInv, TypeOK, LockHeld, SnapCurrent, CallsMade, FencedStored, Locked
<1>15. StoreValid'
  <2>1. \A s \in Slots : store'.leases[s] = IF s = sl THEN new ELSE store.leases[s]
    BY <1>2, <1>11
  <2>2. store'.epochs = store.epochs
    BY <1>11
  <2>3. new # NoLease /\ old # NoLease
    BY <1>3, <1>7, NullsAssumption
  <2> QED BY <1>2, <1>5, <1>8, <1>10, <2>1, <2>2, <2>3 DEF IInv, StoreValid, StoreValidFor
<1>16. ExpiryFixed'
  BY <1>2, <1>8, <1>11 DEF IInv, ExpiryFixed
<1>17. HandleFaithful'
  <2> SUFFICES ASSUME NEW d \in Clients, handle[d] # NoLease
               PROVE  /\ handle[d].holder = d
                      /\ handle[d].kind = KindOf[handle[d].slot]
                      /\ handle[d].epoch <= store.epochs[handle[d].slot]
                      /\ Stored(handle[d])' =>
                           /\ store'.leases[handle[d].slot].worktree = handle[d].worktree
                           /\ store'.leases[handle[d].slot].acquired = handle[d].acquired
                           /\ store'.leases[handle[d].slot].expires >= handle[d].expires
    BY <1>11, <1>12 DEF HandleFaithful
  <2>1. handle[d] \in Lease /\ handle[d].slot \in Slots /\ handle[d].expires \in Nat
    BY DEF IInv, TypeOK, Lease
  <2>2. CASE handle[d].slot # sl
    BY <1>2, <1>11, <1>12, <2>1, <2>2 DEF IInv, HandleFaithful, Stored
  <2>3. CASE handle[d].slot = sl
    <3>1. Stored(handle[d])' => Stored(handle[d])
      BY <1>2, <1>3, <1>5, <1>8, <1>11, <1>12, <2>3 DEF Stored
    <3>2. /\ handle[d].holder = d
          /\ handle[d].kind = KindOf[handle[d].slot]
          /\ handle[d].epoch <= store.epochs[handle[d].slot]
          /\ Stored(handle[d]) =>
               /\ old.worktree = handle[d].worktree
               /\ old.acquired = handle[d].acquired
               /\ old.expires >= handle[d].expires
      BY <2>3 DEF IInv, HandleFaithful
    <3>3. store'.leases[sl] = new
      BY <1>2, <1>11 DEF Store
    <3>4. new.expires \in Nat
      BY <1>7 DEF Lease
    <3> QED BY <1>8, <1>9, <1>10, <2>1, <2>3, <3>1, <3>2, <3>3, <3>4
  <2> QED BY <2>2, <2>3
<1>18. ReturnStored'
  <2>1. \A d \in Clients : d # c => ret'[d] = NoLease
    BY <1>1, <1>12 DEF IInv, TypeOK, LockHeld, Locked, ReturnStored
  <2>2. ret'[c] \in {new, Raised}
    BY <1>12 DEF IInv, TypeOK
  <2>3. store'.leases[sl] = new /\ pc'[c] = "unlock"
    BY <1>2, <1>11, <1>12 DEF IInv, TypeOK
  <2> QED BY <1>8, <2>1, <2>2, <2>3, NullsAssumption DEF ReturnStored
<1>19. OwnedStored'
  <2> SUFFICES ASSUME NEW d \in Clients, Owns(d)
               PROVE  Stored(handle[d])'
    BY <1>12 DEF OwnedStored, Owns
  <2>1. Stored(handle[d]) /\ handle[d].slot \in Slots
    BY DEF IInv, TypeOK, OwnedStored, Owns, Lease
  <2>2. CASE handle[d].slot # sl
    BY <1>2, <1>11, <1>12, <2>1, <2>2 DEF Stored
  <2>3. CASE handle[d].slot = sl
    BY <1>2, <1>5, <1>7, <1>8, <1>11, <1>12, <2>1, <2>3, NullsAssumption DEF Stored
  <2> QED BY <2>2, <2>3
<1> QED BY <1>13, <1>14, <1>15, <1>16, <1>17, <1>18, <1>19 DEF IInv

\* acquire_worker_slot: the purge spares every lease whose time is not over,
\* and the new lease takes a slot that nobody owns under a fresh epoch.
LEMMA AcquireStep ==
  ASSUME IInv, NEW c \in Clients, Acquire(c)
  PROVE  IInv'
<1>1. PICK s \in Slots :
        /\ MayAcquire(c, s)
        /\ Replace(c, AcquiredStore(c, s),
                   NewLease(c, s, snap[c].epochs[s] + 1))
  BY DEF Acquire
<1> DEFINE now == call[c].now
           live == Purged(store.leases, now)
           new == NewLease(c, s, store.epochs[s] + 1)
<1>2. /\ call[c] \in Call /\ snap[c] = store /\ store \in Store
      /\ lock = c /\ pc[c] = "loaded" /\ now <= clock /\ clock \in Nat
  BY DEF IInv, TypeOK, SnapCurrent, CallsMade, Acquire, LockHeld, Locked
<1>3. /\ now \in Nat /\ TTL \in Nat /\ TTL > 0
      /\ store.leases \in [Slots -> Lease \cup {NoLease}]
      /\ store.epochs \in [Slots -> Nat]
  BY <1>2, ConstantsAssumption DEF Call, Store
<1>4. /\ new \in Lease
      /\ AcquiredStore(c, s) \in Store
  BY <1>2, AcquireTypes
<1>5. /\ new.slot = s /\ new.epoch = store.epochs[s] + 1
      /\ new.kind = KindOf[s] /\ new.holder = c /\ new.worktree = call[c].worktree
      /\ new.acquired = now /\ new.heartbeat = now /\ new.expires = now + TTL
  BY <1>1 DEF NewLease, MayAcquire, LowestFree
<1>6. /\ store' = [updated |-> now,
                   epochs |-> [store.epochs EXCEPT ![s] = store.epochs[s] + 1],
                   leases |-> [live EXCEPT ![s] = new]]
      /\ store' \in Store
  BY <1>1, <1>2, <1>4 DEF Replace, AcquiredStore
<1>7. /\ ret' \in {[ret EXCEPT ![c] = new], [ret EXCEPT ![c] = Raised]}
      /\ UNCHANGED <<clock, lock, call, snap, handle, returned>>
      /\ pc' = [pc EXCEPT ![c] = "unlock"]
  BY <1>1, <1>2 DEF Replace
<1>8. /\ live[s] = NoLease
      /\ \A t \in Slots : live[t] # NoLease /\ live[t].kind = KindOf[s]
                            => live[t].worktree # new.worktree
  BY <1>1, <1>2, <1>5 DEF MayAcquire, LowestFree, Duplicate
<1>9. \A t \in Slots :
        /\ live[t] # NoLease => live[t] = store.leases[t]
        /\ store.leases[t] # NoLease /\ now < store.leases[t].expires
             => live[t] = store.leases[t]
  BY <1>3 DEF Purged, Lease
<1>9a. live \in [Slots -> Lease \cup {NoLease}]
  BY <1>3 DEF Purged
<1> HIDE DEF new, live
<1>10. /\ \A t \in Slots : store'.leases[t] = IF t = s THEN new ELSE live[t]
       /\ \A t \in Slots : store'.epochs[t] =
            IF t = s THEN store.epochs[s] + 1 ELSE store.epochs[t]
  BY <1>3, <1>6, <1>9a
<1>11. new # NoLease
  BY <1>4, NullsAssumption
<1>12. TypeOK'
  BY <1>4, <1>6, <1>7 DEF IInv, TypeOK, PCs, Locked
<1>13. LockHeld' /\ SnapCurrent' /\ CallsMade' /\ FencedStored'
  BY <1>2, <1>7 DEF IInv, TypeOK, LockHeld, SnapCurrent, CallsMade, FencedStored, Locked
<1>14. StoreValid'
  BY <1>3, <1>5, <1>8, <1>9, <1>10, <1>11 DEF IInv, StoreValid, StoreValidFor
<1>15. ExpiryFixed'
  BY <1>5, <1>9, <1>10 DEF IInv, ExpiryFixed
<1>16. ASSUME NEW d \in Clients, handle[d] # NoLease
       PROVE  /\ handle[d] \in Lease
              /\ handle[d].slot \in Slots /\ handle[d].epoch \in Nat
              /\ handle[d].epoch <= store.epochs[handle[d].slot]
              /\ Stored(handle[d])' => Stored(handle[d]) /\ handle[d].slot # s
              /\ Stored(handle[d])' =>
                   store'.leases[handle[d].slot] = store.leases[handle[d].slot]
  <2>1. /\ handle[d] \in Lease
        /\ handle[d].slot \in Slots /\ handle[d].epoch \in Nat
        /\ handle[d].epoch <= store.epochs[handle[d].slot]
    BY <1>16 DEF IInv, TypeOK, HandleFaithful, Lease
  <2>2. Stored(handle[d])' => handle[d].slot # s
    BY <1>3, <1>5, <1>7, <1>10, <2>1 DEF Stored
  <2> QED BY <1>7, <1>9, <1>10, <2>1, <2>2 DEF Stored
<1>17. HandleFaithful'
  BY <1>3, <1>7, <1>10, <1>16 DEF IInv, HandleFaithful
<1>18. ReturnStored'
  <2>1. \A d \in Clients : d # c => ret'[d] = NoLease
    BY <1>2, <1>7 DEF IInv, TypeOK, LockHeld, Locked, ReturnStored
  <2>2. ret'[c] \in {new, Raised} /\ pc'[c] = "unlock"
    BY <1>7 DEF IInv, TypeOK
  <2> QED BY <1>5, <1>10, <2>1, <2>2, NullsAssumption DEF ReturnStored
<1>19. OwnedStored'
  <2> SUFFICES ASSUME NEW d \in Clients, Owns(d)
               PROVE  Stored(handle[d])'
    BY <1>7 DEF OwnedStored, Owns
  <2>1. /\ Stored(handle[d]) /\ handle[d].slot \in Slots
        /\ handle[d].expires <= store.leases[handle[d].slot].expires
        /\ clock < handle[d].expires
        /\ handle[d].expires \in Nat
        /\ store.leases[handle[d].slot].expires \in Nat
    BY <1>3 DEF IInv, TypeOK, OwnedStored, HandleFaithful, Owns, Lease, Stored
  <2>2. live[handle[d].slot] = store.leases[handle[d].slot]
    BY <1>2, <1>3, <1>9, <2>1 DEF Stored
  <2>3. handle[d].slot # s
    BY <1>8, <2>1, <2>2 DEF Stored
  <2> QED BY <1>7, <1>10, <2>1, <2>2, <2>3 DEF Stored
<1> QED BY <1>12, <1>13, <1>14, <1>15, <1>17, <1>18, <1>19 DEF IInv

-----------------------------------------------------------------------------
(* The theorems. *)

\* Every reachable state satisfies the inductive invariant.
THEOREM Invariance == Spec => []IInv
<1>1. Init => IInv
  <2> SUFFICES ASSUME Init PROVE IInv
    OBVIOUS
  <2>1. TypeOK
    BY ConstantsAssumption DEF Init, TypeOK, EmptyStore, Store, PCs
  <2>2. LockHeld /\ SnapCurrent /\ CallsMade /\ FencedStored
    BY DEF Init, LockHeld, SnapCurrent, CallsMade, FencedStored, Locked
  <2>3. StoreValid /\ ExpiryFixed
    BY DEF Init, StoreValid, StoreValidFor, ExpiryFixed, EmptyStore
  <2>4. HandleFaithful /\ ReturnStored /\ OwnedStored
    BY NullsAssumption DEF Init, HandleFaithful, ReturnStored, OwnedStored, Owns
  <2> QED BY <2>1, <2>2, <2>3, <2>4 DEF IInv
<1>2. IInv /\ [Next]_vars => IInv'
  BY CallAcquireStep, CallWithLeaseStep, LockStep, ContendStep, ReadStep,
     RefuseStep, AcquireStep, ReleaseStep, RenewStep, EnterFenceStep,
     LeaveFenceStep, UnlockStep, UnlockFailsStep, CrashStep,
     RemoveOrphanLockStep, TickStep, StutterStep
  DEF Next
<1> QED BY <1>1, <1>2, PTL DEF Spec

\* The variables keep their types.
THEOREM TypeCorrect == Spec => []TypeOK
<1>1. IInv => TypeOK
  BY DEF IInv
<1> QED BY <1>1, Invariance, PTL

\* validate_worker_slot_store never refuses what an operation writes.
THEOREM StoreAlwaysValid == Spec => []StoreValid
<1>1. IInv => StoreValid
  BY DEF IInv
<1> QED BY <1>1, Invariance, PTL

\* No two processes believe at once that they own a slot, or a worktree under
\* one kind, and what a process believes is what the store says.
THEOREM OwnershipExclusive == Spec => []OwnersExclusive
<1>1. IInv => OwnersExclusive
  <2> SUFFICES ASSUME IInv, NEW c \in Clients, Owns(c)
               PROVE  /\ Stored(handle[c])
                      /\ \A d \in Clients \ {c} : Owns(d) =>
                           /\ handle[d].slot # handle[c].slot
                           /\ handle[d].kind = handle[c].kind
                                => handle[d].worktree # handle[c].worktree
    BY DEF OwnersExclusive
  <2>1. \A d \in Clients : Owns(d) =>
          /\ Stored(handle[d])
          /\ handle[d] # NoLease
          /\ handle[d].slot \in Slots
          /\ handle[d].holder = d
          /\ store.leases[handle[d].slot].kind = handle[d].kind
          /\ store.leases[handle[d].slot].worktree = handle[d].worktree
    BY DEF IInv, TypeOK, OwnedStored, HandleFaithful, StoreValid, StoreValidFor,
           Owns, Stored, Lease
  <2> QED BY <2>1 DEF IInv, StoreValid, StoreValidFor, Stored
<1> QED BY <1>1, Invariance, PTL

\* The block under a fence runs for the slot's holder, one at a time.
THEOREM FenceExclusive == Spec => []FencedBodyOwnsSlot
<1>1. IInv => FencedBodyOwnsSlot
  BY DEF IInv, FencedStored, LockHeld, Locked, FencedBodyOwnsSlot
<1> QED BY <1>1, Invariance, PTL

\* What an acquire does to the slots: one that nobody owns gets a lease with
\* the next epoch, and of the others only expired leases go.
LEMMA AcquireEffect ==
  ASSUME IInv, NEW c \in Clients, Acquire(c)
  PROVE  \E s \in Slots :
           /\ store'.epochs = [store.epochs EXCEPT ![s] = store.epochs[s] + 1]
           /\ store'.leases[s] # NoLease
           /\ store'.leases[s].epoch = store.epochs[s] + 1
           /\ store.leases[s] # NoLease => clock >= store.leases[s].expires
           /\ \A t \in Slots \ {s} :
                \/ store'.leases[t] = store.leases[t]
                \/ /\ store'.leases[t] = NoLease
                   /\ store.leases[t] # NoLease => clock >= store.leases[t].expires
<1>1. PICK s \in Slots :
        /\ MayAcquire(c, s)
        /\ Replace(c, AcquiredStore(c, s),
                   NewLease(c, s, snap[c].epochs[s] + 1))
  BY DEF Acquire
<1> DEFINE now == call[c].now
           live == Purged(store.leases, now)
           new == NewLease(c, s, store.epochs[s] + 1)
<1>2. /\ snap[c] = store /\ store \in Store /\ pc[c] = "loaded"
      /\ now \in Nat /\ now <= clock /\ clock \in Nat
  BY DEF IInv, TypeOK, SnapCurrent, CallsMade, Acquire, Call
<1>3. new \in Lease /\ new.epoch = store.epochs[s] + 1
  BY <1>2, AcquireTypes DEF NewLease
<1>4. /\ store'.epochs = [store.epochs EXCEPT ![s] = store.epochs[s] + 1]
      /\ store'.leases = [live EXCEPT ![s] = new]
  BY <1>1, <1>2 DEF Replace, AcquiredStore
<1>5. live[s] = NoLease
  BY <1>1, <1>2 DEF MayAcquire, LowestFree
<1>6. /\ live \in [Slots -> Lease \cup {NoLease}]
      /\ \A t \in Slots :
           \/ live[t] = store.leases[t]
           \/ live[t] = NoLease /\ now >= store.leases[t].expires
  BY <1>2 DEF Purged, Store
<1>7. \A t \in Slots : store.leases[t] # NoLease => store.leases[t].expires \in Nat
  BY <1>2 DEF Store, Lease
<1> HIDE DEF live, new, now
<1>8. store'.leases[s] = new /\ \A t \in Slots \ {s} : store'.leases[t] = live[t]
  BY <1>4, <1>6
<1>9. store.leases[s] # NoLease => clock >= store.leases[s].expires
  BY <1>2, <1>5, <1>6, <1>7
<1>10. \A t \in Slots \ {s} :
         \/ store'.leases[t] = store.leases[t]
         \/ /\ store'.leases[t] = NoLease
            /\ store.leases[t] # NoLease => clock >= store.leases[t].expires
  BY <1>2, <1>6, <1>7, <1>8
<1>11. store'.leases[s] # NoLease /\ store'.leases[s].epoch = store.epochs[s] + 1
  BY <1>3, <1>8, NullsAssumption
<1> QED BY <1>4, <1>9, <1>10, <1>11

\* release_worker_slot empties the slot of the caller's lease, nothing else.
LEMMA ReleaseEffect ==
  ASSUME IInv, NEW c \in Clients, Release(c)
  PROVE  /\ store'.epochs = store.epochs
         /\ pc[c] = "loaded" /\ call[c].op = "release"
         /\ handle[c].slot \in Slots
         /\ store.leases[handle[c].slot].holder = c
         /\ store'.leases[handle[c].slot] = NoLease
         /\ \A t \in Slots \ {handle[c].slot} : store'.leases[t] = store.leases[t]
<1>1. /\ snap[c] = store /\ store \in Store /\ handle[c] \in Lease
      /\ pc[c] = "loaded" /\ call[c].op = "release" /\ handle[c].holder = c
  BY NullsAssumption
     DEF IInv, TypeOK, SnapCurrent, CallsMade, HandleFaithful, Release
<1>2. /\ store.leases \in [Slots -> Lease \cup {NoLease}]
      /\ handle[c].slot \in Slots
  BY <1>1 DEF Store, Lease
<1>3. /\ store'.epochs = store.epochs
      /\ store'.leases = [store.leases EXCEPT ![handle[c].slot] = NoLease]
  BY <1>1 DEF Release, Replace, StoreWith, Store
<1>4. store.leases[handle[c].slot].holder = c
  BY <1>1 DEF Release, MayRelease, StoredFor, SameLease
<1> QED BY <1>1, <1>2, <1>3, <1>4

\* renew_worker_slot moves only the end of the caller's lease, forwards.
LEMMA RenewEffect ==
  ASSUME IInv, NEW c \in Clients, Renew(c)
  PROVE  /\ store'.epochs = store.epochs
         /\ handle[c].slot \in Slots
         /\ \A t \in Slots \ {handle[c].slot} : store'.leases[t] = store.leases[t]
         /\ store'.leases[handle[c].slot] # NoLease
         /\ LET old == store.leases[handle[c].slot]
                new == store'.leases[handle[c].slot]
            IN /\ old # NoLease
               /\ new.epoch = old.epoch
               /\ new.holder = old.holder
               /\ new.expires >= old.expires
<1> DEFINE sl == handle[c].slot
           old == store.leases[sl]
<1>1. /\ snap[c] = store /\ store \in Store /\ handle[c] \in Lease
      /\ call[c] \in Call
  BY DEF IInv, TypeOK, SnapCurrent, CallsMade, Renew
<1>2. /\ sl \in Slots
      /\ store'.epochs = store.epochs
      /\ store'.leases = [store.leases EXCEPT ![sl] = Renewed(handle[c], call[c].now)]
  BY <1>1 DEF Renew, Replace, StoreWith, Store, Lease
<1>3. /\ old \in Lease /\ old.epoch = handle[c].epoch
      /\ old.holder = handle[c].holder /\ call[c].now >= old.heartbeat
  BY <1>1, <1>2 DEF Renew, MayUse, SameLease, StoredFor, Store
<1>4. old.expires = old.heartbeat + TTL
  BY <1>2, <1>3, NullsAssumption DEF IInv, ExpiryFixed
<1>5. call[c].now \in Nat /\ TTL \in Nat /\ old.heartbeat \in Nat
  BY <1>1, <1>3, ConstantsAssumption DEF Call, Lease
<1>6. /\ Renewed(handle[c], call[c].now).epoch = old.epoch
      /\ Renewed(handle[c], call[c].now).holder = old.holder
      /\ Renewed(handle[c], call[c].now).expires = call[c].now + TTL
      /\ Renewed(handle[c], call[c].now) # NoLease
  <2>1. call[c].now + TTL \in Nat
    BY <1>5
  <2>2. Renewed(handle[c], call[c].now) \in Lease
    BY <1>1, <1>5, <2>1 DEF Renewed, Lease
  <2> QED BY <1>1, <1>3, <2>2, NullsAssumption DEF Renewed, Lease
<1>7. store'.leases[sl] = Renewed(handle[c], call[c].now)
  BY <1>1, <1>2 DEF Store
<1>8. \A t \in Slots \ {sl} : store'.leases[t] = store.leases[t]
  BY <1>1, <1>2 DEF Store
<1>9. call[c].now + TTL >= old.expires
  BY <1>3, <1>4, <1>5
<1> QED BY <1>2, <1>3, <1>6, <1>7, <1>8, <1>9, NullsAssumption

\* The store changes by one of the three writes only.
LEMMA Writers ==
  ASSUME [Next]_vars
  PROVE  \/ store' = store
         \/ \E c \in Clients : Acquire(c) \/ Release(c) \/ Renew(c)
BY DEF Next, vars, clientVars, CallAcquire, CallWithLease, Lock, Contend, Read,
       Refuse, EnterFence, LeaveFence, Unlock, UnlockFails, Deliver, Crash,
       RemoveOrphanLock, Tick

\* Epochs never go back, and a new lease carries a fresh one.
THEOREM EpochsFenceHolds == Spec => EpochsFence
<1> DEFINE Fence == \A s \in Slots :
             /\ store'.epochs[s] >= store.epochs[s]
             /\ (/\ store'.leases[s] # NoLease
                 /\ \/ store.leases[s] = NoLease
                    \/ store.leases[s].epoch # store'.leases[s].epoch
                    \/ store.leases[s].holder # store'.leases[s].holder)
                => store'.leases[s].epoch > store.epochs[s]
<1>1. IInv /\ [Next]_vars => Fence
  <2> SUFFICES ASSUME IInv, [Next]_vars PROVE Fence
    OBVIOUS
  <2>1. store.epochs \in [Slots -> Nat] /\ store.leases \in [Slots -> Lease \cup {NoLease}]
    BY DEF IInv, TypeOK, Store
  <2>2. CASE store' = store
    BY <2>1, <2>2
  <2>3. ASSUME NEW c \in Clients, Acquire(c) PROVE Fence
    <3>1. PICK s \in Slots :
            /\ store'.epochs = [store.epochs EXCEPT ![s] = store.epochs[s] + 1]
            /\ store'.leases[s].epoch = store.epochs[s] + 1
            /\ \A t \in Slots \ {s} : \/ store'.leases[t] = store.leases[t]
                                     \/ store'.leases[t] = NoLease
      BY <2>3, AcquireEffect
    <3>2. /\ store.epochs[s] \in Nat
          /\ store'.epochs[s] = store.epochs[s] + 1
          /\ \A t \in Slots \ {s} : store'.epochs[t] = store.epochs[t]
      BY <2>1, <3>1
    <3> QED BY <2>1, <3>1, <3>2
  <2>4. ASSUME NEW c \in Clients, Release(c) PROVE Fence
    <3>1. PICK s \in Slots :
            /\ store'.epochs = store.epochs
            /\ store'.leases[s] = NoLease
            /\ \A t \in Slots \ {s} : store'.leases[t] = store.leases[t]
      BY <2>4, ReleaseEffect
    <3> QED BY <2>1, <3>1
  <2>5. ASSUME NEW c \in Clients, Renew(c) PROVE Fence
    BY <2>1, <2>5, RenewEffect
  <2> QED BY <2>2, <2>3, <2>4, <2>5, Writers
<1>2. IInv /\ [Next]_vars => [Fence]_vars
  BY <1>1
<1> QED BY <1>2, Invariance, PTL DEF Spec, EpochsFence

\* A lease whose time is not over leaves its slot by its holder's release only.
THEOREM NoLiveEvictionHolds == Spec => NoLiveEviction
<1> DEFINE Kept == \A s \in Slots : store.leases[s] # NoLease =>
             LET l == store.leases[s] IN
             \/ /\ store'.leases[s] # NoLease
                /\ store'.leases[s].epoch = l.epoch
                /\ store'.leases[s].expires >= l.expires
             \/ clock >= l.expires
             \/ pc[l.holder] = "loaded" /\ call[l.holder].op = "release"
<1>1. IInv /\ [Next]_vars => Kept
  <2> SUFFICES ASSUME IInv, [Next]_vars PROVE Kept
    OBVIOUS
  <2>1. /\ store.leases \in [Slots -> Lease \cup {NoLease}]
        /\ \A s \in Slots : store.leases[s] # NoLease => store.leases[s].expires \in Nat
    BY DEF IInv, TypeOK, Store, Lease
  <2>2. CASE store' = store
    BY <2>1, <2>2
  <2>3. ASSUME NEW c \in Clients, Acquire(c) PROVE Kept
    <3>1. PICK s \in Slots :
            /\ store.leases[s] # NoLease => clock >= store.leases[s].expires
            /\ \A t \in Slots \ {s} :
                 \/ store'.leases[t] = store.leases[t]
                 \/ store.leases[t] # NoLease => clock >= store.leases[t].expires
      BY <2>3, AcquireEffect
    <3> QED BY <2>1, <3>1
  <2>4. ASSUME NEW c \in Clients, Release(c) PROVE Kept
    <3>1. PICK s \in Slots :
            /\ pc[c] = "loaded" /\ call[c].op = "release"
            /\ store.leases[s].holder = c
            /\ \A t \in Slots \ {s} : store'.leases[t] = store.leases[t]
      BY <2>4, ReleaseEffect
    <3> QED BY <2>1, <3>1
  <2>5. ASSUME NEW c \in Clients, Renew(c) PROVE Kept
    BY <2>1, <2>5, RenewEffect
  <2> QED BY <2>2, <2>3, <2>4, <2>5, Writers
<1>2. IInv /\ [Next]_vars => [Kept]_vars
  BY <1>1
<1> QED BY <1>2, Invariance, PTL DEF Spec, NoLiveEviction

=============================================================================
