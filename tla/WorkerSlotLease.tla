--------------------------- MODULE WorkerSlotLease ---------------------------
(***************************************************************************)
(* The Worker slot lease service of scripts/worker_slot_lease.py.          *)
(*                                                                         *)
(* Processes share one JSON store (worker-slot-lease.yaml) and one lock    *)
(* file (.worker-slot-lease.lock).  Every operation takes a `now' read by  *)
(* its caller BEFORE the lock is attempted, makes one attempt at the lock, *)
(* reads the store, checks, replaces the store atomically and unlinks the  *)
(* lock file if the token in it is still its own.  A process can die at    *)
(* any of these points; the lock file then stays behind.                   *)
(*                                                                         *)
(* Time is in whole seconds.  The store keeps whole seconds only           *)
(* (_dt_to_utc_str), so every comparison of the code, `now >= t' or        *)
(* `now < t' for a stored t, depends on the whole second of `now' alone.   *)
(* A lease_id is a fresh random value; a slot's epoch already tells its    *)
(* leases apart, so the model leaves the id out.  The pair                 *)
(* (holder_dispatch_id, holder_instance_id) is the client.                 *)
(***************************************************************************)
EXTENDS Naturals

CONSTANTS
  Clients,      \* the processes (Orchestrator instances) that use the store
  Kinds,        \* WorkerKind
  KindOf,       \* _SLOT_KIND: the slots, numbered in stable order, to kinds
  Worktrees,    \* canonical worktree paths
  TTL,          \* _LEASE_TTL_SECONDS
  MaxClock,     \* bound: the clock stops here
  MaxEpoch,     \* bound: no acquire is begun once a slot has this epoch
  NoLease,      \* an empty slot, or a call that returns no lease
  Raised,       \* the call ends with an exception
  NoStore,      \* the client has not read the store
  NoCall,       \* the client is making no call
  Free,         \* there is no lock file
  Orphan        \* the lock file's token belongs to no running call

Slots == DOMAIN KindOf

ASSUME ConstantsAssumption ==
  /\ Slots \subseteq Nat
  /\ KindOf \in [Slots -> Kinds]
  /\ TTL \in Nat \ {0}
  /\ MaxClock \in Nat
  /\ MaxEpoch \in Nat
  /\ Free \notin Clients
  /\ Orphan \notin Clients
  /\ Free # Orphan
  /\ NoLease # Raised

Lease == [slot : Slots, epoch : Nat, kind : Kinds, holder : Clients,
          worktree : Worktrees, acquired : Nat, heartbeat : Nat, expires : Nat]

ASSUME NullsAssumption == NoLease \notin Lease /\ Raised \notin Lease

\* The root record of the store: the time of the last write, an epoch for
\* every slot and at most one lease for every slot.
Store == [updated : Nat, epochs : [Slots -> Nat],
          leases : [Slots -> Lease \cup {NoLease}]]

ASSUME NoStoreAssumption == NoStore \notin Store

Ops == {"acquire", "renew", "release", "fence"}

\* A call in progress: the operation, the `now' its caller passed, and, for
\* an acquire, the kind and the workspace asked for.
Call == [op : Ops, now : Nat, kind : Kinds, worktree : Worktrees]

ASSUME NoCallAssumption == NoCall \notin Call

VARIABLES
  clock,     \* UTC time
  lock,      \* the lock file: Free, Orphan, or the client whose token it holds
  store,     \* the store file
  pc,        \* where each client is in its call
  call,      \* the call each client is making
  snap,      \* the copy of the store each client has read
  ret,       \* what each client's call is about to return or raise
  handle,    \* the last lease object each client was given
  returned   \* the clients that have asked for the release of their handle

vars == <<clock, lock, store, pc, call, snap, ret, handle, returned>>

clientVars == <<call, snap, ret, handle, returned>>

Locked == {"locked", "loaded", "fenced", "unlock"}

-----------------------------------------------------------------------------
\* _canonical_empty_store.  The sentinel updated_at places no restriction on
\* `now', which is what 0, the smallest time, does here.
EmptyStore == [updated |-> 0, epochs |-> [s \in Slots |-> 0],
               leases |-> [s \in Slots |-> NoLease]]

Init ==
  /\ clock = 0
  /\ lock = Free
  /\ store = EmptyStore
  /\ pc = [c \in Clients |-> "idle"]
  /\ call = [c \in Clients |-> NoCall]
  /\ snap = [c \in Clients |-> NoStore]
  /\ ret = [c \in Clients |-> NoLease]
  /\ handle = [c \in Clients |-> NoLease]
  /\ returned = {}

-----------------------------------------------------------------------------
(* Helpers of the code. *)

\* Mutated form of SameLease: the epoch is not compared.
SameHolder(stored, lease) ==
  /\ stored # NoLease
  /\ stored.kind = lease.kind
  /\ stored.holder = lease.holder

\* _verify_lease_identity: the fields that make a stored lease the one the
\* caller presents (the slot is looked up, the id is left out).
SameLease(stored, lease) ==
  /\ stored # NoLease
  /\ stored.epoch = lease.epoch
  /\ stored.kind = lease.kind
  /\ stored.holder = lease.holder

\* Mutated form of Purged: a lease goes in its last second.
PurgedEarly(leases, now) ==
  [s \in Slots |-> IF leases[s] # NoLease /\ now + 1 >= leases[s].expires
                   THEN NoLease ELSE leases[s]]

\* acquire_worker_slot drops the expired leases of every kind.
Purged(leases, now) ==
  [s \in Slots |-> IF leases[s] # NoLease /\ now >= leases[s].expires
                   THEN NoLease ELSE leases[s]]

\* Mutated form of Duplicate: no duplicate is ever found.
DuplicateUnchecked(leases, kind, worktree) == FALSE

\* "duplicate active (worker_kind, worktree) pair"
Duplicate(leases, kind, worktree) ==
  \E s \in Slots : /\ leases[s] # NoLease
                   /\ leases[s].kind = kind
                   /\ leases[s].worktree = worktree

\* The lowest-numbered free slot of a kind.
LowestFree(leases, kind, s) ==
  /\ KindOf[s] = kind
  /\ leases[s] = NoLease
  /\ \A t \in Slots : t < s /\ KindOf[t] = kind => leases[t] # NoLease

NewLease(c, s, epoch) ==
  [slot |-> s, epoch |-> epoch, kind |-> call[c].kind, holder |-> c,
   worktree |-> call[c].worktree, acquired |-> call[c].now,
   heartbeat |-> call[c].now, expires |-> call[c].now + TTL]

\* The lease a renewal writes: the caller's lease with two new timestamps.
Renewed(lease, now) == [lease EXCEPT !.heartbeat = now, !.expires = now + TTL]

\* The stored lease of the slot that c's handle names, in c's copy.
StoredFor(c) == snap[c].leases[handle[c].slot]

\* _check_now_monotonic, the first check of every operation.
NowMonotonic(c) == call[c].now >= snap[c].updated

\* What release_worker_slot checks before it deletes.
MayRelease(c) ==
  /\ NowMonotonic(c)
  /\ SameLease(StoredFor(c), handle[c])
  /\ call[c].now >= StoredFor(c).acquired

\* What renew_worker_slot and hold_worker_slot_fence check.
MayUse(c) ==
  /\ NowMonotonic(c)
  /\ SameLease(StoredFor(c), handle[c])
  /\ call[c].now >= StoredFor(c).heartbeat
  /\ call[c].now < StoredFor(c).expires

MayAcquire(c, s) ==
  LET live == Purged(snap[c].leases, call[c].now) IN
  /\ NowMonotonic(c)
  /\ ~Duplicate(live, call[c].kind, call[c].worktree)
  /\ LowestFree(live, call[c].kind, s)

-----------------------------------------------------------------------------
(* A call, step by step. *)

\* A caller reads its clock and calls acquire_worker_slot.
CallAcquire(c) ==
  /\ pc[c] = "idle"
  /\ \A s \in Slots : store.epochs[s] < MaxEpoch
  /\ \E k \in Kinds, w \in Worktrees :
       call' = [call EXCEPT ![c] =
                  [op |-> "acquire", now |-> clock, kind |-> k, worktree |-> w]]
  /\ pc' = [pc EXCEPT ![c] = "begin"]
  /\ UNCHANGED <<clock, lock, store, snap, ret, handle, returned>>

\* A caller reads its clock and calls an operation on the lease it was given,
\* however old that lease is and whatever it has done with it before.
CallWithLease(c, op) ==
  /\ pc[c] = "idle"
  /\ handle[c] # NoLease
  /\ call' = [call EXCEPT ![c] =
                [op |-> op, now |-> clock, kind |-> handle[c].kind,
                 worktree |-> handle[c].worktree]]
  /\ returned' = IF op = "release" THEN returned \cup {c} ELSE returned
  /\ pc' = [pc EXCEPT ![c] = "begin"]
  /\ UNCHANGED <<clock, lock, store, snap, ret, handle>>

\* Mutated form of Lock: without O_EXCL, an existing lock file is overwritten.
LockWithoutExcl(c) ==
  /\ pc[c] = "begin"
  /\ lock' = c
  /\ pc' = [pc EXCEPT ![c] = "locked"]
  /\ UNCHANGED <<clock, store, clientVars>>

\* _exclusive_store_lock: O_CREAT|O_EXCL creates the lock file ...
Lock(c) ==
  /\ pc[c] = "begin"
  /\ lock = Free
  /\ lock' = c
  /\ pc' = [pc EXCEPT ![c] = "locked"]
  /\ UNCHANGED <<clock, store, clientVars>>

\* ... or finds one: WorkerSlotContentionError, at once and without a retry.
Contend(c) ==
  /\ pc[c] = "begin"
  /\ lock # Free
  /\ call' = [call EXCEPT ![c] = NoCall]
  /\ pc' = [pc EXCEPT ![c] = "idle"]
  /\ UNCHANGED <<clock, lock, store, snap, ret, handle, returned>>

\* _read_store_unlocked
Read(c) ==
  /\ pc[c] = "locked"
  /\ snap' = [snap EXCEPT ![c] = store]
  /\ pc' = [pc EXCEPT ![c] = "loaded"]
  /\ UNCHANGED <<clock, lock, store, call, ret, handle, returned>>

\* A check fails, or _atomic_write_store fails before os.replace.
Refuse(c) ==
  /\ pc[c] = "loaded"
  /\ ret' = [ret EXCEPT ![c] = Raised]
  /\ pc' = [pc EXCEPT ![c] = "unlock"]
  /\ UNCHANGED <<clock, lock, store, call, snap, handle, returned>>

\* os.replace puts the new store in place.  The fsync of the directory that
\* follows it can still fail: the call then raises although the store changed.
Replace(c, newStore, result) ==
  /\ store' = newStore
  /\ ret' \in {[ret EXCEPT ![c] = result], [ret EXCEPT ![c] = Raised]}
  /\ pc' = [pc EXCEPT ![c] = "unlock"]
  /\ UNCHANGED <<clock, lock, call, snap, handle, returned>>

\* The store as acquire_worker_slot writes it.
AcquiredStore(c, s) ==
  LET epoch == snap[c].epochs[s] + 1 IN
  [updated |-> call[c].now,
   epochs  |-> [snap[c].epochs EXCEPT ![s] = epoch],
   leases  |-> [Purged(snap[c].leases, call[c].now)
                  EXCEPT ![s] = NewLease(c, s, epoch)]]

Acquire(c) ==
  /\ pc[c] = "loaded"
  /\ call[c].op = "acquire"
  /\ \E s \in Slots :
       /\ MayAcquire(c, s)
       /\ Replace(c, AcquiredStore(c, s),
                  NewLease(c, s, snap[c].epochs[s] + 1))

\* The store as release_worker_slot and renew_worker_slot write it.
StoreWith(c, lease) ==
  [snap[c] EXCEPT !.updated = call[c].now, !.leases[handle[c].slot] = lease]

Release(c) ==
  /\ pc[c] = "loaded"
  /\ call[c].op = "release"
  /\ MayRelease(c)
  /\ Replace(c, StoreWith(c, NoLease), NoLease)

Renew(c) ==
  /\ pc[c] = "loaded"
  /\ call[c].op = "renew"
  /\ MayUse(c)
  /\ Replace(c, StoreWith(c, Renewed(handle[c], call[c].now)),
             Renewed(handle[c], call[c].now))

\* hold_worker_slot_fence: the checks pass and the caller's block runs, with
\* the lock file in place and nothing written.
EnterFence(c) ==
  /\ pc[c] = "loaded"
  /\ call[c].op = "fence"
  /\ MayUse(c)
  /\ pc' = [pc EXCEPT ![c] = "fenced"]
  /\ UNCHANGED <<clock, lock, store, clientVars>>

\* The fenced block ends, normally or with an exception.
LeaveFence(c) ==
  /\ pc[c] = "fenced"
  /\ pc' = [pc EXCEPT ![c] = "unlock"]
  /\ UNCHANGED <<clock, lock, store, clientVars>>

\* Mutated form of Deliver: an exception is taken for a lease.
DeliverRaised(c, result) ==
  /\ handle' = [handle EXCEPT ![c] = IF result = NoLease THEN @ ELSE result]
  /\ ret' = [ret EXCEPT ![c] = NoLease]
  /\ snap' = [snap EXCEPT ![c] = NoStore]
  /\ call' = [call EXCEPT ![c] = NoCall]
  /\ pc' = [pc EXCEPT ![c] = "idle"]
  /\ UNCHANGED <<clock, store, returned>>

\* The lease object that the call hands back, if any, is the caller's now.
Deliver(c, result) ==
  /\ IF result \in {NoLease, Raised}
     THEN UNCHANGED <<handle, returned>>
     ELSE /\ handle' = [handle EXCEPT ![c] = result]
          /\ returned' = IF call[c].op = "acquire" THEN returned \ {c}
                                                   ELSE returned
  /\ ret' = [ret EXCEPT ![c] = NoLease]
  /\ snap' = [snap EXCEPT ![c] = NoStore]
  /\ call' = [call EXCEPT ![c] = NoCall]
  /\ pc' = [pc EXCEPT ![c] = "idle"]
  /\ UNCHANGED <<clock, store>>

\* The lock file still holds the caller's token: it is unlinked.
Unlock(c) ==
  /\ pc[c] = "unlock"
  /\ lock = c
  /\ lock' = Free
  /\ Deliver(c, ret[c])

\* The lock file cannot be read or unlinked: it stays, and a call whose block
\* succeeded raises in spite of what it has committed.
UnlockFails(c) ==
  /\ pc[c] = "unlock"
  /\ lock' = IF lock = c THEN Orphan ELSE lock
  /\ Deliver(c, Raised)

\* The client's process dies, whatever it is doing, and a new one starts with
\* no memory of it.
Crash(c) ==
  /\ lock' = IF lock = c THEN Orphan ELSE lock
  /\ pc' = [pc EXCEPT ![c] = "idle"]
  /\ snap' = [snap EXCEPT ![c] = NoStore]
  /\ ret' = [ret EXCEPT ![c] = NoLease]
  /\ handle' = [handle EXCEPT ![c] = NoLease]
  /\ returned' = returned \ {c}
  /\ call' = [call EXCEPT ![c] = NoCall]
  /\ UNCHANGED <<clock, store>>

\* Nothing in the code removes a lock file that a dead process left: somebody
\* does so by hand.
RemoveOrphanLock ==
  /\ lock = Orphan
  /\ lock' = Free
  /\ UNCHANGED <<clock, store, pc, clientVars>>

Tick ==
  /\ clock < MaxClock
  /\ clock' = clock + 1
  /\ UNCHANGED <<lock, store, pc, clientVars>>

Next ==
  \/ \E c \in Clients :
       \/ CallAcquire(c)
       \/ \E op \in {"renew", "release", "fence"} : CallWithLease(c, op)
       \/ Lock(c) \/ Contend(c) \/ Read(c) \/ Refuse(c)
       \/ Acquire(c) \/ Release(c) \/ Renew(c)
       \/ EnterFence(c) \/ LeaveFence(c)
       \/ Unlock(c) \/ UnlockFails(c) \/ Crash(c)
  \/ RemoveOrphanLock
  \/ Tick

Spec == Init /\ [][Next]_vars

-----------------------------------------------------------------------------
(* Properties. *)

PCs == {"idle", "begin"} \cup Locked

\* Type correctness of the lock file, the store and the callers' memory.
TypeOK ==
  /\ clock \in Nat
  /\ lock \in Clients \cup {Free, Orphan}
  /\ store \in Store
  /\ pc \in [Clients -> PCs]
  /\ call \in [Clients -> Call \cup {NoCall}]
  /\ snap \in [Clients -> Store \cup {NoStore}]
  /\ ret \in [Clients -> Lease \cup {NoLease, Raised}]
  /\ handle \in [Clients -> Lease \cup {NoLease}]
  /\ returned \subseteq Clients

\* The stored lease of a slot is the lease l, renewed or not.
Stored(l) ==
  /\ store.leases[l.slot] # NoLease
  /\ store.leases[l.slot].epoch = l.epoch
  /\ store.leases[l.slot].holder = l.holder

\* c may believe that it owns the lease it was given: it has not asked for the
\* release, and the time the lease states has not passed.
Owns(c) == /\ handle[c] # NoLease
           /\ c \notin returned
           /\ clock < handle[c].expires

\* The cross-field rules of validate_worker_slot_store.
StoreValidFor(st) ==
  /\ \A s \in Slots : st.leases[s] # NoLease =>
       LET l == st.leases[s] IN
       /\ l.slot = s
       /\ l.kind = KindOf[s]
       /\ l.epoch = st.epochs[s]
       /\ l.acquired <= l.heartbeat
       /\ l.heartbeat < l.expires
  /\ \A s, t \in Slots :
       /\ s # t
       /\ st.leases[s] # NoLease
       /\ st.leases[t] # NoLease
       /\ st.leases[s].kind = st.leases[t].kind
       => st.leases[s].worktree # st.leases[t].worktree

\* No operation ever computes a store that the validator, which runs before
\* every write and after every read, would refuse: such a store would stop
\* every later operation.  Among the rules: no two leases of a kind on one
\* worktree, and the lease of a slot carries the slot's epoch.
StoreValid == StoreValidFor(store)

\* The point of the lease: while a process has reason to believe that it owns
\* a lease, no interleaving of slow callers (with an old `now'), renewals,
\* crashes and half-failed calls gives the slot, or the worktree under the
\* same kind, to another process, and no operation drops the lease.
OwnersExclusive ==
  \A c \in Clients : Owns(c) =>
    /\ Stored(handle[c])
    /\ \A d \in Clients \ {c} : Owns(d) =>
         /\ handle[d].slot # handle[c].slot
         /\ handle[d].kind = handle[c].kind
              => handle[d].worktree # handle[c].worktree

\* hold_worker_slot_fence: the block under the fence (a transition of the
\* control plane) runs for the current holder of the slot only, and for one
\* process at a time, although the lease may expire while the block runs.
FencedBodyOwnsSlot ==
  \A c \in Clients : pc[c] = "fenced" =>
    /\ Stored(handle[c])
    /\ \A d \in Clients \ {c} : pc[d] # "fenced"

\* A slot's epoch never goes back, and a lease that appears in a slot carries
\* an epoch that no earlier lease of the slot had: the epoch fences off every
\* earlier holder.
EpochsFence ==
  [][\A s \in Slots :
       /\ store'.epochs[s] >= store.epochs[s]
       /\ (/\ store'.leases[s] # NoLease
           /\ \/ store.leases[s] = NoLease
              \/ store.leases[s].epoch # store'.leases[s].epoch
              \/ store.leases[s].holder # store'.leases[s].holder)
          => store'.leases[s].epoch > store.epochs[s]]_vars

\* A lease leaves its slot only when its time is over or when its own holder
\* releases it: the purge of an acquire by a process with an old `now' never
\* takes a lease that was renewed meanwhile.
NoLiveEviction ==
  [][\A s \in Slots : store.leases[s] # NoLease =>
       LET l == store.leases[s] IN
       \/ /\ store'.leases[s] # NoLease
          /\ store'.leases[s].epoch = l.epoch
          /\ store'.leases[s].expires >= l.expires
       \/ clock >= l.expires
       \/ pc[l.holder] = "loaded" /\ call[l.holder].op = "release"]_vars
=============================================================================
