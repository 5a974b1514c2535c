-------------------------- MODULE EtcdQueuesProofs --------------------------
(***************************************************************************)
(* The mutex, the leader elector and the fencing of dispatches, for every  *)
(* number of nodes, goroutines, calls and requests, whatever leases expire *)
(* and requests to etcd fail.                                              *)
(***************************************************************************)
EXTENDS EtcdQueues, WellFoundedInduction, TLAPS

-----------------------------------------------------------------------------
(* DistributedMutex                                                        *)
(* DistributedMutex for every number of nodes, goroutines and calls: mutual exclusion *)
(* and no lost wake-up, whatever leases expire and requests to etcd fail.             *)

(* What the proofs assume of the constants: every goroutine runs on a node. *)
Placed == NodeOf \in [Callers -> MutexNodes]

(* The callers that own their node's slot. *)
Owns(c) == pc[c] \in {"acquiring", "trying", "held", "unlocking", "failed", "unlocked"}

(* The inductive invariant. The slot is taken exactly while a caller of the node owns *)
(* it, and by one caller; a holder whose session is alive has the oldest key; and a   *)
(* waiting caller waits for at most the channel the present owner will close.         *)
MutexTyped ==
    /\ locked \in [MutexNodes -> BOOLEAN] /\ closed \in [MutexNodes -> Nat] /\ lease \in [MutexNodes -> BOOLEAN]
    /\ mutexQueue \in Seq(MutexNodes) /\ pc \in [Callers -> Steps] /\ waitCh \in [Callers -> Nat]
OneOwner == \A c, d \in Callers : Owns(c) /\ Owns(d) /\ NodeOf[c] = NodeOf[d] => c = d
OwnerLocks == \A c \in Callers : Owns(c) => locked[NodeOf[c]]
LockedOwned == \A n \in MutexNodes : locked[n] => \E c \in Callers : NodeOf[c] = n /\ Owns(c)
HolderFirst == \A c \in Callers : pc[c] = "held" /\ lease[NodeOf[c]] => mutexQueue # <<>> /\ mutexQueue[1] = NodeOf[c]
WaitsForOwner ==
    \A c \in Callers : pc[c] = "waiting" =>
        /\ waitCh[c] <= closed[NodeOf[c]] + 1
        /\ closed[NodeOf[c]] >= waitCh[c] \/ locked[NodeOf[c]]
MutexIInv == MutexTyped /\ OneOwner /\ OwnerLocks /\ LockedOwned /\ HolderFirst /\ WaitsForOwner

(* Deleting a session's key leaves a queue, whose oldest key is the same if it was    *)
(* another session's.                                                                  *)
LEMMA LockKeyDeleted ==
    ASSUME NEW n \in MutexNodes, mutexQueue \in Seq(MutexNodes)
    PROVE  /\ MutexWithout(n) \in Seq(MutexNodes)
           /\ mutexQueue # <<>> /\ mutexQueue[1] # n => MutexWithout(n) # <<>> /\ MutexWithout(n)[1] = mutexQueue[1]
<1>1. CASE ~MutexQueued(n)
    BY <1>1 DEF MutexWithout
<1>2. CASE MutexQueued(n)
    <2>1. MutexPlace(n) \in 1..Len(mutexQueue) /\ mutexQueue[MutexPlace(n)] = n
        BY <1>2 DEF MutexQueued, MutexPlace
    <2>2. Len(mutexQueue) \in Nat /\ Len(mutexQueue) >= 1
        BY <2>1
    <2> DEFINE q == [i \in 1..(Len(mutexQueue) - 1) |-> IF i < MutexPlace(n) THEN mutexQueue[i] ELSE mutexQueue[i + 1]]
    <2>3. MutexWithout(n) = q
        BY <1>2 DEF MutexWithout
    <2>4. \A i \in 1..(Len(mutexQueue) - 1) : q[i] \in MutexNodes
        BY <2>1, <2>2
    <2>5. q \in Seq(MutexNodes) /\ Len(q) = Len(mutexQueue) - 1
        BY <2>2, <2>4
    <2>6. ASSUME mutexQueue[1] # n PROVE q # <<>> /\ q[1] = mutexQueue[1]
        <3>1. MutexPlace(n) >= 2 /\ Len(mutexQueue) >= 2
            BY <2>1, <2>2, <2>6
        <3>2. 1 \in 1..(Len(mutexQueue) - 1) /\ 1 < MutexPlace(n)
            BY <2>1, <2>2, <3>1
        <3>3. q[1] = mutexQueue[1]
            BY <3>2
        <3>4. Len(q) # 0
            BY <2>2, <2>5, <3>1
        <3>5. q # <<>>
            <4> HIDE DEF q
            <4>1. QED
                BY <2>5, <3>4
        <3>6. QED
            BY <3>3, <3>5
    <2>7. QED
        BY <2>3, <2>5, <2>6
<1>3. QED
    BY <1>1, <1>2

(* Nobody waits for a new mutex. *)
LEMMA InitMutexIInv == ASSUME Placed, MutexInit PROVE MutexIInv
    BY DEF Placed, MutexInit, MutexIInv, MutexTyped, OneOwner, OwnerLocks, LockedOwned, HolderFirst, WaitsForOwner, Owns, Steps

(* What the invariant says of the slots. *)
Slots == OneOwner /\ OwnerLocks /\ LockedOwned

(* A step that changes no owner and no slot keeps the slots' invariant. *)
LEMMA SlotsKept ==
    ASSUME Slots, locked' = locked, \A d \in Callers : Owns(d)' <=> Owns(d)
    PROVE  Slots'
<1>1. OneOwner' /\ OwnerLocks'
    BY DEF Slots, OneOwner, OwnerLocks
<1>2. LockedOwned'
    BY DEF Slots, LockedOwned
<1>3. QED
    BY <1>1, <1>2 DEF Slots

(* Lock and TryLock take a slot that nobody owns. *)
LEMMA SlotTaken ==
    ASSUME Placed, Slots, locked \in [MutexNodes -> BOOLEAN], NEW c \in Callers, ~locked[NodeOf[c]],
           locked' = [locked EXCEPT ![NodeOf[c]] = TRUE], Owns(c)',
           \A d \in Callers \ {c} : Owns(d)' <=> Owns(d)
    PROVE  Slots'
<1>1. \A d \in Callers \ {c} : Owns(d)' => NodeOf[d] # NodeOf[c]
    BY DEF Slots, OwnerLocks
<1>2. OneOwner'
    BY <1>1 DEF Slots, OneOwner
<1>3. \A n \in MutexNodes : locked'[n] <=> locked[n] \/ n = NodeOf[c]
    BY DEF Placed
<1>4. OwnerLocks'
    BY <1>3 DEF Slots, OwnerLocks, Placed
<1>5. LockedOwned'
    <2>1. SUFFICES ASSUME NEW n \in MutexNodes, locked'[n] PROVE \E d \in Callers : NodeOf[d] = n /\ Owns(d)'
        BY DEF LockedOwned
    <2>2. CASE n = NodeOf[c]
        BY <2>2
    <2>3. CASE n # NodeOf[c]
        BY <1>3, <2>1, <2>3 DEF Slots, LockedOwned
    <2>4. QED
        BY <2>2, <2>3
<1>6. QED
    BY <1>2, <1>4, <1>5 DEF Slots

(* Unlock and a failed Lock free the slot of the caller that owns it. *)
LEMMA SlotFreed ==
    ASSUME Placed, Slots, locked \in [MutexNodes -> BOOLEAN], NEW c \in Callers, Owns(c),
           locked' = [locked EXCEPT ![NodeOf[c]] = FALSE], ~Owns(c)',
           \A d \in Callers \ {c} : Owns(d)' <=> Owns(d)
    PROVE  Slots'
<1>1. \A d \in Callers : Owns(d)' => Owns(d) /\ NodeOf[d] # NodeOf[c]
    BY DEF Slots, OneOwner
<1>2. OneOwner'
    BY <1>1 DEF Slots, OneOwner
<1>3. \A n \in MutexNodes : locked'[n] <=> locked[n] /\ n # NodeOf[c]
    BY DEF Placed
<1>4. OwnerLocks'
    BY <1>1, <1>3 DEF Slots, OwnerLocks, Placed
<1>5. LockedOwned'
    <2>1. SUFFICES ASSUME NEW n \in MutexNodes, locked'[n] PROVE \E d \in Callers : NodeOf[d] = n /\ Owns(d)'
        BY DEF LockedOwned
    <2>2. PICK d \in Callers : NodeOf[d] = n /\ Owns(d)
        BY <1>3, <2>1 DEF Slots, LockedOwned
    <2>3. d # c
        BY <1>3, <2>1, <2>2
    <2>4. QED
        BY <2>2, <2>3
<1>6. QED
    BY <1>2, <1>4, <1>5 DEF Slots

(* Every step of a goroutine, of etcd and of a lease keeps the invariant. *)
LEMMA StepMutexIInv == ASSUME Placed, MutexIInv, [MutexNext]_mutexVars PROVE MutexIInv'
<1> USE DEF Placed, MutexGoto
<1>i. /\ MutexTyped /\ Slots /\ HolderFirst /\ WaitsForOwner
      /\ locked \in [MutexNodes -> BOOLEAN] /\ pc \in [Callers -> Steps]
    BY DEF MutexIInv, Slots, MutexTyped
<1>q. ASSUME MutexTyped', Slots', HolderFirst', WaitsForOwner' PROVE MutexIInv'
    BY <1>q DEF MutexIInv, Slots
<1>1. ASSUME NEW c \in Callers, Lock(c) PROVE MutexIInv'
    <2>1. CASE locked[NodeOf[c]]
        <3>1. locked' = locked /\ \A d \in Callers : Owns(d)' <=> Owns(d)
            BY <1>i, <1>1, <2>1 DEF Lock, Owns, Steps
        <3>2. Slots'
            BY <1>i, <3>1, SlotsKept
        <3>a. /\ pc' = [pc EXCEPT ![c] = "waiting"] /\ waitCh' = [waitCh EXCEPT ![c] = closed[NodeOf[c]] + 1]
              /\ UNCHANGED <<locked, closed, mutexQueue, lease>>
            BY <1>1, <2>1 DEF Lock
        <3>b. closed[NodeOf[c]] + 1 \in Nat
            BY <1>i DEF MutexTyped
        <3>3. MutexTyped'
            BY <1>i, <3>a, <3>b DEF MutexTyped, Steps
        <3>4. HolderFirst'
            BY <1>i, <1>1, <2>1, <3>1 DEF Lock, HolderFirst, MutexTyped, Steps
        <3>5. WaitsForOwner'
            BY <1>i, <2>1, <3>a, <3>b DEF WaitsForOwner, MutexTyped, Steps
        <3>6. QED
            BY <1>q, <3>2, <3>3, <3>4, <3>5
    <2>2. CASE ~locked[NodeOf[c]]
        <3>1. /\ ~locked[NodeOf[c]] /\ locked' = [locked EXCEPT ![NodeOf[c]] = TRUE] /\ Owns(c)'
              /\ \A d \in Callers \ {c} : Owns(d)' <=> Owns(d)
            BY <1>i, <1>1, <2>2 DEF Lock, Owns, Steps
        <3>2. Slots'
            BY Zenon, <1>i, <3>1, SlotTaken
        <3>a. /\ pc' = [pc EXCEPT ![c] = "acquiring"] /\ waitCh' = [waitCh EXCEPT ![c] = 0]
              /\ UNCHANGED <<closed, mutexQueue, lease>>
            BY <1>1, <2>2 DEF Lock
        <3>3. MutexTyped'
            BY <1>i, <3>1, <3>a DEF MutexTyped, Steps
        <3>4. HolderFirst'
            BY <1>i, <1>1, <2>2, <3>1 DEF Lock, HolderFirst, MutexTyped, Steps
        <3>5. WaitsForOwner'
            BY Zenon, <1>i, <1>1, <2>2 DEF Lock, WaitsForOwner, MutexTyped, Steps, Slots, OwnerLocks, Owns
        <3>6. QED
            BY <1>q, <3>2, <3>3, <3>4, <3>5
    <2>3. QED
        BY <2>1, <2>2
<1>2. ASSUME NEW c \in Callers, TryLock(c) PROVE MutexIInv'
    <2>1. CASE locked[NodeOf[c]]
        <3>1. locked' = locked /\ \A d \in Callers : Owns(d)' <=> Owns(d)
            BY <1>i, <1>2, <2>1 DEF TryLock, Owns, Steps
        <3>2. Slots'
            BY <1>i, <3>1, SlotsKept
        <3>3. MutexTyped'
            BY <1>i, <1>2, <2>1 DEF TryLock, MutexTyped, Steps
        <3>4. HolderFirst'
            BY <1>i, <1>2, <2>1, <3>1 DEF TryLock, HolderFirst, MutexTyped, Steps
        <3>5. WaitsForOwner'
            BY <1>i, <1>2, <2>1 DEF TryLock, WaitsForOwner, MutexTyped, Steps, Slots, OwnerLocks, Owns
        <3>6. QED
            BY <1>q, <3>2, <3>3, <3>4, <3>5
    <2>2. CASE ~locked[NodeOf[c]]
        <3>1. /\ ~locked[NodeOf[c]] /\ locked' = [locked EXCEPT ![NodeOf[c]] = TRUE] /\ Owns(c)'
              /\ \A d \in Callers \ {c} : Owns(d)' <=> Owns(d)
            BY <1>i, <1>2, <2>2 DEF TryLock, Owns, Steps
        <3>2. Slots'
            BY <1>i, <3>1, SlotTaken
        <3>3. MutexTyped'
            BY Zenon, <1>i, <1>2, <2>2 DEF TryLock, MutexTyped, Steps
        <3>4. HolderFirst'
            BY <1>i, <1>2, <2>2, <3>1 DEF TryLock, HolderFirst, MutexTyped, Steps
        <3>5. WaitsForOwner'
            BY <1>i, <1>2, <2>2 DEF TryLock, WaitsForOwner, MutexTyped, Steps, Slots, OwnerLocks, Owns
        <3>6. QED
            BY <1>q, <3>2, <3>3, <3>4, <3>5
    <2>3. QED
        BY <2>1, <2>2
<1>3. ASSUME NEW c \in Callers, GiveUpWaiting(c) PROVE MutexIInv'
    <2>1. locked' = locked /\ \A d \in Callers : Owns(d)' <=> Owns(d)
        BY <1>i, <1>3 DEF GiveUpWaiting, Owns, Steps
    <2>2. Slots'
        BY <1>i, <2>1, SlotsKept
    <2>3. MutexTyped'
        BY <1>i, <1>3 DEF GiveUpWaiting, MutexTyped, Steps
    <2>4. HolderFirst'
        BY <1>i, <1>3, <2>1 DEF GiveUpWaiting, HolderFirst, MutexTyped, Steps
    <2>5. WaitsForOwner'
        BY <1>i, <1>3 DEF GiveUpWaiting, WaitsForOwner, MutexTyped, Steps, Slots, OwnerLocks, Owns
    <2>6. QED
        BY <1>q, <2>2, <2>3, <2>4, <2>5
<1>4. ASSUME NEW c \in Callers, Enqueue(c) PROVE MutexIInv'
    <2>1. locked' = locked /\ \A d \in Callers : Owns(d)' <=> Owns(d)
        BY <1>i, <1>4 DEF Enqueue, Owns, Steps
    <2>2. Slots'
        BY <1>i, <2>1, SlotsKept
    <2>3. MutexTyped'
        BY <1>i, <1>4 DEF Enqueue, MutexTyped, Steps
    <2>4. HolderFirst'
        BY <1>i, <1>4, <2>1 DEF Enqueue, HolderFirst, MutexTyped, Steps
    <2>5. WaitsForOwner'
        BY <1>i, <1>4 DEF Enqueue, WaitsForOwner, MutexTyped, Steps, Slots, OwnerLocks, Owns
    <2>6. QED
        BY <1>q, <2>2, <2>3, <2>4, <2>5
<1>5. ASSUME NEW c \in Callers, Acquire(c) PROVE MutexIInv'
    <2>1. locked' = locked /\ \A d \in Callers : Owns(d)' <=> Owns(d)
        BY <1>i, <1>5 DEF Acquire, Owns, Steps
    <2>2. Slots'
        BY <1>i, <2>1, SlotsKept
    <2>3. MutexTyped'
        BY <1>i, <1>5 DEF Acquire, MutexTyped, Steps
    <2>4. HolderFirst'
        BY <1>i, <1>5, <2>1 DEF Acquire, HolderFirst, MutexTyped, Steps
    <2>5. WaitsForOwner'
        BY <1>i, <1>5 DEF Acquire, WaitsForOwner, MutexTyped, Steps, Slots, OwnerLocks, Owns
    <2>6. QED
        BY <1>q, <2>2, <2>3, <2>4, <2>5
<1>6. ASSUME NEW c \in Callers, AcquireFails(c) PROVE MutexIInv'
    <2>1. /\ Owns(c) /\ locked' = [locked EXCEPT ![NodeOf[c]] = FALSE] /\ ~Owns(c)'
          /\ \A d \in Callers \ {c} : Owns(d)' <=> Owns(d)
        BY <1>i, <1>6 DEF AcquireFails, Owns, Steps, freeSlot
    <2>2. Slots'
        BY Zenon, <1>i, <2>1, SlotFreed
    <2>3. mutexQueue' \in Seq(MutexNodes) /\ (mutexQueue # <<>> /\ mutexQueue[1] # NodeOf[c] => mutexQueue' # <<>> /\ mutexQueue'[1] = mutexQueue[1])
        BY <1>i, <1>6, LockKeyDeleted DEF AcquireFails, MutexTyped
    <2>4. Owns(c) /\ pc'[c] # "held"
        BY <1>i, <1>6 DEF AcquireFails, Owns, Steps
    <2>5. MutexTyped'
        BY <1>i, <1>6, <2>3 DEF AcquireFails, freeSlot, MutexTyped, Steps
    <2>6. \A d \in Callers \ {c} : Owns(d) => NodeOf[d] # NodeOf[c]
        BY <1>i, <2>4 DEF Slots, OneOwner
    <2>7. HolderFirst'
        BY <1>i, <1>6, <2>3, <2>4, <2>6 DEF AcquireFails, freeSlot, HolderFirst, Owns, Steps
    <2>8. WaitsForOwner'
        BY <1>i, <1>6 DEF AcquireFails, freeSlot, WaitsForOwner, MutexTyped, Steps
    <2>9. QED
        BY <1>q, <2>2, <2>5, <2>7, <2>8
<1>7. ASSUME NEW c \in Callers, Unlock(c) PROVE MutexIInv'
    <2>1. locked' = locked /\ \A d \in Callers : Owns(d)' <=> Owns(d)
        BY <1>i, <1>7 DEF Unlock, Owns, Steps
    <2>2. Slots'
        BY <1>i, <2>1, SlotsKept
    <2>3. MutexTyped'
        BY <1>i, <1>7 DEF Unlock, MutexTyped, Steps
    <2>4. HolderFirst'
        BY <1>i, <1>7, <2>1 DEF Unlock, HolderFirst, MutexTyped, Steps
    <2>5. WaitsForOwner'
        BY <1>i, <1>7 DEF Unlock, WaitsForOwner, MutexTyped, Steps, Slots, OwnerLocks, Owns
    <2>6. QED
        BY <1>q, <2>2, <2>3, <2>4, <2>5
<1>8. ASSUME NEW c \in Callers, UnlockEtcd(c) PROVE MutexIInv'
    <2>1. locked' = locked /\ \A d \in Callers : Owns(d)' <=> Owns(d)
        BY <1>i, <1>8 DEF UnlockEtcd, Owns, Steps
    <2>2. Slots'
        BY <1>i, <2>1, SlotsKept
    <2>3. mutexQueue' \in Seq(MutexNodes) /\ (mutexQueue # <<>> /\ mutexQueue[1] # NodeOf[c] => mutexQueue' # <<>> /\ mutexQueue'[1] = mutexQueue[1])
        BY <1>i, <1>8, LockKeyDeleted DEF UnlockEtcd, MutexTyped
    <2>4. Owns(c) /\ pc'[c] # "held"
        BY <1>i, <1>8 DEF UnlockEtcd, Owns, Steps
    <2>5. MutexTyped'
        BY Zenon, <1>i, <1>8, <2>3 DEF UnlockEtcd, MutexTyped, Steps
    <2>6. \A d \in Callers \ {c} : Owns(d) => NodeOf[d] # NodeOf[c]
        BY <1>i, <2>4 DEF Slots, OneOwner
    <2>7. HolderFirst'
        BY <1>i, <1>8, <2>3, <2>4, <2>6 DEF UnlockEtcd, HolderFirst, Owns, Steps
    <2>8. WaitsForOwner'
        BY <1>i, <1>8 DEF UnlockEtcd, WaitsForOwner, MutexTyped, Steps, Slots, OwnerLocks, Owns
    <2>9. QED
        BY <1>q, <2>2, <2>5, <2>7, <2>8
<1>9. ASSUME NEW c \in Callers, UnlockSlot(c) PROVE MutexIInv'
    <2>1. /\ Owns(c) /\ locked' = [locked EXCEPT ![NodeOf[c]] = FALSE] /\ ~Owns(c)'
          /\ \A d \in Callers \ {c} : Owns(d)' <=> Owns(d)
        BY <1>i, <1>9 DEF UnlockSlot, Owns, Steps, freeSlot
    <2>2. Slots'
        BY <1>i, <2>1, SlotFreed
    <2>3. MutexTyped'
        BY <1>i, <1>9 DEF UnlockSlot, freeSlot, MutexTyped, Steps
    <2>4. HolderFirst'
        BY <1>i, <1>9, <2>1 DEF UnlockSlot, freeSlot, HolderFirst, MutexTyped, Steps
    <2>5. WaitsForOwner'
        BY <1>i, <1>9 DEF UnlockSlot, freeSlot, WaitsForOwner, MutexTyped, Steps
    <2>6. QED
        BY <1>q, <2>2, <2>3, <2>4, <2>5
<1>10. ASSUME NEW n \in MutexNodes, LeaseExpires(n) PROVE MutexIInv'
    <2>1. locked' = locked /\ \A d \in Callers : Owns(d)' <=> Owns(d)
        BY <1>10 DEF LeaseExpires, Owns
    <2>2. Slots'
        BY <1>i, <2>1, SlotsKept
    <2>3. mutexQueue' \in Seq(MutexNodes) /\ (mutexQueue # <<>> /\ mutexQueue[1] # n => mutexQueue' # <<>> /\ mutexQueue'[1] = mutexQueue[1])
        BY <1>i, <1>10, LockKeyDeleted DEF LeaseExpires, MutexTyped
    <2>4. MutexTyped'
        BY <1>i, <1>10, <2>3 DEF LeaseExpires, MutexTyped
    <2>5. HolderFirst'
        BY <1>i, <1>10, <2>3 DEF LeaseExpires, HolderFirst, MutexTyped
    <2>6. WaitsForOwner'
        BY <1>i, <1>10 DEF LeaseExpires, WaitsForOwner
    <2>7. QED
        BY <1>q, <2>2, <2>4, <2>5, <2>6
<1>11. CASE UNCHANGED mutexVars
    BY <1>11 DEF mutexVars, MutexIInv, MutexTyped, OneOwner, OwnerLocks, LockedOwned, HolderFirst, WaitsForOwner, Owns
<1>12. QED
    BY <1>1, <1>2, <1>3, <1>4, <1>5, <1>6, <1>7, <1>8, <1>9, <1>10, <1>11 DEF MutexNext, Step

(* Lock lets one goroutine of all nodes through, as long as its session is alive: the *)
(* local slot keeps apart the goroutines of a node, whose session the etcd lock takes *)
(* for one owner, and the order of the keys keeps apart the nodes.                     *)
THEOREM Exclusive == ASSUME Placed PROVE MutexSpec => []MutualExclusion
<1>1. MutexInit => MutexIInv
    BY InitMutexIInv
<1>2. MutexIInv /\ [MutexNext]_mutexVars => MutexIInv'
    BY StepMutexIInv
<1>3. MutexIInv => MutualExclusion
    BY DEF MutexIInv, OneOwner, HolderFirst, MutualExclusion, Owns, Placed
<1>4. QED
    BY <1>1, <1>2, <1>3, PTL DEF MutexSpec

(* A goroutine never waits on a channel nobody is left to close. *)
THEOREM NoWakeupLost == ASSUME Placed PROVE MutexSpec => []NoLostWakeup
<1>1. MutexInit => MutexIInv
    BY InitMutexIInv
<1>2. MutexIInv /\ [MutexNext]_mutexVars => MutexIInv'
    BY StepMutexIInv
<1>3. MutexIInv => NoLostWakeup
    BY Zenon DEF MutexIInv, MutexTyped, LockedOwned, WaitsForOwner, NoLostWakeup, Owns, Placed, Steps
<1>4. QED
    BY <1>1, <1>2, <1>3, PTL DEF MutexSpec

-----------------------------------------------------------------------------
(* LeaderElection                                                          *)

ElectTyped ==
    /\ electQueue \in Seq(ElectNodes) /\ session \in [ElectNodes -> BOOLEAN] /\ loop \in [ElectNodes -> LoopSteps]
    /\ electIsLeader \in [ElectNodes -> BOOLEAN] /\ stop \in [ElectNodes -> StopSteps]

(* An elector with a live session that was not stopped has its key in the  *)
(* queue while it campaigns, and owns the oldest key from its victory to   *)
(* the end of its term.                                                    *)
Electing(n) ==
    session[n] /\ stop[n] = "no" =>
        /\ loop[n] = "campaign" => ElectQueued(n)
        /\ loop[n] \in {"won", "monitor", "lost"} => Leads(n)

(* Leadership is believed from setLeaderStatus(true) to (false). *)
Believed(n) == electIsLeader[n] => loop[n] \in {"monitor", "lost"}

ElectIInv == ElectTyped /\ \A n \in ElectNodes : Electing(n) /\ Believed(n)

(* Deleting one node's key leaves the other keys in their order. *)
LEMMA ElectionKeyDeleted ==
    ASSUME NEW n \in ElectNodes, electQueue \in Seq(ElectNodes), electQueue' = ElectWithout(n)
    PROVE  /\ electQueue' \in Seq(ElectNodes)
           /\ \A m \in ElectNodes : m # n /\ ElectQueued(m) => ElectQueued(m)'
           /\ \A m \in ElectNodes : m # n /\ Leads(m) => Leads(m)'
<1>1. CASE ~ElectQueued(n)
    BY <1>1 DEF ElectWithout, ElectQueued, Leads
<1>2. CASE ElectQueued(n)
    <2>1. ElectPlace(n) \in 1 .. Len(electQueue) /\ electQueue[ElectPlace(n)] = n
        BY <1>2 DEF ElectQueued, ElectPlace
    <2>2. Len(electQueue) \in Nat /\ Len(electQueue) >= 1
        BY <2>1
    <2> DEFINE q == [i \in 1 .. (Len(electQueue) - 1) |-> IF i < ElectPlace(n) THEN electQueue[i] ELSE electQueue[i + 1]]
    <2>3. electQueue' = q
        BY <1>2 DEF ElectWithout
    <2>4. \A i \in 1 .. (Len(electQueue) - 1) : q[i] \in ElectNodes
        BY <2>1, <2>2
    <2>5. q \in Seq(ElectNodes) /\ Len(q) = Len(electQueue) - 1
        BY <2>2, <2>4
    <2>6. ASSUME NEW m \in ElectNodes, m # n, ElectQueued(m) PROVE ElectQueued(m)'
        <3>1. PICK i \in 1 .. Len(electQueue) : electQueue[i] = m
            BY <2>6 DEF ElectQueued
        <3>2. i # ElectPlace(n)
            BY <2>1, <2>6, <3>1
        <3>3. CASE i < ElectPlace(n)
            <4>1. i \in 1 .. (Len(electQueue) - 1) /\ q[i] = m
                BY <2>1, <2>2, <3>1, <3>3
            <4>2. QED
                BY <2>3, <2>5, <4>1 DEF ElectQueued
        <3>4. CASE i > ElectPlace(n)
            <4>1. i - 1 \in 1 .. (Len(electQueue) - 1) /\ q[i - 1] = m
                BY <2>1, <2>2, <3>1, <3>4
            <4>2. QED
                BY <2>3, <2>5, <4>1 DEF ElectQueued
        <3>5. QED
            BY <2>1, <3>2, <3>3, <3>4
    <2>7. ASSUME NEW m \in ElectNodes, m # n, Leads(m) PROVE Leads(m)'
        <3>1. electQueue[1] = m /\ ElectPlace(n) >= 2 /\ Len(electQueue) >= 2
            BY <2>1, <2>2, <2>7 DEF Leads
        <3>2. q[1] = m /\ Len(q) >= 1
            BY <2>1, <2>2, <2>5, <3>1
        <3> HIDE DEF q
        <3>3. QED
            BY <2>3, <2>5, <3>2 DEF Leads
    <2>8. QED
        BY <2>3, <2>5, <2>6, <2>7
<1>3. QED
    BY <1>1, <1>2

(* What a step does to the other nodes' keys. *)
ElectionKeysKept(n) ==
    /\ \A m \in ElectNodes : m # n /\ ElectQueued(m) => ElectQueued(m)'
    /\ \A m \in ElectNodes : m # n /\ Leads(m) => Leads(m)'

(* A new elector campaigns for nothing. *)
LEMMA ElectionInit == ElectInit => ElectIInv
    BY DEF ElectInit, ElectIInv, ElectTyped, Electing, Believed, LoopSteps, StopSteps

(* Every step of an elector keeps the invariant. *)
LEMMA ElectionStep == ElectIInv /\ [ElectNext]_electVars => ElectIInv'
<1> SUFFICES ASSUME ElectIInv, [ElectNext]_electVars PROVE ElectIInv'
    OBVIOUS
<1>0. ElectTyped /\ \A n \in ElectNodes : Electing(n) /\ Believed(n)
    BY DEF ElectIInv
<1>1. ASSUME NEW n \in ElectNodes, ElectTyped', ElectionKeysKept(n), Electing(n)', Believed(n)',
             \A m \in ElectNodes \ {n} : /\ session'[m] = session[m] /\ stop'[m] = stop[m]
                                         /\ loop'[m] = loop[m] /\ electIsLeader'[m] = electIsLeader[m]
      PROVE  ElectIInv'
    BY <1>0, <1>1 DEF ElectIInv, Electing, Believed, ElectionKeysKept
<1>2. ASSUME NEW n \in ElectNodes, electQueue' = electQueue PROVE ElectionKeysKept(n)
    BY <1>2 DEF ElectionKeysKept, ElectQueued, Leads
<1>3. ASSUME NEW n \in ElectNodes, electQueue' = ElectWithout(n) PROVE ElectionKeysKept(n) /\ electQueue' \in Seq(ElectNodes)
    BY <1>0, <1>3, ElectionKeyDeleted DEF ElectionKeysKept, ElectTyped
<1>4. ASSUME NEW n \in ElectNodes, Attempt(n) PROVE ElectIInv'
    <2>1. UNCHANGED <<session, electIsLeader, stop>> /\ loop[n] = "attempt"
        BY <1>4 DEF Attempt
    <2>2. ElectionKeysKept(n) /\ electQueue' \in Seq(ElectNodes) /\ (~Done(n) => ElectQueued(n)')
        <3>1. CASE electQueue' = electQueue
            BY <1>0, <1>2, <1>4, <3>1 DEF Attempt, ElectTyped, ElectQueued
        <3>2. CASE electQueue' = Append(electQueue, n)
            <4>1. electQueue' \in Seq(ElectNodes) /\ Len(electQueue') = Len(electQueue) + 1 /\ electQueue'[Len(electQueue) + 1] = n
                BY <1>0, <3>2 DEF ElectTyped
            <4>2. \A i \in 1 .. Len(electQueue) : electQueue'[i] = electQueue[i]
                BY <1>0, <3>2 DEF ElectTyped
            <4>3. ElectQueued(n)'
                BY <4>1 DEF ElectQueued
            <4>4. \A m \in ElectNodes : ElectQueued(m) => ElectQueued(m)'
                BY <1>0, <4>1, <4>2 DEF ElectQueued, ElectTyped
            <4>5. \A m \in ElectNodes : Leads(m) => Leads(m)'
                BY <1>0, <4>1, <4>2 DEF Leads, ElectTyped
            <4>6. QED
                BY <4>1, <4>3, <4>4, <4>5 DEF ElectionKeysKept
        <3>3. QED
            BY <1>4, <3>1, <3>2 DEF Attempt
    <2>3. loop'[n] \in {"ended", "campaign"} /\ (loop'[n] = "campaign" => ~Done(n))
          /\ \A m \in ElectNodes \ {n} : loop'[m] = loop[m]
        BY <1>0, <1>4 DEF Attempt, ElectGoto, ElectTyped
    <2>4. ElectTyped'
        BY <1>0, <1>4, <2>1, <2>2 DEF Attempt, ElectGoto, ElectTyped, LoopSteps
    <2>5. Electing(n)' /\ Believed(n)'
        BY <1>0, <2>1, <2>2, <2>3 DEF Electing, Believed
    <2>6. QED
        BY <1>1, <2>1, <2>2, <2>3, <2>4, <2>5
<1>5. ASSUME NEW n \in ElectNodes, ElectCampaign(n) PROVE ElectIInv'
    <2>1. UNCHANGED <<session, electIsLeader, stop>> /\ loop[n] = "campaign"
        BY <1>5 DEF ElectCampaign
    <2>2. ElectionKeysKept(n) /\ electQueue' \in Seq(ElectNodes)
        BY <1>0, <1>2, <1>3, <1>5 DEF ElectCampaign, ElectTyped
    <2>3. /\ loop'[n] \in {"won", "ended", "attempt"}
          /\ loop'[n] = "won" => electQueue' = electQueue /\ (ElectQueued(n) => Leads(n))
          /\ \A m \in ElectNodes \ {n} : loop'[m] = loop[m]
        BY <1>0, <1>5 DEF ElectCampaign, ElectGoto, ElectTyped
    <2>4. ElectTyped'
        BY <1>0, <1>5, <2>1, <2>2 DEF ElectCampaign, ElectGoto, ElectTyped, LoopSteps
    <2>5. Electing(n)'
        BY <1>0, <2>1, <2>3 DEF Electing, Leads
    <2>6. Believed(n)'
        BY <1>0, <2>1 DEF Believed
    <2>7. QED
        BY <1>1, <2>1, <2>2, <2>3, <2>4, <2>5, <2>6
<1>6. ASSUME NEW n \in ElectNodes,
             Elected(n) \/ monitorLeadership(n) \/ WatchCloses(n) \/ Revoked(n) \/ Pause(n)
      PROVE  ElectIInv'
    <2>1. UNCHANGED <<electQueue, session, stop>>
        BY <1>6 DEF Elected, monitorLeadership, WatchCloses, Revoked, Pause
    <2>2. ElectionKeysKept(n)
        BY <1>2, <2>1
    <2>3. /\ ElectTyped'
          /\ \A m \in ElectNodes \ {n} : loop'[m] = loop[m] /\ electIsLeader'[m] = electIsLeader[m]
        BY <1>0, <1>6, <2>1 DEF Elected, monitorLeadership, WatchCloses, Revoked, Pause, ElectGoto, ElectTyped, LoopSteps
    <2>4. Leads(n)' = Leads(n)
        BY <2>1 DEF Leads
    <2>5. Electing(n)'
        <3>1. CASE Elected(n) \/ Revoked(n) \/ Pause(n)
            BY <1>0, <3>1, <2>1, <2>4 DEF Elected, Revoked, Pause, ElectGoto, ElectTyped, Electing, Done
        <3>2. CASE monitorLeadership(n) \/ WatchCloses(n)
            BY <1>0, <3>2, <2>1, <2>4 DEF monitorLeadership, WatchCloses, ElectGoto, ElectTyped, Electing, Done
        <3>3. QED
            BY <1>6, <3>1, <3>2
    <2>6. Believed(n)'
        BY <1>0, <1>6 DEF Elected, monitorLeadership, WatchCloses, Revoked, Pause, ElectGoto, ElectTyped, Believed
    <2>7. QED
        BY <1>1, <2>1, <2>2, <2>3, <2>5, <2>6
<1>7. ASSUME NEW n \in ElectNodes, Resign(n) \/ Cancel(n) \/ Close(n) \/ SessionExpires(n) PROVE ElectIInv'
    <2>1. UNCHANGED <<loop, electIsLeader>> /\ electQueue' \in {electQueue, ElectWithout(n)}
        BY <1>7 DEF Resign, Cancel, Close, SessionExpires
    <2>2. ElectionKeysKept(n) /\ electQueue' \in Seq(ElectNodes)
        BY <1>0, <1>2, <1>3, <2>1 DEF ElectTyped
    <2>3. /\ session' \in [ElectNodes -> BOOLEAN] /\ stop' \in [ElectNodes -> StopSteps]
          /\ ~session'[n] \/ stop'[n] # "no"
          /\ \A m \in ElectNodes \ {n} : session'[m] = session[m] /\ stop'[m] = stop[m]
        BY <1>0, <1>7 DEF Resign, Cancel, Close, SessionExpires, ElectTyped, StopSteps
    <2>4. ElectTyped'
        BY <1>0, <2>1, <2>2, <2>3 DEF ElectTyped
    <2>5. Electing(n)' /\ Believed(n)'
        BY <1>0, <2>1, <2>3 DEF Electing, Believed
    <2>6. QED
        BY <1>1, <2>1, <2>2, <2>3, <2>4, <2>5
<1>8. ASSUME UNCHANGED <<electQueue, session, loop, electIsLeader, stop>> PROVE ElectIInv'
    BY <1>0, <1>8 DEF ElectIInv, ElectTyped, Electing, Believed, ElectQueued, Leads
<1>9. QED
    BY <1>4, <1>5, <1>6, <1>7, <1>8 DEF ElectNext, LoopStep, runTask, electVars

(* A node that believes to lead, with its session alive and no Stop begun,  *)
(* owns the oldest election key, so two such nodes never exist: the promise *)
(* of electionLoop and monitorLeadership, whatever campaigns fail or watches *)
(* close.                                                                   *)
THEOREM OneLeader == ElectSpec => []LeaderHoldsKey
<1>1. ElectIInv => LeaderHoldsKey
    BY DEF ElectIInv, Electing, Believed, LeaderHoldsKey
<1>2. QED
    BY <1>1, ElectionInit, ElectionStep, PTL DEF ElectSpec

-----------------------------------------------------------------------------
(* DispatchFencing                                                         *)
(* The workers' epochs, for every number of schedulers, requests and campaigns. *)

RequestSteps == {"idle", "queried", "stamped", "failed", "sent", "missing", "stale", "unavailable",
                 "executing", "done", "timed out"}

(* The fields of a request the proofs look at. *)
RequestsTyped ==
    request \in [Requests -> [pc : RequestSteps, by : Schedulers \cup {NoOne},
                              leader : Schedulers \cup {NoOne}, epoch : Nat]]

(* No key in etcd is older than an epoch a worker has let through, since that was the *)
(* oldest key at the time and new keys get new revisions.                             *)
KeysFollow ==
    /\ revision \in Nat /\ key \in [Schedulers -> Nat] /\ lastEpoch \in Nat
    /\ lastEpoch <= revision
    /\ \A s \in Schedulers : key[s] <= revision /\ (key[s] # 0 => lastEpoch <= key[s])

FenceIInv == RequestsTyped /\ KeysFollow

(* Among the campaign keys there is an oldest one. *)
LEMMA OldestKey ==
    ASSUME key \in [Schedulers -> Nat], Candidates # {}
    PROVE  \E s \in Candidates : \A t \in Candidates : key[s] <= key[t]
<1> DEFINE K == {key[s] : s \in Candidates}
           R == OpToRel(<, Nat)
<1>1. K \subseteq Nat /\ K # {}
    BY DEF Candidates
<1>2. PICK x \in K : \A y \in K : ~(<<y, x>> \in R)
    <2>1. IsWellFoundedOn(R, Nat)
        BY NatLessThanWellFounded
    <2> HIDE DEF K, R
    <2>2. QED
        BY <1>1, <2>1, WFMin
<1>3. \A y \in K : x <= y
    <2>1. SUFFICES ASSUME NEW y \in K PROVE x <= y
        OBVIOUS
    <2>2. x \in Nat /\ y \in Nat
        BY <1>1
    <2>3. ~(y < x)
        BY <1>2, <2>2 DEF OpToRel
    <2>4. QED
        BY <2>2, <2>3
<1>4. QED
    BY <1>3

(* The leader both sides read from etcd owns the oldest key. *)
LEMMA LeaderIsFirst ==
    ASSUME key \in [Schedulers -> Nat], Leader # NoOne
    PROVE  /\ Leader \in Schedulers /\ key[Leader] # 0
           /\ \A t \in Schedulers : key[t] # 0 => key[Leader] <= key[t]
<1>1. Candidates # {}
    BY DEF Leader
<1>2. Leader = CHOOSE s \in Candidates : \A t \in Candidates : key[s] <= key[t]
    BY <1>1 DEF Leader
<1>3. Leader \in Candidates /\ \A t \in Candidates : key[Leader] <= key[t]
    BY <1>1, <1>2, OldestKey
<1>4. QED
    BY <1>3 DEF Candidates

(* A request that passes carries the epoch of the present leader. *)
LEMMA PassedIsLeaders ==
    ASSUME KeysFollow, NEW r \in Requests, Validate(request[r]) = "ok"
    PROVE  /\ request[r].epoch \in Nat /\ lastEpoch <= request[r].epoch
           /\ request[r].epoch <= revision
           /\ \A t \in Schedulers : key[t] # 0 => request[r].epoch <= key[t]
<1>1. Leader # NoOne /\ request[r].epoch = Epoch
    BY DEF Validate
<1>2. request[r].epoch = key[Leader]
    BY <1>1 DEF Epoch
<1>3. /\ Leader \in Schedulers /\ key[Leader] # 0
      /\ \A t \in Schedulers : key[t] # 0 => key[Leader] <= key[t]
    BY <1>1, LeaderIsFirst DEF KeysFollow
<1>4. QED
    BY <1>2, <1>3 DEF KeysFollow

(* No scheduler has campaigned and no request has been sent. *)
LEMMA InitFenceIInv == FenceInit => FenceIInv
    BY DEF FenceInit, FenceIInv, RequestsTyped, KeysFollow, Idle, RequestSteps

(* Campaigns, lost sessions, late and lost requests keep the keys as new as the       *)
(* workers.                                                                           *)
LEMMA StepFenceIInv == FenceIInv /\ [FenceNext]_fenceVars => FenceIInv'
<1> SUFFICES ASSUME FenceIInv, [FenceNext]_fenceVars PROVE FenceIInv'
    OBVIOUS
<1>0. RequestsTyped /\ KeysFollow
    BY DEF FenceIInv
<1>k. ASSUME UNCHANGED <<revision, key, lastEpoch>> PROVE KeysFollow'
    BY <1>0, <1>k DEF KeysFollow
<1>p. ASSUME NEW r \in Requests, NEW step \in RequestSteps, request' = [request EXCEPT ![r].pc = step]
      PROVE  RequestsTyped'
    BY <1>0, <1>p DEF RequestsTyped
<1>1. ASSUME NEW s \in Schedulers, FenceCampaign(s) PROVE FenceIInv'
    <2>1. KeysFollow'
        BY <1>0, <1>1 DEF FenceCampaign, KeysFollow
    <2>2. RequestsTyped'
        BY <1>0, <1>1 DEF FenceCampaign, RequestsTyped
    <2>3. QED
        BY <2>1, <2>2 DEF FenceIInv
<1>2. ASSUME NEW s \in Schedulers, SessionLost(s) PROVE FenceIInv'
    <2>1. KeysFollow'
        BY <1>0, <1>2 DEF SessionLost, KeysFollow
    <2>2. RequestsTyped'
        BY <1>0, <1>2 DEF SessionLost, RequestsTyped
    <2>3. QED
        BY <2>1, <2>2 DEF FenceIInv
<1>3. ASSUME NEW s \in Schedulers, Notice(s) PROVE FenceIInv'
    BY <1>0, <1>k, <1>3 DEF Notice, FenceIInv, RequestsTyped
<1>4. ASSUME NEW s \in Schedulers, NEW r \in Requests, NEW ok \in BOOLEAN, QueryAuthority(s, r, ok)
      PROVE  FenceIInv'
    <2>1. KeysFollow'
        BY <1>k, <1>4 DEF QueryAuthority, etcdVars
    <2>2. Leader \in Schedulers \cup {NoOne} /\ Epoch \in Nat
        <3>1. CASE Leader = NoOne
            BY <3>1 DEF Epoch
        <3>2. CASE Leader # NoOne
            BY <1>0, <3>2, LeaderIsFirst DEF Epoch, KeysFollow
        <3>3. QED
            BY <3>1, <3>2
    <2>3. RequestsTyped'
        BY <1>0, <1>4, <2>2 DEF QueryAuthority, RequestsTyped, Idle, RequestSteps
    <2>4. QED
        BY <2>1, <2>3 DEF FenceIInv
<1>5. ASSUME NEW r \in Requests, CheckLeader(r) PROVE FenceIInv'
    <2>1. KeysFollow'
        BY <1>k, <1>5 DEF CheckLeader, etcdVars
    <2>2. RequestsTyped'
        <3>1. request' \in {[request EXCEPT ![r].pc = "stamped"], [request EXCEPT ![r] = [Idle EXCEPT !.pc = "failed"]]}
            BY <1>5 DEF CheckLeader
        <3>2. CASE request' = [request EXCEPT ![r].pc = "stamped"]
            BY <1>p, <3>2 DEF RequestSteps
        <3>3. CASE request' = [request EXCEPT ![r] = [Idle EXCEPT !.pc = "failed"]]
            BY <1>0, <3>3 DEF RequestsTyped, Idle, RequestSteps
        <3>4. QED
            BY <3>1, <3>2, <3>3
    <2>3. QED
        BY <2>1, <2>2 DEF FenceIInv
<1>6. ASSUME NEW r \in Requests, NEW ok \in BOOLEAN, Arrive(r, ok) PROVE FenceIInv'
    <2> DEFINE verdict == IF ok THEN Validate(request[r]) ELSE "unavailable"
    <2>1. verdict \in {"ok", "missing", "stale", "unavailable"}
        BY DEF Validate
    <2>2. UNCHANGED <<revision, key>>
        BY <1>6 DEF Arrive, etcdVars
    <2>3. CASE verdict = "ok"
        <3>1. /\ request' = [request EXCEPT ![r].pc = "executing"]
              /\ lastEpoch' = IF request[r].epoch > lastEpoch THEN request[r].epoch ELSE lastEpoch
            BY <1>6, <2>3 DEF Arrive
        <3>2. Validate(request[r]) = "ok"
            BY <2>3
        <3>3. KeysFollow'
            BY <1>0, <2>2, <3>1, <3>2, PassedIsLeaders DEF KeysFollow
        <3>4. RequestsTyped'
            BY <1>p, <3>1 DEF RequestSteps
        <3>5. QED
            BY <3>3, <3>4 DEF FenceIInv
    <2>4. CASE verdict # "ok"
        <3>1. request' = [request EXCEPT ![r] = [Idle EXCEPT !.pc = verdict]] /\ lastEpoch' = lastEpoch
            BY <1>6, <2>4 DEF Arrive
        <3>2. KeysFollow'
            BY <1>k, <2>2, <3>1
        <3> HIDE DEF verdict
        <3>3. RequestsTyped'
            BY <1>0, <2>1, <2>4, <3>1 DEF RequestsTyped, Idle, RequestSteps
        <3>4. QED
            BY <3>2, <3>3 DEF FenceIInv
    <2>5. QED
        BY <2>3, <2>4
<1>7. ASSUME NEW r \in Requests, NEW ok \in BOOLEAN, ExecuteOnNode(r, ok) \/ Executed(r, ok) \/ GiveUp(r)
      PROVE  FenceIInv'
    <2>1. KeysFollow'
        BY <1>k, <1>7 DEF ExecuteOnNode, Executed, GiveUp, etcdVars
    <2>2. \E step \in RequestSteps : request' = [request EXCEPT ![r].pc = step]
        <3>1. request[r].pc \in RequestSteps
            BY <1>0 DEF RequestsTyped
        <3>2. CASE Executed(r, ok) /\ request[r].pc = "executing"
            BY <3>2 DEF Executed, ExecuteRemote, RequestSteps
        <3>3. CASE Executed(r, ok) /\ request[r].pc # "executing"
            BY <3>1, <3>3 DEF Executed
        <3>4. CASE GiveUp(r)
            BY <3>4 DEF GiveUp, RequestSteps
        <3>5. CASE ExecuteOnNode(r, ok)
            BY <3>5 DEF ExecuteOnNode, RequestSteps
        <3>6. QED
            BY <1>7, <3>2, <3>3, <3>4, <3>5
    <2>3. RequestsTyped'
        BY <1>p, <2>2
    <2>4. QED
        BY <2>1, <2>3 DEF FenceIInv
<1>8. CASE UNCHANGED fenceVars
    BY <1>0, <1>k, <1>8 DEF fenceVars, FenceIInv, RequestsTyped
<1>9. QED
    BY <1>1, <1>2, <1>3, <1>4, <1>5, <1>6, <1>7, <1>8 DEF FenceNext

(* A request gets through to an agent only by the worker's check. *)
LEMMA OnlyArrivalsPass ==
    ASSUME FenceIInv, [FenceNext]_fenceVars PROVE EpochsNeverRegressStep
<1>0. RequestsTyped /\ KeysFollow
    BY DEF FenceIInv
<1>1. SUFFICES ASSUME NEW q \in Requests, request[q].pc = "sent", request'[q].pc = "executing"
               PROVE  request[q].epoch >= lastEpoch
    BY DEF EpochsNeverRegressStep
<1>2. request'[q] # request[q]
    BY <1>1
<1>3. CASE \E s \in Schedulers : FenceCampaign(s) \/ SessionLost(s) \/ Notice(s)
    BY <1>2, <1>3 DEF FenceCampaign, SessionLost, Notice
<1>4. ASSUME NEW s \in Schedulers, NEW r \in Requests, NEW ok \in BOOLEAN, QueryAuthority(s, r, ok)
      PROVE  FALSE
    BY <1>0, <1>1, <1>4 DEF QueryAuthority, RequestsTyped, Idle
<1>5. ASSUME NEW r \in Requests, CheckLeader(r) PROVE FALSE
    BY <1>0, <1>1, <1>5 DEF CheckLeader, RequestsTyped, Idle
<1>6. ASSUME NEW r \in Requests, NEW ok \in BOOLEAN, Arrive(r, ok) PROVE request[q].epoch >= lastEpoch
    <2> DEFINE verdict == IF ok THEN Validate(request[r]) ELSE "unavailable"
    <2>1. verdict \in {"ok", "missing", "stale", "unavailable"}
        BY DEF Validate
    <2>2. q = r
        BY <1>0, <1>2, <1>6 DEF Arrive, RequestsTyped
    <2>3. CASE verdict = "ok"
        <3>1. Validate(request[q]) = "ok"
            BY <2>2, <2>3
        <3>2. QED
            BY <1>0, <3>1, PassedIsLeaders DEF KeysFollow
    <2>4. CASE verdict # "ok"
        <3>1. request' = [request EXCEPT ![r] = [Idle EXCEPT !.pc = verdict]]
            BY <1>6, <2>4 DEF Arrive
        <3> HIDE DEF verdict
        <3>2. request'[q].pc = verdict
            BY <1>0, <2>2, <3>1 DEF RequestsTyped, Idle
        <3>3. QED
            BY <1>1, <2>1, <3>2
    <2>5. QED
        BY <2>3, <2>4
<1>7. ASSUME NEW r \in Requests, NEW ok \in BOOLEAN, ExecuteOnNode(r, ok) \/ Executed(r, ok) \/ GiveUp(r)
      PROVE  FALSE
    <2>1. q = r
        BY <1>0, <1>2, <1>7 DEF ExecuteOnNode, Executed, GiveUp, RequestsTyped
    <2>2. QED
        BY <1>0, <1>1, <1>7, <2>1 DEF ExecuteOnNode, Executed, ExecuteRemote, GiveUp, RequestsTyped
<1>8. CASE UNCHANGED fenceVars
    BY <1>2, <1>8 DEF fenceVars
<1>9. QED
    BY <1>3, <1>4, <1>5, <1>6, <1>7, <1>8 DEF FenceNext

(* Workers never go back to an older leadership: a request passes the check only with *)
(* an epoch at least as new as every one that passed before, on whatever worker.      *)
THEOREM EpochsOnlyGrow == FenceSpec => [][EpochsNeverRegressStep]_fenceVars
<1>1. FenceInit => FenceIInv
    BY InitFenceIInv
<1>2. FenceIInv /\ [FenceNext]_fenceVars => FenceIInv'
    BY StepFenceIInv
<1>3. FenceIInv /\ [FenceNext]_fenceVars => EpochsNeverRegressStep
    BY OnlyArrivalsPass
<1>4. QED
    BY <1>1, <1>2, <1>3, PTL DEF FenceSpec
=============================================================================
