------------------------- MODULE EtcdCountersProofs -------------------------
(***************************************************************************)
(* The semaphore and the barrier, for every number of sessions and calls,  *)
(* whatever leases expire and requests to etcd fail.                       *)
(***************************************************************************)
EXTENDS EtcdCounters, FiniteSetTheorems, TLAPS

-----------------------------------------------------------------------------
(* Semaphore                                                               *)

(* What the proofs assume of the constants: every caller has a session. *)
Given == SessionOf \in [Callers -> Sessions] /\ Size \in Nat

(* A caller between its put and its permit, or the clean-up of its key. *)
Waits(c) == pc[c] \in {"query", "watch", "cleanup"}

(* The callers with a permit and a live session, and the keys in the first *)
(* Size places that nobody still waits with.                               *)
Users == {c \in Callers : pc[c] \in {"held", "delete"} /\ semLease[SessionOf[c]]}
Backing == {p \in permits : Rank(p) < Size /\ ~(Waits(p.by) /\ p = Own(p.by))}

(* Every user has a key of its session to itself: not always its own, since *)
(* Release deletes the oldest key of the session, whoever put it.           *)
Backs(f, U, B) ==
    /\ f \in [U -> B]
    /\ \A c, d \in U : f[c] = f[d] => c = d
    /\ \A c \in U : SessionOf[f[c].by] = SessionOf[c]

(* Keys have different revisions and live leases. *)
Sane ==
    /\ SemTypeOK /\ IsFiniteSet(permits)
    /\ \A p \in permits : p.rev <= revision /\ semLease[SessionOf[p.by]]
    /\ \A p, q \in permits : p.rev = q.rev => p = q
    /\ \A c \in Callers : pc[c] = "delete" => SessionOf[target[c].by] = SessionOf[c]

(* The inductive invariant. *)
IInv == Sane /\ \E f : Backs(f, Users, Backing)

(* A new semaphore has no users. *)
LEMMA BackedInit == ASSUME Given, SemInit PROVE IInv
<1>1. Sane
    <2>1. SemTypeOK
        BY DEF SemInit, SemTypeOK, SemSteps
    <2>2. IsFiniteSet(permits)
        BY FS_EmptySet DEF SemInit
    <2>3. QED
        BY <2>1, <2>2 DEF SemInit, Sane
<1>2. Users = {}
    BY DEF SemInit, Users
<1>3. Backs([c \in {} |-> c], Users, Backing)
    BY <1>2 DEF Backs
<1>4. QED
    BY <1>1, <1>3 DEF IInv

(* The rank of a key does not grow when keys go. *)
LEMMA RankFalls ==
    ASSUME IsFiniteSet(permits), permits' \subseteq permits, NEW p
    PROVE  Rank(p)' \in Nat /\ Rank(p) \in Nat /\ Rank(p)' <= Rank(p)
<1> DEFINE S == {q \in permits : q.rev < p.rev}
           T == {q \in permits' : q.rev < p.rev}
<1>1. IsFiniteSet(S)
    BY FS_Subset
<1>2. T \subseteq S
    OBVIOUS
<1>3. IsFiniteSet(T) /\ Cardinality(T) <= Cardinality(S)
    BY <1>1, <1>2, FS_Subset
<1>4. Cardinality(T) \in Nat /\ Cardinality(S) \in Nat
    BY <1>1, <1>3, FS_CardinalityType
<1>5. QED
    BY <1>3, <1>4 DEF Rank

(* A key that stays backs its user as before, unless its owner starts to   *)
(* wait with it.                                                           *)
LEMMA BackingKept ==
    ASSUME Given, IsFiniteSet(permits), permits' \subseteq permits, NEW p \in Backing, p \in permits',
           (Waits(p.by) /\ p = Own(p.by))' => (Waits(p.by) /\ p = Own(p.by))
    PROVE  p \in Backing'
<1>1. Rank(p) < Size /\ ~(Waits(p.by) /\ p = Own(p.by))
    BY DEF Backing
<1>2. Rank(p)' < Size
    BY <1>1, RankFalls DEF Given
<1>3. QED
    BY <1>1, <1>2 DEF Backing

(* A step that adds no user and keeps the keys behind those that remain.   *)
LEMMA UsersLeave ==
    ASSUME NEW f, Backs(f, Users, Backing), Users' \subseteq Users, \A c \in Users' : f[c] \in Backing'
    PROVE  \E g : Backs(g, Users', Backing')
<1> DEFINE g == [c \in Users' |-> f[c]]
<1>1. Backs(g, Users', Backing')
    BY DEF Backs
<1>2. QED
    BY <1>1

(* Acquire puts a key behind all others, which backs nobody yet.           *)
LEMMA AcquireBacked ==
    ASSUME Given, IInv, NEW c \in Callers, Acquire(c)
    PROVE  \E g : Backs(g, Users', Backing')
<1>0. Sane /\ SemTypeOK
    BY DEF IInv, Sane
<1>1. PICK f : Backs(f, Users, Backing)
    BY DEF IInv
<1>2. Users' \subseteq Users
    BY <1>0 DEF Acquire, SemGoto, Users, SemTypeOK
<1>3. ASSUME NEW p \in Backing PROVE p \in Backing'
    <2>1. p \in permits /\ Rank(p) < Size /\ ~(Waits(p.by) /\ p = Own(p.by)) /\ p.rev <= revision
        BY <1>0, <1>3 DEF Backing, Sane
    <2>2. p.by \in Callers /\ p.rev \in Nat /\ revision \in Nat
        BY <1>0, <2>1 DEF SemTypeOK, Keys
    <2>3. {q \in permits' : q.rev < p.rev} = {q \in permits : q.rev < p.rev}
        <3>1. permits' = permits \cup {[by |-> c, rev |-> revision + 1]}
            BY DEF Acquire
        <3>2. ~(revision + 1 < p.rev)
            BY <2>1, <2>2
        <3>3. QED
            BY <3>1, <3>2
    <2>4. Rank(p)' < Size
        BY <2>1, <2>3 DEF Rank
    <2>5. p \in permits'
        BY <2>1 DEF Acquire
    <2>6. CASE p.by = c
        <3>1. Own(c)'.rev = revision + 1
            BY <1>0 DEF Own, Acquire, SemTypeOK
        <3>2. p # Own(c)'
            BY <2>1, <2>2, <3>1
        <3>3. QED
            BY <2>4, <2>5, <2>6, <3>2 DEF Backing
    <2>7. CASE p.by # c
        <3>1. Own(p.by)' = Own(p.by) /\ Waits(p.by)' = Waits(p.by)
            BY <1>0, <2>2, <2>7 DEF Own, Waits, Acquire, SemGoto, SemTypeOK
        <3>2. QED
            BY <2>1, <2>4, <2>5, <3>1 DEF Backing
    <2>8. QED
        BY <2>6, <2>7
<1>4. \A d \in Users' : f[d] \in Backing'
    BY <1>1, <1>2, <1>3 DEF Backs
<1>5. QED
    BY <1>1, <1>2, <1>4, UsersLeave

(* A caller whose rank is below Size gets its own key behind it.           *)
LEMMA QueryBacked ==
    ASSUME Given, IInv, NEW c \in Callers, Query(c)
    PROVE  \E g : Backs(g, Users', Backing')
<1>0. Sane /\ SemTypeOK /\ IsFiniteSet(permits)
    BY DEF IInv, Sane
<1>1. PICK f : Backs(f, Users, Backing)
    BY DEF IInv
<1>2. /\ UNCHANGED <<permits, semLease, permitKey>> /\ pc[c] = "query"
      /\ \A d \in Callers \ {c} : pc'[d] = pc[d]
      /\ pc'[c] \in {"cleanup", "watch", "held"}
      /\ pc'[c] = "held" => Own(c) \in permits /\ Rank(Own(c)) < Size
    BY <1>0 DEF Query, SemGoto, SemTypeOK
<1>3. Own(c)' = Own(c) /\ Rank(Own(c))' = Rank(Own(c)) /\ Waits(c)
    BY <1>2 DEF Own, Rank, Waits
<1>4. ASSUME NEW p \in Backing PROVE p \in Backing'
    <2>1. p \in permits /\ p.by \in Callers
        BY <1>0, <1>4 DEF Backing, SemTypeOK, Keys
    <2>2. p \in permits' /\ permits' \subseteq permits
        BY <1>2, <2>1
    <2>3. (Waits(p.by) /\ p = Own(p.by))' => (Waits(p.by) /\ p = Own(p.by))
        BY <1>2, <2>1 DEF Waits, Own
    <2>4. QED
        BY <1>0, <2>2, <2>3, BackingKept
<1>5. CASE pc'[c] # "held"
    <2>1. Users' \subseteq Users
        BY <1>2, <1>5 DEF Users
    <2>2. QED
        BY <1>1, <1>4, <2>1, UsersLeave DEF Backs
<1>6. CASE pc'[c] = "held"
    <2>1. Own(c) \in permits /\ semLease[SessionOf[c]] /\ Own(c).by = c
        BY <1>0, <1>2, <1>6 DEF Sane, Own
    <2>2. Users' = Users \cup {c} /\ c \notin Users
        BY <1>2, <1>6, <2>1 DEF Users
    <2>3. Own(c) \notin Backing
        BY <1>3, <2>1 DEF Backing
    <2>4. Own(c) \in Backing'
        <3>1. ~Waits(c)'
            BY <1>6 DEF Waits
        <3>2. Own(c) \in permits' /\ Rank(Own(c))' < Size
            BY <1>2, <1>3, <1>6
        <3>3. QED
            BY <2>1, <3>1, <3>2, <1>3 DEF Backing
    <2> DEFINE g == [d \in Users' |-> IF d = c THEN Own(c) ELSE f[d]]
    <2>5. \A d \in Users : f[d] \in Backing /\ f[d] # Own(c)
        BY <1>1, <2>3 DEF Backs
    <2>6. \A d \in Users' : g[d] \in Backing' /\ SessionOf[g[d].by] = SessionOf[d]
        BY <1>1, <1>4, <2>1, <2>2, <2>4, <2>5 DEF Backs
    <2>7. \A d, e \in Users' : g[d] = g[e] => d = e
        BY <1>1, <2>2, <2>5 DEF Backs
    <2>8. Backs(g, Users', Backing')
        BY <2>6, <2>7 DEF Backs
    <2>9. QED
        BY <2>8
<1>7. QED
    BY <1>5, <1>6

(* A caller that goes on waiting, or stops using its permit, takes nobody's *)
(* key.                                                                     *)
LEMMA MoveBacked ==
    ASSUME Given, IInv, NEW c \in Callers, SemWake(c) \/ SemFail(c) \/ Release(c)
    PROVE  \E g : Backs(g, Users', Backing')
<1>0. Sane /\ SemTypeOK /\ IsFiniteSet(permits)
    BY DEF IInv, Sane
<1>1. PICK f : Backs(f, Users, Backing)
    BY DEF IInv
<1>2. /\ UNCHANGED <<permits, semLease, permitKey>>
      /\ \A d \in Callers : Waits(d)' => Waits(d)
    BY <1>0 DEF SemWake, SemFail, Release, SemGoto, Waits, SemTypeOK
<1>3. Users' \subseteq Users
    BY <1>0 DEF SemWake, SemFail, Release, SemGoto, Users, SemTypeOK
<1>4. ASSUME NEW p \in Backing PROVE p \in Backing'
    <2>1. p \in permits /\ p.by \in Callers
        BY <1>0, <1>4 DEF Backing, SemTypeOK, Keys
    <2>2. p \in permits' /\ permits' \subseteq permits
        BY <1>2, <2>1
    <2>3. (Waits(p.by) /\ p = Own(p.by))' => (Waits(p.by) /\ p = Own(p.by))
        BY <1>2, <2>1 DEF Own
    <2>4. QED
        BY <1>0, <2>2, <2>3, BackingKept
<1>5. QED
    BY <1>1, <1>3, <1>4, UsersLeave DEF Backs

(* The deferred delete takes a key its caller still waits with.            *)
LEMMA CleanupBacked ==
    ASSUME Given, IInv, NEW c \in Callers, SemCleanup(c)
    PROVE  \E g : Backs(g, Users', Backing')
<1>0. Sane /\ SemTypeOK /\ IsFiniteSet(permits)
    BY DEF IInv, Sane
<1>1. PICK f : Backs(f, Users, Backing)
    BY DEF IInv
<1>2. /\ permits' \subseteq permits /\ permits \ {Own(c)} \subseteq permits'
      /\ UNCHANGED <<semLease, permitKey>> /\ pc[c] = "cleanup" /\ pc'[c] = "idle"
      /\ \A d \in Callers \ {c} : pc'[d] = pc[d]
    BY <1>0 DEF SemCleanup, SemGoto, SemTypeOK
<1>3. Users' \subseteq Users
    BY <1>2 DEF Users
<1>4. ASSUME NEW p \in Backing PROVE p \in Backing'
    <2>1. p \in permits /\ p.by \in Callers /\ ~(Waits(p.by) /\ p = Own(p.by))
        BY <1>0, <1>4 DEF Backing, SemTypeOK, Keys
    <2>2. p # Own(c)
        BY <1>2, <2>1 DEF Waits, Own
    <2>3. p \in permits'
        BY <1>2, <2>1, <2>2
    <2>4. (Waits(p.by) /\ p = Own(p.by))' => (Waits(p.by) /\ p = Own(p.by))
        BY <1>2, <2>1 DEF Own, Waits
    <2>5. QED
        BY <1>0, <1>2, <2>3, <2>4, BackingKept
<1>5. QED
    BY <1>1, <1>3, <1>4, UsersLeave DEF Backs

(* Release deletes a key of the session: the user behind which it stood    *)
(* takes over the key of the caller that has done with its permit.         *)
LEMMA DeleteBacked ==
    ASSUME Given, IInv, NEW c \in Callers, DeleteOldest(c)
    PROVE  \E g : Backs(g, Users', Backing')
<1> DEFINE k == target[c]
<1>0. Sane /\ SemTypeOK /\ IsFiniteSet(permits)
    BY DEF IInv, Sane
<1>1. PICK f : Backs(f, Users, Backing)
    BY DEF IInv
<1>2. /\ permits' \subseteq permits /\ permits \ {k} \subseteq permits'
      /\ UNCHANGED <<semLease, permitKey>> /\ pc[c] = "delete" /\ pc'[c] = "idle"
      /\ \A d \in Callers \ {c} : pc'[d] = pc[d]
    BY <1>0 DEF DeleteOldest, SemGoto, SemTypeOK
<1>3. Users' = Users \ {c} /\ SessionOf[k.by] = SessionOf[c]
    BY <1>0, <1>2 DEF Users, Sane
<1> HIDE DEF k
<1>4. ASSUME NEW p \in Backing, p # k PROVE p \in Backing'
    <2>1. p \in permits /\ p.by \in Callers
        BY <1>0, <1>4 DEF Backing, SemTypeOK, Keys
    <2>2. p \in permits'
        BY <1>2, <1>4, <2>1
    <2>3. (Waits(p.by) /\ p = Own(p.by))' => (Waits(p.by) /\ p = Own(p.by))
        BY <1>2, <2>1 DEF Own, Waits
    <2>4. QED
        BY <1>0, <1>2, <2>2, <2>3, BackingKept
<1>5. CASE c \in Users
    <2> DEFINE g == [d \in Users' |-> IF f[d] = k THEN f[c] ELSE f[d]]
    <2>1. ASSUME NEW d \in Users' PROVE g[d] \in Backing /\ g[d] # k /\ SessionOf[g[d].by] = SessionOf[d]
        <3>1. d \in Users /\ d # c /\ f[d] \in Backing /\ f[c] \in Backing /\ f[d] # f[c]
            BY <1>1, <1>3, <1>5, <2>1 DEF Backs
        <3>2. SessionOf[f[d].by] = SessionOf[d] /\ SessionOf[f[c].by] = SessionOf[c]
            BY <1>1, <1>5, <3>1 DEF Backs
        <3>3. CASE f[d] = k
            BY <1>3, <2>1, <3>1, <3>2, <3>3
        <3>4. CASE f[d] # k
            BY <2>1, <3>1, <3>2, <3>4
        <3>5. QED
            BY <3>3, <3>4
    <2>2. \A d, e \in Users' : g[d] = g[e] => d = e
        BY <1>1, <1>3, <1>5 DEF Backs
    <2>3. \A d \in Users' : g[d] \in Backing'
        BY <1>4, <2>1
    <2>4. Backs(g, Users', Backing')
        BY <2>1, <2>2, <2>3 DEF Backs
    <2>5. QED
        BY <2>4
<1>6. CASE c \notin Users
    <2>1. ~semLease[SessionOf[c]]
        BY <1>2, <1>6 DEF Users
    <2>2. k \notin permits
        BY <1>0, <1>3, <2>1 DEF Sane
    <2>3. \A p \in Backing : p \in Backing'
        BY <1>4, <2>2 DEF Backing
    <2>4. Users' \subseteq Users
        BY <1>3
    <2>5. QED
        BY <1>1, <2>3, <2>4, UsersLeave DEF Backs
<1>7. QED
    BY <1>5, <1>6

(* A lease takes its keys and its users away.                              *)
LEMMA LeaseBacked ==
    ASSUME Given, IInv, NEW s \in Sessions, SemLeaseExpires(s)
    PROVE  \E g : Backs(g, Users', Backing')
<1>0. Sane /\ SemTypeOK /\ IsFiniteSet(permits)
    BY DEF IInv, Sane
<1>1. PICK f : Backs(f, Users, Backing)
    BY DEF IInv
<1>2. /\ permits' = permits \ Of(s) /\ UNCHANGED <<pc, permitKey>>
      /\ semLease' = [semLease EXCEPT ![s] = FALSE]
    BY DEF SemLeaseExpires
<1>3. Users' = {c \in Users : SessionOf[c] # s}
    BY <1>0, <1>2 DEF Users, SemTypeOK, Given
<1>4. ASSUME NEW p \in Backing, SessionOf[p.by] # s PROVE p \in Backing'
    <2>1. p \in permits
        BY <1>4 DEF Backing
    <2>2. p \in permits' /\ permits' \subseteq permits
        BY <1>2, <1>4, <2>1 DEF Of
    <2>3. (Waits(p.by) /\ p = Own(p.by))' => (Waits(p.by) /\ p = Own(p.by))
        BY <1>2 DEF Own, Waits
    <2>4. QED
        BY <1>0, <2>2, <2>3, BackingKept
<1>5. \A c \in Users' : f[c] \in Backing'
    BY <1>1, <1>3, <1>4 DEF Backs
<1>6. Users' \subseteq Users
    BY <1>3
<1>7. QED
    BY <1>1, <1>5, <1>6, UsersLeave

(* Every step keeps the keys apart and under live leases.                  *)
LEMMA SaneStep == ASSUME Given, Sane, [SemNext]_semVars PROVE Sane'
<1>0. SemTypeOK /\ IsFiniteSet(permits)
    BY DEF Sane
<1>1. ASSUME NEW c \in Callers, Acquire(c) PROVE Sane'
    <2> DEFINE k == [by |-> c, rev |-> revision + 1]
    <2>1. /\ permits' = permits \cup {k} /\ revision' = revision + 1 /\ revision \in Nat
          /\ semLease' = semLease /\ semLease[SessionOf[c]] /\ target' = target
          /\ k \in Keys /\ k.rev = revision + 1 /\ k.by = c
        BY <1>0, <1>1 DEF Acquire, SemTypeOK, Keys
    <2>2. SemTypeOK'
        <3>1. pc' \in [Callers -> SemSteps] /\ seen' \in [Callers -> BOOLEAN]
            BY <1>0, <1>1 DEF Acquire, SemGoto, notify, SemTypeOK, SemSteps
        <3>2. permitKey' \in [Callers -> Nat]
            BY <1>0, <1>1 DEF Acquire, SemTypeOK
        <3>3. QED
            BY <1>0, <2>1, <3>1, <3>2 DEF SemTypeOK
    <2>3. IsFiniteSet(permits')
        BY <1>0, <2>1, FS_AddElement
    <2> HIDE DEF k
    <2>4. \A p \in permits' : p.rev <= revision' /\ semLease'[SessionOf[p.by]]
        <3>1. \A p \in permits : p.rev \in Nat /\ p.rev <= revision
            BY <1>0 DEF Sane, SemTypeOK, Keys
        <3>2. QED
            BY <2>1, <3>1 DEF Sane
    <2>5. \A p, q \in permits' : p.rev = q.rev => p = q
        <3>1. \A p \in permits : p.rev \in Nat /\ p.rev <= revision
            BY <1>0 DEF Sane, SemTypeOK, Keys
        <3>2. \A p \in permits : p.rev # k.rev
            BY <2>1, <3>1
        <3>3. QED
            BY <2>1, <3>2 DEF Sane
    <2>6. \A d \in Callers : pc'[d] = "delete" => SessionOf[target'[d].by] = SessionOf[d]
        BY <1>0, <1>1, <2>1 DEF Acquire, SemGoto, Sane, SemTypeOK
    <2>7. QED
        BY <2>2, <2>3, <2>4, <2>5, <2>6 DEF Sane
<1>2. ASSUME permits' \subseteq permits, UNCHANGED <<revision, semLease>>, SemTypeOK',
             \A c \in Callers : pc'[c] = "delete" => SessionOf[target'[c].by] = SessionOf[c]
      PROVE  Sane'
    <2>1. IsFiniteSet(permits')
        BY <1>0, <1>2, FS_Subset
    <2>2. QED
        BY <1>2, <2>1 DEF Sane
<1>3. ASSUME NEW c \in Callers, Query(c) \/ SemWake(c) \/ SemFail(c) PROVE Sane'
    <2>1. SemTypeOK'
        BY <1>0, <1>3 DEF Query, SemWake, SemFail, SemGoto, SemTypeOK, SemSteps
    <2>2. \A d \in Callers : pc'[d] = "delete" => SessionOf[target'[d].by] = SessionOf[d]
        BY <1>0, <1>3 DEF Query, SemWake, SemFail, SemGoto, SemTypeOK, Sane
    <2>3. permits' \subseteq permits /\ UNCHANGED <<revision, semLease>>
        BY <1>3 DEF Query, SemWake, SemFail
    <2>4. QED
        BY <1>2, <2>1, <2>2, <2>3
<1>4. ASSUME NEW c \in Callers, SemCleanup(c) PROVE Sane'
    <2>1. permits' \subseteq permits /\ UNCHANGED <<revision, semLease, target, permitKey>>
          /\ pc' = [pc EXCEPT ![c] = "idle"]
        BY <1>4 DEF SemCleanup, SemGoto
    <2>2. seen' \in [Callers -> BOOLEAN]
        BY <1>0, <1>4 DEF SemCleanup, notify, SemTypeOK
    <2>3. SemTypeOK'
        BY <1>0, <2>1, <2>2 DEF SemTypeOK, SemSteps
    <2>4. \A d \in Callers : pc'[d] = "delete" => SessionOf[target'[d].by] = SessionOf[d]
        BY <1>0, <2>1 DEF SemTypeOK, Sane
    <2>5. QED
        BY <1>2, <2>1, <2>3, <2>4
<1>5. ASSUME NEW c \in Callers, Release(c) PROVE Sane'
    <2>1. CASE pc' = [pc EXCEPT ![c] = "idle"] /\ target' = target
        <3>1. UNCHANGED <<permits, revision, semLease, seen, permitKey>>
            BY <1>5 DEF Release
        <3>2. SemTypeOK'
            BY <1>0, <2>1, <3>1 DEF SemTypeOK, SemSteps
        <3>3. \A d \in Callers : pc'[d] = "delete" => SessionOf[target'[d].by] = SessionOf[d]
            BY <1>0, <2>1 DEF SemTypeOK, Sane
        <3>4. QED
            BY <1>2, <3>1, <3>2, <3>3
    <2>2. ASSUME NEW k \in Of(SessionOf[c]), pc' = [pc EXCEPT ![c] = "delete"],
                 target' = [target EXCEPT ![c] = k]
          PROVE  Sane'
        <3>1. UNCHANGED <<permits, revision, semLease, seen, permitKey>>
            BY <1>5 DEF Release
        <3>2. k \in Keys /\ SessionOf[k.by] = SessionOf[c]
            BY <1>0 DEF Of, SemTypeOK
        <3>3. SemTypeOK'
            BY <1>0, <2>2, <3>1, <3>2 DEF SemTypeOK, SemSteps
        <3>4. \A d \in Callers : pc'[d] = "delete" => SessionOf[target'[d].by] = SessionOf[d]
            BY <1>0, <2>2, <3>2 DEF SemTypeOK, Sane
        <3>5. QED
            BY <1>2, <3>1, <3>3, <3>4
    <2>3. QED
        BY <1>5, <2>1, <2>2 DEF Release, SemGoto
<1>6. ASSUME NEW c \in Callers, DeleteOldest(c) PROVE Sane'
    <2>1. permits' \subseteq permits /\ UNCHANGED <<revision, semLease, permitKey>>
          /\ pc' = [pc EXCEPT ![c] = "idle"] /\ target' = [target EXCEPT ![c] = NoKey]
        BY <1>6 DEF DeleteOldest, SemGoto
    <2>2. seen' \in [Callers -> BOOLEAN]
        BY <1>0, <1>6 DEF DeleteOldest, notify, SemTypeOK
    <2>3. SemTypeOK'
        BY <1>0, <2>1, <2>2 DEF SemTypeOK, SemSteps
    <2>4. \A d \in Callers : pc'[d] = "delete" => SessionOf[target'[d].by] = SessionOf[d]
        BY <1>0, <2>1 DEF SemTypeOK, Sane
    <2>5. QED
        BY <1>2, <2>1, <2>3, <2>4
<1>7. ASSUME NEW s \in Sessions, SemLeaseExpires(s) PROVE Sane'
    <2>1. /\ permits' = permits \ Of(s) /\ UNCHANGED <<revision, pc, target, permitKey>>
          /\ semLease' = [semLease EXCEPT ![s] = FALSE]
        BY <1>7 DEF SemLeaseExpires
    <2>2. seen' \in [Callers -> BOOLEAN]
        BY <1>0, <1>7 DEF SemLeaseExpires, notify, SemTypeOK
    <2>3. SemTypeOK'
        BY <1>0, <2>1, <2>2 DEF SemTypeOK
    <2>4. IsFiniteSet(permits')
        BY <1>0, <2>1, FS_Subset
    <2>5. \A p \in permits' : p \in permits /\ SessionOf[p.by] # s
        BY <2>1 DEF Of
    <2>6. \A p \in permits' : p.rev <= revision' /\ semLease'[SessionOf[p.by]]
        <3>1. SUFFICES ASSUME NEW p \in permits' PROVE p.rev <= revision' /\ semLease'[SessionOf[p.by]]
            OBVIOUS
        <3>2. p \in permits /\ SessionOf[p.by] # s /\ p.by \in Callers /\ p.rev <= revision /\ semLease[SessionOf[p.by]]
            BY <1>0, <2>5 DEF Sane, SemTypeOK, Keys
        <3>3. SessionOf[p.by] \in Sessions
            BY <3>2 DEF Given
        <3>4. QED
            BY <1>0, <2>1, <3>2, <3>3 DEF SemTypeOK
    <2>7. QED
        BY <2>1, <2>3, <2>4, <2>5, <2>6 DEF Sane
<1>8. CASE UNCHANGED semVars
    BY <1>8 DEF semVars, Sane, SemTypeOK
<1>9. QED
    BY <1>1, <1>3, <1>4, <1>5, <1>6, <1>7, <1>8 DEF SemNext, SemStep

(* Every step keeps every user backed.                                     *)
LEMMA BackedStep == ASSUME Given, IInv, [SemNext]_semVars PROVE IInv'
<1>1. Sane'
    BY SaneStep DEF IInv
<1>2. CASE UNCHANGED semVars
    BY <1>1, <1>2 DEF semVars, IInv, Users, Backing, Rank, Waits, Own
<1>3. \E g : Backs(g, Users', Backing')
    BY <1>2, AcquireBacked, QueryBacked, MoveBacked, CleanupBacked, DeleteBacked, LeaseBacked
       DEF SemNext, SemStep, IInv
<1>4. QED
    BY <1>1, <1>3 DEF IInv

(* Different keys have different ranks, so the first Size places hold at   *)
(* most Size keys.                                                         *)
LEMMA FewUsers == ASSUME Given, IInv PROVE IsFiniteSet(Users) /\ Cardinality(Users) <= Size
<1>0. Sane /\ IsFiniteSet(permits)
    BY DEF IInv, Sane
<1>1. PICK f : Backs(f, Users, Backing)
    BY DEF IInv
<1>2. ASSUME NEW p \in permits, NEW q \in permits, p.rev < q.rev PROVE Rank(p) # Rank(q)
    <2> DEFINE S == {x \in permits : x.rev < p.rev}
               T == {x \in permits : x.rev < q.rev}
    <2>1. \A x \in permits : x.rev \in Nat
        BY <1>0 DEF Sane, SemTypeOK, Keys
    <2>2. S \subseteq T /\ p \in T /\ p \notin S
        BY <1>2, <2>1
    <2>3. IsFiniteSet(T)
        BY <1>0, FS_Subset
    <2>4. S # T
        BY <2>2
    <2> HIDE DEF S, T
    <2>5. Cardinality(S) # Cardinality(T)
        BY <2>2, <2>3, <2>4, FS_Subset
    <2>6. QED
        BY <2>5 DEF Rank, S, T
<1>3. ASSUME NEW p \in permits PROVE Rank(p) \in Nat
    <2>1. IsFiniteSet({x \in permits : x.rev < p.rev})
        BY <1>0, FS_Subset
    <2>2. QED
        BY <2>1, FS_CardinalityType DEF Rank
<1> DEFINE g == [c \in Users |-> Rank(f[c])]
<1>4. \A c \in Users : f[c] \in permits /\ Rank(f[c]) \in 0 .. Size - 1
    BY <1>1, <1>3 DEF Backs, Backing, Given
<1>5. \A c, d \in Users : g[c] = g[d] => c = d
    <2>1. SUFFICES ASSUME NEW c \in Users, NEW d \in Users, g[c] = g[d] PROVE c = d
        OBVIOUS
    <2>2. f[c] \in permits /\ f[d] \in permits /\ Rank(f[c]) = Rank(f[d])
        BY <1>4, <2>1
    <2>3. f[c].rev \in Nat /\ f[d].rev \in Nat
        BY <1>0, <2>2 DEF Sane, SemTypeOK, Keys
    <2>4. f[c].rev = f[d].rev
        BY <1>2, <2>2, <2>3
    <2>5. f[c] = f[d]
        BY <1>0, <2>2, <2>4 DEF Sane
    <2>6. QED
        BY <1>1, <2>5 DEF Backs
<1>6. g \in Injection(Users, 0 .. Size - 1)
    BY <1>4, <1>5 DEF Injection, IsInjective
<1>7. IsFiniteSet(0 .. Size - 1) /\ Cardinality(0 .. Size - 1) = Size
    BY FS_Interval DEF Given
<1>8. QED
    BY <1>6, <1>7, FS_Injection

(* The callers past Acquire are never more than Size, whoever put the keys *)
(* that Release deletes, whatever leases expire and requests fail.         *)
THEOREM PermitsBounded == ASSUME Given PROVE SemSpec => []AtMostSize
<1>1. SemInit => IInv
    BY BackedInit
<1>2. IInv /\ [SemNext]_semVars => IInv'
    BY BackedStep
<1>3. IInv => AtMostSize
    <2>1. SUFFICES ASSUME IInv PROVE AtMostSize
        OBVIOUS
    <2> DEFINE H == {c \in Callers : pc[c] = "held" /\ semLease[SessionOf[c]]}
    <2>2. H \subseteq Users
        BY DEF Users
    <2>3. IsFiniteSet(Users) /\ Cardinality(Users) <= Size
        BY <2>1, FewUsers
    <2>4. IsFiniteSet(H) /\ Cardinality(H) <= Cardinality(Users)
        BY <2>2, <2>3, FS_Subset
    <2>5. Cardinality(H) \in Nat /\ Cardinality(Users) \in Nat
        BY <2>3, <2>4, FS_CardinalityType
    <2>6. QED
        BY <2>3, <2>4, <2>5 DEF AtMostSize, Given
<1>4. QED
    BY <1>1, <1>2, <1>3, PTL DEF SemSpec

(* A change of the permits is never missed: Acquire's watch starts at the  *)
(* revision after its query.                                               *)
THEOREM ChangesSeen == ASSUME Given PROVE SemSpec => []NoMissedChange
<1>1. SemInit => Sane /\ NoMissedChange
    BY BackedInit DEF IInv, SemInit, NoMissedChange
<1>2. Sane /\ NoMissedChange /\ [SemNext]_semVars => (Sane /\ NoMissedChange)'
    <2>1. SUFFICES ASSUME Sane, NoMissedChange, [SemNext]_semVars PROVE NoMissedChange'
        BY SaneStep
    <2>2. SemTypeOK
        BY <2>1 DEF Sane
    <2>3. SUFFICES ASSUME NEW d \in Callers, pc'[d] = "watch", ~seen'[d]
                   PROVE  ~(Own(d)' \in permits' /\ Rank(Own(d))' < Size)
        BY DEF NoMissedChange
    <2>4. ASSUME pc[d] = "watch", ~seen[d], UNCHANGED <<permits, permitKey>>
          PROVE  ~(Own(d)' \in permits' /\ Rank(Own(d))' < Size)
        BY <2>1, <2>4 DEF NoMissedChange, Own, Rank
    <2>5. ASSUME NEW c \in Callers, Query(c), d = c
          PROVE  ~(Own(d)' \in permits' /\ Rank(Own(d))' < Size)
        <3>1. UNCHANGED <<permits, permitKey>>
            BY <2>5 DEF Query
        <3>2. ~(Own(d) \in permits /\ Rank(Own(d)) < Size)
            BY <2>2, <2>3, <2>5 DEF Query, SemGoto, SemTypeOK
        <3>3. QED
            BY <3>1, <3>2 DEF Own, Rank
    <2>6. ASSUME NEW c \in Callers, (Query(c) /\ d # c) \/ SemWake(c) \/ SemFail(c) \/ Release(c)
          PROVE  pc[d] = "watch" /\ ~seen[d] /\ UNCHANGED <<permits, permitKey>>
        BY <2>2, <2>3, <2>6 DEF Query, SemWake, SemFail, Release, SemGoto, SemTypeOK
    <2>7. ASSUME NEW c \in Callers, Acquire(c) \/ SemCleanup(c) \/ DeleteOldest(c)
          PROVE  pc[d] = "watch" /\ ~seen[d] /\ UNCHANGED <<permits, permitKey>>
        <3>1. seen'[d] = (seen[d] \/ (pc[d] = "watch" /\ permits' # permits))
            BY <2>7 DEF Acquire, SemCleanup, DeleteOldest, notify
        <3>2. pc[d] = "watch" /\ pc[c] # "watch"
            BY <2>2, <2>3, <2>7 DEF Acquire, SemCleanup, DeleteOldest, SemGoto, SemTypeOK
        <3>3. permits' = permits /\ ~seen[d]
            BY <2>3, <3>1, <3>2
        <3>4. ~Acquire(c)
            <4>1. SUFFICES ASSUME Acquire(c) PROVE FALSE
                OBVIOUS
            <4>2. [by |-> c, rev |-> revision + 1] \in permits
                BY <3>3, <4>1 DEF Acquire
            <4>3. revision + 1 <= revision /\ revision \in Nat
                BY <2>1, <2>2, <4>2 DEF Sane, SemTypeOK
            <4>4. QED
                BY <4>3
        <3>5. QED
            BY <2>7, <3>2, <3>3, <3>4 DEF SemCleanup, DeleteOldest
    <2>8. ASSUME NEW s \in Sessions, SemLeaseExpires(s)
          PROVE  pc[d] = "watch" /\ ~seen[d] /\ UNCHANGED <<permits, permitKey>>
        <3>1. seen'[d] = (seen[d] \/ (pc[d] = "watch" /\ permits' # permits))
            BY <2>8 DEF SemLeaseExpires, notify
        <3>2. QED
            BY <2>3, <2>8, <3>1 DEF SemLeaseExpires
    <2>9. CASE UNCHANGED semVars
        BY <2>3, <2>4, <2>9 DEF semVars
    <2>10. QED
        BY <2>1, <2>4, <2>5, <2>6, <2>7, <2>8, <2>9 DEF SemNext, SemStep
<1>3. QED
    BY <1>1, <1>2, PTL DEF SemSpec

-----------------------------------------------------------------------------
(* Barrier                                                                 *)
(***************************************************************************)
(* DistributedBarrier implements its contract, for any number of calls,    *)
(* any count and any number of generations.                                *)
(***************************************************************************)

(* Generation g has been joined by enough calls to be released. *)
Full(g) == Cardinality(joined[g]) >= Count

(* Why the contract holds: the participant keys of a generation belong to  *)
(* calls that joined it, so a count that reached Count, a release key and  *)
(* a call that found it all rest on a full generation, and a generation    *)
(* never loses a call that joined it.                                      *)
CallOK(w) ==
    /\ waiter[w].pc = "trip" => Full(waiter[w].gen)
    /\ waiter[w].pc \in {"start", "register"} =>
          ~waiter[w].ok /\ \A g \in Generations : w \notin joined[g]
    /\ waiter[w].pc = "register" => waiter[w].gen \in Generations
    /\ waiter[w].pc \in {"check", "count", "trip", "wait", "cleanup"} =>
          waiter[w].gen \in Generations /\ w \in joined[waiter[w].gen]
    /\ waiter[w].pc \in {"check", "count", "trip", "wait"} => ~waiter[w].ok

BarrierInv ==
    /\ BarrierTypeOK
    /\ \A p \in participants : p[2] \in joined[p[1]]
    /\ \A g \in released : Full(g)
    /\ \A w \in Waiters : CallOK(w)

-----------------------------------------------------------------------------
(* A generation joined by one more call stays full. *)
LEMMA JoinedGrows ==
    ASSUME IsFiniteSet(Waiters), NEW S \in SUBSET Waiters, NEW T \in SUBSET Waiters, S \subseteq T
    PROVE  Cardinality(S) \in Nat /\ Cardinality(T) \in Nat /\ Cardinality(S) <= Cardinality(T)
<1>1. IsFiniteSet(T)
  BY FS_Subset
<1>2. IsFiniteSet(S)
  BY FS_Subset
<1> QED
  BY <1>1, <1>2, FS_Subset, FS_CardinalityType

(* The participant keys of a generation are at most the calls that joined  *)
(* it: the count that trips the barrier is a count of calls.               *)
LEMMA CountBelow ==
    ASSUME IsFiniteSet(Waiters), BarrierTypeOK, NEW g \in Generations,
           \A p \in participants : p[2] \in joined[p[1]]
    PROVE  /\ Cardinality({p \in participants : p[1] = g}) \in Nat
           /\ Cardinality({p \in participants : p[1] = g}) <= Cardinality(joined[g])
<1> DEFINE P == {p \in participants : p[1] = g}
           f == [p \in P |-> p[2]]
<1>1. joined[g] \in SUBSET Waiters
  BY DEF BarrierTypeOK
<1>2. IsFiniteSet(joined[g])
  BY <1>1, FS_Subset
<1>3. P \subseteq Generations \X Waiters
  BY DEF BarrierTypeOK
<1>4. f \in [P -> joined[g]]
  OBVIOUS
<1>5. \A p, q \in P : f[p] = f[q] => p = q
  BY <1>3
<1>6. f \in Injection(P, joined[g])
  BY <1>4, <1>5 DEF Injection, IsInjective
<1> HIDE DEF P, f
<1>7. Cardinality(P) <= Cardinality(joined[g]) /\ IsFiniteSet(P)
  BY <1>2, <1>6, FS_Injection
<1> QED
  BY <1>7, FS_CardinalityType DEF P

(* A new barrier satisfies the invariant. *)
LEMMA InitBarrierInv == ASSUME Count \in Nat PROVE BarrierInit => BarrierInv
BY DEF BarrierInit, BarrierInv, BarrierTypeOK, CallOK, Full, BarrierSteps

(* The parts of the invariant that mention one call hold for a call that   *)
(* does not move while generations only gain calls.                        *)
LEMMA OthersKeep ==
    ASSUME Count \in Nat, IsFiniteSet(Waiters), BarrierTypeOK, joined' \in [Generations -> SUBSET Waiters],
           NEW w \in Waiters, CallOK(w), waiter'[w] = waiter[w],
           \A g \in Generations : joined[g] \subseteq joined'[g],
           \A g \in Generations : w \notin joined[g] => w \notin joined'[g]
    PROVE  CallOK(w)'
<1>1. \A g \in Generations : Full(g) => Full(g)'
  BY JoinedGrows DEF Full, BarrierTypeOK
<1>2. waiter[w].pc = "trip" => waiter[w].gen \in Generations
  BY DEF CallOK
<1> QED
  BY <1>1, <1>2 DEF CallOK, Full, BarrierTypeOK

(* Every request of a call, a reset and a lost lease keep the invariant. *)
LEMMA NextBarrierInv == ASSUME Count \in Nat, IsFiniteSet(Waiters), Generations \subseteq Nat \ {0}
                 PROVE  BarrierInv /\ [BarrierNext]_barrierVars => BarrierInv'
<1> SUFFICES ASSUME BarrierInv, [BarrierNext]_barrierVars PROVE BarrierInv'
  OBVIOUS
<1> USE DEF BarrierSteps
<1>1. CASE UNCHANGED barrierVars
  BY <1>1 DEF barrierVars, BarrierInv, BarrierTypeOK, CallOK, Full
<1>2. CASE Reset
  BY <1>2 DEF Reset, BarrierInv, BarrierTypeOK, CallOK, Full
<1>3. ASSUME NEW w \in Waiters, getOrCreateGeneration(w) PROVE BarrierInv'
  <2>1. generation' \in Generations /\ made' \in Nat
    BY <1>3 DEF getOrCreateGeneration, BarrierInv, BarrierTypeOK
  <2>2. BarrierTypeOK'
    <3>1. waiter \in [Waiters -> [pc : BarrierSteps, gen : Generations \cup {0}, ok : BOOLEAN]]
      BY DEF BarrierInv, BarrierTypeOK
    <3>2. waiter' = [waiter EXCEPT ![w] = [@ EXCEPT !.pc = "register", !.gen = generation']]
      BY Zenon, <1>3 DEF getOrCreateGeneration
    <3>3. [waiter[w] EXCEPT !.pc = "register", !.gen = generation']
              \in [pc : BarrierSteps, gen : Generations \cup {0}, ok : BOOLEAN]
      BY Zenon, <2>1, <3>1
    <3>4. waiter' \in [Waiters -> [pc : BarrierSteps, gen : Generations \cup {0}, ok : BOOLEAN]]
      BY <3>1, <3>2, <3>3, Zenon
    <3> QED
      BY <1>3, <2>1, <3>4, Zenon DEF getOrCreateGeneration, BarrierInv, BarrierTypeOK
  <2>3. CallOK(w)'
    BY <1>3, <2>1 DEF getOrCreateGeneration, BarrierInv, BarrierTypeOK, CallOK, Full, At
  <2>4. \A x \in Waiters \ {w} : CallOK(x)'
    BY <1>3, <2>1 DEF getOrCreateGeneration, BarrierInv, BarrierTypeOK, CallOK, Full
  <2> QED
    BY <1>3, <2>2, <2>3, <2>4 DEF getOrCreateGeneration, BarrierInv, Full
<1>4. ASSUME NEW w \in Waiters, Register(w) PROVE BarrierInv'
  <2>1. waiter[w].gen \in Generations /\ \A g \in Generations : w \notin joined[g]
    BY <1>4 DEF Register, At, BarrierInv, CallOK
  <2>2. BarrierTypeOK'
    BY <1>4, <2>1 DEF Register, BarrierGoto, BarrierInv, BarrierTypeOK
  <2>3. \A g \in Generations : joined[g] \subseteq joined'[g]
    BY <1>4, <2>1 DEF Register, BarrierInv, BarrierTypeOK
  <2>4. \A g \in Generations, x \in Waiters \ {w} : x \notin joined[g] => x \notin joined'[g]
    BY <1>4, <2>1 DEF Register, BarrierInv, BarrierTypeOK
  <2>5. ASSUME NEW x \in Waiters \ {w} PROVE CallOK(x)'
    <3>1. waiter'[x] = waiter[x] /\ CallOK(x)
      BY <1>4 DEF Register, BarrierGoto, BarrierInv, BarrierTypeOK
    <3> QED
      BY <3>1, <2>2, <2>3, <2>4, OthersKeep DEF BarrierInv, BarrierTypeOK
  <2>6. CallOK(w)'
    BY <1>4, <2>1 DEF Register, BarrierGoto, At, BarrierInv, BarrierTypeOK, CallOK
  <2>7. \A g \in Generations : Full(g) => Full(g)'
    BY <2>2, <2>3, JoinedGrows DEF Full, BarrierInv, BarrierTypeOK
  <2>8. \A p \in participants' : p[2] \in joined'[p[1]]
    BY <1>4, <2>1, <2>3 DEF Register, BarrierInv, BarrierTypeOK
  <2> QED
    BY <1>4, <2>2, <2>5, <2>6, <2>7, <2>8 DEF Register, BarrierInv, BarrierTypeOK
<1>5. ASSUME NEW w \in Waiters, CheckReleased(w) PROVE BarrierInv'
  <2>1. BarrierTypeOK'
    <3>1. waiter \in [Waiters -> [pc : BarrierSteps, gen : Generations \cup {0}, ok : BOOLEAN]]
      BY DEF BarrierInv, BarrierTypeOK
    <3> DEFINE c == IF waiter[w].gen \in released
                    THEN [waiter[w] EXCEPT !.pc = "cleanup", !.ok = TRUE]
                    ELSE [waiter[w] EXCEPT !.pc = "count"]
    <3>2. waiter' = [waiter EXCEPT ![w] = c]
      BY <1>5 DEF CheckReleased
    <3>3. c \in [pc : BarrierSteps, gen : Generations \cup {0}, ok : BOOLEAN]
      BY Zenon, <3>1
    <3> HIDE DEF c
    <3>4. waiter' \in [Waiters -> [pc : BarrierSteps, gen : Generations \cup {0}, ok : BOOLEAN]]
      BY <3>1, <3>2, <3>3, Zenon
    <3> QED
      BY <1>5, <3>4, Zenon DEF CheckReleased, etcd, BarrierInv, BarrierTypeOK
  <2>2. CallOK(w)'
    <3>1. waiter'[w].gen = waiter[w].gen /\ waiter'[w].pc \in {"cleanup", "count"}
      BY <1>5 DEF CheckReleased, BarrierInv, BarrierTypeOK
    <3>2. waiter'[w].pc = "count" => ~waiter'[w].ok
      BY <1>5 DEF CheckReleased, At, BarrierInv, BarrierTypeOK, CallOK
    <3> QED
      BY <1>5, <3>1, <3>2 DEF CheckReleased, At, BarrierInv, CallOK
  <2>3. \A x \in Waiters \ {w} : CallOK(x)'
    BY <1>5 DEF CheckReleased, etcd, BarrierInv, BarrierTypeOK, CallOK, Full
  <2> QED
    BY <1>5, <2>1, <2>2, <2>3 DEF CheckReleased, etcd, BarrierInv, Full
<1>6. ASSUME NEW w \in Waiters, CountParticipants(w) PROVE BarrierInv'
  <2>1. waiter[w].gen \in Generations
    BY <1>6 DEF CountParticipants, At, BarrierInv, CallOK
  <2>2. waiter'[w].pc = "trip" => Full(waiter[w].gen)
    <3>1. waiter'[w].pc = "trip" => Cardinality({p \in participants : p[1] = waiter[w].gen}) >= Count
      BY <1>6 DEF CountParticipants, BarrierGoto, At, BarrierInv, BarrierTypeOK
    <3>2. /\ Cardinality({p \in participants : p[1] = waiter[w].gen}) \in Nat
          /\ Cardinality({p \in participants : p[1] = waiter[w].gen}) <= Cardinality(joined[waiter[w].gen])
      BY Zenon, <2>1, CountBelow DEF BarrierInv
    <3>3. Cardinality(joined[waiter[w].gen]) \in Nat
      BY Zenon, <2>1, JoinedGrows DEF BarrierInv, BarrierTypeOK
    <3> QED
      BY <3>1, <3>2, <3>3 DEF Full
  <2>3. CallOK(w)'
    BY <1>6, <2>1, <2>2 DEF CountParticipants, BarrierGoto, At, etcd, BarrierInv, BarrierTypeOK, CallOK, Full
  <2>4. \A x \in Waiters \ {w} : CallOK(x)'
    BY <1>6 DEF CountParticipants, BarrierGoto, etcd, BarrierInv, BarrierTypeOK, CallOK, Full
  <2>5. BarrierTypeOK'
    BY <1>6 DEF CountParticipants, BarrierGoto, etcd, BarrierInv, BarrierTypeOK
  <2> QED
    BY <1>6, <2>3, <2>4, <2>5 DEF CountParticipants, etcd, BarrierInv, Full
<1>7. ASSUME NEW w \in Waiters, Trip(w) PROVE BarrierInv'
  BY <1>7 DEF Trip, At, BarrierGoto, BarrierInv, BarrierTypeOK, CallOK, Full
<1>8. ASSUME NEW w \in Waiters, BarrierWake(w) PROVE BarrierInv'
  BY <1>8 DEF BarrierWake, At, BarrierGoto, etcd, BarrierInv, BarrierTypeOK, CallOK, Full
<1>9. ASSUME NEW w \in Waiters, BarrierCleanup(w) PROVE BarrierInv'
  BY <1>9 DEF BarrierCleanup, At, BarrierGoto, BarrierInv, BarrierTypeOK, CallOK, Full
<1>10. ASSUME NEW w \in Waiters, BarrierFail(w) PROVE BarrierInv'
  BY <1>10 DEF BarrierFail, BarrierGoto, etcd, BarrierInv, BarrierTypeOK, CallOK, Full
<1>11. ASSUME NEW w \in Waiters, BarrierLeaseExpires(w) PROVE BarrierInv'
  BY <1>11 DEF BarrierLeaseExpires, BarrierInv, BarrierTypeOK, CallOK, Full
<1> QED
  BY <1>1, <1>2, <1>3, <1>4, <1>5, <1>6, <1>7, <1>8, <1>9, <1>10, <1>11 DEF BarrierNext, BarrierStep

(* Every step joins a call, lets one through a full generation, or is none *)
(* of the contract's business.                                             *)
LEMMA StepSimulation == ASSUME Count \in Nat, IsFiniteSet(Waiters), BarrierInv, [BarrierNext]_barrierVars
                        PROVE  [Contract!Next]_Contract!contractVars
<1> USE DEF Contract!contractVars, BarrierSteps
<1>1. CASE UNCHANGED barrierVars
  BY <1>1 DEF barrierVars, through
<1>2. CASE Reset
  BY <1>2 DEF Reset, through
<1>3. ASSUME NEW w \in Waiters, Register(w) PROVE [Contract!Next]_Contract!contractVars
  <2>1. waiter[w].gen \in Generations /\ w \notin joined[waiter[w].gen]
    BY <1>3 DEF Register, At, BarrierInv, CallOK
  <2>2. through' = through
    BY <1>3 DEF Register, BarrierGoto, through, BarrierInv, BarrierTypeOK
  <2> QED
    BY Zenon, <1>3, <2>1, <2>2 DEF Register, Contract!Next, Contract!Join
<1>4. ASSUME NEW w \in Waiters, CheckReleased(w) PROVE [Contract!Next]_Contract!contractVars
  <2>1. joined' = joined /\ waiter[w].gen \in Generations /\ w \in joined[waiter[w].gen]
    BY <1>4 DEF CheckReleased, At, BarrierInv, CallOK
  <2>2. CASE waiter[w].gen \in released
    <3>1. Full(waiter[w].gen)
      BY <2>2 DEF BarrierInv
    <3>2. through' = through \cup {w}
      BY <1>4, <2>2 DEF CheckReleased, through, BarrierInv, BarrierTypeOK
    <3>3. joined[waiter[w].gen] \in SUBSET Waiters
      BY <2>1 DEF BarrierInv, BarrierTypeOK
    <3>4. Contract!Pass(w, waiter[w].gen)
      BY <2>1, <3>1, <3>2, <3>3 DEF Full, Contract!Pass
    <3> QED
      BY <2>1, <3>4 DEF Contract!Next
  <2>3. CASE waiter[w].gen \notin released
    <3>1. through' = through
      BY <1>4, <2>3 DEF CheckReleased, At, through, BarrierInv, BarrierTypeOK, CallOK
    <3> QED
      BY <2>1, <3>1
  <2> QED
    BY <2>2, <2>3
<1>5. ASSUME NEW w \in Waiters,
             getOrCreateGeneration(w) \/ CountParticipants(w) \/ Trip(w) \/ BarrierWake(w) \/ BarrierCleanup(w)
                \/ BarrierFail(w) \/ BarrierLeaseExpires(w)
      PROVE  [Contract!Next]_Contract!contractVars
  <2>1. joined' = joined
    BY <1>5 DEF getOrCreateGeneration, CountParticipants, Trip, BarrierWake, BarrierCleanup, BarrierFail, BarrierLeaseExpires
  <2>2. through' = through
    BY <1>5 DEF getOrCreateGeneration, CountParticipants, Trip, BarrierWake, BarrierCleanup, BarrierFail, BarrierLeaseExpires,
                BarrierGoto, through, BarrierInv, BarrierTypeOK
  <2> QED
    BY <2>1, <2>2
<1> QED
  BY <1>1, <1>2, <1>3, <1>4, <1>5 DEF BarrierNext, BarrierStep

(* DistributedBarrier keeps its contract: whatever requests fail, leases   *)
(* expire or Reset deletes, a call of Wait that returns nil belongs to a   *)
(* generation that Count calls joined.                                     *)
THEOREM BarrierImplements ==
    ASSUME Count \in Nat, IsFiniteSet(Waiters), Generations \subseteq Nat \ {0}
    PROVE  BarrierSpec => ImplementsContract
<1>1. BarrierInit => BarrierInv
  BY InitBarrierInv
<1>2. BarrierInv /\ [BarrierNext]_barrierVars => BarrierInv'
  BY NextBarrierInv
<1>3. BarrierInit => Contract!Init
  BY DEF BarrierInit, Contract!Init, through
<1>4. BarrierInv /\ [BarrierNext]_barrierVars => [Contract!Next]_Contract!contractVars
  BY StepSimulation
<1> QED
  BY <1>1, <1>2, <1>3, <1>4, PTL DEF BarrierSpec, ImplementsContract, Contract!Spec
=============================================================================
