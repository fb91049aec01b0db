----------------------------- MODULE PoolProofs -----------------------------
(***************************************************************************)
(* The pool's ownership invariant, for any number of resources, clients    *)
(* and tasks; and the absence of lost wake-ups when all clients share one  *)
(* task, which is the case that the single waker is good for.              *)
(***************************************************************************)
EXTENDS Pool, WellFoundedInduction, TLAPS

\* A set of numbers that is not empty has a least element.
LEMMA LeastElement ==
    ASSUME NEW S \in SUBSET Nat, S # {}
    PROVE  \E n \in S : \A m \in S : n <= m
<1> DEFINE R == OpToRel(<, Nat)
<1>1. IsWellFoundedOn(R, Nat)
  BY NatLessThanWellFounded
<1>2. \A x, y \in Nat : <<x, y>> \in R <=> x < y
  BY DEF OpToRel
<1> HIDE DEF R
<1>3. PICK n \in S : \A m \in S : ~(<<m, n>> \in R)
  BY <1>1, WFMin
<1>4. ASSUME NEW m \in S
      PROVE  n <= m
  <2>1. m \in Nat /\ n \in Nat
    OBVIOUS
  <2>2. ~(m < n)
    BY <1>2, <1>3, <2>1
  <2> QED BY <2>1, <2>2
<1> QED BY <1>4

(***************************************************************************)
(* alloc_internal returns None only when every resource is taken: the      *)
(* lowest clear bit is at or above the limit.                              *)
(***************************************************************************)
LEMMA NoneMeansExhausted ==
    ASSUME allocated \in SUBSET Resources, \A n \in 0 .. 31 : ~CanAlloc(n)
    PROVE  allocated = Resources
<1> SUFFICES ASSUME Resources \ allocated # {} PROVE FALSE
  OBVIOUS
<1>1. Resources \ allocated \in SUBSET Nat
  BY PoolAssumption DEF Resources
<1>2. PICK n \in Resources \ allocated : \A m \in Resources \ allocated : n <= m
  BY <1>1, LeastElement
<1>3. n \in 0 .. 31 /\ n < Total /\ n \notin allocated
  BY <1>2, PoolAssumption DEF Resources
<1>4. \A m \in 0 .. n - 1 : m \in allocated
  BY <1>2, <1>3, PoolAssumption DEF Resources
<1> QED BY <1>3, <1>4 DEF CanAlloc, SetAny

(***************************************************************************)
(* The strengthening: only clients that wait are due to be polled.  It     *)
(* keeps Poll from giving a second resource to a client that holds one.    *)
(***************************************************************************)
OnlyWaitersAreDue == due \subseteq Waiting

PoolInv == TypeOK /\ Ownership /\ OnlyWaitersAreDue

\* Nobody owns anything at first.
LEMMA InitPoolInv == Init => PoolInv
<1> SUFFICES ASSUME Init PROVE PoolInv
  OBVIOUS
<1>1. Holding = {} /\ Waiting = {}
  BY DEF Init, Holding, Waiting
<1>2. TypeOK
  BY PoolAssumption DEF Init, TypeOK
<1> QED BY <1>1, <1>2 DEF Init, PoolInv, Ownership, OnlyWaitersAreDue

(***************************************************************************)
(* A successful alloc_internal by a client that holds nothing.             *)
(***************************************************************************)
LEMMA AllocInternalOwnership ==
    ASSUME PoolInv, NEW c \in Clients, c \notin Holding,
           NEW n \in 0 .. 31, AllocInternal(c, n)
    PROVE  /\ Ownership'
           /\ allocated' \in SUBSET Resources
           /\ state' \in [Clients -> {"idle", "waiting", "holding"}]
           /\ held' \in [Clients -> Nat]
           /\ Waiting' = Waiting \ {c}
<1> USE DEF PoolInv, TypeOK
<1>1. n \notin allocated /\ n \in Resources /\ n \in Nat
  BY PoolAssumption DEF AllocInternal, CanAlloc, SetAny, Resources
<1>2. /\ allocated' = allocated \cup {n}
      /\ held' = [held EXCEPT ![c] = n]
      /\ state' = [state EXCEPT ![c] = "holding"]
  BY DEF AllocInternal
<1>3. Holding' = Holding \cup {c} /\ Waiting' = Waiting \ {c}
  BY <1>2 DEF Holding, Waiting
<1>4. held'[c] = n /\ \A d \in Holding : held'[d] = held[d] /\ held[d] \in allocated
  BY <1>2 DEF Holding, Ownership
<1>5. \A d, e \in Holding' : held'[d] = held'[e] => d = e
  BY <1>1, <1>3, <1>4 DEF Ownership
<1>6. allocated' = {held'[d] : d \in Holding'}
  BY <1>2, <1>3, <1>4 DEF Ownership
<1> QED BY <1>1, <1>2, <1>3, <1>5, <1>6 DEF Ownership

\* A step that moves no resource.
LEMMA SameHoldersOwnership ==
    ASSUME PoolInv, UNCHANGED <<allocated, held>>, Holding' = Holding
    PROVE  Ownership'
BY DEF PoolInv, Ownership

\* PoolFuture::poll, whether it finds a resource or not.
LEMMA PollPoolInv == ASSUME PoolInv, NEW c \in Clients, Poll(c) PROVE PoolInv'
<1>1. c \in due /\ due' = due \ {c} /\ waker' = {TaskOf[c]}
  BY DEF Poll, Registered
<1>2. c \in Waiting /\ c \notin Holding
  BY <1>1 DEF PoolInv, OnlyWaitersAreDue, Waiting, Holding
<1>3. TaskOf[c] \in Tasks
  BY PoolAssumption
<1>4. ASSUME NEW n \in 0 .. 31, AllocInternal(c, n) PROVE PoolInv'
  <2>1. Ownership' /\ allocated' \in SUBSET Resources
        /\ state' \in [Clients -> {"idle", "waiting", "holding"}]
        /\ held' \in [Clients -> Nat] /\ Waiting' = Waiting \ {c}
    BY <1>2, <1>4, AllocInternalOwnership
  <2> QED BY <1>1, <1>3, <2>1 DEF PoolInv, TypeOK, OnlyWaitersAreDue
<1>5. CASE UNCHANGED <<allocated, held, state>>
  <2>1. Holding' = Holding /\ Waiting' = Waiting
    BY <1>5 DEF Holding, Waiting
  <2>2. Ownership'
    BY <1>5, <2>1, SameHoldersOwnership
  <2> QED BY <1>1, <1>3, <1>5, <2>1, <2>2 DEF PoolInv, TypeOK, OnlyWaitersAreDue
<1> QED BY <1>4, <1>5 DEF Poll

\* try_alloc, whether it finds a resource or not.
LEMMA TryAllocPoolInv == ASSUME PoolInv, NEW c \in Clients, TryAlloc(c) PROVE PoolInv'
<1>1. state[c] = "idle" /\ UNCHANGED <<waker, due>>
  BY DEF TryAlloc
<1>2. PICK n \in 0 .. 31 : AllocInternal(c, n)
  BY DEF TryAlloc
<1>3. c \notin Holding /\ c \notin Waiting
  BY <1>1 DEF Holding, Waiting
<1>5. Ownership' /\ allocated' \in SUBSET Resources
      /\ state' \in [Clients -> {"idle", "waiting", "holding"}]
      /\ held' \in [Clients -> Nat] /\ Waiting' = Waiting \ {c}
  BY <1>2, <1>3, AllocInternalOwnership
<1> QED BY <1>1, <1>3, <1>5 DEF PoolInv, TypeOK, OnlyWaitersAreDue

\* alloc makes a future and takes nothing yet.
LEMMA AllocPoolInv == ASSUME PoolInv, NEW c \in Clients, Alloc(c) PROVE PoolInv'
<1>1. /\ state[c] = "idle"
      /\ state' = [state EXCEPT ![c] = "waiting"] /\ due' = due \cup {c}
      /\ UNCHANGED <<allocated, waker, held>>
  BY DEF Alloc
<1>3. Holding' = Holding /\ Waiting' = Waiting \cup {c}
  BY <1>1 DEF PoolInv, TypeOK, Holding, Waiting
<1>4. Ownership'
  BY <1>1, <1>3, SameHoldersOwnership
<1> QED BY <1>1, <1>3, <1>4 DEF PoolInv, TypeOK, OnlyWaitersAreDue

\* Dropping a resource returns it and takes the waker.
LEMMA DropPoolInv == ASSUME PoolInv, NEW c \in Clients, Drop(c) PROVE PoolInv'
<1>1. /\ state[c] = "holding" /\ allocated' = allocated \ {held[c]}
      /\ state' = [state EXCEPT ![c] = "idle"] /\ held' = [held EXCEPT ![c] = 0]
      /\ due' = due \cup Woken /\ waker' = {}
  BY DEF Drop
<1>2. Holding' = Holding \ {c} /\ Waiting' = Waiting /\ c \in Holding
  BY <1>1 DEF PoolInv, TypeOK, Holding, Waiting
<1>3. \A d \in Holding' : held'[d] = held[d] /\ held[d] # held[c]
  BY <1>1, <1>2 DEF PoolInv, TypeOK, Ownership, Holding
<1>4. allocated' = {held'[d] : d \in Holding'}
  BY <1>1, <1>2, <1>3 DEF PoolInv, Ownership
<1>5. Ownership'
  BY <1>2, <1>3, <1>4 DEF PoolInv, Ownership
<1>6. TypeOK' /\ OnlyWaitersAreDue'
  BY <1>1, <1>2 DEF PoolInv, TypeOK, OnlyWaitersAreDue, Woken, Waiting
<1> QED BY <1>5, <1>6 DEF PoolInv

\* Dropping a future that has not been served.
LEMMA CancelPoolInv == ASSUME PoolInv, NEW c \in Clients, Cancel(c) PROVE PoolInv'
<1>1. /\ state[c] = "waiting" /\ state' = [state EXCEPT ![c] = "idle"]
      /\ due' = due \ {c} /\ UNCHANGED <<allocated, waker, held>>
  BY DEF Cancel
<1>2. Holding' = Holding /\ Waiting' = Waiting \ {c}
  BY <1>1 DEF PoolInv, TypeOK, Holding, Waiting
<1>3. Ownership'
  BY <1>1, <1>2, SameHoldersOwnership
<1> QED BY <1>1, <1>2, <1>3 DEF PoolInv, TypeOK, OnlyWaitersAreDue

\* Every step keeps the invariant.
LEMMA NextPoolInv == PoolInv /\ [Next]_vars => PoolInv'
<1>1. ASSUME PoolInv, UNCHANGED vars PROVE PoolInv'
  BY <1>1 DEF PoolInv, TypeOK, Ownership, OnlyWaitersAreDue, Holding, Waiting, vars
<1> QED BY <1>1, AllocPoolInv, PollPoolInv, TryAllocPoolInv, DropPoolInv, CancelPoolInv
        DEF Next

(***************************************************************************)
(* Whatever the interleaving of alloc, try_alloc, drops and cancellations, *)
(* the bitmap is exactly the set of resources held, each by one client.    *)
(***************************************************************************)
THEOREM PoolOwnership == Spec => []Ownership
<1>1. PoolInv => Ownership
  BY DEF PoolInv
<1> QED BY <1>1, InitPoolInv, NextPoolInv, PTL DEF Spec

(***************************************************************************)
(* With every client in one task, nobody sleeps in alloc while a resource  *)
(* is free, and the next drop wakes whoever sleeps.  (Clients in two tasks *)
(* refute it: see PoolFuture::poll, which replaces the only waker.)        *)
(***************************************************************************)
THEOREM OneTaskLosesNoWakeup ==
    ASSUME \A c, d \in Clients : TaskOf[c] = TaskOf[d]
    PROVE  Spec => []SleepersAreCovered
<1> DEFINE J == PoolInv /\ SleepersAreCovered
<1>1. Init => J
  BY InitPoolInv DEF Init, SleepersAreCovered, Waiting
<1>2. J /\ [Next]_vars => J'
  <2> SUFFICES ASSUME PoolInv, SleepersAreCovered, [Next]_vars
               PROVE  SleepersAreCovered'
    BY NextPoolInv
  <2> SUFFICES ASSUME NEW s \in (Waiting \ due)'
               PROVE  allocated' = Resources /\ waker' = {TaskOf[s]}
    BY DEF SleepersAreCovered, Resources
  <2>0. s \in Clients
    BY DEF Waiting
  <2>1. ASSUME NEW c \in Clients, Alloc(c)
        PROVE  allocated' = Resources /\ waker' = {TaskOf[s]}
    BY <2>1 DEF Alloc, SleepersAreCovered, Waiting, PoolInv, TypeOK
  <2>2. ASSUME NEW c \in Clients, Poll(c)
        PROVE  allocated' = Resources /\ waker' = {TaskOf[s]}
    <3>1. waker' = {TaskOf[s]}
      BY <2>0, <2>2 DEF Poll, Registered
    <3>2. CASE \A n \in 0 .. 31 : ~CanAlloc(n)
      <4>1. allocated = Resources
        BY <3>2, NoneMeansExhausted DEF PoolInv, TypeOK
      <4>2. allocated' = allocated
        BY <2>2, <3>2 DEF Poll, AllocInternal
      <4> QED BY <3>1, <4>1, <4>2
    <3>3. ASSUME NEW n \in 0 .. 31, AllocInternal(c, n)
          PROVE  allocated' = Resources
      <4>1. c \in Waiting /\ c \notin Holding
        BY <2>2 DEF Poll, PoolInv, OnlyWaitersAreDue, Waiting, Holding
      <4>2. Waiting' = Waiting \ {c} /\ allocated' \in SUBSET Resources
        BY <3>3, <4>1, AllocInternalOwnership
      <4>3. s \in Waiting \ due
        BY <2>2, <4>2 DEF Poll
      <4>4. allocated = Resources
        BY <4>3 DEF SleepersAreCovered
      <4> QED BY <3>3, <4>2, <4>4 DEF AllocInternal
    <3> QED BY <2>2, <3>1, <3>2, <3>3 DEF Poll, AllocInternal
  <2>3. ASSUME NEW c \in Clients, TryAlloc(c)
        PROVE  allocated' = Resources /\ waker' = {TaskOf[s]}
    <3>1. PICK n \in 0 .. 31 : AllocInternal(c, n)
      BY <2>3 DEF TryAlloc
    <3>2. c \notin Holding
      BY <2>3 DEF TryAlloc, Holding
    <3>3. Waiting' = Waiting \ {c} /\ allocated' \in SUBSET Resources
      BY <3>1, <3>2, AllocInternalOwnership
    <3>4. s \in Waiting \ due /\ waker' = waker
      BY <2>3, <3>3 DEF TryAlloc
    <3>5. allocated = Resources /\ waker = {TaskOf[s]}
      BY <3>4 DEF SleepersAreCovered
    <3> QED BY <3>1, <3>3, <3>4, <3>5 DEF AllocInternal
  <2>4. ASSUME NEW c \in Clients, Drop(c)
        PROVE  FALSE
    <3>1. s \in Waiting \ due
      BY <2>0, <2>4 DEF Drop, Waiting, PoolInv, TypeOK
    <3>2. waker = {TaskOf[s]}
      BY <3>1 DEF SleepersAreCovered
    <3>3. s \in Woken
      BY <2>0, <3>1, <3>2 DEF Woken, Waiting
    <3> QED BY <2>4, <3>3 DEF Drop
  <2>5. ASSUME NEW c \in Clients, Cancel(c)
        PROVE  allocated' = Resources /\ waker' = {TaskOf[s]}
    BY <2>0, <2>5 DEF Cancel, SleepersAreCovered, Waiting, PoolInv, TypeOK
  <2>6. CASE UNCHANGED vars
    BY <2>6 DEF vars, SleepersAreCovered, Waiting
  <2> QED BY <2>1, <2>2, <2>3, <2>4, <2>5, <2>6 DEF Next
<1>3. J => SleepersAreCovered
  OBVIOUS
<1> HIDE DEF J
<1> QED BY <1>1, <1>2, <1>3, PTL DEF Spec
=============================================================================
