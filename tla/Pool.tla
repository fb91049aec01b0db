-------------------------------- MODULE Pool --------------------------------
(***************************************************************************)
(* cotton-usb-host/src/async_pool.rs: Total equivalent resources, handed   *)
(* out by async fn alloc (a PoolFuture polled until Ready), by try_alloc,  *)
(* and returned when the Pooled guard is dropped.  The pool keeps a single *)
(* waker, that of the PoolFuture polled last.                              *)
(*                                                                         *)
(* A client is one user of the pool: one async block inside a task.        *)
(* Several clients may live in one task (join or select): waking the task  *)
(* polls every one of them that is pending.                                *)
(***************************************************************************)
EXTENDS Naturals

CONSTANTS
    Clients,
    Tasks,
    TaskOf,     \* the task each client lives in
    Total       \* Pool::new(total)

ASSUME PoolAssumption ==
    /\ TaskOf \in [Clients -> Tasks]
    /\ Total \in Nat /\ Total <= 32

VARIABLES
    allocated,  \* the BitSet
    waker,      \* {} or the one task whose waker is kept
    state,      \* of each client: "idle", "waiting" in alloc().await, "holding"
    held,       \* the resource of each client that is holding
    due         \* the waiting clients whose task is going to be polled

vars == <<allocated, waker, state, held, due>>

Resources == 0 .. Total - 1

Init ==
    /\ allocated = {}
    /\ waker = {}
    /\ state = [c \in Clients |-> "idle"]
    /\ held = [c \in Clients |-> 0]
    /\ due = {}

\* Mutant of SetAny: bit 0 whether or not it is set already.
SetAnyFirst(n) == n = 0

\* BitSet::set_any: the lowest of the 32 bits that is clear.
SetAny(n) ==
    /\ n \in 0 .. 31
    /\ n \notin allocated
    /\ \A m \in 0 .. n - 1 : m \in allocated

\* Mutant of CanAlloc: the limit is compared with > instead of >=.
CanAllocBeyond(n) == SetAny(n) /\ n <= Total

\* alloc_internal returns Some(n); it returns None when no n satisfies this.
CanAlloc(n) == SetAny(n) /\ n < Total

AllocInternal(c, n) ==
    /\ CanAlloc(n)
    /\ allocated' = allocated \cup {n}
    /\ held' = [held EXCEPT ![c] = n]
    /\ state' = [state EXCEPT ![c] = "holding"]

\* alloc().await begins: the future exists and its task is about to poll it.
Alloc(c) ==
    /\ state[c] = "idle"
    /\ state' = [state EXCEPT ![c] = "waiting"]
    /\ due' = due \cup {c}
    /\ UNCHANGED <<allocated, waker, held>>

\* Mutant of Registered: the future does not leave its waker.
RegisteredNever(c) == waker

\* PoolFuture::poll replaces whatever waker was there.
Registered(c) == {TaskOf[c]}

\* PoolFuture::poll: register first, then try.
Poll(c) ==
    /\ c \in due
    /\ due' = due \ {c}
    /\ waker' = Registered(c)
    /\ \/ \E n \in 0 .. 31 : AllocInternal(c, n)
       \/ /\ \A n \in 0 .. 31 : ~CanAlloc(n)
          /\ UNCHANGED <<allocated, held, state>>

\* try_alloc, when it returns Some: the waker is not touched.
TryAlloc(c) ==
    /\ state[c] = "idle"
    /\ \E n \in 0 .. 31 : AllocInternal(c, n)
    /\ UNCHANGED <<waker, due>>

\* Mutant of Woken: dealloc_internal frees the bit and wakes nobody.
WokenNone == {}

\* The clients that waking the kept waker gets polled.
Woken == {d \in Clients : state[d] = "waiting" /\ TaskOf[d] \in waker}

\* Drop for Pooled: dealloc_internal.
Drop(c) ==
    /\ state[c] = "holding"
    /\ allocated' = allocated \ {held[c]}
    /\ state' = [state EXCEPT ![c] = "idle"]
    /\ held' = [held EXCEPT ![c] = 0]
    /\ due' = due \cup Woken
    /\ waker' = {}

\* The future is dropped before it completes: PoolFuture has no Drop, so its
\* task's waker stays behind.
Cancel(c) ==
    /\ state[c] = "waiting"
    /\ state' = [state EXCEPT ![c] = "idle"]
    /\ due' = due \ {c}
    /\ UNCHANGED <<allocated, waker, held>>

Next ==
    \E c \in Clients : Alloc(c) \/ Poll(c) \/ TryAlloc(c) \/ Drop(c) \/ Cancel(c)

Spec == Init /\ [][Next]_vars

(***************************************************************************)
(* The executor polls a woken task, and a client that has its resource     *)
(* gives it back; nobody has to ask for one, nor to give up.               *)
(***************************************************************************)
FairSpec == Spec /\ \A c \in Clients : WF_vars(Poll(c)) /\ WF_vars(Drop(c))
-----------------------------------------------------------------------------
Waiting == {c \in Clients : state[c] = "waiting"}
Holding == {c \in Clients : state[c] = "holding"}

TypeOK ==
    /\ allocated \in SUBSET Resources
    /\ waker \in SUBSET Tasks
    /\ state \in [Clients -> {"idle", "waiting", "holding"}]
    /\ held \in [Clients -> Nat]
    /\ due \in SUBSET Clients

(***************************************************************************)
(* The bits of the pool are exactly the resources somebody holds, and no   *)
(* resource has two owners: nothing is leaked when a pending alloc is      *)
(* cancelled or when try_alloc and alloc race for the last one, and the    *)
(* debug_assert of dealloc_internal cannot fail.                           *)
(***************************************************************************)
Ownership ==
    /\ allocated = {held[c] : c \in Holding}
    /\ \A c, d \in Holding : held[c] = held[d] => c = d

(***************************************************************************)
(* A client that sleeps in alloc does so because every resource is taken,  *)
(* and the waker that the next drop takes is the one of its own task.      *)
(* This is what the single waker can promise: it needs all the clients     *)
(* that wait to share a task.                                              *)
(***************************************************************************)
SleepersAreCovered ==
    \A c \in Waiting \ due : allocated = Resources /\ waker = {TaskOf[c]}

\* While c waits, somebody else takes a resource.
Overtakes(c) ==
    /\ state[c] = "waiting"
    /\ \E d \in Clients \ {c} : state[d] # "holding" /\ state'[d] = "holding"

(***************************************************************************)
(* Pool::alloc "will return (awakening the task) as soon as a resource is  *)
(* available": a client that waits is served or gives up, unless others    *)
(* take resources ahead of it for ever.  No wake-up is lost, then; but a   *)
(* wake-up only means that the client may try again.                       *)
(***************************************************************************)
EventuallyServed ==
    \A c \in Clients :
        (state[c] = "waiting" ~> state[c] # "waiting") \/ []<><<Overtakes(c)>>_vars

(***************************************************************************)
(* The doc's sentence as it stands.  try_alloc, or the poll of another     *)
(* client, may take every resource that a waiting client was woken for.    *)
(***************************************************************************)
ServedAtLast ==
    \A c \in Clients : state[c] = "waiting" ~> state[c] # "waiting"
=============================================================================
