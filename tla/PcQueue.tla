------------------------------ MODULE PcQueue -------------------------------
(***************************************************************************)
(* The queue between the broker's main thread and its workers:             *)
(* projeto-2/producer-consumer/producer-consumer.c, and the copy a worker  *)
(* makes of a dequeued element (thread_manager, mbroker.c:467).            *)
(*                                                                         *)
(* Pushers serialise on pcq_pusher_condvar_lock and poppers on             *)
(* pcq_popper_condvar_lock; nothing orders a pusher and a popper, although *)
(* each reads what the other writes.  pcq_tail_lock and pcq_head_lock are  *)
(* only ever taken inside those two, so they never block and are left out. *)
(*                                                                         *)
(* The k-th request to be enqueued is the number k; Torn stands for bytes  *)
(* of two requests.  enqueued and dequeued count the advances of the tail  *)
(* and of the head: the code has no such variables.                        *)
(***************************************************************************)
EXTENDS Integers, FiniteSets

CONSTANTS
    Pushers,       \* threads that call pcq_enqueue: the broker's main
    Poppers,       \* threads that call pcq_dequeue: its workers
    Capacity,      \* pcq_capacity
    MaxRequests,   \* bound: requests that arrive
    NoThread,
    Torn

ASSUME PcQueueAssumption ==
    /\ Pushers \cap Poppers = {}
    /\ Capacity \in Nat \ {0}
    /\ MaxRequests \in Nat
    /\ NoThread \notin Pushers \cup Poppers
    /\ Torn \notin Nat

VARIABLES
    pc,             \* where each thread stands
    owner,          \* who holds each side's lock
    asleep,         \* who waits on each side's condition variable
    pcq_buffer,     \* what each slot holds
    pcq_head, pcq_tail, pcq_current_size,
    loaded,         \* the size a thread has loaded and not yet stored back
    elem,           \* the slot pcq_dequeue returned to each popper
    received,       \* what each popper copied out of it
    due,            \* the request that was in it when it was dequeued
    enqueued, dequeued,
    undercounted,   \* history: some pcq_current_size++ was overwritten
    splitWrap       \* the build stores tail++ before tail % capacity (OPTIM=no)

vars == <<pc, owner, asleep, pcq_buffer, pcq_head, pcq_tail, pcq_current_size,
          loaded, elem, received, due, enqueued, dequeued, undercounted, splitWrap>>

Threads  == Pushers \cup Poppers
Indices  == 0 .. Capacity - 1
Contents == Nat \cup {Torn}

\* Each side has one lock and one condition variable.
Sides   == {"pusher", "popper"}
Side(t) == IF t \in Pushers THEN "pusher" ELSE "popper"

\* The steps of a thread; "outside" is a thread in neither function: main
\* waiting for a request, a worker in a session.
Steps == {"outside", "enter", "check", "mustSleep", "asleep", "copyIn",
          "copyingIn", "advance", "wrap", "count", "store", "signal", "unlock",
          "copyOut", "copyingOut"}

TypeOK ==
    /\ pc \in [Threads -> Steps]
    /\ owner \in [Sides -> Threads \cup {NoThread}]
    /\ asleep \in [Sides -> SUBSET Threads]
    /\ pcq_buffer \in [Indices -> Contents]
    /\ pcq_head \in Indices
    /\ pcq_tail \in 0 .. Capacity
    /\ pcq_current_size \in Int
    /\ loaded \in [Threads -> Int]
    /\ elem \in [Poppers -> Indices]
    /\ received \in [Poppers -> Contents]
    /\ due \in [Poppers -> Nat]
    /\ enqueued \in Nat
    /\ dequeued \in Nat
    /\ undercounted \in BOOLEAN
    /\ splitWrap \in BOOLEAN

-----------------------------------------------------------------------------

\* pcq_create, in a program built either way: the slots are malloc'ed, and hold
\* no request.
Init ==
    /\ pc = [t \in Threads |-> "outside"]
    /\ owner = [s \in Sides |-> NoThread]
    /\ asleep = [s \in Sides |-> {}]
    /\ pcq_buffer = [i \in Indices |-> 0]
    /\ pcq_head = 0 /\ pcq_tail = 0 /\ pcq_current_size = 0
    /\ loaded = [t \in Threads |-> 0]
    /\ elem = [w \in Poppers |-> 0]
    /\ received = [w \in Poppers |-> 0]
    /\ due = [w \in Poppers |-> 0]
    /\ enqueued = 0 /\ dequeued = 0
    /\ undercounted = FALSE
    /\ splitWrap \in BOOLEAN

\* Mutation: the test for a full queue is off by one.
pcq_isOverfull == pcq_current_size > Capacity

pcq_isFull  == pcq_current_size = Capacity
pcq_isEmpty == pcq_head = pcq_tail

\* Mutation: pcq_dequeue does not test for emptiness.
PushersMustWait(t) == t \in Pushers /\ pcq_isFull

MustWait(t) == IF t \in Pushers THEN pcq_isFull ELSE pcq_isEmpty

At(t, step)   == pc[t] = step
GoTo(t, step) == pc' = [pc EXCEPT ![t] = step]

ringVars  == <<pcq_buffer, pcq_head, pcq_tail, enqueued, dequeued>>
sizeVars  == <<pcq_current_size, loaded, undercounted, splitWrap>>
outVars   == <<elem, received, due>>
syncVars  == <<owner, asleep>>

-----------------------------------------------------------------------------
(* What both functions do: lock, loop on the condition, ... , signal the   *)
(* other side, unlock.                                                     *)

Inside(S) == Cardinality({t \in S : pc[t] # "outside"})

\* A request arrives, or a session ends.  The bound on the poppers is never
\* reached unless they dequeue what nobody enqueued.
Call(t) ==
    /\ At(t, "outside")
    /\ t \in Pushers => enqueued + Inside(Pushers) < MaxRequests
    /\ t \in Poppers =>
          dequeued + Inside(Poppers) < MaxRequests + Cardinality(Poppers)
    /\ GoTo(t, "enter")
    /\ UNCHANGED <<syncVars, ringVars, sizeVars, outVars>>

\* A thread that enters, or one that pthread_cond_wait lets go.
Lock(t) ==
    /\ At(t, "enter")
    /\ owner[Side(t)] = NoThread
    /\ owner' = [owner EXCEPT ![Side(t)] = t]
    /\ GoTo(t, "check")
    /\ UNCHANGED <<asleep, ringVars, sizeVars, outVars>>

Check(t) ==
    /\ At(t, "check")
    /\ GoTo(t, IF MustWait(t) THEN "mustSleep"
               ELSE IF t \in Pushers THEN "copyIn" ELSE "advance")
    /\ UNCHANGED <<syncVars, ringVars, sizeVars, outVars>>

\* The other side does not hold this lock when it signals: a signal between
\* the check and this step finds nobody to wake.
Sleep(t) ==
    /\ At(t, "mustSleep")
    /\ owner' = [owner EXCEPT ![Side(t)] = NoThread]
    /\ asleep' = [asleep EXCEPT ![Side(t)] = @ \cup {t}]
    /\ GoTo(t, "asleep")
    /\ UNCHANGED <<ringVars, sizeVars, outVars>>

SpuriousWakeup(t) ==
    /\ t \in asleep[Side(t)]
    /\ asleep' = [asleep EXCEPT ![Side(t)] = @ \ {t}]
    /\ GoTo(t, "enter")
    /\ UNCHANGED <<owner, ringVars, sizeVars, outVars>>

OtherSide(t) == IF t \in Pushers THEN "popper" ELSE "pusher"

Signal(t) ==
    /\ At(t, "signal")
    /\ \/ /\ asleep[OtherSide(t)] = {}
          /\ GoTo(t, "unlock")
          /\ UNCHANGED asleep
       \/ \E u \in asleep[OtherSide(t)] :
             /\ asleep' = [asleep EXCEPT ![OtherSide(t)] = @ \ {u}]
             /\ pc' = [pc EXCEPT ![t] = "unlock", ![u] = "enter"]
    /\ UNCHANGED <<owner, ringVars, sizeVars, outVars>>

\* The worker copies its element out of the slot without any lock.
Unlock(t) ==
    /\ At(t, "unlock")
    /\ owner' = [owner EXCEPT ![Side(t)] = NoThread]
    /\ GoTo(t, IF t \in Pushers THEN "outside" ELSE "copyOut")
    /\ UNCHANGED <<asleep, ringVars, sizeVars, outVars>>

\* pcq_current_size++ of a pusher and pcq_current_size-- of a popper are each a
\* load and a store, under different locks: pcq_current_size_lock is never taken.
Counted(t, n) == IF t \in Pushers THEN n + 1 ELSE n - 1

Count(t) ==
    /\ At(t, "count")
    /\ loaded' = [loaded EXCEPT ![t] = pcq_current_size]
    /\ GoTo(t, "store")
    /\ UNCHANGED <<syncVars, ringVars, outVars, pcq_current_size, undercounted,
                   splitWrap>>

\* A size that is no longer the one loaded was stored by the other side, whose
\* update is lost.
StoreSize(t) ==
    /\ At(t, "store")
    /\ pcq_current_size' = Counted(t, loaded[t])
    /\ undercounted' = (undercounted \/ (t \in Poppers /\ loaded[t] # pcq_current_size))
    /\ GoTo(t, "signal")
    /\ UNCHANGED <<syncVars, ringVars, outVars, loaded, splitWrap>>

-----------------------------------------------------------------------------
(* pcq_enqueue                                                             *)

Store(p, from, to, value) ==
    /\ At(p, from)
    /\ pcq_buffer' = [pcq_buffer EXCEPT ![pcq_tail] = value]
    /\ GoTo(p, to)
    /\ UNCHANGED <<syncVars, pcq_head, pcq_tail, enqueued, dequeued, sizeVars, outVars>>

CopyIn(p)     == Store(p, "copyIn", "copyingIn", Torn)
CopyInDone(p) == Store(p, "copyingIn", "advance", enqueued + 1)

\* Mutation: the tail does not wrap around.
AdvanceTailForever(p) ==
    /\ At(p, "advance")
    /\ enqueued' = enqueued + 1
    /\ pcq_tail' = pcq_tail + 1
    /\ GoTo(p, "count")
    /\ UNCHANGED <<syncVars, pcq_buffer, pcq_head, dequeued, sizeVars, outVars>>

AdvanceTail(p) ==
    /\ At(p, "advance")
    /\ enqueued' = enqueued + 1
    /\ IF splitWrap
       THEN pcq_tail' = pcq_tail + 1 /\ GoTo(p, "wrap")
       ELSE pcq_tail' = (pcq_tail + 1) % Capacity /\ GoTo(p, "count")
    /\ UNCHANGED <<syncVars, pcq_buffer, pcq_head, dequeued, sizeVars, outVars>>

WrapTail(p) ==
    /\ At(p, "wrap")
    /\ pcq_tail' = pcq_tail % Capacity
    /\ GoTo(p, "count")
    /\ UNCHANGED <<syncVars, pcq_buffer, pcq_head, enqueued, dequeued, sizeVars, outVars>>

-----------------------------------------------------------------------------
(* pcq_dequeue, and what its caller does with the pointer.  Only the holder *)
(* of the poppers' lock reads the head, so its two stores are one step.    *)

\* Mutation: the element is taken from where the head has moved to.
AdvanceHeadFirst(w) ==
    /\ At(w, "advance")
    /\ elem' = [elem EXCEPT ![w] = (pcq_head + 1) % Capacity]
    /\ due' = [due EXCEPT ![w] = dequeued + 1]
    /\ dequeued' = dequeued + 1
    /\ pcq_head' = (pcq_head + 1) % Capacity
    /\ GoTo(w, "count")
    /\ UNCHANGED <<syncVars, pcq_buffer, pcq_tail, enqueued, sizeVars, received>>

AdvanceHead(w) ==
    /\ At(w, "advance")
    /\ elem' = [elem EXCEPT ![w] = pcq_head]
    /\ due' = [due EXCEPT ![w] = dequeued + 1]
    /\ dequeued' = dequeued + 1
    /\ pcq_head' = (pcq_head + 1) % Capacity
    /\ GoTo(w, "count")
    /\ UNCHANGED <<syncVars, pcq_buffer, pcq_tail, enqueued, sizeVars, received>>

CopyOut(w) ==
    /\ At(w, "copyOut")
    /\ received' = [received EXCEPT ![w] = pcq_buffer[elem[w]]]
    /\ GoTo(w, "copyingOut")
    /\ UNCHANGED <<syncVars, ringVars, sizeVars, elem, due>>

\* The slot may have been written again meanwhile.
CopyOutDone(w) ==
    /\ At(w, "copyingOut")
    /\ received' = [received EXCEPT ![w] =
                       IF @ = pcq_buffer[elem[w]] THEN @ ELSE Torn]
    /\ GoTo(w, "outside")
    /\ UNCHANGED <<syncVars, ringVars, sizeVars, elem, due>>

-----------------------------------------------------------------------------

Running(t) ==
    \/ Lock(t)
    \/ Check(t)
    \/ Sleep(t)
    \/ Count(t)
    \/ StoreSize(t)
    \/ Signal(t)
    \/ Unlock(t)

Pushing(p) == CopyIn(p) \/ CopyInDone(p) \/ AdvanceTail(p) \/ WrapTail(p)

Popping(w) == AdvanceHead(w) \/ CopyOut(w) \/ CopyOutDone(w)

Next ==
    \/ \E t \in Threads : Call(t)
    \/ \E t \in Threads : SpuriousWakeup(t)
    \/ \E t \in Threads : Running(t)
    \/ \E p \in Pushers : Pushing(p)
    \/ \E w \in Poppers : Popping(w)

Spec == Init /\ [][Next]_vars

-----------------------------------------------------------------------------

\* In the optimised build pcq_dequeue hands out no element that was not
\* enqueued, although it decides that there is one without the lock under which
\* the tail moves.
NoPhantomDequeue == ~splitWrap => dequeued <= enqueued

\* The ring between the head and the tail, oldest first, as the slots hold it.
Unread ==
    [k \in 1 .. (enqueued - dequeued) |-> pcq_buffer[(dequeued + k - 1) % Capacity]]

Fifo == INSTANCE BoundedFifo WITH queue <- Unread, sent <- enqueued

\* In the optimised build the slots between the head and the tail are a bounded
\* first-in first-out queue of the requests, no enqueue overwriting one that is
\* still to be read and no dequeue skipping one or taking one twice, for as long
\* as no pcq_dequeue has overwritten the count of an enqueue.  The counts of
\* dequeues may be lost: they only make the queue look fuller than it is.
FifoSpec ==
    /\ Fifo!Init
    /\ [][~splitWrap /\ ~undercounted => Fifo!Next]_<<Unread, enqueued>>

\* What producer-consumer.h:44 and :49 promise together: both sides cannot
\* sleep at once, for a queue is not both full and empty.
NotAllAsleep ==
    ~(Pushers = asleep["pusher"] /\ Poppers = asleep["popper"])

\* What producer-consumer.h:47 promises, the worker receives the element that it
\* removed, as far as the optimised build keeps it: the slot is given back before
\* the worker has copied it, but nothing else is received unless the pushers came
\* all the way round to the slot by then.
TornOnlyWhenLapped ==
    ~splitWrap =>
        \A w \in Poppers :
            At(w, "outside") /\ received[w] # due[w]
                => enqueued + 1 >= due[w] + Capacity
=============================================================================
