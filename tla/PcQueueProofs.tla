--------------------------- MODULE PcQueueProofs ----------------------------
(***************************************************************************)
(* Safety of the producer-consumer queue for any threads, any capacity and *)
(* any number of requests.                                                 *)
(***************************************************************************)
EXTENDS PcQueue, SequenceTheorems, TLAPS

\* Where a thread holds the lock of its side.
Critical == {"check", "mustSleep", "copyIn", "copyingIn", "advance", "wrap",
             "count", "store", "signal", "unlock"}

LocksHeld == \A t \in Threads : pc[t] \in Critical => owner[Side(t)] = t

SleepersSleep ==
    \A s \in Sides : \A t \in asleep[s] : pc[t] = "asleep" /\ Side(t) = s

\* A thread runs the code of its own function.
OwnCode ==
    /\ \A p \in Pushers : pc[p] \notin {"copyOut", "copyingOut"}
    /\ \A w \in Poppers : pc[w] \notin {"copyIn", "copyingIn", "wrap"}

\* The tail is past the last slot only between the two stores of a pusher.
TailWraps == pcq_tail = Capacity => \E p \in Pushers : pc[p] = "wrap"

IInv == TypeOK /\ LocksHeld /\ SleepersSleep /\ OwnCode /\ TailWraps

-----------------------------------------------------------------------------

\* The ring index that follows x.
LEMMA NextIndex ==
    ASSUME NEW x \in Indices
    PROVE  (x + 1) % Capacity = IF x + 1 = Capacity THEN 0 ELSE x + 1
BY PcQueueAssumption DEF Indices

\* A pusher about to move the tail finds it inside the ring.
LEMMA TailInside ==
    ASSUME IInv, NEW p \in Pushers, pc[p] \in Critical, pc[p] # "wrap"
    PROVE  pcq_tail \in Indices
<1>1. \A q \in Pushers : pc[q] = "wrap" => q = p
  BY DEF IInv, LocksHeld, Critical, Side, Threads
<1> QED
  BY <1>1, PcQueueAssumption DEF IInv, TypeOK, TailWraps, Indices

LEMMA InitIInv == Init => IInv
<1> USE PcQueueAssumption
<1> SUFFICES ASSUME Init PROVE IInv
  OBVIOUS
<1>1. TypeOK
  <2>1. /\ pc \in [Threads -> Steps] /\ owner \in [Sides -> Threads \cup {NoThread}]
        /\ asleep \in [Sides -> SUBSET Threads] /\ loaded \in [Threads -> Int]
    BY DEF Init, Steps
  <2>2. undercounted \in BOOLEAN /\ splitWrap \in BOOLEAN
    BY DEF Init
  <2>3. /\ pcq_buffer \in [Indices -> Contents] /\ pcq_head \in Indices
        /\ pcq_tail \in 0 .. Capacity /\ pcq_current_size \in Int
        /\ elem \in [Poppers -> Indices] /\ received \in [Poppers -> Contents]
        /\ due \in [Poppers -> Nat] /\ enqueued \in Nat /\ dequeued \in Nat
    BY DEF Init, Indices, Contents
  <2> QED
    BY <2>1, <2>2, <2>3 DEF TypeOK
<1>2. LocksHeld /\ SleepersSleep /\ OwnCode /\ TailWraps
  BY DEF Init, LocksHeld, Critical, SleepersSleep, OwnCode, TailWraps, Threads
<1> QED
  BY <1>1, <1>2 DEF IInv

\* The steps of a thread that neither holds nor takes nor gives back a lock,
\* and of one that goes on holding it.
LEMMA OwnStep ==
    ASSUME IInv, NEW t \in Threads, NEW step \in Steps,
           GoTo(t, step), UNCHANGED syncVars,
           t \notin asleep["pusher"], t \notin asleep["popper"],
           step \in Critical => pc[t] \in Critical,
           t \in Pushers => step \notin {"copyOut", "copyingOut"},
           t \in Poppers => step \notin {"copyIn", "copyingIn", "wrap"}
    PROVE  /\ pc' \in [Threads -> Steps]
           /\ owner' \in [Sides -> Threads \cup {NoThread}]
           /\ asleep' \in [Sides -> SUBSET Threads]
           /\ LocksHeld' /\ SleepersSleep' /\ OwnCode'
<1>1. pc' = [pc EXCEPT ![t] = step] /\ UNCHANGED <<owner, asleep>>
  BY DEF GoTo, syncVars
<1>2. \A u \in Threads : u # t => pc'[u] = pc[u]
  BY <1>1 DEF IInv, TypeOK
<1>3. pc'[t] = step
  BY <1>1 DEF IInv, TypeOK
<1>4. LocksHeld'
  BY <1>1, <1>2, <1>3 DEF IInv, LocksHeld, Side
<1>5. SleepersSleep'
  BY <1>1, <1>2 DEF IInv, TypeOK, SleepersSleep, Sides, Side
<1>6. OwnCode'
  BY <1>2, <1>3 DEF IInv, OwnCode, Threads
<1> QED
  BY <1>1, <1>4, <1>5, <1>6 DEF IInv, TypeOK

\* A thread that is somewhere else is not asleep.
LEMMA NotAsleep ==
    ASSUME IInv, NEW t \in Threads, pc[t] # "asleep"
    PROVE  t \notin asleep["pusher"] /\ t \notin asleep["popper"]
BY DEF IInv, SleepersSleep, Sides

\* The tail does not move and nobody leaves the two stores half done.
LEMMA TailStays ==
    ASSUME IInv, UNCHANGED pcq_tail, NEW t \in Threads, pc[t] # "wrap",
           \A u \in Threads \ {t} : pc'[u] = pc[u] \/ pc[u] = "asleep"
    PROVE  TailWraps'
BY PcQueueAssumption DEF IInv, TailWraps, Threads

-----------------------------------------------------------------------------

LEMMA CallStep == ASSUME IInv, NEW t \in Threads, Call(t) PROVE IInv'
<1>1. /\ GoTo(t, "enter") /\ pc[t] = "outside"
      /\ UNCHANGED <<syncVars, ringVars, sizeVars, outVars>>
  BY DEF Call, At
<1>2. \A u \in Threads \ {t} : pc'[u] = pc[u]
  BY <1>1 DEF GoTo, IInv, TypeOK
<1>3. /\ pc' \in [Threads -> Steps]
      /\ owner' \in [Sides -> Threads \cup {NoThread}]
      /\ asleep' \in [Sides -> SUBSET Threads]
      /\ LocksHeld' /\ SleepersSleep' /\ OwnCode'
  BY <1>1, NotAsleep, OwnStep DEF Steps, Critical
<1>4. TailWraps'
  BY <1>1, <1>2, TailStays DEF ringVars
<1> QED
  BY <1>1, <1>3, <1>4 DEF IInv, TypeOK, ringVars, sizeVars, outVars

LEMMA LockStep == ASSUME IInv, NEW t \in Threads, Lock(t) PROVE IInv'
<1> USE PcQueueAssumption
<1>1. /\ pc' = [pc EXCEPT ![t] = "check"] /\ pc[t] = "enter"
      /\ owner[Side(t)] = NoThread
      /\ owner' = [owner EXCEPT ![Side(t)] = t]
      /\ UNCHANGED <<asleep, ringVars, sizeVars, outVars>>
  BY DEF Lock, At, GoTo
<1>2. \A u \in Threads \ {t} : pc'[u] = pc[u]
  BY <1>1 DEF IInv, TypeOK
<1>3. pc'[t] = "check"
  BY <1>1 DEF IInv, TypeOK
<1>4. \A u \in Threads : Side(u) \in Sides
  BY DEF Side, Sides
<1>5. TypeOK'
  BY <1>1 DEF IInv, TypeOK, Steps, ringVars, sizeVars, outVars
<1>6. LocksHeld'
  <2> SUFFICES ASSUME NEW u \in Threads, pc'[u] \in Critical
               PROVE  owner'[Side(u)] = u
    BY DEF LocksHeld, Side
  <2>1. CASE u = t
    BY <1>1, <1>4, <2>1 DEF IInv, TypeOK
  <2>2. CASE u # t
    <3>1. owner[Side(u)] = u
      BY <1>2, <2>2 DEF IInv, LocksHeld
    <3>2. Side(u) # Side(t)
      BY <1>1, <3>1 DEF Threads
    <3> QED
      BY <1>1, <1>4, <3>1, <3>2 DEF IInv, TypeOK
  <2> QED
    BY <2>1, <2>2
<1>7. SleepersSleep'
  BY <1>1, <1>2 DEF IInv, TypeOK, SleepersSleep, Side
<1>8. OwnCode'
  BY <1>2, <1>3 DEF IInv, OwnCode, Threads
<1>9. TailWraps'
  BY <1>1, <1>2, TailStays DEF ringVars
<1> QED
  BY <1>5, <1>6, <1>7, <1>8, <1>9 DEF IInv

LEMMA CheckStep == ASSUME IInv, NEW t \in Threads, Check(t) PROVE IInv'
<1> USE PcQueueAssumption
<1> PICK step \in {"mustSleep", "copyIn", "advance"} :
        GoTo(t, step) /\ (t \in Poppers => step # "copyIn")
  BY DEF Check, Threads
<1>1. pc[t] = "check" /\ UNCHANGED <<syncVars, ringVars, sizeVars, outVars>>
  BY DEF Check, At
<1>2. \A u \in Threads \ {t} : pc'[u] = pc[u]
  BY DEF GoTo, IInv, TypeOK
<1>3. /\ pc' \in [Threads -> Steps]
      /\ owner' \in [Sides -> Threads \cup {NoThread}]
      /\ asleep' \in [Sides -> SUBSET Threads]
      /\ LocksHeld' /\ SleepersSleep' /\ OwnCode'
  BY <1>1, NotAsleep, OwnStep DEF Steps, Critical
<1>4. TailWraps'
  BY <1>1, <1>2, TailStays DEF ringVars
<1> QED
  BY <1>1, <1>3, <1>4 DEF IInv, TypeOK, ringVars, sizeVars, outVars

\* The holder of a lock gives it back on its way to a step without one.
LEMMA Releases ==
    ASSUME IInv, NEW t \in Threads, pc[t] \in Critical,
           NEW step \in Steps \ Critical,
           pc' = [pc EXCEPT ![t] = step],
           owner' = [owner EXCEPT ![Side(t)] = NoThread]
    PROVE  /\ owner' \in [Sides -> Threads \cup {NoThread}]
           /\ LocksHeld'
<1>1. owner' \in [Sides -> Threads \cup {NoThread}]
  BY DEF IInv, TypeOK
<1>2. \A u \in Threads : pc'[u] \in Critical =>
          u # t /\ pc[u] \in Critical /\ Side(u) \in Sides
  BY DEF IInv, TypeOK, Side, Sides
<1>3. \A u \in Threads : pc'[u] \in Critical => owner'[Side(u)] = u
  <2> SUFFICES ASSUME NEW u \in Threads, pc'[u] \in Critical
               PROVE  owner'[Side(u)] = u
    OBVIOUS
  <2>1. owner[Side(u)] = u /\ owner[Side(t)] = t /\ u # t /\ Side(u) \in Sides
    BY <1>2 DEF IInv, LocksHeld
  <2>2. Side(u) # Side(t)
    BY <2>1
  <2> QED
    BY <2>1, <2>2 DEF IInv, TypeOK
<1> QED
  BY <1>1, <1>3 DEF LocksHeld, Side

LEMMA SleepStep == ASSUME IInv, NEW t \in Threads, Sleep(t) PROVE IInv'
<1>1. /\ pc' = [pc EXCEPT ![t] = "asleep"] /\ pc[t] = "mustSleep"
      /\ owner' = [owner EXCEPT ![Side(t)] = NoThread]
      /\ asleep' = [asleep EXCEPT ![Side(t)] = @ \cup {t}]
      /\ UNCHANGED <<ringVars, sizeVars, outVars>>
  BY DEF Sleep, At, GoTo
<1>2. pc' \in [Threads -> Steps] /\ pc'[t] = "asleep"
  BY <1>1 DEF IInv, TypeOK, Steps
<1>3. \A u \in Threads \ {t} : pc'[u] = pc[u]
  BY <1>1 DEF IInv, TypeOK
<1>4. owner' \in [Sides -> Threads \cup {NoThread}] /\ LocksHeld'
  BY <1>1, Releases DEF Critical, Steps
<1>5. asleep' \in [Sides -> SUBSET Threads]
  BY <1>1 DEF IInv, TypeOK
<1>6. SleepersSleep'
  <2> SUFFICES ASSUME NEW s \in Sides, NEW u \in asleep'[s]
               PROVE  pc'[u] = "asleep" /\ Side(u) = s
    BY DEF SleepersSleep, Side
  <2>1. (u = t /\ s = Side(t)) \/ u \in asleep[s]
    BY <1>1 DEF IInv, TypeOK
  <2>2. u \in Threads
    BY <1>5
  <2> QED
    BY <1>2, <1>3, <2>1, <2>2 DEF IInv, SleepersSleep
<1>7. OwnCode'
  BY <1>2, <1>3 DEF IInv, OwnCode, Threads
<1>8. TailWraps'
  BY <1>1, <1>3, TailStays DEF ringVars
<1> QED
  BY <1>1, <1>2, <1>4, <1>5, <1>6, <1>7, <1>8
     DEF IInv, TypeOK, ringVars, sizeVars, outVars

\* A sleeper that is let go competes for its lock again.
LEMMA Wakes ==
    ASSUME IInv, NEW s \in Sides, NEW u \in asleep[s],
           pc' \in [Threads -> Steps], pc'[u] = "enter",
           \A v \in Threads : \/ v = u
                              \/ pc'[v] = pc[v]
                              \/ pc[v] = "signal" /\ pc'[v] = "unlock",
           asleep' = [asleep EXCEPT ![s] = @ \ {u}],
           UNCHANGED <<owner, pcq_tail>>
    PROVE  /\ asleep' \in [Sides -> SUBSET Threads]
           /\ LocksHeld' /\ SleepersSleep' /\ OwnCode' /\ TailWraps'
<1>1. u \in Threads /\ pc[u] = "asleep" /\ Side(u) = s
  BY DEF IInv, TypeOK, SleepersSleep
<1>2. LocksHeld'
  <2>1. \A v \in Threads : pc'[v] \in Critical => pc[v] \in Critical
    BY DEF Critical
  <2> QED
    BY <2>1 DEF IInv, LocksHeld, Side
<1>3. asleep' \in [Sides -> SUBSET Threads]
  BY DEF IInv, TypeOK
<1>4. SleepersSleep'
  <2> SUFFICES ASSUME NEW r \in Sides, NEW v \in asleep'[r]
               PROVE  pc'[v] = "asleep" /\ Side(v) = r
    BY DEF SleepersSleep, Side
  <2>1. v \in asleep[r] /\ (r = s => v # u)
    BY DEF IInv, TypeOK
  <2>2. v \in Threads /\ pc[v] = "asleep" /\ Side(v) = r
    BY <2>1 DEF IInv, TypeOK, SleepersSleep
  <2>3. v # u
    BY <1>1, <2>1, <2>2
  <2> QED
    BY <2>2, <2>3
<1>5. OwnCode'
  BY DEF IInv, OwnCode, Threads
<1>6. TailWraps'
  <2> SUFFICES ASSUME pcq_tail = Capacity PROVE \E p \in Pushers : pc'[p] = "wrap"
    BY DEF TailWraps
  <2>1. PICK p \in Pushers : pc[p] = "wrap"
    BY DEF IInv, TailWraps
  <2> QED
    BY <1>1, <2>1 DEF Threads
<1> QED
  BY <1>2, <1>3, <1>4, <1>5, <1>6

LEMMA SpuriousStep == ASSUME IInv, NEW t \in Threads, SpuriousWakeup(t) PROVE IInv'
<1>1. /\ t \in asleep[Side(t)] /\ Side(t) \in Sides
      /\ asleep' = [asleep EXCEPT ![Side(t)] = @ \ {t}]
      /\ pc' = [pc EXCEPT ![t] = "enter"]
      /\ UNCHANGED <<owner, ringVars, sizeVars, outVars>>
  BY DEF SpuriousWakeup, GoTo, Side, Sides
<1>2. /\ pc' \in [Threads -> Steps] /\ pc'[t] = "enter"
      /\ \A v \in Threads : v = t \/ pc'[v] = pc[v]
  BY <1>1 DEF IInv, TypeOK, Steps
<1>3. /\ asleep' \in [Sides -> SUBSET Threads]
      /\ LocksHeld' /\ SleepersSleep' /\ OwnCode' /\ TailWraps'
  BY <1>1, <1>2, Wakes DEF ringVars
<1> QED
  BY <1>1, <1>2, <1>3 DEF IInv, TypeOK, ringVars, sizeVars, outVars

LEMMA SignalStep == ASSUME IInv, NEW t \in Threads, Signal(t) PROVE IInv'
<1>1. /\ pc[t] = "signal" /\ OtherSide(t) \in Sides
      /\ UNCHANGED <<owner, ringVars, sizeVars, outVars>>
  BY DEF Signal, At, OtherSide, Sides
<1>2. CASE GoTo(t, "unlock") /\ UNCHANGED asleep
  <2>1. \A u \in Threads \ {t} : pc'[u] = pc[u]
    BY <1>2 DEF GoTo, IInv, TypeOK
  <2>2. /\ pc' \in [Threads -> Steps]
        /\ owner' \in [Sides -> Threads \cup {NoThread}]
        /\ asleep' \in [Sides -> SUBSET Threads]
        /\ LocksHeld' /\ SleepersSleep' /\ OwnCode'
    BY <1>1, <1>2, NotAsleep, OwnStep DEF Steps, Critical, syncVars
  <2>3. TailWraps'
    BY <1>1, <2>1, TailStays DEF ringVars
  <2> QED
    BY <1>1, <2>2, <2>3 DEF IInv, TypeOK, ringVars, sizeVars, outVars
<1>3. ASSUME NEW u \in asleep[OtherSide(t)],
             asleep' = [asleep EXCEPT ![OtherSide(t)] = @ \ {u}],
             pc' = [pc EXCEPT ![t] = "unlock", ![u] = "enter"]
      PROVE  IInv'
  <2>1. u \in Threads
    BY <1>1 DEF IInv, TypeOK
  <2>2. /\ pc' \in [Threads -> Steps] /\ pc'[u] = "enter"
        /\ \A v \in Threads : \/ v = u
                              \/ pc'[v] = pc[v]
                              \/ pc[v] = "signal" /\ pc'[v] = "unlock"
    BY <1>1, <1>3, <2>1 DEF IInv, TypeOK, Steps
  <2>3. /\ asleep' \in [Sides -> SUBSET Threads]
        /\ LocksHeld' /\ SleepersSleep' /\ OwnCode' /\ TailWraps'
    BY <1>1, <1>3, <2>2, Wakes DEF ringVars
  <2> QED
    BY <1>1, <2>2, <2>3 DEF IInv, TypeOK, ringVars, sizeVars, outVars
<1> QED
  BY <1>2, <1>3 DEF Signal

LEMMA UnlockStep == ASSUME IInv, NEW t \in Threads, Unlock(t) PROVE IInv'
<1> PICK step \in {"outside", "copyOut"} :
        pc' = [pc EXCEPT ![t] = step] /\ (t \in Pushers => step = "outside")
  BY DEF Unlock, GoTo
<1>1. /\ pc[t] = "unlock"
      /\ owner' = [owner EXCEPT ![Side(t)] = NoThread]
      /\ UNCHANGED <<asleep, ringVars, sizeVars, outVars>>
  BY DEF Unlock, At
<1>2. /\ pc' \in [Threads -> Steps] /\ pc'[t] = step
      /\ \A u \in Threads \ {t} : pc'[u] = pc[u]
  BY DEF IInv, TypeOK, Steps
<1>3. owner' \in [Sides -> Threads \cup {NoThread}] /\ LocksHeld'
  BY <1>1, Releases DEF Critical, Steps
<1>4. SleepersSleep'
  BY <1>1, <1>2 DEF IInv, TypeOK, SleepersSleep, Side
<1>5. OwnCode'
  BY <1>2 DEF IInv, OwnCode, Threads
<1>6. TailWraps'
  BY <1>1, <1>2, TailStays DEF ringVars
<1> QED
  BY <1>1, <1>2, <1>3, <1>4, <1>5, <1>6
     DEF IInv, TypeOK, ringVars, sizeVars, outVars

LEMMA CountStep == ASSUME IInv, NEW t \in Threads, Count(t) PROVE IInv'
<1>1. /\ pc[t] = "count" /\ GoTo(t, "store")
      /\ UNCHANGED <<syncVars, ringVars, outVars, pcq_current_size, undercounted,
                     splitWrap>>
  BY DEF Count, At
<1>2. loaded' \in [Threads -> Int]
  BY DEF Count, IInv, TypeOK
<1>3. \A u \in Threads \ {t} : pc'[u] = pc[u]
  BY <1>1 DEF GoTo, IInv, TypeOK
<1>4. /\ pc' \in [Threads -> Steps]
      /\ owner' \in [Sides -> Threads \cup {NoThread}]
      /\ asleep' \in [Sides -> SUBSET Threads]
      /\ LocksHeld' /\ SleepersSleep' /\ OwnCode'
  BY <1>1, NotAsleep, OwnStep DEF Steps, Critical
<1>5. TailWraps'
  BY <1>1, <1>3, TailStays DEF ringVars
<1> QED
  BY <1>1, <1>2, <1>4, <1>5 DEF IInv, TypeOK, ringVars, outVars

LEMMA StoreSizeStep == ASSUME IInv, NEW t \in Threads, StoreSize(t) PROVE IInv'
<1>1. /\ pc[t] = "store" /\ GoTo(t, "signal")
      /\ UNCHANGED <<syncVars, ringVars, outVars, loaded, splitWrap>>
  BY DEF StoreSize, At
<1>2. pcq_current_size' \in Int /\ undercounted' \in BOOLEAN
  BY DEF StoreSize, Counted, IInv, TypeOK
<1>3. \A u \in Threads \ {t} : pc'[u] = pc[u]
  BY <1>1 DEF GoTo, IInv, TypeOK
<1>4. /\ pc' \in [Threads -> Steps]
      /\ owner' \in [Sides -> Threads \cup {NoThread}]
      /\ asleep' \in [Sides -> SUBSET Threads]
      /\ LocksHeld' /\ SleepersSleep' /\ OwnCode'
  BY <1>1, NotAsleep, OwnStep DEF Steps, Critical
<1>5. TailWraps'
  BY <1>1, <1>3, TailStays DEF ringVars
<1> QED
  BY <1>1, <1>2, <1>4, <1>5 DEF IInv, TypeOK, ringVars, outVars

-----------------------------------------------------------------------------

LEMMA CopyInStep ==
    ASSUME IInv, NEW p \in Pushers, CopyIn(p) \/ CopyInDone(p) PROVE IInv'
<1> USE PcQueueAssumption
<1> PICK step \in {"copyingIn", "advance"}, value \in Contents :
        /\ pc[p] \in {"copyIn", "copyingIn"}
        /\ GoTo(p, step)
        /\ pcq_buffer' = [pcq_buffer EXCEPT ![pcq_tail] = value]
        /\ UNCHANGED <<syncVars, pcq_head, pcq_tail, enqueued, dequeued,
                       sizeVars, outVars>>
  <2>1. Torn \in Contents /\ enqueued + 1 \in Contents
    BY DEF Contents, IInv, TypeOK
  <2>2. CASE CopyIn(p)
    BY <2>1, <2>2 DEF CopyIn, Store, At
  <2>3. CASE CopyInDone(p)
    BY <2>1, <2>3 DEF CopyInDone, Store, At
  <2> QED
    BY <2>2, <2>3
<1>1. p \in Threads /\ p \notin Poppers
  BY DEF Threads
<1>2. pcq_buffer' \in [Indices -> Contents]
  BY DEF IInv, TypeOK
<1>3. \A u \in Threads \ {p} : pc'[u] = pc[u]
  BY DEF GoTo, IInv, TypeOK
<1>4. /\ pc' \in [Threads -> Steps]
      /\ owner' \in [Sides -> Threads \cup {NoThread}]
      /\ asleep' \in [Sides -> SUBSET Threads]
      /\ LocksHeld' /\ SleepersSleep' /\ OwnCode'
  BY <1>1, NotAsleep, OwnStep DEF Steps, Critical
<1>5. TailWraps'
  BY <1>1, <1>3, TailStays
<1> QED
  BY <1>2, <1>4, <1>5 DEF IInv, TypeOK, sizeVars, outVars

LEMMA AdvanceTailStep ==
    ASSUME IInv, NEW p \in Pushers, AdvanceTail(p) PROVE IInv'
<1> USE PcQueueAssumption
<1> PICK step \in {"wrap", "count"} :
        /\ GoTo(p, step)
        /\ step = "wrap" => pcq_tail' = pcq_tail + 1
        /\ step = "count" => pcq_tail' = (pcq_tail + 1) % Capacity
  BY DEF AdvanceTail
<1>1. /\ p \in Threads /\ p \notin Poppers /\ pc[p] = "advance"
      /\ enqueued' = enqueued + 1
      /\ UNCHANGED <<syncVars, pcq_buffer, pcq_head, dequeued, sizeVars, outVars>>
  BY DEF AdvanceTail, At, Threads
<1>2. pcq_tail \in Indices
  BY <1>1, TailInside DEF Critical
<1>3. pcq_tail' \in 0 .. Capacity /\ (step = "count" => pcq_tail' # Capacity)
  BY <1>2, NextIndex DEF Indices
<1>4. /\ pc' \in [Threads -> Steps]
      /\ owner' \in [Sides -> Threads \cup {NoThread}]
      /\ asleep' \in [Sides -> SUBSET Threads]
      /\ LocksHeld' /\ SleepersSleep' /\ OwnCode'
  BY <1>1, NotAsleep, OwnStep DEF Steps, Critical
<1>5. pc'[p] = step
  BY <1>1 DEF GoTo, IInv, TypeOK
<1>6. TailWraps'
  BY <1>3, <1>5 DEF TailWraps
<1>7. enqueued' \in Nat
  BY <1>1 DEF IInv, TypeOK
<1> QED
  BY <1>1, <1>3, <1>4, <1>6, <1>7 DEF IInv, TypeOK, sizeVars, outVars

LEMMA WrapTailStep ==
    ASSUME IInv, NEW p \in Pushers, WrapTail(p) PROVE IInv'
<1> USE PcQueueAssumption
<1>1. /\ p \in Threads /\ p \notin Poppers /\ pc[p] = "wrap" /\ GoTo(p, "count")
      /\ pcq_tail' = pcq_tail % Capacity
      /\ UNCHANGED <<syncVars, pcq_buffer, pcq_head, enqueued, dequeued,
                     sizeVars, outVars>>
  BY DEF WrapTail, At, Threads
<1>2. pcq_tail' \in 0 .. Capacity - 1
  BY <1>1 DEF IInv, TypeOK
<1>3. /\ pc' \in [Threads -> Steps]
      /\ owner' \in [Sides -> Threads \cup {NoThread}]
      /\ asleep' \in [Sides -> SUBSET Threads]
      /\ LocksHeld' /\ SleepersSleep' /\ OwnCode'
  BY <1>1, NotAsleep, OwnStep DEF Steps, Critical
<1>4. TailWraps' /\ pcq_tail' \in 0 .. Capacity
  BY <1>2 DEF TailWraps
<1> QED
  BY <1>1, <1>3, <1>4 DEF IInv, TypeOK, sizeVars, outVars

LEMMA AdvanceHeadStep ==
    ASSUME IInv, NEW w \in Poppers, AdvanceHead(w) PROVE IInv'
<1> USE PcQueueAssumption
<1>1. /\ w \in Threads /\ w \notin Pushers /\ pc[w] = "advance" /\ GoTo(w, "count")
      /\ elem' = [elem EXCEPT ![w] = pcq_head]
      /\ due' = [due EXCEPT ![w] = dequeued + 1]
      /\ dequeued' = dequeued + 1
      /\ pcq_head' = (pcq_head + 1) % Capacity
      /\ UNCHANGED <<syncVars, pcq_buffer, pcq_tail, enqueued, sizeVars, received>>
  BY DEF AdvanceHead, At, Threads
<1>2. /\ elem' \in [Poppers -> Indices] /\ due' \in [Poppers -> Nat]
      /\ dequeued' \in Nat
  BY <1>1 DEF IInv, TypeOK
<1>3. pcq_head' \in Indices
  BY <1>1, NextIndex DEF IInv, TypeOK, Indices
<1>4. \A u \in Threads \ {w} : pc'[u] = pc[u]
  BY <1>1 DEF GoTo, IInv, TypeOK
<1>5. /\ pc' \in [Threads -> Steps]
      /\ owner' \in [Sides -> Threads \cup {NoThread}]
      /\ asleep' \in [Sides -> SUBSET Threads]
      /\ LocksHeld' /\ SleepersSleep' /\ OwnCode'
  BY <1>1, NotAsleep, OwnStep DEF Steps, Critical
<1>6. TailWraps'
  BY <1>1, <1>4, TailStays
<1> QED
  BY <1>1, <1>2, <1>3, <1>5, <1>6 DEF IInv, TypeOK, sizeVars

LEMMA CopyOutStep ==
    ASSUME IInv, NEW w \in Poppers, CopyOut(w) \/ CopyOutDone(w) PROVE IInv'
<1> USE PcQueueAssumption
<1>1. elem[w] \in Indices /\ received[w] \in Contents /\ Torn \in Contents
  BY DEF IInv, TypeOK, Contents
<1> PICK step \in {"copyingOut", "outside"}, value \in Contents :
        /\ pc[w] \in {"copyOut", "copyingOut"}
        /\ GoTo(w, step)
        /\ received' = [received EXCEPT ![w] = value]
        /\ UNCHANGED <<syncVars, ringVars, sizeVars, elem, due>>
  BY <1>1 DEF CopyOut, CopyOutDone, At, IInv, TypeOK
<1>2. w \in Threads /\ w \notin Pushers
  BY DEF Threads
<1>3. received' \in [Poppers -> Contents]
  BY DEF IInv, TypeOK
<1>4. \A u \in Threads \ {w} : pc'[u] = pc[u]
  BY DEF GoTo, IInv, TypeOK
<1>5. /\ pc' \in [Threads -> Steps]
      /\ owner' \in [Sides -> Threads \cup {NoThread}]
      /\ asleep' \in [Sides -> SUBSET Threads]
      /\ LocksHeld' /\ SleepersSleep' /\ OwnCode'
  BY <1>2, NotAsleep, OwnStep DEF Steps, Critical
<1>6. TailWraps'
  BY <1>2, <1>4, TailStays DEF ringVars
<1> QED
  BY <1>3, <1>5, <1>6 DEF IInv, TypeOK, ringVars, sizeVars

-----------------------------------------------------------------------------

LEMMA InductiveStep == IInv /\ [Next]_vars => IInv'
<1> SUFFICES ASSUME IInv, [Next]_vars PROVE IInv'
  OBVIOUS
<1>1. CASE UNCHANGED vars
  BY <1>1 DEF vars, IInv, TypeOK, LocksHeld, SleepersSleep, OwnCode, TailWraps, Side
<1>2. CASE \E t \in Threads : Call(t)
  BY <1>2, CallStep
<1>3. CASE \E t \in Threads : SpuriousWakeup(t)
  BY <1>3, SpuriousStep
<1>4. CASE \E t \in Threads : Running(t)
  BY <1>4, LockStep, CheckStep, SleepStep, CountStep, StoreSizeStep, SignalStep,
     UnlockStep DEF Running
<1>5. CASE \E p \in Pushers : Pushing(p)
  BY <1>5, CopyInStep, AdvanceTailStep, WrapTailStep DEF Pushing
<1>6. CASE \E w \in Poppers : Popping(w)
  BY <1>6, AdvanceHeadStep, CopyOutStep DEF Popping
<1> QED
  BY <1>1, <1>2, <1>3, <1>4, <1>5, <1>6 DEF Next

LEMMA InvariantIsInductive == Spec => []IInv
BY InitIInv, InductiveStep, PTL DEF Spec

\* The head stays inside the ring and the tail leaves it only between the two
\* stores that advance it, whether they are split or not.
THEOREM TypeCorrect == Spec => []TypeOK
<1>1. IInv => TypeOK
  BY DEF IInv
<1> QED
  BY <1>1, InvariantIsInductive, PTL

-----------------------------------------------------------------------------
(* No phantom element, when a popper cannot see the tail half advanced.    *)

\* i is where an index that has advanced n times stands.
Stands(n, i) == \E laps \in Nat : n = laps * Capacity + i

CountsAgree ==
    /\ Stands(dequeued, pcq_head)
    /\ Stands(enqueued, pcq_tail)
    /\ dequeued <= enqueued

\* A popper past the test has an element to take, and keeps it: only it moves
\* the head.
PastTheTest == \A w \in Poppers : pc[w] = "advance" => dequeued < enqueued

NeverSplit == \A p \in Pushers : pc[p] # "wrap"

PInv == IInv /\ CountsAgree /\ PastTheTest /\ NeverSplit

\* Quotient and remainder are unique.
LEMMA Division ==
    ASSUME NEW C \in Nat \ {0}, NEW p \in Nat, NEW q \in Nat,
           NEW i \in 0 .. C - 1, NEW j \in 0 .. C - 1, p * C + i = q * C + j
    PROVE  i = j
OBVIOUS

LEMMA OneMoreLap ==
    ASSUME NEW C \in Nat, NEW q \in Nat
    PROVE  (q + 1) * C = q * C + C /\ q * C \in Nat
OBVIOUS

\* One place of the ring per count.
LEMMA SamePlace ==
    ASSUME NEW n \in Nat, NEW i \in Indices, NEW j \in Indices,
           Stands(n, i), Stands(n, j)
    PROVE  i = j
<1> PICK p \in Nat : n = p * Capacity + i
  BY DEF Stands
<1> PICK q \in Nat : n = q * Capacity + j
  BY DEF Stands
<1> QED
  BY PcQueueAssumption, Division DEF Indices

LEMMA NextPlace ==
    ASSUME NEW n \in Nat, NEW i \in Indices, Stands(n, i)
    PROVE  Stands(n + 1, (i + 1) % Capacity)
<1> USE PcQueueAssumption
<1> PICK laps \in Nat : n = laps * Capacity + i
  BY DEF Stands
<1>1. CASE i + 1 = Capacity
  <2>1. n + 1 = (laps + 1) * Capacity + 0
    <3> DEFINE full == laps * Capacity
    <3>1. (laps + 1) * Capacity = full + Capacity /\ full \in Nat
      BY OneMoreLap
    <3>2. n = full + i
      OBVIOUS
    <3> HIDE DEF full
    <3> QED
      BY <1>1, <3>1, <3>2 DEF Indices
  <2>2. laps + 1 \in Nat
    OBVIOUS
  <2> QED
    BY <1>1, <2>1, <2>2, NextIndex DEF Stands
<1>2. CASE i + 1 # Capacity
  <2>1. n + 1 = laps * Capacity + (i + 1)
    BY DEF Indices
  <2> QED
    BY <1>2, <2>1, NextIndex DEF Stands
<1> QED
  BY <1>1, <1>2

\* The tail is a place of the ring: nobody is between two stores.
LEMMA TailIsPlace == ASSUME PInv PROVE pcq_tail \in Indices
BY PcQueueAssumption DEF PInv, IInv, TypeOK, NeverSplit, TailWraps, Indices

\* A step that moves neither end and lets no popper past the test.
LEMMA RingStays ==
    ASSUME PInv, IInv', UNCHANGED <<pcq_head, pcq_tail, enqueued, dequeued>>,
           \A t \in Threads : pc'[t] \in {"advance", "wrap"} =>
               pc'[t] = pc[t] \/ (t \in Pushers /\ pc'[t] = "advance")
    PROVE  PInv'
<1>1. CountsAgree'
  BY DEF PInv, CountsAgree, Stands
<1>2. PastTheTest'
  BY PcQueueAssumption DEF PInv, PastTheTest, Threads
<1>3. NeverSplit'
  BY DEF PInv, NeverSplit, Threads
<1> QED
  BY <1>1, <1>2, <1>3 DEF PInv

LEMMA CheckFinds == ASSUME PInv, NEW t \in Threads, Check(t), IInv' PROVE PInv'
<1> USE PcQueueAssumption
<1>1. /\ UNCHANGED <<pcq_head, pcq_tail, enqueued, dequeued>>
      /\ \A u \in Threads \ {t} : pc'[u] = pc[u]
      /\ pc'[t] \in {"mustSleep", "copyIn", "advance"}
  BY DEF Check, GoTo, ringVars, PInv, IInv, TypeOK
<1>2. CASE t \in Pushers
  BY <1>1, <1>2, RingStays
<1>3. CASE t \in Poppers /\ pcq_isEmpty
  <2>1. pc'[t] = "mustSleep"
    BY <1>3 DEF Check, GoTo, MustWait, PInv, IInv, TypeOK
  <2> QED
    BY <1>1, <2>1, RingStays
<1>4. CASE t \in Poppers /\ ~pcq_isEmpty
  <2>1. dequeued # enqueued
    BY <1>4, SamePlace, TailIsPlace DEF pcq_isEmpty, PInv, IInv, TypeOK, CountsAgree
  <2>2. dequeued < enqueued
    BY <2>1 DEF PInv, IInv, TypeOK, CountsAgree
  <2>3. CountsAgree' /\ PastTheTest'
    BY <1>1, <2>2 DEF PInv, CountsAgree, Stands, PastTheTest
  <2>4. NeverSplit'
    BY <1>1 DEF PInv, NeverSplit, Threads
  <2> QED
    BY <2>3, <2>4 DEF PInv
<1> QED
  BY <1>2, <1>3, <1>4 DEF Threads

LEMMA TailAdvances ==
    ASSUME ~splitWrap, PInv, NEW p \in Pushers, AdvanceTail(p), IInv' PROVE PInv'
<1>1. /\ enqueued' = enqueued + 1 /\ UNCHANGED <<pcq_head, dequeued>>
      /\ pcq_tail' = (pcq_tail + 1) % Capacity
      /\ pc' = [pc EXCEPT ![p] = "count"]
  BY DEF AdvanceTail, GoTo
<1>2. CountsAgree'
  BY <1>1, TailIsPlace, NextPlace DEF PInv, IInv, TypeOK, CountsAgree, Stands
<1>3. \A u \in Threads : pc'[u] = pc[u] \/ pc'[u] = "count"
  BY <1>1 DEF PInv, IInv, TypeOK
<1>4. PastTheTest'
  BY <1>1, <1>3 DEF PInv, IInv, TypeOK, PastTheTest, Threads
<1>5. NeverSplit'
  BY <1>3 DEF PInv, NeverSplit, Threads
<1> QED
  BY <1>2, <1>4, <1>5 DEF PInv

LEMMA HeadAdvances ==
    ASSUME PInv, NEW w \in Poppers, AdvanceHead(w), IInv' PROVE PInv'
<1> USE PcQueueAssumption
<1>1. /\ dequeued' = dequeued + 1 /\ UNCHANGED <<pcq_tail, enqueued>>
      /\ pcq_head' = (pcq_head + 1) % Capacity
      /\ pc[w] = "advance" /\ pc' = [pc EXCEPT ![w] = "count"]
  BY DEF AdvanceHead, At, GoTo
<1>2. dequeued < enqueued
  BY <1>1 DEF PInv, PastTheTest
<1>3. CountsAgree'
  <2>1. Stands(dequeued', pcq_head')
    BY <1>1, NextPlace DEF PInv, IInv, TypeOK, CountsAgree
  <2>2. Stands(enqueued', pcq_tail')
    BY <1>1 DEF PInv, CountsAgree
  <2>3. dequeued' <= enqueued'
    BY <1>1, <1>2 DEF PInv, IInv, TypeOK
  <2> QED
    BY <2>1, <2>2, <2>3 DEF CountsAgree, Stands
\* no other popper is past the test: w holds their lock
<1>4. \A v \in Poppers : pc'[v] # "advance"
  <2>1. \A v \in Poppers : pc[v] = "advance" => v = w
    BY <1>1 DEF PInv, IInv, LocksHeld, Critical, Side, Threads
  <2> QED
    BY <1>1, <2>1 DEF PInv, IInv, TypeOK, Threads
<1>5. NeverSplit'
  BY <1>1 DEF PInv, IInv, TypeOK, NeverSplit, Threads
<1> QED
  BY <1>3, <1>4, <1>5 DEF PInv, PastTheTest

\* The steps that leave both ends of the ring where they are.
Elsewhere ==
    \/ \E t \in Threads : \/ Call(t) \/ SpuriousWakeup(t) \/ Lock(t) \/ Sleep(t)
                          \/ Count(t) \/ StoreSize(t) \/ Signal(t) \/ Unlock(t)
    \/ \E p \in Pushers : CopyIn(p) \/ CopyInDone(p)
    \/ \E w \in Poppers : CopyOut(w) \/ CopyOutDone(w)

LEMMA ElsewhereStays == ASSUME PInv, Elsewhere, IInv' PROVE PInv'
<1>1. UNCHANGED <<pcq_head, pcq_tail, enqueued, dequeued>>
  BY DEF Elsewhere, Call, SpuriousWakeup, Lock, Sleep, Count, StoreSize, Signal,
         Unlock, CopyIn, CopyInDone, Store, CopyOut, CopyOutDone, ringVars
<1>2. pc \in [Threads -> Steps]
  BY DEF PInv, IInv, TypeOK
<1>3. \A t \in Threads : pc'[t] \in {"advance", "wrap"} =>
          pc'[t] = pc[t] \/ (t \in Pushers /\ pc'[t] = "advance")
  <2>1. ASSUME NEW t \in Threads,
               \/ Call(t) \/ SpuriousWakeup(t) \/ Lock(t) \/ Sleep(t)
               \/ Count(t) \/ StoreSize(t) \/ Unlock(t)
        PROVE  \A u \in Threads : \/ pc'[u] = pc[u]
                                  \/ pc'[u] \notin {"advance", "wrap"}
    BY <1>2, <2>1 DEF Call, SpuriousWakeup, Lock, Sleep, Count, StoreSize, Unlock,
                      GoTo
  <2>2. ASSUME NEW t \in Threads, Signal(t)
        PROVE  \A u \in Threads : \/ pc'[u] = pc[u]
                                  \/ pc'[u] \notin {"advance", "wrap"}
    BY <1>2, <2>2 DEF Signal, GoTo
  <2>3. ASSUME NEW p \in Pushers, CopyIn(p) \/ CopyInDone(p)
        PROVE  \A u \in Threads : \/ pc'[u] = pc[u]
                                  \/ u \in Pushers /\ pc'[u] = "advance"
                                  \/ pc'[u] \notin {"advance", "wrap"}
    BY <1>2, <2>3 DEF CopyIn, CopyInDone, Store, GoTo
  <2>4. ASSUME NEW w \in Poppers, CopyOut(w) \/ CopyOutDone(w)
        PROVE  \A u \in Threads : \/ pc'[u] = pc[u]
                                  \/ pc'[u] \notin {"advance", "wrap"}
    BY <1>2, <2>4 DEF CopyOut, CopyOutDone, GoTo
  <2> QED
    BY <2>1, <2>2, <2>3, <2>4 DEF Elsewhere
<1> QED
  BY <1>1, <1>3, RingStays

LEMMA PInductiveStep ==
    ASSUME ~splitWrap PROVE PInv /\ [Next]_vars => PInv'
<1> SUFFICES ASSUME PInv, [Next]_vars PROVE PInv'
  OBVIOUS
<1>1. IInv'
  BY InductiveStep DEF PInv
<1>2. CASE UNCHANGED vars
  BY <1>1, <1>2, RingStays DEF vars
<1>3. CASE Elsewhere
  BY <1>1, <1>3, ElsewhereStays
<1>4. CASE \E t \in Threads : Check(t)
  BY <1>1, <1>4, CheckFinds
<1>5. CASE \E p \in Pushers : AdvanceTail(p)
  BY <1>1, <1>5, TailAdvances
<1>6. CASE \E p \in Pushers : WrapTail(p)
  BY <1>6 DEF WrapTail, At, PInv, NeverSplit
<1>7. CASE \E w \in Poppers : AdvanceHead(w)
  BY <1>1, <1>7, HeadAdvances
<1> QED
  BY <1>2, <1>3, <1>4, <1>5, <1>6, <1>7
     DEF Next, Elsewhere, Running, Pushing, Popping

LEMMA InitPInv == Init => PInv
<1> SUFFICES ASSUME Init PROVE PInv
  OBVIOUS
<1>1. 0 = 0 * Capacity + 0
  BY PcQueueAssumption
<1>2. CountsAgree
  BY <1>1 DEF Init, CountsAgree, Stands
<1> QED
  BY <1>2, InitIInv DEF Init, PInv, PastTheTest, NeverSplit, Threads

\* The build is the same at every step.
LEMMA BuildStays == [Next]_vars => splitWrap' = splitWrap
<1> SUFFICES ASSUME [Next]_vars PROVE splitWrap' = splitWrap
  OBVIOUS
<1>1. ASSUME NEW t \in Threads, Call(t) \/ SpuriousWakeup(t) \/ Running(t)
      PROVE  splitWrap' = splitWrap
  BY <1>1 DEF Running, Call, SpuriousWakeup, Lock, Check, Sleep, Count, StoreSize,
              Signal, Unlock, sizeVars
<1>2. ASSUME NEW p \in Pushers, Pushing(p) PROVE splitWrap' = splitWrap
  BY <1>2 DEF Pushing, CopyIn, CopyInDone, Store, AdvanceTail, WrapTail, sizeVars
<1>3. ASSUME NEW w \in Poppers, Popping(w) PROVE splitWrap' = splitWrap
  BY <1>3 DEF Popping, AdvanceHead, CopyOut, CopyOutDone, sizeVars
<1> QED
  BY <1>1, <1>2, <1>3 DEF Next, vars

\* In the optimised build pcq_dequeue never hands out more elements than were
\* enqueued, for any number of pushers and poppers and whatever updates of the
\* counter of elements are lost.
THEOREM DequeuesWhatWasEnqueued == Spec => []NoPhantomDequeue
<1>1. splitWrap \/ PInv => NoPhantomDequeue
  BY DEF PInv, CountsAgree, NoPhantomDequeue
<1>2. (splitWrap \/ PInv) /\ [Next]_vars => (splitWrap \/ PInv)'
  BY PInductiveStep, BuildStays
<1> QED
  BY <1>1, <1>2, InitPInv, PTL DEF Spec
-----------------------------------------------------------------------------
(* What the slots of the ring hold: a popper copies the element it removed *)
(* unless the pushers came round to its slot, and the ring is a bounded    *)
(* FIFO queue.                                                             *)

\* The slot of request k still holds it.
Intact(k) == pcq_buffer[(k - 1) % Capacity] = k

\* A pusher has begun to write the request enqueued + 1 into its slot.
Writing == \E p \in Pushers : pc[p] \in {"copyingIn", "advance"}

\* The last requests are in their slots: all that fit, but for the one whose
\* slot is being written.
LastRequestsStay ==
    \A k \in 1 .. enqueued :
        /\ enqueued + 1 < k + Capacity => Intact(k)
        /\ ~Writing /\ enqueued < k + Capacity => Intact(k)

\* The pusher that is about to move the tail has written its request there.
NextIsWritten ==
    \A p \in Pushers : pc[p] = "advance" => pcq_buffer[pcq_tail] = enqueued + 1

\* Between the removal of its element and the end of its copy of it.
Taken == {"count", "store", "signal", "unlock", "copyOut", "copyingOut"}

ElementTaken ==
    \A w \in Poppers : pc[w] \in Taken =>
        due[w] \in 1 .. enqueued /\ elem[w] = (due[w] - 1) % Capacity

\* What was copied so far is the element, or the pushers came round to it.
CopiedSoFar ==
    \A w \in Poppers : pc[w] = "copyingOut" =>
        received[w] = due[w] \/ enqueued + 1 >= due[w] + Capacity

ReceivedUnlessLapped ==
    \A w \in Poppers :
        At(w, "outside") /\ received[w] # due[w] => enqueued + 1 >= due[w] + Capacity

BInv ==
    /\ PInv
    /\ LastRequestsStay /\ NextIsWritten
    /\ ElementTaken /\ CopiedSoFar /\ ReceivedUnlessLapped

-----------------------------------------------------------------------------
(* The ring index of a count.                                              *)

LEMMA Quotient ==
    ASSUME NEW C \in Nat \ {0}, NEW n \in Nat
    PROVE  /\ n % C \in 0 .. C - 1
           /\ n \div C \in Nat
           /\ n = (n \div C) * C + (n % C)
<1>1. n % C \in 0 .. C - 1
  OBVIOUS
<1>2. n \div C \in Nat
  OBVIOUS
<1>3. n = (n \div C) * C + (n % C)
  OBVIOUS
<1> QED
  BY <1>1, <1>2, <1>3

LEMMA PlaceInside ==
    ASSUME NEW n \in Nat
    PROVE  n % Capacity \in Indices /\ Stands(n, n % Capacity)
BY PcQueueAssumption, Quotient DEF Indices, Stands

LEMMA PlaceOf ==
    ASSUME NEW n \in Nat, NEW i \in Indices, Stands(n, i)
    PROVE  n % Capacity = i
BY PlaceInside, SamePlace

LEMMA LessThanALap ==
    ASSUME NEW C \in Nat \ {0}, NEW p \in Nat, NEW q \in Nat, NEW r \in Nat,
           p * C + r < q * C + r
    PROVE  p * C + r + C <= q * C + r
OBVIOUS

\* Counts less than a lap apart have different places.
LEMMA PlacesApart ==
    ASSUME NEW m \in Nat, NEW n \in Nat, m < n, n < m + Capacity
    PROVE  m % Capacity # n % Capacity
<1> USE PcQueueAssumption
<1> SUFFICES ASSUME m % Capacity = n % Capacity PROVE FALSE
  OBVIOUS
<1> DEFINE p == m \div Capacity
           q == n \div Capacity
           r == n % Capacity
<1>1. m = p * Capacity + r /\ p \in Nat /\ n = q * Capacity + r /\ q \in Nat
  BY Quotient
<1>2. r \in Nat
  BY PlaceInside DEF Indices
<1> HIDE DEF p, q, r
<1>3. p * Capacity + r + Capacity <= q * Capacity + r
  BY <1>1, <1>2, LessThanALap
<1> QED
  BY <1>1, <1>3

\* Two pushers cannot both be inside pcq_enqueue, nor two poppers inside
\* pcq_dequeue.
LEMMA OneInside ==
    ASSUME IInv, NEW t \in Threads, NEW u \in Threads, Side(t) = Side(u),
           pc[t] \in Critical, pc[u] \in Critical
    PROVE  t = u
BY DEF IInv, LocksHeld

-----------------------------------------------------------------------------
(* One step of a thread.                                                   *)

\* A step that touches neither the ring nor what the poppers took from it, and
\* moves nobody into or out of the parts of the code that do.
LEMMA BufferStays ==
    ASSUME BInv, PInv', UNCHANGED <<ringVars, outVars>>,
           \A p \in Pushers :
               \/ pc'[p] = pc[p]
               \/ {pc[p], pc'[p]} \cap {"copyingIn", "advance"} = {},
           \A w \in Poppers :
               \/ pc'[w] = pc[w]
               \/ pc[w] \in Taken /\ pc'[w] \in Taken \ {"copyingOut"}
               \/ pc'[w] \notin Taken \cup {"outside"}
    PROVE  BInv'
<1>1. UNCHANGED <<pcq_buffer, pcq_tail, enqueued, elem, received, due>>
  BY DEF ringVars, outVars
<1>2. Writing' <=> Writing
  BY DEF Writing
<1>3. LastRequestsStay'
  BY <1>1, <1>2 DEF BInv, LastRequestsStay, Intact
<1>4. NextIsWritten'
  BY <1>1 DEF BInv, NextIsWritten
<1>5. ElementTaken'
  BY <1>1 DEF BInv, ElementTaken
<1>6. CopiedSoFar'
  BY <1>1 DEF BInv, CopiedSoFar, Taken
<1>7. ReceivedUnlessLapped'
  BY <1>1 DEF BInv, ReceivedUnlessLapped, At, Taken
<1> QED
  BY <1>3, <1>4, <1>5, <1>6, <1>7 DEF BInv

\* The steps that only synchronise or count.
Aside(t) ==
    \/ Call(t) \/ SpuriousWakeup(t) \/ Lock(t) \/ Check(t) \/ Sleep(t)
    \/ Count(t) \/ StoreSize(t) \/ Signal(t) \/ Unlock(t)

LEMMA AsideStays ==
    ASSUME BInv, PInv', NEW t \in Threads, Aside(t) PROVE BInv'
<1> USE PcQueueAssumption
<1>1. UNCHANGED <<ringVars, outVars>>
  BY DEF Aside, Call, SpuriousWakeup, Lock, Check, Sleep, Count, StoreSize, Signal,
         Unlock
<1>2. pc \in [Threads -> Steps] /\ pc' \in [Threads -> Steps]
  BY DEF BInv, PInv, IInv, TypeOK
<1>3. \A s \in Sides : \A u \in asleep[s] : u \in Threads /\ pc[u] = "asleep"
  BY DEF BInv, PInv, IInv, TypeOK, SleepersSleep
<1>4. \A u \in Threads :
         \/ pc'[u] = pc[u]
         \/ /\ pc[u] \in {"outside", "enter", "check", "mustSleep", "asleep"}
            /\ pc'[u] \in {"enter", "check", "mustSleep", "asleep", "copyIn"}
         \/ pc[u] = "check" /\ pc'[u] = "advance" /\ u \in Poppers
         \/ /\ pc[u] \in {"count", "store", "signal", "unlock"}
            /\ pc'[u] \in {"store", "signal", "unlock"}
         \/ pc[u] = "unlock" /\ pc'[u] = "outside" /\ u \in Pushers
         \/ pc[u] = "unlock" /\ pc'[u] = "copyOut" /\ u \in Poppers
  <2>1. CASE Call(t) \/ Lock(t) \/ Sleep(t) \/ Count(t) \/ StoreSize(t)
    BY <1>2, <2>1 DEF Call, Lock, Sleep, Count, StoreSize, GoTo, At
  <2>2. CASE Check(t)
    BY <1>2, <2>2 DEF Check, GoTo, At, Threads
  <2>3. CASE Unlock(t)
    BY <1>2, <2>3 DEF Unlock, GoTo, At, Threads
  <2>4. CASE SpuriousWakeup(t)
    BY <1>2, <1>3, <2>4 DEF SpuriousWakeup, GoTo, Side, Sides
  <2>5. CASE Signal(t)
    BY <1>2, <1>3, <2>5 DEF Signal, GoTo, At, OtherSide, Sides
  <2> QED
    BY <2>1, <2>2, <2>3, <2>4, <2>5 DEF Aside
<1>5. \A p \in Pushers :
         \/ pc'[p] = pc[p]
         \/ {pc[p], pc'[p]} \cap {"copyingIn", "advance"} = {}
  BY <1>4 DEF Threads
<1>6. \A w \in Poppers :
         \/ pc'[w] = pc[w]
         \/ pc[w] \in Taken /\ pc'[w] \in Taken \ {"copyingOut"}
         \/ pc'[w] \notin Taken \cup {"outside"}
  BY <1>4 DEF Threads, Taken
<1> QED
  BY <1>1, <1>5, <1>6, BufferStays

\* The tail's slot is the place of the next request.
LEMMA TailSlot == ASSUME PInv PROVE pcq_tail = enqueued % Capacity
BY TailIsPlace, PlaceOf DEF PInv, IInv, TypeOK, CountsAgree

\* A write into the tail's slot: no request of the last Capacity - 1 is there.
LEMMA WriteAtTail ==
    ASSUME BInv, NEW value \in Contents,
           pcq_buffer' = [pcq_buffer EXCEPT ![pcq_tail] = value],
           UNCHANGED <<pcq_tail, enqueued>>
    PROVE  /\ \A k \in 1 .. enqueued : enqueued + 1 < k + Capacity => Intact(k)'
           /\ pcq_buffer'[pcq_tail] = value
<1> USE PcQueueAssumption
<1>1. /\ pcq_buffer \in [Indices -> Contents] /\ pcq_tail \in Indices
      /\ enqueued \in Nat /\ pcq_tail = enqueued % Capacity
  BY TailIsPlace, TailSlot DEF BInv, PInv, IInv, TypeOK
<1>2. ASSUME NEW k \in 1 .. enqueued, enqueued + 1 < k + Capacity
      PROVE  Intact(k)'
  <2>1. k - 1 \in Nat /\ k - 1 < enqueued /\ enqueued < (k - 1) + Capacity
    BY <1>1, <1>2
  <2>2. (k - 1) % Capacity # pcq_tail /\ (k - 1) % Capacity \in Indices
    BY <1>1, <2>1, PlacesApart, PlaceInside
  <2>3. Intact(k)
    BY <1>2 DEF BInv, LastRequestsStay
  <2> QED
    BY <1>1, <2>2, <2>3 DEF Intact
<1> QED
  BY <1>1, <1>2

LEMMA CopyInBuffers ==
    ASSUME BInv, PInv', NEW p \in Pushers, CopyIn(p) PROVE BInv'
<1> USE PcQueueAssumption
<1>1. /\ pc[p] = "copyIn" /\ pc' = [pc EXCEPT ![p] = "copyingIn"]
      /\ pcq_buffer' = [pcq_buffer EXCEPT ![pcq_tail] = Torn]
      /\ UNCHANGED <<pcq_tail, enqueued, outVars>>
  BY DEF CopyIn, Store, At, GoTo
<1>2. /\ pc'[p] = "copyingIn"
      /\ \A t \in Threads : t # p => pc'[t] = pc[t]
  BY <1>1 DEF BInv, PInv, IInv, TypeOK, Threads
<1>3. \A k \in 1 .. enqueued : enqueued + 1 < k + Capacity => Intact(k)'
  BY <1>1, WriteAtTail DEF Contents
<1>4. Writing'
  BY <1>2 DEF Writing
<1>5. LastRequestsStay'
  BY <1>1, <1>3, <1>4 DEF LastRequestsStay
<1>6. NextIsWritten'
  <2>1. \A q \in Pushers : pc'[q] # "advance"
    <3>1. \A q \in Pushers : pc[q] = "advance" => q = p
      BY <1>1, OneInside DEF BInv, PInv, Critical, Side, Threads
    <3> QED
      BY <1>1, <1>2, <3>1 DEF Threads
  <2> QED
    BY <2>1 DEF NextIsWritten
<1>7. ElementTaken' /\ CopiedSoFar' /\ ReceivedUnlessLapped'
  BY <1>1, <1>2
     DEF BInv, ElementTaken, CopiedSoFar, ReceivedUnlessLapped, At, outVars, Threads
<1> QED
  BY <1>5, <1>6, <1>7 DEF BInv

LEMMA CopyInDoneBuffers ==
    ASSUME BInv, PInv', NEW p \in Pushers, CopyInDone(p) PROVE BInv'
<1> USE PcQueueAssumption
<1>1. /\ pc[p] = "copyingIn" /\ pc' = [pc EXCEPT ![p] = "advance"]
      /\ pcq_buffer' = [pcq_buffer EXCEPT ![pcq_tail] = enqueued + 1]
      /\ UNCHANGED <<pcq_tail, enqueued, outVars>>
  BY DEF CopyInDone, Store, At, GoTo
<1>2. /\ pc'[p] = "advance"
      /\ \A t \in Threads : t # p => pc'[t] = pc[t]
  BY <1>1 DEF BInv, PInv, IInv, TypeOK, Threads
<1>3. /\ \A k \in 1 .. enqueued : enqueued + 1 < k + Capacity => Intact(k)'
      /\ pcq_buffer'[pcq_tail] = enqueued + 1
  <2>1. enqueued + 1 \in Contents
    BY DEF BInv, PInv, IInv, TypeOK, Contents
  <2> QED
    BY <1>1, <2>1, WriteAtTail
<1>4. Writing'
  BY <1>2 DEF Writing
<1>5. LastRequestsStay'
  BY <1>1, <1>3, <1>4 DEF LastRequestsStay
<1>6. NextIsWritten'
  BY <1>1, <1>3 DEF NextIsWritten
<1>7. ElementTaken' /\ CopiedSoFar' /\ ReceivedUnlessLapped'
  BY <1>1, <1>2
     DEF BInv, ElementTaken, CopiedSoFar, ReceivedUnlessLapped, At, outVars, Threads
<1> QED
  BY <1>5, <1>6, <1>7 DEF BInv

\* The request that has been written becomes one of the last ones, and the
\* oldest of them may from now on be overwritten.
LEMMA AdvanceTailBuffers ==
    ASSUME ~splitWrap, BInv, PInv', NEW p \in Pushers, AdvanceTail(p) PROVE BInv'
<1> USE PcQueueAssumption
<1>1. /\ pc[p] = "advance" /\ pc' = [pc EXCEPT ![p] = "count"]
      /\ enqueued' = enqueued + 1
      /\ UNCHANGED <<pcq_buffer, outVars>>
  BY DEF AdvanceTail, At, GoTo
<1>2. /\ enqueued \in Nat /\ due \in [Poppers -> Nat]
      /\ \A t \in Threads : pc'[t] = IF t = p THEN "count" ELSE pc[t]
  BY <1>1 DEF BInv, PInv, IInv, TypeOK, Threads
<1>3. pcq_buffer[enqueued % Capacity] = enqueued + 1
  BY <1>1, TailSlot DEF BInv, NextIsWritten
<1>4. ASSUME NEW k \in 1 .. enqueued', enqueued' < k + Capacity
      PROVE  Intact(k)'
  <2>1. CASE k = enqueued'
    BY <1>1, <1>2, <1>3, <2>1 DEF Intact
  <2>2. CASE k # enqueued'
    <3>1. k \in 1 .. enqueued /\ enqueued + 1 < k + Capacity
      BY <1>1, <1>2, <1>4, <2>2
    <3>2. Intact(k)
      BY <3>1 DEF BInv, LastRequestsStay
    <3> QED
      BY <1>1, <3>2 DEF Intact
  <2> QED
    BY <2>1, <2>2
<1>5. LastRequestsStay'
  BY <1>1, <1>2, <1>4 DEF LastRequestsStay
<1>6. NextIsWritten'
  <2>1. \A q \in Pushers : pc[q] = "advance" => q = p
    BY <1>1, OneInside DEF BInv, PInv, Critical, Side, Threads
  <2> QED
    BY <1>2, <2>1 DEF NextIsWritten, Threads
<1>7. \A w \in Poppers : pc'[w] = pc[w]
  BY <1>2 DEF Threads
<1>8. ElementTaken' /\ CopiedSoFar' /\ ReceivedUnlessLapped'
  BY <1>1, <1>2, <1>7
     DEF BInv, ElementTaken, CopiedSoFar, ReceivedUnlessLapped, At, outVars
<1> QED
  BY <1>5, <1>6, <1>8 DEF BInv

LEMMA AdvanceHeadBuffers ==
    ASSUME BInv, PInv', NEW w \in Poppers, AdvanceHead(w) PROVE BInv'
<1> USE PcQueueAssumption
<1>1. /\ pc[w] = "advance" /\ pc' = [pc EXCEPT ![w] = "count"]
      /\ elem' = [elem EXCEPT ![w] = pcq_head]
      /\ due' = [due EXCEPT ![w] = dequeued + 1]
      /\ UNCHANGED <<pcq_buffer, pcq_tail, enqueued, received>>
  BY DEF AdvanceHead, At, GoTo
<1>2. /\ enqueued \in Nat /\ dequeued \in Nat /\ pcq_head \in Indices
      /\ elem \in [Poppers -> Indices] /\ due \in [Poppers -> Nat]
      /\ \A t \in Threads : pc'[t] = IF t = w THEN "count" ELSE pc[t]
  BY <1>1 DEF BInv, PInv, IInv, TypeOK, Threads
<1>3. \A p \in Pushers : pc'[p] = pc[p]
  BY <1>2 DEF Threads
<1>4. LastRequestsStay'
  <2>1. Writing' <=> Writing
    BY <1>3 DEF Writing
  <2> QED
    BY <1>1, <2>1 DEF BInv, LastRequestsStay, Intact
<1>5. NextIsWritten'
  BY <1>1, <1>3 DEF BInv, NextIsWritten
<1>6. dequeued < enqueued /\ pcq_head = dequeued % Capacity
  BY <1>1, <1>2, PlaceOf DEF BInv, PInv, PastTheTest, CountsAgree
<1>7. due'[w] \in 1 .. enqueued /\ elem'[w] = (due'[w] - 1) % Capacity
  BY <1>1, <1>2, <1>6
<1>8. \A v \in Poppers : v # w => /\ pc'[v] = pc[v]
                                  /\ due'[v] = due[v] /\ elem'[v] = elem[v]
  BY <1>1, <1>2 DEF Threads
<1>9. ElementTaken'
  BY <1>1, <1>7, <1>8 DEF BInv, ElementTaken
<1>10. CopiedSoFar' /\ ReceivedUnlessLapped'
  BY <1>1, <1>2, <1>8 DEF BInv, CopiedSoFar, ReceivedUnlessLapped, At, Threads
<1> QED
  BY <1>4, <1>5, <1>9, <1>10 DEF BInv

\* What a popper reads from its slot is its element, or it has been lapped.
LEMMA ReadsElement ==
    ASSUME BInv, NEW w \in Poppers, pc[w] \in Taken
    PROVE  pcq_buffer[elem[w]] = due[w] \/ enqueued + 1 >= due[w] + Capacity
<1>1. due[w] \in 1 .. enqueued /\ elem[w] = (due[w] - 1) % Capacity
  BY DEF BInv, ElementTaken
<1>2. enqueued \in Nat /\ Capacity \in Nat
  BY PcQueueAssumption DEF BInv, PInv, IInv, TypeOK
<1> QED
  BY <1>1, <1>2 DEF BInv, LastRequestsStay, Intact

LEMMA CopyOutBuffers ==
    ASSUME BInv, PInv', NEW w \in Poppers, CopyOut(w) \/ CopyOutDone(w)
    PROVE  BInv'
<1> USE PcQueueAssumption
<1> PICK step, value :
        /\ step \in {"copyingOut", "outside"}
        /\ pc[w] \in {"copyOut", "copyingOut"}
        /\ pc' = [pc EXCEPT ![w] = step]
        /\ received' = [received EXCEPT ![w] = value]
        /\ UNCHANGED <<ringVars, elem, due>>
        /\ \/ value = pcq_buffer[elem[w]]
           \/ pc[w] = "copyingOut" /\ received[w] # pcq_buffer[elem[w]]
  BY DEF CopyOut, CopyOutDone, At, GoTo
<1>1. UNCHANGED <<pcq_buffer, pcq_tail, enqueued, elem, due>>
  BY DEF ringVars
<1>2. /\ \A t \in Threads : pc'[t] = IF t = w THEN step ELSE pc[t]
      /\ \A v \in Poppers : received'[v] = IF v = w THEN value ELSE received[v]
  BY DEF BInv, PInv, IInv, TypeOK
<1>3. \A p \in Pushers : pc'[p] = pc[p]
  BY <1>2 DEF Threads
<1>4. LastRequestsStay'
  <2>1. Writing' <=> Writing
    BY <1>3 DEF Writing
  <2> QED
    BY <1>1, <2>1 DEF BInv, LastRequestsStay, Intact
<1>5. NextIsWritten'
  BY <1>1, <1>3 DEF BInv, NextIsWritten
<1>6. ElementTaken'
  BY <1>1, <1>2 DEF BInv, ElementTaken, Taken, Threads
<1>7. value = due[w] \/ enqueued + 1 >= due[w] + Capacity
  BY ReadsElement DEF BInv, CopiedSoFar, Taken
<1>8. CopiedSoFar' /\ ReceivedUnlessLapped'
  BY <1>1, <1>2, <1>7 DEF BInv, CopiedSoFar, ReceivedUnlessLapped, At, Threads
<1> QED
  BY <1>4, <1>5, <1>6, <1>8 DEF BInv

LEMMA BInductiveStep ==
    ASSUME ~splitWrap PROVE BInv /\ [Next]_vars => BInv'
<1> SUFFICES ASSUME BInv, [Next]_vars PROVE BInv'
  OBVIOUS
<1>1. PInv'
  BY PInductiveStep DEF BInv
<1>2. CASE UNCHANGED vars
  BY <1>1, <1>2, BufferStays DEF vars, ringVars, outVars
<1>3. CASE \E t \in Threads : Aside(t)
  BY <1>1, <1>3, AsideStays
<1>4. CASE \E p \in Pushers : CopyIn(p)
  BY <1>1, <1>4, CopyInBuffers
<1>5. CASE \E p \in Pushers : CopyInDone(p)
  BY <1>1, <1>5, CopyInDoneBuffers
<1>6. CASE \E p \in Pushers : AdvanceTail(p)
  BY <1>1, <1>6, AdvanceTailBuffers
<1>7. CASE \E p \in Pushers : WrapTail(p)
  BY <1>7 DEF WrapTail, At, BInv, PInv, NeverSplit
<1>8. CASE \E w \in Poppers : AdvanceHead(w)
  BY <1>1, <1>8, AdvanceHeadBuffers
<1>9. CASE \E w \in Poppers : CopyOut(w) \/ CopyOutDone(w)
  BY <1>1, <1>9, CopyOutBuffers
<1> QED
  BY <1>2, <1>3, <1>4, <1>5, <1>6, <1>7, <1>8, <1>9
     DEF Next, Aside, Running, Pushing, Popping

LEMMA InitBInv == Init => BInv
<1> SUFFICES ASSUME Init PROVE BInv
  OBVIOUS
<1>1. LastRequestsStay /\ NextIsWritten
  BY DEF Init, LastRequestsStay, NextIsWritten, Threads
<1>2. ElementTaken /\ CopiedSoFar /\ ReceivedUnlessLapped
  BY DEF Init, ElementTaken, CopiedSoFar, ReceivedUnlessLapped, Taken, Threads
<1> QED
  BY <1>1, <1>2, InitPInv DEF BInv

LEMMA BInvariant == Spec => [](splitWrap \/ BInv)
<1>1. (splitWrap \/ BInv) /\ [Next]_vars => (splitWrap \/ BInv)'
  BY BInductiveStep, BuildStays
<1> QED
  BY <1>1, InitBInv, PTL DEF Spec

\* A worker copies its element out of the ring with no lock, after giving the
\* slot back: for any threads and any capacity, and whatever updates of the
\* counter of elements are lost, the optimised build's worker receives the very
\* request it removed unless the pushers have come round the whole ring to its
\* slot by the time it is done.
THEOREM ReceivesItsElement == Spec => []TornOnlyWhenLapped
<1>1. splitWrap \/ BInv => TornOnlyWhenLapped
  BY DEF BInv, ReceivedUnlessLapped, TornOnlyWhenLapped
<1> QED
  BY <1>1, BInvariant, PTL

-----------------------------------------------------------------------------
(* The ring refines the bounded queue, when the tail is stored once and no *)
(* increment of the size is lost.                                          *)

\* A thread that has moved its end of the ring and not yet counted it.
Uncounted(t) == pc[t] \in {"count", "store"}

Pending(S) == IF \E t \in S : Uncounted(t) THEN 1 ELSE 0

\* The size is at least the distance between the ends of the ring, and at most
\* the capacity, but for a pusher and a popper that have moved their end and not
\* yet counted it.
SizeCovers ==
    /\ enqueued - dequeued + Pending(Poppers) <= pcq_current_size + Pending(Pushers)
    /\ pcq_current_size + Pending(Pushers) <= Capacity

\* A pusher that found room keeps it: only it can take it.
RoomFound ==
    \A p \in Pushers :
        pc[p] \in {"copyIn", "copyingIn", "advance"} => pcq_current_size < Capacity

\* Between its load and its store only poppers change the size it loaded.
LoadedHigh ==
    \A p \in Pushers : pc[p] = "store" =>
        pcq_current_size <= loaded[p] /\ loaded[p] < Capacity

FInv == BInv /\ SizeCovers /\ RoomFound /\ LoadedHigh

\* A step that does not count, and moves no end of the ring.
LEMMA SizeStays ==
    ASSUME FInv, UNCHANGED <<pcq_current_size, loaded, enqueued, dequeued>>,
           \A t \in Threads :
               \/ pc'[t] = pc[t]
               \/ /\ ~Uncounted(t) /\ ~Uncounted(t)'
                  /\ \/ pc[t] \in {"copyIn", "copyingIn"}
                     \/ pc'[t] \notin {"copyIn", "copyingIn", "advance"}
                     \/ t \notin Pushers
    PROVE  SizeCovers' /\ RoomFound' /\ LoadedHigh'
<1>1. \A t \in Threads : Uncounted(t)' <=> Uncounted(t)
  BY DEF Uncounted
<1>2. /\ (\E t \in Pushers : Uncounted(t))' <=> \E t \in Pushers : Uncounted(t)
      /\ (\E t \in Poppers : Uncounted(t))' <=> \E t \in Poppers : Uncounted(t)
  BY <1>1 DEF Threads
<1>3. Pending(Pushers)' = Pending(Pushers) /\ Pending(Poppers)' = Pending(Poppers)
  BY <1>2 DEF Pending
<1>4. SizeCovers'
  BY <1>3 DEF FInv, SizeCovers
<1>5. RoomFound'
  BY DEF FInv, RoomFound, Threads
<1>6. LoadedHigh'
  BY DEF FInv, LoadedHigh, Threads, Uncounted
<1> QED
  BY <1>4, <1>5, <1>6

LEMMA CheckFindsRoom ==
    ASSUME FInv, NEW t \in Threads, Check(t)
    PROVE  SizeCovers' /\ RoomFound' /\ LoadedHigh'
<1> USE PcQueueAssumption
<1> PICK step \in {"mustSleep", "copyIn", "advance"} :
        /\ pc' = [pc EXCEPT ![t] = step]
        /\ t \in Pushers => step \in {"mustSleep", "copyIn"}
        /\ step = "copyIn" => pcq_current_size # Capacity
  BY DEF Check, GoTo, MustWait, pcq_isFull
<1>1. pc[t] = "check" /\ UNCHANGED <<pcq_current_size, loaded, enqueued, dequeued>>
  BY DEF Check, At, ringVars, sizeVars
<1>2. \A u \in Threads : pc'[u] = IF u = t THEN step ELSE pc[u]
  BY DEF FInv, BInv, PInv, IInv, TypeOK
<1>3. CASE step # "copyIn"
  BY <1>1, <1>2, <1>3, SizeStays DEF Uncounted
<1>4. CASE step = "copyIn"
  <2>1. \A u \in Threads : Uncounted(u)' <=> Uncounted(u)
    BY <1>1, <1>2, <1>4 DEF Uncounted
  <2>2. /\ (\E u \in Pushers : Uncounted(u))' <=> \E u \in Pushers : Uncounted(u)
        /\ (\E u \in Poppers : Uncounted(u))' <=> \E u \in Poppers : Uncounted(u)
    BY <2>1 DEF Threads
  <2>3. Pending(Pushers)' = Pending(Pushers) /\ Pending(Poppers)' = Pending(Poppers)
    BY <2>2 DEF Pending
  <2>4. SizeCovers'
    BY <1>1, <2>3 DEF FInv, SizeCovers
  <2>5. pcq_current_size < Capacity
    <3>1. pcq_current_size <= Capacity /\ pcq_current_size \in Int
      BY DEF FInv, BInv, PInv, IInv, TypeOK, SizeCovers, Pending
    <3> QED
      BY <1>4, <3>1
  <2>6. RoomFound'
    BY <1>1, <2>5 DEF RoomFound
  <2>7. LoadedHigh'
    BY <1>1, <1>2, <1>4 DEF FInv, LoadedHigh, Threads
  <2> QED
    BY <2>4, <2>6, <2>7
<1> QED
  BY <1>3, <1>4

\* The load of the size.
LEMMA CountLoads ==
    ASSUME FInv, NEW t \in Threads, Count(t)
    PROVE  SizeCovers' /\ RoomFound' /\ LoadedHigh'
<1> USE PcQueueAssumption
<1>1. /\ pc[t] = "count" /\ pc' = [pc EXCEPT ![t] = "store"]
      /\ loaded' = [loaded EXCEPT ![t] = pcq_current_size]
      /\ UNCHANGED <<pcq_current_size, enqueued, dequeued>>
  BY DEF Count, At, GoTo, ringVars
<1>2. /\ \A u \in Threads : pc'[u] = IF u = t THEN "store" ELSE pc[u]
      /\ \A u \in Threads :
             loaded'[u] = IF u = t THEN pcq_current_size ELSE loaded[u]
      /\ pcq_current_size \in Int
  BY <1>1 DEF FInv, BInv, PInv, IInv, TypeOK
<1>3. \A u \in Threads : Uncounted(u)' <=> Uncounted(u)
  BY <1>1, <1>2 DEF Uncounted
<1>4. /\ (\E u \in Pushers : Uncounted(u))' <=> \E u \in Pushers : Uncounted(u)
      /\ (\E u \in Poppers : Uncounted(u))' <=> \E u \in Poppers : Uncounted(u)
  BY <1>3 DEF Threads
<1>5. Pending(Pushers)' = Pending(Pushers) /\ Pending(Poppers)' = Pending(Poppers)
  BY <1>4 DEF Pending
<1>6. SizeCovers'
  BY <1>1, <1>5 DEF FInv, SizeCovers
<1>7. RoomFound'
  BY <1>1, <1>2 DEF FInv, RoomFound, Threads
<1>8. t \in Pushers => pcq_current_size < Capacity
  <2> SUFFICES ASSUME t \in Pushers PROVE pcq_current_size < Capacity
    OBVIOUS
  <2>1. Pending(Pushers) = 1
    BY <1>1 DEF Pending, Uncounted
  <2> QED
    BY <1>2, <2>1 DEF FInv, SizeCovers
<1>9. LoadedHigh'
  BY <1>1, <1>2, <1>8 DEF FInv, LoadedHigh, Threads
<1> QED
  BY <1>6, <1>7, <1>9

\* The store of the size: a pusher may overwrite what poppers stored since it
\* loaded, which only leaves the size too high; a popper that finds the size it
\* loaded overwrites nothing.
LEMMA StoreSizeCounts ==
    ASSUME FInv, NEW t \in Threads, StoreSize(t), ~undercounted'
    PROVE  SizeCovers' /\ RoomFound' /\ LoadedHigh'
<1> USE PcQueueAssumption
<1>1. /\ pc[t] = "store" /\ pc' = [pc EXCEPT ![t] = "signal"]
      /\ pcq_current_size' = Counted(t, loaded[t])
      /\ t \in Poppers => loaded[t] = pcq_current_size
      /\ UNCHANGED <<loaded, enqueued, dequeued>>
  BY DEF StoreSize, At, GoTo, ringVars
<1>2. /\ \A u \in Threads : pc'[u] = IF u = t THEN "signal" ELSE pc[u]
      /\ pcq_current_size \in Int /\ loaded[t] \in Int
      /\ enqueued \in Nat /\ dequeued \in Nat /\ IInv
  BY <1>1 DEF FInv, BInv, PInv, IInv, TypeOK
<1>3. CASE t \in Pushers
  <2>1. \A u \in Pushers : pc[u] \in Critical => u = t
    BY <1>1, <1>2, <1>3, OneInside DEF Side, Threads, Critical
  <2>2. ~\E u \in Pushers : Uncounted(u)'
    BY <1>2, <2>1 DEF Threads, Critical, Uncounted
  <2>3. (\E u \in Poppers : Uncounted(u))' <=> \E u \in Poppers : Uncounted(u)
    BY <1>2, <1>3 DEF Threads, Uncounted
  <2>4. /\ Pending(Pushers) = 1 /\ Pending(Pushers)' = 0
        /\ Pending(Poppers)' = Pending(Poppers) /\ Pending(Poppers) \in {0, 1}
    BY <1>1, <1>3, <2>2, <2>3 DEF Pending, Uncounted
  <2>5. /\ pcq_current_size' = loaded[t] + 1
        /\ pcq_current_size <= loaded[t] /\ loaded[t] < Capacity
    BY <1>1, <1>3 DEF Counted, FInv, LoadedHigh
  <2>6. SizeCovers'
    BY <1>1, <1>2, <2>4, <2>5 DEF FInv, SizeCovers
  <2>7. RoomFound'
    BY <1>2, <2>1 DEF RoomFound, Threads, Critical
  <2>8. LoadedHigh'
    BY <1>2, <2>1 DEF LoadedHigh, Threads, Critical
  <2> QED
    BY <2>6, <2>7, <2>8
<1>4. CASE t \in Poppers
  <2>1. t \notin Pushers
    BY <1>4
  <2>2. \A u \in Poppers : pc[u] \in Critical => u = t
    BY <1>1, <1>2, <1>4, OneInside DEF Side, Threads, Critical
  <2>3. ~\E u \in Poppers : Uncounted(u)'
    BY <1>2, <2>2 DEF Threads, Critical, Uncounted
  <2>4. \A u \in Pushers : pc'[u] = pc[u]
    BY <1>2, <2>1 DEF Threads
  <2>5. (\E u \in Pushers : Uncounted(u))' <=> \E u \in Pushers : Uncounted(u)
    BY <2>4 DEF Uncounted
  <2>6. /\ Pending(Poppers) = 1 /\ Pending(Poppers)' = 0
        /\ Pending(Pushers)' = Pending(Pushers) /\ Pending(Pushers) \in {0, 1}
    BY <1>1, <1>4, <2>3, <2>5 DEF Pending, Uncounted
  <2>7. pcq_current_size' = pcq_current_size - 1
    BY <1>1, <1>4, <2>1 DEF Counted
  <2>8. SizeCovers'
    BY <1>1, <1>2, <2>6, <2>7 DEF FInv, SizeCovers
  <2>9. RoomFound'
    BY <1>2, <2>4, <2>7 DEF FInv, RoomFound
  <2>10. LoadedHigh'
    <3> SUFFICES ASSUME NEW p \in Pushers, pc'[p] = "store"
                 PROVE  pcq_current_size' <= loaded[p] /\ loaded[p] < Capacity
      BY <1>1 DEF LoadedHigh
    <3>1. pcq_current_size <= loaded[p] /\ loaded[p] < Capacity /\ loaded[p] \in Int
      BY <2>4 DEF FInv, LoadedHigh, BInv, PInv, IInv, TypeOK, Threads
    <3> QED
      BY <1>2, <2>7, <3>1
  <2> QED
    BY <2>8, <2>9, <2>10
<1> QED
  BY <1>3, <1>4 DEF Threads

LEMMA AdvanceTailCounts ==
    ASSUME ~splitWrap, FInv, NEW p \in Pushers, AdvanceTail(p)
    PROVE  SizeCovers' /\ RoomFound' /\ LoadedHigh'
<1> USE PcQueueAssumption
<1>1. /\ pc[p] = "advance" /\ pc' = [pc EXCEPT ![p] = "count"]
      /\ enqueued' = enqueued + 1
      /\ UNCHANGED <<pcq_current_size, loaded, dequeued>>
  BY DEF AdvanceTail, At, GoTo, sizeVars
<1>2. \A u \in Threads : pc'[u] = IF u = p THEN "count" ELSE pc[u]
  BY <1>1 DEF FInv, BInv, PInv, IInv, TypeOK
<1>3. /\ pcq_current_size \in Int /\ enqueued \in Nat /\ dequeued \in Nat
      /\ IInv
  BY DEF FInv, BInv, PInv, IInv, TypeOK
<1>4. \A u \in Pushers : pc[u] \in Critical => u = p
  BY <1>1, <1>3, OneInside DEF Side, Threads, Critical
<1>5. ~\E u \in Pushers : Uncounted(u)
  BY <1>1, <1>4 DEF Critical, Uncounted
<1>6. \E u \in Pushers : Uncounted(u)'
  BY <1>2 DEF Threads, Uncounted
<1>7. (\E u \in Poppers : Uncounted(u))' <=> \E u \in Poppers : Uncounted(u)
  BY <1>2 DEF Threads, Uncounted
<1>8. /\ Pending(Pushers) = 0 /\ Pending(Pushers)' = 1
      /\ Pending(Poppers)' = Pending(Poppers) /\ Pending(Poppers) \in {0, 1}
  BY <1>5, <1>6, <1>7 DEF Pending
<1>9. pcq_current_size < Capacity
  BY <1>1 DEF FInv, RoomFound
<1>10. SizeCovers'
  BY <1>1, <1>3, <1>8, <1>9 DEF FInv, SizeCovers
<1>11. RoomFound'
  BY <1>2, <1>4 DEF RoomFound, Threads, Critical
<1>12. LoadedHigh'
  BY <1>1, <1>2 DEF FInv, LoadedHigh, Threads
<1> QED
  BY <1>10, <1>11, <1>12

LEMMA AdvanceHeadCounts ==
    ASSUME FInv, NEW w \in Poppers, AdvanceHead(w)
    PROVE  SizeCovers' /\ RoomFound' /\ LoadedHigh'
<1> USE PcQueueAssumption
<1>1. /\ pc[w] = "advance" /\ pc' = [pc EXCEPT ![w] = "count"]
      /\ dequeued' = dequeued + 1
      /\ UNCHANGED <<pcq_current_size, loaded, enqueued>>
  BY DEF AdvanceHead, At, GoTo, sizeVars
<1>2. \A u \in Threads : pc'[u] = IF u = w THEN "count" ELSE pc[u]
  BY <1>1 DEF FInv, BInv, PInv, IInv, TypeOK
<1>3. /\ pcq_current_size \in Int /\ enqueued \in Nat /\ dequeued \in Nat
      /\ IInv
  BY DEF FInv, BInv, PInv, IInv, TypeOK
<1>4. \A u \in Poppers : pc[u] \in Critical => u = w
  BY <1>1, <1>3, OneInside DEF Side, Threads, Critical
<1>5. ~\E u \in Poppers : Uncounted(u)
  BY <1>1, <1>4 DEF Critical, Uncounted
<1>6. \E u \in Poppers : Uncounted(u)'
  BY <1>2 DEF Threads, Uncounted
<1>7. \A u \in Pushers : pc'[u] = pc[u]
  BY <1>2 DEF Threads
<1>8. (\E u \in Pushers : Uncounted(u))' <=> \E u \in Pushers : Uncounted(u)
  BY <1>7 DEF Uncounted
<1>9. /\ Pending(Poppers) = 0 /\ Pending(Poppers)' = 1
      /\ Pending(Pushers)' = Pending(Pushers) /\ Pending(Pushers) \in {0, 1}
  BY <1>5, <1>6, <1>8 DEF Pending
<1>10. SizeCovers'
  BY <1>1, <1>3, <1>9 DEF FInv, SizeCovers
<1>11. RoomFound' /\ LoadedHigh'
  BY <1>1, <1>7 DEF FInv, RoomFound, LoadedHigh
<1> QED
  BY <1>10, <1>11

\* The steps that move no end of the ring and do not count.
Quiet ==
    \/ \E t \in Threads : \/ Call(t) \/ SpuriousWakeup(t) \/ Lock(t) \/ Sleep(t)
                          \/ Signal(t) \/ Unlock(t)
    \/ \E p \in Pushers : CopyIn(p) \/ CopyInDone(p)
    \/ \E w \in Poppers : CopyOut(w) \/ CopyOutDone(w)

LEMMA QuietStays ==
    ASSUME FInv, Quiet PROVE SizeCovers' /\ RoomFound' /\ LoadedHigh'
<1> USE PcQueueAssumption
<1>1. UNCHANGED <<pcq_current_size, loaded, enqueued, dequeued>>
  BY DEF Quiet, Call, SpuriousWakeup, Lock, Sleep, Signal, Unlock, CopyIn,
         CopyInDone, Store, CopyOut, CopyOutDone, ringVars, sizeVars
<1>2. pc \in [Threads -> Steps]
  BY DEF FInv, BInv, PInv, IInv, TypeOK
<1>3. \A s \in Sides : \A u \in asleep[s] : u \in Threads /\ pc[u] = "asleep"
  BY DEF FInv, BInv, PInv, IInv, TypeOK, SleepersSleep
<1> DEFINE Still(u) ==
        \/ pc'[u] = pc[u]
        \/ /\ pc[u] \notin {"count", "store"} /\ pc'[u] \notin {"count", "store"}
           /\ \/ pc[u] \in {"copyIn", "copyingIn"}
              \/ pc'[u] \notin {"copyIn", "copyingIn", "advance"}
              \/ u \notin Pushers
<1>4. ASSUME NEW t \in Threads, Call(t) \/ Lock(t) \/ Sleep(t) \/ Unlock(t)
      PROVE  \A u \in Threads : Still(u)
  BY <1>2, <1>4 DEF Call, Lock, Sleep, Unlock, GoTo, At
<1>5. ASSUME NEW t \in Threads, SpuriousWakeup(t) \/ Signal(t)
      PROVE  \A u \in Threads : Still(u)
  BY <1>2, <1>3, <1>5
     DEF SpuriousWakeup, Signal, GoTo, At, OtherSide, Side, Sides
<1>6. ASSUME NEW p \in Pushers, CopyIn(p) \/ CopyInDone(p)
      PROVE  \A u \in Threads : Still(u)
  BY <1>2, <1>6 DEF CopyIn, CopyInDone, Store, GoTo, At
<1>7. ASSUME NEW w \in Poppers, CopyOut(w) \/ CopyOutDone(w)
      PROVE  \A u \in Threads : Still(u)
  BY <1>2, <1>7 DEF CopyOut, CopyOutDone, GoTo, At
<1>8. \A u \in Threads : Still(u)
  BY <1>4, <1>5, <1>6, <1>7 DEF Quiet
<1> QED
  BY <1>1, <1>8, SizeStays DEF Uncounted

\* A lost increment stays lost.
LEMMA UndercountStays == undercounted /\ [Next]_vars => undercounted'
<1> SUFFICES ASSUME undercounted, [Next]_vars PROVE undercounted'
  OBVIOUS
<1>1. ASSUME NEW t \in Threads, Call(t) \/ SpuriousWakeup(t) \/ Running(t)
      PROVE  undercounted'
  BY <1>1 DEF Running, Call, SpuriousWakeup, Lock, Check, Sleep, Count, StoreSize,
              Signal, Unlock, sizeVars
<1>2. ASSUME NEW p \in Pushers, Pushing(p) PROVE undercounted'
  BY <1>2 DEF Pushing, CopyIn, CopyInDone, Store, AdvanceTail, WrapTail, sizeVars
<1>3. ASSUME NEW w \in Poppers, Popping(w) PROVE undercounted'
  BY <1>3 DEF Popping, AdvanceHead, CopyOut, CopyOutDone, sizeVars
<1> QED
  BY <1>1, <1>2, <1>3 DEF Next, vars

LEMMA FInductiveStep ==
    ASSUME ~splitWrap, FInv, [Next]_vars, ~undercounted' PROVE FInv'
<1>1. BInv'
  BY BInductiveStep DEF FInv
<1>2. CASE UNCHANGED vars
  BY <1>1, <1>2, SizeStays DEF vars, FInv
<1>3. CASE Quiet
  BY <1>1, <1>3, QuietStays DEF FInv
<1>4. CASE \E t \in Threads : Check(t)
  BY <1>1, <1>4, CheckFindsRoom DEF FInv
<1>5. CASE \E t \in Threads : Count(t)
  BY <1>1, <1>5, CountLoads DEF FInv
<1>6. CASE \E t \in Threads : StoreSize(t)
  BY <1>1, <1>6, StoreSizeCounts DEF FInv
<1>7. CASE \E p \in Pushers : AdvanceTail(p)
  BY <1>1, <1>7, AdvanceTailCounts DEF FInv
<1>8. CASE \E p \in Pushers : WrapTail(p)
  BY <1>8 DEF WrapTail, At, FInv, BInv, PInv, NeverSplit
<1>9. CASE \E w \in Poppers : AdvanceHead(w)
  BY <1>1, <1>9, AdvanceHeadCounts DEF FInv
<1> QED
  BY <1>2, <1>3, <1>4, <1>5, <1>6, <1>7, <1>8, <1>9
     DEF Next, Quiet, Running, Pushing, Popping

LEMMA InitFInv == Init => FInv
<1> SUFFICES ASSUME Init PROVE FInv
  OBVIOUS
<1>1. SizeCovers
  BY PcQueueAssumption DEF Init, SizeCovers, Pending, Uncounted, Threads
<1> QED
  BY <1>1, InitBInv DEF Init, FInv, RoomFound, LoadedHigh, Threads

\* The unread part of the ring is the requests between the two counts.
UnreadRequests ==
    /\ Unread \in Seq(Nat)
    /\ Len(Unread) = enqueued - dequeued
    /\ \A k \in 1 .. enqueued - dequeued : Unread[k] = dequeued + k

LEMMA UnreadIsIntact == FInv => UnreadRequests
<1> USE PcQueueAssumption
<1> SUFFICES ASSUME FInv PROVE UnreadRequests
  OBVIOUS
<1>1. /\ enqueued \in Nat /\ dequeued \in Nat /\ dequeued <= enqueued
      /\ pcq_current_size \in Int
  BY DEF FInv, BInv, PInv, IInv, TypeOK, CountsAgree
<1>2. enqueued - dequeued <= Capacity
  BY <1>1 DEF FInv, SizeCovers, Pending, Uncounted
<1>3. Writing => enqueued - dequeued < Capacity
  <2> SUFFICES ASSUME NEW p \in Pushers, pc[p] \in {"copyingIn", "advance"}
               PROVE  enqueued - dequeued < Capacity
    BY DEF Writing
  <2>1. pcq_current_size < Capacity
    BY DEF FInv, RoomFound
  <2>2. \A u \in Pushers : ~Uncounted(u)
    BY OneInside DEF FInv, BInv, PInv, Critical, Side, Threads, Uncounted
  <2> QED
    BY <1>1, <2>1, <2>2 DEF FInv, SizeCovers, Pending, Uncounted
<1>4. ASSUME NEW k \in 1 .. enqueued - dequeued
      PROVE  pcq_buffer[(dequeued + k - 1) % Capacity] = dequeued + k
  <2> DEFINE r == dequeued + k
  <2>1. r \in 1 .. enqueued /\ r \in Nat /\ r > dequeued
    BY <1>1
  <2> HIDE DEF r
  <2>2. IF Writing THEN enqueued + 1 < r + Capacity ELSE enqueued < r + Capacity
    BY <1>1, <1>2, <1>3, <2>1
  <2>3. Intact(r)
    BY <2>1, <2>2 DEF FInv, BInv, LastRequestsStay
  <2>4. r - 1 = dequeued + k - 1
    BY <1>1 DEF r
  <2> QED
    BY <2>3, <2>4 DEF Intact, r
<1>5. \A k \in 1 .. enqueued - dequeued : Unread[k] = dequeued + k
  BY <1>4 DEF Unread
<1>6. Unread \in [1 .. enqueued - dequeued -> Nat]
  <2>1. \A k \in 1 .. enqueued - dequeued : dequeued + k \in Nat
    BY <1>1
  <2> QED
    BY <1>4, <2>1 DEF Unread
<1>7. enqueued - dequeued \in Nat
  BY <1>1
<1>8. Unread \in Seq(Nat)
  BY <1>6, <1>7, SeqDef
<1>9. Len(Unread) = enqueued - dequeued
  <2>1. Len(Unread) \in Nat /\ DOMAIN Unread = 1 .. Len(Unread)
    BY <1>8, LenProperties
  <2>2. DOMAIN Unread = 1 .. enqueued - dequeued
    BY <1>6
  <2> QED
    BY <1>7, <2>1, <2>2
<1> QED
  BY <1>5, <1>8, <1>9 DEF UnreadRequests

LEMMA TailAppends ==
    ASSUME ~splitWrap, FInv, UnreadRequests, UnreadRequests',
           NEW p \in Pushers, AdvanceTail(p)
    PROVE  Fifo!Put
<1> USE PcQueueAssumption
<1>1. pc[p] = "advance" /\ enqueued' = enqueued + 1 /\ dequeued' = dequeued
  BY DEF AdvanceTail, At
<1>2. /\ enqueued \in Nat /\ dequeued \in Nat /\ dequeued <= enqueued
      /\ pcq_current_size \in Int
  BY DEF FInv, BInv, PInv, IInv, TypeOK, CountsAgree
<1>3. enqueued - dequeued < Capacity
  <2>1. pcq_current_size < Capacity
    BY <1>1 DEF FInv, RoomFound
  <2>2. \A u \in Pushers : ~Uncounted(u)
    BY <1>1, OneInside DEF FInv, BInv, PInv, Critical, Side, Threads, Uncounted
  <2> QED
    BY <1>2, <2>1, <2>2 DEF FInv, SizeCovers, Pending, Uncounted
<1>4. Len(Unread) < Capacity
  BY <1>3 DEF UnreadRequests
<1> DEFINE longer == Append(Unread, enqueued + 1)
<1>5. /\ longer \in Seq(Nat) /\ Len(longer) = Len(Unread) + 1
      /\ \A k \in 1 .. Len(Unread) : longer[k] = Unread[k]
      /\ longer[Len(Unread) + 1] = enqueued + 1
  <2>1. Unread \in Seq(Nat) /\ enqueued + 1 \in Nat
    BY <1>2 DEF UnreadRequests
  <2> QED
    BY <2>1, AppendProperties
<1> HIDE DEF longer
<1>6. Len(Unread') = Len(longer) /\ Len(longer) = enqueued - dequeued + 1
  BY <1>1, <1>2, <1>5 DEF UnreadRequests
<1>7. \A k \in 1 .. Len(Unread') : Unread'[k] = longer[k]
  <2> SUFFICES ASSUME NEW k \in 1 .. enqueued - dequeued + 1
               PROVE  Unread'[k] = longer[k]
    BY <1>6
  <2>1. Unread'[k] = dequeued + k
    BY <1>1, <1>2 DEF UnreadRequests
  <2>2. longer[k] = dequeued + k
    <3>1. CASE k = enqueued - dequeued + 1
      BY <1>2, <1>5, <3>1 DEF UnreadRequests
    <3>2. CASE k # enqueued - dequeued + 1
      BY <1>2, <1>5, <3>2 DEF UnreadRequests
    <3> QED
      BY <3>1, <3>2
  <2> QED
    BY <2>1, <2>2
<1>8. Unread' \in Seq(Nat)
  BY DEF UnreadRequests
<1>9. Unread' = longer
  BY <1>5, <1>6, <1>7, <1>8, SeqEqual
<1> QED
  BY <1>1, <1>4, <1>9 DEF Fifo!Put, longer

LEMMA HeadTakes ==
    ASSUME FInv, UnreadRequests, UnreadRequests',
           NEW w \in Poppers, AdvanceHead(w)
    PROVE  Fifo!Take
<1>1. pc[w] = "advance" /\ enqueued' = enqueued /\ dequeued' = dequeued + 1
  BY DEF AdvanceHead, At
<1>2. enqueued \in Nat /\ dequeued \in Nat /\ dequeued < enqueued
  BY <1>1 DEF FInv, BInv, PInv, IInv, TypeOK, PastTheTest
<1>3. Unread \in Seq(Nat) /\ Unread # <<>> /\ Unread' \in Seq(Nat)
  BY <1>2, EmptySeq DEF UnreadRequests
<1> DEFINE rest == Tail(Unread)
<1>4. /\ rest \in Seq(Nat) /\ Len(rest) = Len(Unread) - 1
      /\ \A k \in 1 .. Len(rest) : rest[k] = Unread[k + 1]
  BY <1>3, HeadTailProperties
<1> HIDE DEF rest
<1>5. Len(Unread') = Len(rest) /\ Len(rest) = enqueued - dequeued - 1
  BY <1>1, <1>2, <1>4 DEF UnreadRequests
<1>6. \A k \in 1 .. Len(Unread') : Unread'[k] = rest[k]
  BY <1>1, <1>2, <1>4, <1>5 DEF UnreadRequests
<1>7. Unread' = rest
  BY <1>3, <1>4, <1>5, <1>6, SeqEqual
<1> QED
  BY <1>1, <1>3, <1>7 DEF Fifo!Take, rest

\* No other step changes what is between the head and the tail.
LEMMA UnreadStays ==
    ASSUME UnreadRequests, UnreadRequests', UNCHANGED <<enqueued, dequeued>>
    PROVE  UNCHANGED <<Unread, enqueued>>
<1>1. \A k \in 1 .. Len(Unread') : Unread'[k] = Unread[k]
  BY DEF UnreadRequests
<1> QED
  BY <1>1, SeqEqual DEF UnreadRequests

LEMMA StepsRefine ==
    ASSUME ~splitWrap, ~undercounted, FInv, [Next]_vars,
           UnreadRequests, FInv' => UnreadRequests'
    PROVE  [Fifo!Next]_<<Unread, enqueued>>
<1>1. CASE \E t \in Threads : StoreSize(t)
  BY <1>1 DEF StoreSize, ringVars, Unread
<1>2. CASE ~\E t \in Threads : StoreSize(t)
  <2>1. undercounted' = undercounted
    BY <1>2 DEF Next, Running, Pushing, Popping, Call, SpuriousWakeup, Lock, Check,
       Sleep, Count, Signal, Unlock, CopyIn, CopyInDone, Store, AdvanceTail,
       WrapTail, AdvanceHead, CopyOut, CopyOutDone, sizeVars, vars
  <2>2. UnreadRequests /\ UnreadRequests'
    BY <2>1, FInductiveStep
  <2>3. CASE \E p \in Pushers : AdvanceTail(p)
    BY <2>2, <2>3, TailAppends DEF Fifo!Next
  <2>4. CASE \E w \in Poppers : AdvanceHead(w)
    BY <2>2, <2>4, HeadTakes DEF Fifo!Next
  <2>5. CASE \/ UNCHANGED vars
             \/ Quiet
             \/ \E t \in Threads : Check(t) \/ Count(t)
             \/ \E p \in Pushers : WrapTail(p)
    <3>1. UNCHANGED <<enqueued, dequeued>>
      BY <2>5 DEF vars, Quiet, Call, SpuriousWakeup, Lock, Sleep, Signal, Unlock,
         CopyIn, CopyInDone, Store, CopyOut, CopyOutDone, Check, Count, WrapTail,
         ringVars
    <3> QED
      BY <2>2, <3>1, UnreadStays
  <2> QED
    BY <1>2, <2>3, <2>4, <2>5 DEF Next, Quiet, Running, Pushing, Popping
<1> QED
  BY <1>1, <1>2

LEMMA InitRefines == Init => Fifo!Init
<1> SUFFICES ASSUME Init PROVE Fifo!Init
  OBVIOUS
<1>1. UnreadRequests /\ enqueued = 0 /\ dequeued = 0
  BY InitFInv, UnreadIsIntact DEF Init
<1>2. Unread = <<>>
  BY <1>1, EmptySeq DEF UnreadRequests
<1> QED
  BY <1>1, <1>2 DEF Fifo!Init

\* What holds as long as the ring is sure to be counted.
Sure == splitWrap \/ undercounted \/ FInv

LEMMA SureSteps ==
    ASSUME Sure, [Next]_vars, FInv => UnreadRequests, FInv' => UnreadRequests'
    PROVE  [~splitWrap /\ ~undercounted => Fifo!Next]_<<Unread, enqueued>>
<1>1. CASE splitWrap \/ undercounted
  BY <1>1
<1>2. CASE ~splitWrap /\ ~undercounted
  <2>1. FInv /\ UnreadRequests
    BY <1>2 DEF Sure
  <2>2. [Fifo!Next]_<<Unread, enqueued>>
    BY <1>2, <2>1, StepsRefine
  <2> QED
    BY <2>2
<1> QED
  BY <1>1, <1>2

\* pcq_enqueue and pcq_dequeue, whose callers share no lock and count the elements
\* under different ones, implement a bounded first-in first-out queue for any
\* number of threads on either side and any capacity, in the optimised build and
\* until some pcq_dequeue overwrites the count of an enqueue: no request is
\* overwritten unread, skipped or taken twice.
THEOREM RingImplementsFifo == Spec => FifoSpec
<1>1. Sure /\ [Next]_vars => Sure'
  BY FInductiveStep, BuildStays, UndercountStays DEF Sure
<1>2. Sure /\ (FInv => UnreadRequests) /\ (FInv => UnreadRequests)' /\ [Next]_vars
          => [~splitWrap /\ ~undercounted => Fifo!Next]_<<Unread, enqueued>>
  BY SureSteps
<1>3. Init => Sure
  BY InitFInv DEF Sure
<1> QED
  BY <1>1, <1>2, <1>3, InitRefines, UnreadIsIntact, PTL DEF Spec, FifoSpec
=============================================================================
