------------------------- MODULE QueueWaitersProofs -------------------------
(***************************************************************************)
(* No thread that waits in push() or pop() is forgotten, for any number of  *)
(* producers and consumers.  The inductive invariant counts: notify_one     *)
(* loses nobody as long as there are as many threads awake or about to be   *)
(* woken as there are free slots (for the producers) and frames (for the    *)
(* consumers).                                                              *)
(***************************************************************************)
EXTENDS MediaQueuesProofs, FiniteSetTheorems

(* The threads of a set that are in some of their states.                            *)
Count(T, f, L) == Cardinality({t \in T : f[t] \in L})

(* A thread that moves leaves or joins the threads counted.                           *)
LEMMA Counted ==
    ASSUME NEW T, IsFiniteSet(T), NEW f, NEW g, NEW L, NEW x \in T,
           \A t \in T : t # x => g[t] = f[t]
    PROVE  /\ Count(T, f, L) \in Nat /\ Count(T, g, L) \in Nat
           /\ g[x] \in L /\ f[x] \notin L => Count(T, g, L) = Count(T, f, L) + 1
           /\ g[x] \notin L /\ f[x] \in L => Count(T, g, L) = Count(T, f, L) - 1
           /\ (g[x] \in L <=> f[x] \in L) => Count(T, g, L) = Count(T, f, L)
<1>1. PICK A, B : /\ A = {t \in T : f[t] \in L}
                  /\ B = {t \in T : g[t] \in L}
  BY Zenon
<1>2. IsFiniteSet(A) /\ IsFiniteSet(B)
  <2>1. A \subseteq T /\ B \subseteq T
    BY <1>1
  <2>2. QED
    BY <2>1, FS_Subset
<1>3. Cardinality(A) \in Nat /\ Cardinality(B) \in Nat
  BY <1>2, FS_CardinalityType
<1>4. B = IF g[x] \in L THEN A \cup {x} ELSE A \ {x}
  BY <1>1
<1>5. x \in A <=> f[x] \in L
  BY <1>1
<1>6. ASSUME g[x] \in L, f[x] \notin L PROVE Cardinality(B) = Cardinality(A) + 1
  BY <1>2, <1>4, <1>5, <1>6, FS_AddElement
<1>7. ASSUME g[x] \notin L, f[x] \in L PROVE Cardinality(B) = Cardinality(A) - 1
  BY <1>2, <1>4, <1>5, <1>7, FS_RemoveElement
<1>8. ASSUME g[x] \in L <=> f[x] \in L PROVE B = A
  BY <1>4, <1>5, <1>8
<1>9. QED
  BY <1>1, <1>3, <1>6, <1>7, <1>8, Zenon DEF Count

Lookers == Count(Producers, prod, {"check", "try"})
Given == Count(Producers, prod, {"signal"})
Poppers == Count(Consumers, cons, {"check", "try", "flagA", "flagC"})
Freed == Count(Consumers, cons, {"signal"})

PushersAsleep == \E p \in Producers : prod[p] = "asleep"
PoppersAsleep == \E c \in Consumers : cons[c] = "asleep"

(* There are as many producers awake, or about to be woken, as there are free        *)
(* slots, and as many consumers as frames; after the end nobody sleeps.              *)
Served ==
    /\ aborted => closed
    /\ closed => ~PushersAsleep /\ ~PoppersAsleep
    /\ PushersAsleep => Capacity - Size(store) <= Lookers + Freed
    /\ PoppersAsleep => announce \/ Size(store) <= Poppers + Given

(* The counts are numbers.                                                           *)
LEMMA CountsNat ==
    /\ Lookers \in Nat /\ Given \in Nat /\ Poppers \in Nat /\ Freed \in Nat
    /\ Lookers' \in Nat /\ Given' \in Nat /\ Poppers' \in Nat /\ Freed' \in Nat
<1>1. ASSUME NEW T, IsFiniteSet(T), NEW f, NEW L PROVE Count(T, f, L) \in Nat
  <2>1. {t \in T : f[t] \in L} \subseteq T
    OBVIOUS
  <2>2. QED
    BY <1>1, <2>1, FS_Subset, FS_CardinalityType DEF Count
<1>2. Lookers \in Nat /\ Given \in Nat /\ Poppers \in Nat /\ Freed \in Nat
  BY <1>1, ThreadsAssumption DEF Lookers, Given, Poppers, Freed
<1>3. Lookers' = Count(Producers, prod', {"check", "try"}) /\ Given' = Count(Producers, prod', {"signal"})
  BY DEF Lookers, Given, Count
<1>4. /\ Poppers' = Count(Consumers, cons', {"check", "try", "flagA", "flagC"})
      /\ Freed' = Count(Consumers, cons', {"signal"})
  BY DEF Poppers, Freed, Count
<1>5. Lookers' \in Nat /\ Given' \in Nat /\ Poppers' \in Nat /\ Freed' \in Nat
  BY <1>1, <1>3, <1>4, ThreadsAssumption
<1>6. QED
  BY <1>2, <1>5

(* A full queue asks for no producer.                                                *)
LEMMA NothingFree ==
    ASSUME NEW n \in Nat \ {0}, NEW a \in Nat, NEW b \in Nat
    PROVE  n - n <= a + b
  OBVIOUS

(* One producer moves.                                                               *)
LEMMA ProducerMoves ==
    ASSUME TypeInv, NEW p \in Producers, NEW st, prod'[p] = st,
           \A q \in Producers : q # p => prod'[q] = prod[q]
    PROVE  /\ Lookers' = Lookers + (IF st \in {"check", "try"} THEN 1 ELSE 0)
                                 - (IF prod[p] \in {"check", "try"} THEN 1 ELSE 0)
           /\ Given' = Given + (IF st = "signal" THEN 1 ELSE 0)
                             - (IF prod[p] = "signal" THEN 1 ELSE 0)
           /\ Lookers' \in Nat /\ Given' \in Nat
           /\ PushersAsleep' => PushersAsleep \/ st = "asleep"
<1>1. IsFiniteSet(Producers) /\ prod \in [Producers -> ProducerState]
  BY ThreadsAssumption DEF TypeInv, Pushing
<1>3. Lookers \in Nat /\ Given \in Nat /\ Lookers' \in Nat /\ Given' \in Nat
  BY CountsNat
<1>5. Lookers' = Lookers + (IF st \in {"check", "try"} THEN 1 ELSE 0)
                         - (IF prod[p] \in {"check", "try"} THEN 1 ELSE 0)
  <2>1. PICK L : L = {"check", "try"}
    BY Zenon
  <2>2. /\ st \in L /\ prod[p] \notin L => Lookers' = Lookers + 1
        /\ st \notin L /\ prod[p] \in L => Lookers' = Lookers - 1
        /\ (st \in L <=> prod[p] \in L) => Lookers' = Lookers
    <3>1. PICK f, g : f = prod /\ g = prod'
      BY Zenon
    <3>2. /\ Lookers = Count(Producers, f, L) /\ Lookers' = Count(Producers, g, L)
          /\ prod[p] = f[p] /\ st = g[p]
      BY <2>1, <3>1 DEF Lookers, Count
    <3>3. IsFiniteSet(Producers) /\ \A t \in Producers : t # p => g[t] = f[t]
      BY <1>1, <3>1, Zenon
    <3>4. /\ g[p] \in L /\ f[p] \notin L => Count(Producers, g, L) = Count(Producers, f, L) + 1
          /\ g[p] \notin L /\ f[p] \in L => Count(Producers, g, L) = Count(Producers, f, L) - 1
          /\ (g[p] \in L <=> f[p] \in L) => Count(Producers, g, L) = Count(Producers, f, L)
      BY <3>3, Counted
    <3>5. QED
      BY <3>2, <3>4, Zenon
  <2>3. QED
    BY <1>3, <2>1, <2>2
<1>6. Given' = Given + (IF st = "signal" THEN 1 ELSE 0)
                     - (IF prod[p] = "signal" THEN 1 ELSE 0)
  <2>1. PICK L : L = {"signal"}
    BY Zenon
  <2>2. /\ st \in L /\ prod[p] \notin L => Given' = Given + 1
        /\ st \notin L /\ prod[p] \in L => Given' = Given - 1
        /\ (st \in L <=> prod[p] \in L) => Given' = Given
    <3>1. PICK f, g : f = prod /\ g = prod'
      BY Zenon
    <3>2. /\ Given = Count(Producers, f, L) /\ Given' = Count(Producers, g, L)
          /\ prod[p] = f[p] /\ st = g[p]
      BY <2>1, <3>1 DEF Given, Count
    <3>3. IsFiniteSet(Producers) /\ \A t \in Producers : t # p => g[t] = f[t]
      BY <1>1, <3>1, Zenon
    <3>4. /\ g[p] \in L /\ f[p] \notin L => Count(Producers, g, L) = Count(Producers, f, L) + 1
          /\ g[p] \notin L /\ f[p] \in L => Count(Producers, g, L) = Count(Producers, f, L) - 1
          /\ (g[p] \in L <=> f[p] \in L) => Count(Producers, g, L) = Count(Producers, f, L)
      BY <3>3, Counted
    <3>5. QED
      BY <3>2, <3>4, Zenon
  <2>3. QED
    BY <1>3, <2>1, <2>2
<1>7. PushersAsleep' => PushersAsleep \/ st = "asleep"
  BY <1>1 DEF PushersAsleep
<1>8. QED
  BY <1>3, <1>5, <1>6, <1>7

(* One consumer moves.                                                               *)
LEMMA ConsumerMoves ==
    ASSUME TypeInv, NEW c \in Consumers, NEW st, cons'[c] = st,
           \A d \in Consumers : d # c => cons'[d] = cons[d]
    PROVE  /\ Poppers' = Poppers + (IF st \in {"check", "try", "flagA", "flagC"} THEN 1 ELSE 0)
                          - (IF cons[c] \in {"check", "try", "flagA", "flagC"} THEN 1 ELSE 0)
           /\ Freed' = Freed + (IF st = "signal" THEN 1 ELSE 0)
                             - (IF cons[c] = "signal" THEN 1 ELSE 0)
           /\ Poppers' \in Nat /\ Freed' \in Nat
           /\ PoppersAsleep' => PoppersAsleep \/ st = "asleep"
<1>1. IsFiniteSet(Consumers) /\ cons \in [Consumers -> ConsumerState]
  BY ThreadsAssumption DEF TypeInv
<1>3. Poppers \in Nat /\ Freed \in Nat /\ Poppers' \in Nat /\ Freed' \in Nat
  BY CountsNat
<1>5. Poppers' = Poppers + (IF st \in {"check", "try", "flagA", "flagC"} THEN 1 ELSE 0)
                         - (IF cons[c] \in {"check", "try", "flagA", "flagC"} THEN 1 ELSE 0)
  <2>1. PICK L : L = {"check", "try", "flagA", "flagC"}
    BY Zenon
  <2>2. /\ st \in L /\ cons[c] \notin L => Poppers' = Poppers + 1
        /\ st \notin L /\ cons[c] \in L => Poppers' = Poppers - 1
        /\ (st \in L <=> cons[c] \in L) => Poppers' = Poppers
    <3>1. PICK f, g : f = cons /\ g = cons'
      BY Zenon
    <3>2. /\ Poppers = Count(Consumers, f, L) /\ Poppers' = Count(Consumers, g, L)
          /\ cons[c] = f[c] /\ st = g[c]
      BY <2>1, <3>1 DEF Poppers, Count
    <3>3. IsFiniteSet(Consumers) /\ \A t \in Consumers : t # c => g[t] = f[t]
      BY <1>1, <3>1, Zenon
    <3>4. /\ g[c] \in L /\ f[c] \notin L => Count(Consumers, g, L) = Count(Consumers, f, L) + 1
          /\ g[c] \notin L /\ f[c] \in L => Count(Consumers, g, L) = Count(Consumers, f, L) - 1
          /\ (g[c] \in L <=> f[c] \in L) => Count(Consumers, g, L) = Count(Consumers, f, L)
      BY <3>3, Counted
    <3>5. QED
      BY <3>2, <3>4, Zenon
  <2>3. QED
    BY <1>3, <2>1, <2>2
<1>6. Freed' = Freed + (IF st = "signal" THEN 1 ELSE 0)
                     - (IF cons[c] = "signal" THEN 1 ELSE 0)
  <2>1. PICK L : L = {"signal"}
    BY Zenon
  <2>2. /\ st \in L /\ cons[c] \notin L => Freed' = Freed + 1
        /\ st \notin L /\ cons[c] \in L => Freed' = Freed - 1
        /\ (st \in L <=> cons[c] \in L) => Freed' = Freed
    <3>1. PICK f, g : f = cons /\ g = cons'
      BY Zenon
    <3>2. /\ Freed = Count(Consumers, f, L) /\ Freed' = Count(Consumers, g, L)
          /\ cons[c] = f[c] /\ st = g[c]
      BY <2>1, <3>1 DEF Freed, Count
    <3>3. IsFiniteSet(Consumers) /\ \A t \in Consumers : t # c => g[t] = f[t]
      BY <1>1, <3>1, Zenon
    <3>4. /\ g[c] \in L /\ f[c] \notin L => Count(Consumers, g, L) = Count(Consumers, f, L) + 1
          /\ g[c] \notin L /\ f[c] \in L => Count(Consumers, g, L) = Count(Consumers, f, L) - 1
          /\ (g[c] \in L <=> f[c] \in L) => Count(Consumers, g, L) = Count(Consumers, f, L)
      BY <3>3, Counted
    <3>5. QED
      BY <3>2, <3>4, Zenon
  <2>3. QED
    BY <1>3, <2>1, <2>2
<1>7. PoppersAsleep' => PoppersAsleep \/ st = "asleep"
  BY <1>1 DEF PoppersAsleep
<1>8. QED
  BY <1>3, <1>5, <1>6, <1>7, Zenon

(* Nobody of a kind moves.                                                           *)
LEMMA ThreadsStay ==
    /\ prod' = prod => /\ Lookers' = Lookers /\ Given' = Given
                       /\ PushersAsleep' <=> PushersAsleep
    /\ cons' = cons => /\ Poppers' = Poppers /\ Freed' = Freed
                       /\ PoppersAsleep' <=> PoppersAsleep
  BY Zenon DEF Lookers, Given, Poppers, Freed, PushersAsleep, PoppersAsleep, Count

(* notify_one on m_notFull: either nobody sleeps, or one more producer looks.          *)
LEMMA OneProducerWoken ==
    ASSUME TypeInv, prod' \in WakeOneProducer(prod)
    PROVE  /\ Given' = Given
           /\ ~PushersAsleep' \/ (PushersAsleep /\ Lookers' = Lookers + 1)
<1>1. prod \in [Producers -> ProducerState] /\ Lookers \in Nat /\ Given \in Nat
  BY CountsNat DEF TypeInv, Pushing
<1>2. CASE prod' = prod /\ ~PushersAsleep
  BY <1>2, ThreadsStay
<1>3. CASE PushersAsleep
  <2>1. PICK p \in Producers : prod[p] = "asleep" /\ prod' = [prod EXCEPT ![p] = "check"]
    BY <1>3 DEF WakeOneProducer, PushersAsleep
  <2>2. prod'[p] = "check" /\ \A q \in Producers : q # p => prod'[q] = prod[q]
    BY <1>1, <2>1
  <2>3. Lookers' = Lookers + 1 - 0 /\ Given' = Given + 0 - 0
    BY <2>1, <2>2, ProducerMoves
  <2>4. QED
    BY <1>1, <1>3, <2>3
<1>4. QED
  BY <1>2, <1>3 DEF WakeOneProducer, PushersAsleep

(* notify_one on m_notEmpty: either nobody sleeps, or one more consumer looks.          *)
LEMMA OneConsumerWoken ==
    ASSUME TypeInv, cons' \in WakeOneConsumer(cons)
    PROVE  /\ Freed' = Freed
           /\ ~PoppersAsleep' \/ (PoppersAsleep /\ Poppers' = Poppers + 1)
<1>1. cons \in [Consumers -> ConsumerState] /\ Poppers \in Nat /\ Freed \in Nat
  BY CountsNat DEF TypeInv
<1>2. CASE cons' = cons /\ ~PoppersAsleep
  BY <1>2, ThreadsStay
<1>3. CASE PoppersAsleep
  <2>1. PICK c \in Consumers : cons[c] = "asleep" /\ cons' = [cons EXCEPT ![c] = "check"]
    BY <1>3 DEF WakeOneConsumer, PoppersAsleep
  <2>2. cons'[c] = "check" /\ \A d \in Consumers : d # c => cons'[d] = cons[d]
    BY <1>1, <2>1
  <2>3. Poppers' = Poppers + 1 - 0 /\ Freed' = Freed + 0 - 0
    BY <2>1, <2>2, ConsumerMoves
  <2>4. QED
    BY <1>1, <1>3, <2>3
<1>4. QED
  BY <1>2, <1>3 DEF WakeOneConsumer, PoppersAsleep

(* notify_all: nobody sleeps.                                                        *)
LEMMA AllWoken ==
    ASSUME TypeInv
    PROVE  /\ prod' = WakeProducers(prod) => ~PushersAsleep'
           /\ cons' = WakeConsumers(cons) => ~PoppersAsleep' /\ Freed' = Freed
<1>1. prod' = WakeProducers(prod) => ~PushersAsleep'
  BY DEF WakeProducers, PushersAsleep
<1>2. ASSUME cons' = WakeConsumers(cons) PROVE ~PoppersAsleep' /\ Freed' = Freed
  <2>1. \A c \in Consumers : cons'[c] = IF cons[c] = "asleep" THEN "check" ELSE cons[c]
    BY <1>2 DEF WakeConsumers
  <2>2. {c \in Consumers : cons'[c] \in {"signal"}} = {c \in Consumers : cons[c] \in {"signal"}}
    BY <2>1
  <2>3. Freed' = Freed
    BY <2>2 DEF Freed, Count
  <2>4. QED
    BY <2>1, <2>3 DEF PoppersAsleep
<1>3. QED
  BY <1>1, <1>2

(* What a step has to keep: the four parts, with the sizes it starts from.            *)
LEMMA ServedFrom ==
    ASSUME TypeInv, Served
    PROVE  /\ Size(store) \in 0 .. Capacity
           /\ Full(store) <=> Size(store) = Capacity
           /\ Empty(store) <=> Size(store) = 0
           /\ aborted => closed
           /\ closed => ~PushersAsleep /\ ~PoppersAsleep
           /\ PushersAsleep => Capacity - Size(store) <= Lookers + Freed
           /\ PoppersAsleep => announce \/ Size(store) <= Poppers + Given
  BY SetupChosen, Sizes DEF TypeInv, Served

(* A frame is stored: a free slot less, and the producer that looked is gone; a frame  *)
(* more, and a consumer woken, or a producer about to wake one.                        *)
LEMMA StoreServed ==
    ASSUME TypeInv, Served, NEW p \in Producers, NEW f \in Frames, NEW u \in BOOLEAN,
           prod[p] \in {"idle", "try", "check"}, u => prod[p] # "idle", Store(p, f, u)
    PROVE  Served'
<1>1. /\ Size(store)' = IF Full(store) THEN Size(store) ELSE Size(store) + 1
      /\ UNCHANGED <<setup, closed, aborted, announce>>
  BY StoredFrame, Zenon DEF Store
<1>2. PICK st \in {"signal", "idle"} : /\ prod'[p] = st /\ (st = "signal" <=> u)
                                       /\ \A q \in Producers : q # p => prod'[q] = prod[q]
  BY DEF Store, TypeInv, Pushing
<1>3. /\ Lookers' = Lookers - (IF prod[p] = "idle" THEN 0 ELSE 1)
      /\ Given' = Given + (IF u THEN 1 ELSE 0)
      /\ PushersAsleep' => PushersAsleep
  <2>1. /\ Lookers' = Lookers + (IF st \in {"check", "try"} THEN 1 ELSE 0)
                              - (IF prod[p] \in {"check", "try"} THEN 1 ELSE 0)
        /\ Given' = Given + (IF st = "signal" THEN 1 ELSE 0)
                          - (IF prod[p] = "signal" THEN 1 ELSE 0)
        /\ PushersAsleep' => PushersAsleep \/ st = "asleep"
    BY <1>2, ProducerMoves, Zenon
  <2>2. QED
    BY <1>2, <2>1, CountsNat
<1>4. /\ Freed' = Freed
      /\ u => Poppers' = Poppers /\ (PoppersAsleep' => PoppersAsleep)
      /\ ~u => ~PoppersAsleep' \/ (PoppersAsleep /\ Poppers' = Poppers + 1)
  <2>1. CASE u
    BY <2>1, ThreadsStay DEF Store
  <2>2. CASE ~u
    BY <2>2, OneConsumerWoken DEF Store
  <2>3. QED
    BY <2>1, <2>2
<1>5. /\ Size(store) \in 0 .. Capacity /\ (Full(store) <=> Size(store) = Capacity)
      /\ aborted => closed
      /\ closed => ~PushersAsleep /\ ~PoppersAsleep
      /\ PushersAsleep => Capacity - Size(store) <= Lookers + Freed
      /\ PoppersAsleep => announce \/ Size(store) <= Poppers + Given
  BY ServedFrom
<1>6. ASSUME PushersAsleep' PROVE Capacity - Size(store)' <= Lookers' + Freed'
  <2>1. CASE Full(store)
    <3>1. Size(store)' = Capacity
      BY <1>1, <1>5, <2>1
    <3>2. Capacity - Capacity <= Lookers' + Freed'
      <4>1. PICK a \in Nat, b \in Nat : a = Lookers' /\ b = Freed'
        BY CountsNat
      <4>2. QED
        BY <4>1, QueuesAssumption, NothingFree, Zenon
    <3>3. QED
      BY <3>1, <3>2, Zenon
  <2>2. CASE ~Full(store)
    BY <1>1, <1>3, <1>4, <1>5, <1>6, <2>2, CountsNat, QueuesAssumption
  <2>3. QED
    BY <2>1, <2>2
<1>7. ASSUME PoppersAsleep' PROVE announce' \/ Size(store)' <= Poppers' + Given'
  <2>1. Size(store)' <= Size(store) + 1 /\ Size(store)' \in Nat
    BY <1>1, <1>5
  <2>2. PoppersAsleep /\ Poppers' + Given' = Poppers + Given + 1
    <3>1. CASE u
      BY <1>3, <1>4, <1>7, <3>1, CountsNat
    <3>2. CASE ~u
      BY <1>3, <1>4, <1>7, <3>2, CountsNat
    <3>3. QED
      BY <3>1, <3>2
  <2>3. announce \/ Size(store) <= Poppers + Given
    BY <1>5, <2>2
  <2>4. CASE announce
    BY <1>1, <2>4
  <2>5. CASE Size(store) <= Poppers + Given
    <3>1. Size(store) \in Nat /\ Poppers \in Nat /\ Given \in Nat
      BY <1>5, CountsNat
    <3>2. QED
      BY <2>1, <2>2, <2>5, <3>1
  <2>6. QED
    BY <2>3, <2>4, <2>5
<1>8. (aborted' => closed') /\ (closed' => ~PushersAsleep' /\ ~PoppersAsleep')
  BY <1>1, <1>3, <1>4, <1>5
<1>9. QED
  BY <1>6, <1>7, <1>8 DEF Served

(* A producer inside push() moves on: it goes on looking, or it sleeps or leaves when    *)
(* the queue is full or has ended.                                                      *)
LEMMA PusherServed ==
    ASSUME TypeInv, Served, NEW p \in Producers, NEW st \in {"idle", "try", "check", "asleep", "spins"},
           prod[p] \in {"idle", "try", "check"},
           prod' = [prod EXCEPT ![p] = st],
           UNCHANGED <<setup, store, closed, aborted, cons, announce>>,
           st \in {"idle", "asleep", "spins"} => Full(store) \/ closed,
           st = "asleep" => ~closed
    PROVE  Served'
<1>1. /\ Size(store)' = Size(store) /\ UNCHANGED <<closed, aborted, announce>>
  BY StoreStays
<1>2. prod'[p] = st /\ \A q \in Producers : q # p => prod'[q] = prod[q]
  BY DEF TypeInv, Pushing
<1>3. /\ Lookers' = Lookers + (IF st \in {"check", "try"} THEN 1 ELSE 0)
                            - (IF prod[p] \in {"check", "try"} THEN 1 ELSE 0)
      /\ Given' = Given + (IF st = "signal" THEN 1 ELSE 0)
                        - (IF prod[p] = "signal" THEN 1 ELSE 0)
      /\ PushersAsleep' => PushersAsleep \/ st = "asleep"
  BY <1>2, ProducerMoves
<1>4. Poppers' = Poppers /\ Freed' = Freed /\ (PoppersAsleep' <=> PoppersAsleep)
  BY ThreadsStay
<1>5. /\ Size(store) \in 0 .. Capacity /\ (Full(store) <=> Size(store) = Capacity)
      /\ aborted => closed
      /\ closed => ~PushersAsleep /\ ~PoppersAsleep
      /\ PushersAsleep => Capacity - Size(store) <= Lookers + Freed
      /\ PoppersAsleep => announce \/ Size(store) <= Poppers + Given
  BY ServedFrom
<1>6. Given' = Given
  BY <1>3, CountsNat
<1>7. ASSUME PushersAsleep' PROVE Capacity - Size(store)' <= Lookers' + Freed'
  <2>1. CASE Full(store)
    <3>1. Size(store)' = Capacity
      BY <1>1, <1>5, <2>1
    <3>2. Capacity - Capacity <= Lookers' + Freed'
      <4>1. PICK a \in Nat, b \in Nat : a = Lookers' /\ b = Freed'
        BY CountsNat
      <4>2. QED
        BY <4>1, QueuesAssumption, NothingFree, Zenon
    <3>3. QED
      BY <3>1, <3>2, Zenon
  <2>2. CASE ~Full(store)
    <3>1. st \in {"try", "check"} /\ PushersAsleep
      BY <1>3, <1>5, <1>7, <2>2
    <3>2. Lookers' >= Lookers
      BY <1>3, <3>1, CountsNat
    <3>3. QED
      BY <1>1, <1>4, <1>5, <3>1, <3>2, CountsNat, QueuesAssumption
  <2>3. QED
    BY <2>1, <2>2
<1>8. (aborted' => closed') /\ (closed' => ~PushersAsleep' /\ ~PoppersAsleep')
  BY <1>1, <1>3, <1>4, <1>5
<1>9. QED
  BY <1>1, <1>4, <1>5, <1>6, <1>7, <1>8 DEF Served

(* A frame is taken: a free slot more, and a producer woken, or a consumer about to     *)
(* wake one; a frame less, and the consumer that looked is gone.                        *)
LEMMA TakeServed ==
    ASSUME TypeInv, Served, NEW c \in Consumers, NEW u \in BOOLEAN, ~Empty(store),
           cons[c] \in {"idle", "try", "check"}, Take(c, u)
    PROVE  Served'
<1>1. Size(store)' = Size(store) - 1 /\ UNCHANGED <<closed, aborted, announce>>
  BY TakenFrame DEF Take
<1>2. PICK st \in {"signal", "idle"} : /\ cons'[c] = st /\ (st = "signal" <=> u)
                                       /\ \A d \in Consumers : d # c => cons'[d] = cons[d]
  BY DEF Take, TypeInv
<1>3. /\ Poppers' = Poppers - (IF cons[c] = "idle" THEN 0 ELSE 1)
      /\ Freed' = Freed + (IF u THEN 1 ELSE 0)
      /\ PoppersAsleep' => PoppersAsleep
  <2>1. /\ Poppers' = Poppers + (IF st \in {"check", "try", "flagA", "flagC"} THEN 1 ELSE 0)
                          - (IF cons[c] \in {"check", "try", "flagA", "flagC"} THEN 1 ELSE 0)
        /\ Freed' = Freed + (IF st = "signal" THEN 1 ELSE 0)
                          - (IF cons[c] = "signal" THEN 1 ELSE 0)
        /\ PoppersAsleep' => PoppersAsleep \/ st = "asleep"
    BY <1>2, ConsumerMoves, Zenon
  <2>2. QED
    BY <1>2, <2>1, CountsNat
<1>4. /\ Given' = Given
      /\ u => Lookers' = Lookers /\ (PushersAsleep' => PushersAsleep)
      /\ ~u => ~PushersAsleep' \/ (PushersAsleep /\ Lookers' = Lookers + 1)
  <2>1. CASE u
    BY <2>1, ThreadsStay DEF Take
  <2>2. CASE ~u
    BY <2>2, OneProducerWoken DEF Take
  <2>3. QED
    BY <2>1, <2>2
<1>5. /\ Size(store) \in 0 .. Capacity
      /\ aborted => closed
      /\ closed => ~PushersAsleep /\ ~PoppersAsleep
      /\ PushersAsleep => Capacity - Size(store) <= Lookers + Freed
      /\ PoppersAsleep => announce \/ Size(store) <= Poppers + Given
  BY ServedFrom
<1>6. ASSUME PushersAsleep' PROVE Capacity - Size(store)' <= Lookers' + Freed'
  <2>1. PushersAsleep /\ Lookers' + Freed' = Lookers + Freed + 1
    <3>1. CASE u
      BY <1>3, <1>4, <1>6, <3>1, CountsNat
    <3>2. CASE ~u
      BY <1>3, <1>4, <1>6, <3>2, CountsNat
    <3>3. QED
      BY <3>1, <3>2
  <2>2. Capacity - Size(store) <= Lookers + Freed
    BY <1>5, <2>1
  <2>3. Size(store) \in Nat /\ Lookers \in Nat /\ Freed \in Nat
    BY <1>5, CountsNat
  <2>4. QED
    BY <1>1, <2>1, <2>2, <2>3, QueuesAssumption
<1>7. ASSUME PoppersAsleep' PROVE announce' \/ Size(store)' <= Poppers' + Given'
  <2>1. Poppers' >= Poppers - 1
    BY <1>3, CountsNat
  <2>2. QED
    BY <1>1, <1>3, <1>4, <1>5, <1>7, <2>1, CountsNat
<1>8. (aborted' => closed') /\ (closed' => ~PushersAsleep' /\ ~PoppersAsleep')
  BY <1>1, <1>3, <1>4, <1>5
<1>9. QED
  BY <1>6, <1>7, <1>8 DEF Served

(* A consumer inside pop() moves on: it goes on looking, or it sleeps or leaves when    *)
(* the queue is empty or has ended.                                                     *)
LEMMA PopperServed ==
    ASSUME TypeInv, Served, NEW c \in Consumers, NEW st,
           st \in {"try", "check", "flagA", "flagC", "asleep", "closedOut", "abortedOut"},
           cons[c] \in {"idle", "try", "check", "flagA", "flagC"},
           ConsumerGoes(c, st),
           st \in {"asleep", "closedOut", "abortedOut"} => Empty(store) \/ closed,
           st = "asleep" => ~closed
    PROVE  Served'
<1>1. /\ Size(store)' = Size(store) /\ UNCHANGED <<closed, aborted, announce, prod>>
      /\ cons' = [cons EXCEPT ![c] = st]
  BY StoreStays DEF ConsumerGoes
<1>2. cons'[c] = st /\ \A d \in Consumers : d # c => cons'[d] = cons[d]
  BY <1>1 DEF TypeInv
<1>3. /\ Poppers' = Poppers + (IF st \in {"check", "try", "flagA", "flagC"} THEN 1 ELSE 0)
                          - (IF cons[c] \in {"check", "try", "flagA", "flagC"} THEN 1 ELSE 0)
      /\ Freed' = Freed + (IF st = "signal" THEN 1 ELSE 0)
                        - (IF cons[c] = "signal" THEN 1 ELSE 0)
      /\ PoppersAsleep' => PoppersAsleep \/ st = "asleep"
  BY <1>2, ConsumerMoves, Zenon
<1>4. Lookers' = Lookers /\ Given' = Given /\ (PushersAsleep' <=> PushersAsleep)
  BY <1>1, ThreadsStay
<1>5. /\ Size(store) \in 0 .. Capacity /\ (Empty(store) <=> Size(store) = 0)
      /\ aborted => closed
      /\ closed => ~PushersAsleep /\ ~PoppersAsleep
      /\ PushersAsleep => Capacity - Size(store) <= Lookers + Freed
      /\ PoppersAsleep => announce \/ Size(store) <= Poppers + Given
  BY ServedFrom
<1>6. Freed' = Freed
  BY <1>3, CountsNat
<1>7. ASSUME PoppersAsleep' PROVE announce' \/ Size(store)' <= Poppers' + Given'
  <2>1. CASE Empty(store)
    <3>1. Size(store)' = 0
      BY <1>1, <1>5, <2>1
    <3>2. PICK a \in Nat, b \in Nat : a = Poppers' /\ b = Given'
      BY CountsNat
    <3>3. 0 <= a + b
      OBVIOUS
    <3>4. QED
      BY <3>1, <3>2, <3>3, Zenon
  <2>2. CASE ~Empty(store)
    <3>1. st \in {"check", "try", "flagA", "flagC"} /\ PoppersAsleep
      BY <1>3, <1>5, <1>7, <2>2
    <3>2. Poppers' >= Poppers
      BY <1>3, <3>1, CountsNat
    <3>3. announce \/ Size(store) <= Poppers + Given
      BY <1>5, <3>1
    <3>4. QED
      BY <1>1, <1>4, <1>5, <3>2, <3>3, CountsNat
  <2>3. QED
    BY <2>1, <2>2
<1>8. (aborted' => closed') /\ (closed' => ~PushersAsleep' /\ ~PoppersAsleep')
  BY <1>1, <1>3, <1>4, <1>5
<1>9. QED
  BY <1>1, <1>4, <1>5, <1>6, <1>7, <1>8, Zenon DEF Served

(* A notification after unlocking.                                                     *)
LEMMA SignalServed ==
    ASSUME TypeInv, Served,
           (\E p \in Producers : SignalPushed(p)) \/ (\E c \in Consumers : SignalPopped(c))
    PROVE  Served'
<1>1. /\ Size(store) \in 0 .. Capacity
      /\ aborted => closed
      /\ closed => ~PushersAsleep /\ ~PoppersAsleep
      /\ PushersAsleep => Capacity - Size(store) <= Lookers + Freed
      /\ PoppersAsleep => announce \/ Size(store) <= Poppers + Given
  BY ServedFrom
<1>2. /\ Size(store)' = Size(store) /\ UNCHANGED <<closed, aborted, announce>>
  BY StoreStays DEF SignalPushed, SignalPopped
<1>3. CASE \E p \in Producers : SignalPushed(p)
  <2>1. PICK p \in Producers : /\ prod[p] = "signal" /\ prod' = [prod EXCEPT ![p] = "idle"]
                               /\ cons' \in WakeOneConsumer(cons)
    BY <1>3, Zenon DEF SignalPushed
  <2>2. prod'[p] = "idle" /\ \A q \in Producers : q # p => prod'[q] = prod[q]
    BY <2>1 DEF TypeInv, Pushing
  <2>3. Lookers' = Lookers + 0 - 0 /\ Given' = Given + 0 - 1 /\ (PushersAsleep' => PushersAsleep)
    BY <2>1, <2>2, ProducerMoves
  <2>4. Freed' = Freed /\ (~PoppersAsleep' \/ (PoppersAsleep /\ Poppers' = Poppers + 1))
    BY <2>1, OneConsumerWoken
  <2>5. Lookers' + Freed' = Lookers + Freed
    BY <2>3, <2>4, CountsNat
  <2>6. PoppersAsleep' => PoppersAsleep /\ Poppers' + Given' = Poppers + Given
    BY <2>3, <2>4, CountsNat
  <2>7. QED
    BY <1>1, <1>2, <2>3, <2>4, <2>5, <2>6 DEF Served
<1>4. CASE \E c \in Consumers : SignalPopped(c)
  <2>1. PICK c \in Consumers : /\ cons[c] = "signal" /\ cons' = [cons EXCEPT ![c] = "idle"]
                               /\ prod' \in WakeOneProducer(prod)
    BY <1>4, Zenon DEF SignalPopped
  <2>2. cons'[c] = "idle" /\ \A d \in Consumers : d # c => cons'[d] = cons[d]
    BY <2>1 DEF TypeInv
  <2>3. Poppers' = Poppers + 0 - 0 /\ Freed' = Freed + 0 - 1 /\ (PoppersAsleep' => PoppersAsleep)
    BY <2>1, <2>2, ConsumerMoves
  <2>4. Given' = Given /\ (~PushersAsleep' \/ (PushersAsleep /\ Lookers' = Lookers + 1))
    BY <2>1, OneProducerWoken
  <2>5. Poppers' + Given' = Poppers + Given
    BY <2>3, <2>4, CountsNat
  <2>6. PushersAsleep' => PushersAsleep /\ Lookers' + Freed' = Lookers + Freed
    BY <2>3, <2>4, CountsNat
  <2>7. QED
    BY <1>1, <1>2, <2>3, <2>4, <2>5, <2>6 DEF Served
<1>5. QED
  BY <1>3, <1>4

(* notify_all, and what goes with it.                                                   *)
LEMMA ControlServed ==
    ASSUME TypeInv, Served,
           NotifyPreparedPublished \/ Close \/ Abort \/ Clear
             \/ (\E p \in Producers : OverflowAbort(p))
    PROVE  Served'
<1>1. /\ Size(store) \in 0 .. Capacity
      /\ aborted => closed
      /\ closed => ~PushersAsleep /\ ~PoppersAsleep
      /\ PushersAsleep => Capacity - Size(store) <= Lookers + Freed
      /\ PoppersAsleep => announce \/ Size(store) <= Poppers + Given
  BY ServedFrom
<1>2. CASE NotifyPreparedPublished
  <2>1. /\ Size(store)' = Size(store) /\ UNCHANGED <<closed, aborted, prod>>
        /\ cons' = WakeConsumers(cons)
    BY <1>2, StoreStays DEF NotifyPreparedPublished
  <2>2. ~PoppersAsleep' /\ Freed' = Freed
    BY <2>1, AllWoken
  <2>3. Lookers' = Lookers /\ (PushersAsleep' <=> PushersAsleep)
    BY <2>1, ThreadsStay
  <2>4. QED
    BY <1>1, <2>1, <2>2, <2>3 DEF Served
<1>3. CASE Close \/ Abort
  <2>1. /\ closed' = TRUE /\ cons' = WakeConsumers(cons) /\ prod' = WakeProducers(prod)
    BY <1>3 DEF Close, Abort
  <2>2. ~PushersAsleep' /\ ~PoppersAsleep'
    BY <2>1, AllWoken
  <2>3. QED
    BY <2>1, <2>2 DEF Served
<1>4. CASE \E p \in Producers : OverflowAbort(p)
  <2>1. /\ closed' = TRUE /\ cons' = WakeConsumers(cons)
        /\ \E p \in Producers : prod' = [WakeProducers(prod) EXCEPT ![p] = "idle"]
    BY <1>4, Zenon DEF OverflowAbort
  <2>2. ~PoppersAsleep'
    BY <2>1, AllWoken
  <2>3. ~PushersAsleep'
    BY <2>1, Zenon DEF WakeProducers, PushersAsleep
  <2>4. QED
    BY <2>1, <2>2, <2>3 DEF Served
<1>5. CASE Clear
  <2>1. /\ store' = Emptied(store) /\ prod' = WakeProducers(prod)
        /\ UNCHANGED <<setup, closed, aborted, cons>>
    BY <1>5 DEF Clear
  <2>2. Size(store') = 0
    BY <2>1, SetupChosen, EmptiedLemma DEF TypeInv
  <2>3. Size(store)' = 0
    BY <2>1, <2>2, Frozen
  <2>4. ~PushersAsleep' /\ (PoppersAsleep' <=> PoppersAsleep)
    BY <2>1, AllWoken, ThreadsStay
  <2>5. 0 <= Poppers' + Given'
    <3>1. PICK a \in Nat, b \in Nat : a = Poppers' /\ b = Given'
      BY CountsNat
    <3>2. 0 <= a + b
      OBVIOUS
    <3>3. QED
      BY <3>1, <3>2, Zenon
  <2>6. QED
    BY <1>1, <2>1, <2>3, <2>4, <2>5 DEF Served
<1>6. QED
  BY <1>2, <1>3, <1>4, <1>5

(* An output transaction announces what it has published.                               *)
LEMMA PublishServed ==
    ASSUME TypeInv, Served, NEW m \in 1 .. Capacity, NEW batch \in [1 .. m -> Frames],
           PublishPrepared(batch)
    PROVE  Served'
<1>1. /\ Size(store) \in 0 .. Capacity
      /\ aborted => closed
      /\ closed => ~PushersAsleep /\ ~PoppersAsleep
      /\ PushersAsleep => Capacity - Size(store) <= Lookers + Freed
  BY ServedFrom
<1>2. Size(store)' = Size(store) + m
  BY PublishStep
<1>3. announce' = TRUE /\ UNCHANGED <<closed, aborted, prod, cons>>
  BY DEF PublishPrepared
<1>4. /\ Lookers' = Lookers /\ Freed' = Freed
      /\ PushersAsleep' <=> PushersAsleep
      /\ PoppersAsleep' <=> PoppersAsleep
  BY <1>3, ThreadsStay
<1>5. PushersAsleep' => Capacity - Size(store)' <= Lookers' + Freed'
  BY <1>1, <1>2, <1>4, CountsNat, QueuesAssumption
<1>6. QED
  BY <1>1, <1>3, <1>4, <1>5 DEF Served

(* The producers keep everybody served.                                                 *)
LEMMA ProduceServed ==
    ASSUME TypeInv, Served, NEW p \in Producers, Produce(p)
    PROVE  Served'
<1>1. prod[p] \in {"try", "check"} => frame[p] \in Frames
  BY DEF TypeInv, Pushing
<1>3. CASE TryPush(p)
  <2>1. prod[p] = "try" /\ frame[p] \in Frames
    BY <1>1, <1>3, Zenon DEF TryPush
  <2>2. CASE Returns(p) /\ (aborted \/ closed \/ Full(store))
    <3>1. aborted => closed
      BY ServedFrom
    <3>2. QED
      BY <2>1, <2>2, <3>1, PusherServed, Zenon DEF Returns
  <2>3. CASE Store(p, frame[p], Kind # "spsc")
    <3>1. (Kind # "spsc") \in BOOLEAN
      OBVIOUS
    <3>2. QED
      BY <2>1, <2>3, <3>1, StoreServed, Zenon
  <2>4. CASE OverflowAbort(p)
    BY <2>4, ControlServed
  <2>5. CASE ~closed /\ Full(store) /\ WaitsAt(p, IF Kind = "spsc" THEN "check" ELSE "asleep")
    BY <2>1, <2>5, PusherServed, Zenon DEF WaitsAt
  <2>6. QED
    BY <1>3, <2>2, <2>3, <2>4, <2>5, Zenon DEF TryPush
<1>4. CASE CheckPush(p)
  <2>1. prod[p] = "check" /\ Full(store) /\ ~closed /\ WaitsAt(p, "asleep")
    BY <1>4 DEF CheckPush, MayPush
  <2>2. QED
    BY <2>1, PusherServed, Zenon DEF WaitsAt
<1>5. CASE RingPushResumes(p)
  <2>1. prod[p] = "check" /\ WaitsAt(p, "try")
    BY <1>5 DEF RingPushResumes
  <2>2. QED
    BY <2>1, PusherServed, Zenon DEF WaitsAt
<1>6. CASE BlockingPushResumes(p)
  <2>1. prod[p] = "check" /\ frame[p] \in Frames
    BY <1>1, <1>6, Zenon DEF BlockingPushResumes
  <2>2. CASE Returns(p) /\ (aborted \/ closed)
    <3>1. aborted => closed
      BY ServedFrom
    <3>2. QED
      BY <2>1, <2>2, <3>1, PusherServed, Zenon DEF Returns
  <2>3. CASE Store(p, frame[p], TRUE)
    BY <2>1, <2>3, StoreServed, Zenon
  <2>4. CASE MakeRoom(frame[p]) = {} /\ WaitsAt(p, "spins")
    <3>1. Full(store)
      BY <2>4 DEF MakeRoom
    <3>2. QED
      BY <2>1, <2>4, <3>1, PusherServed, Zenon DEF WaitsAt
  <2>5. QED
    BY <1>6, <2>2, <2>3, <2>4, Zenon DEF BlockingPushResumes
<1>7. CASE SignalPushed(p)
  BY <1>7, SignalServed
<1>8. QED
  BY <1>3, <1>4, <1>5, <1>6, <1>7 DEF Produce

(* The consumers keep everybody served.                                                 *)
LEMMA ConsumeServed ==
    ASSUME TypeInv, Served, NEW c \in Consumers, Consume(c) \/ BeginPop(c)
    PROVE  Served'
<1> DEFINE Takes == \E u \in BOOLEAN : /\ cons[c] \in {"idle", "try", "check"}
                                       /\ ~Empty(store) /\ Take(c, u)
           Goes == \E st \in {"try", "check", "flagA", "flagC", "asleep", "closedOut",
                              "abortedOut"} :
                     /\ cons[c] \in {"idle", "try", "check", "flagA", "flagC"}
                     /\ ConsumerGoes(c, st)
                     /\ st \in {"asleep", "closedOut", "abortedOut"} => Empty(store) \/ closed
                     /\ st = "asleep" => ~closed
<1>1. CASE Takes
  BY <1>1, TakeServed
<1>2. CASE Goes
  BY <1>2, PopperServed
<1>3. CASE SignalPopped(c)
  BY <1>3, SignalServed
<1>4. aborted => closed
  BY ServedFrom
<1>5. TryPop(c) => Takes
  BY Zenon DEF TryPop
<1>6. BeginPop(c) => Goes
  BY DEF BeginPop
<1>7. RingTryPop(c) => Takes \/ Goes
  BY Zenon DEF RingTryPop
<1>8. RingReadsAborted(c) \/ RingReadsClosed(c) => Goes
  BY <1>4 DEF RingReadsAborted, RingReadsClosed
<1>9. CheckPop(c) \/ RingPopResumes(c) => Goes
  BY DEF CheckPop, RingPopResumes, MayPop
<1>10. BlockingPopResumes(c) => Takes \/ Goes
  BY <1>4, Zenon DEF BlockingPopResumes, MayPop
<1> HIDE DEF Takes, Goes
<1>11. QED
  BY <1>1, <1>2, <1>3, <1>5, <1>6, <1>7, <1>8, <1>9, <1>10 DEF Consume

(* Every step keeps everybody served.                                                   *)
LEMMA ServedStep ==
    ASSUME TypeInv, Served, [Next]_vars
    PROVE  Served'
<1>1. ASSUME NEW p \in Producers, Produce(p) PROVE Served'
  BY <1>1, ProduceServed
<1>2. ASSUME NEW p \in Producers, NEW f \in Frames, PushOutcome(p, f) PROVE Served'
  <2>1. prod[p] = "idle" /\ (Store(p, f, FALSE) \/ OverflowAbort(p))
    BY <1>2, Zenon DEF PushOutcome
  <2>2. CASE Store(p, f, FALSE)
    BY <2>1, <2>2, StoreServed, Zenon
  <2>3. CASE OverflowAbort(p)
    BY <2>3, ControlServed
  <2>4. QED
    BY <2>1, <2>2, <2>3, Zenon
<1>3. ASSUME NEW p \in Producers, NEW f \in Frames, BeginPush(p, f) PROVE Served'
  BY <1>3, PusherServed, Zenon DEF BeginPush
<1>4. ASSUME NEW c \in Consumers, Consume(c) \/ BeginPop(c) PROVE Served'
  BY <1>4, ConsumeServed
<1>5. ASSUME NEW m \in 1 .. Capacity, NEW batch \in [1 .. m -> Frames], PublishPrepared(batch)
      PROVE  Served'
  BY <1>5, PublishServed
<1>6. ASSUME NotifyPreparedPublished \/ Close \/ Abort \/ Clear PROVE Served'
  BY <1>6, ControlServed
<1>7. ASSUME UNCHANGED vars PROVE Served'
  <2>1. UNCHANGED <<setup, store, closed, aborted, prod, cons, announce>>
    BY <1>7 DEF vars
  <2>2. /\ Lookers' = Lookers /\ Given' = Given /\ Poppers' = Poppers /\ Freed' = Freed
        /\ PushersAsleep' <=> PushersAsleep
        /\ PoppersAsleep' <=> PoppersAsleep
    BY <2>1, ThreadsStay
  <2>3. Size(store)' = Size(store)
    BY <2>1, StoreStays
  <2>4. QED
    BY <2>1, <2>2, <2>3 DEF Served
<1>8. QED
  BY <1>1, <1>2, <1>3, <1>4, <1>5, <1>6, <1>7 DEF Next

(* A sleeping thread has somebody to wake it, or to take its place.                       *)
LEMMA ServedNobodyForgotten == ASSUME TypeInv, Served PROVE NobodyForgotten
<1>1. /\ Size(store) \in 0 .. Capacity
      /\ Full(store) <=> Size(store) = Capacity
      /\ Empty(store) <=> Size(store) = 0
      /\ aborted => closed
      /\ closed => ~PushersAsleep /\ ~PoppersAsleep
      /\ PushersAsleep => Capacity - Size(store) <= Lookers + Freed
      /\ PoppersAsleep => announce \/ Size(store) <= Poppers + Given
  BY ServedFrom
<1>2. ASSUME NEW T, NEW f, NEW L, Count(T, f, L) # 0 PROVE \E t \in T : f[t] \in L
  <2>1. SUFFICES ASSUME ~ \E t \in T : f[t] \in L PROVE FALSE
    OBVIOUS
  <2>2. {t \in T : f[t] \in L} = {}
    BY <2>1
  <2>3. QED
    BY <1>2, <2>2, FS_EmptySet DEF Count
<1>3. ASSUME MayPush, PushersAsleep
      PROVE  \/ \E p \in Producers : prod[p] \in {"check", "try"}
             \/ \E c \in Consumers : cons[c] = "signal"
  <2>1. Lookers # 0 \/ Freed # 0
    BY <1>1, <1>3, CountsNat, QueuesAssumption DEF MayPush
  <2>2. Lookers # 0 => \E p \in Producers : prod[p] \in {"check", "try"}
    BY <1>2 DEF Lookers
  <2>3. Freed # 0 => \E c \in Consumers : cons[c] \in {"signal"}
    BY <1>2 DEF Freed
  <2>4. QED
    BY <2>1, <2>2, <2>3
<1>4. ASSUME MayPop, PoppersAsleep, ~announce
      PROVE  \/ \E c \in Consumers : cons[c] \in {"check", "try", "flagA", "flagC"}
             \/ \E p \in Producers : prod[p] = "signal"
  <2>1. Poppers # 0 \/ Given # 0
    BY <1>1, <1>4, CountsNat DEF MayPop
  <2>2. Poppers # 0 => \E c \in Consumers : cons[c] \in {"check", "try", "flagA", "flagC"}
    BY <1>2 DEF Poppers
  <2>3. Given # 0 => \E p \in Producers : prod[p] \in {"signal"}
    BY <1>2 DEF Given
  <2>4. QED
    BY <2>1, <2>2, <2>3
<1>5. QED
  BY <1>3, <1>4 DEF NobodyForgotten, PushersAsleep, PoppersAsleep

(* No push() or pop() is left asleep with nobody to wake it.                              *)
THEOREM NobodyIsForgotten == Spec => []NobodyForgotten
<1>1. Init => TypeInv /\ Served
  <2>1. Init => TypeInv
    BY TypeInit
  <2>2. Init => Served
    BY Zenon DEF Init, Served, PushersAsleep, PoppersAsleep
  <2>3. QED
    BY <2>1, <2>2
<1>2. TypeInv /\ Served /\ [Next]_vars => TypeInv' /\ Served'
  BY TypeStep, ServedStep
<1>3. TypeInv /\ Served => NobodyForgotten
  BY ServedNobodyForgotten
<1>4. QED
  BY <1>1, <1>2, <1>3, PTL DEF Spec
=============================================================================
