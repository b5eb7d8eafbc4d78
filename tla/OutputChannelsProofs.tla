------------------------- MODULE OutputChannelsProofs -------------------------
(***************************************************************************)
(* For any channels, capacities, batch shapes and any number of producers   *)
(* and transaction owners: the reservation counters of the channels are     *)
(* exact, the bounded queues never overflow, a terminal is the last thing a *)
(* consumer sees and a deferred close is not lost.                          *)
(***************************************************************************)
EXTENDS OutputChannels, FiniteSetTheorems, TLAPS

-----------------------------------------------------------------------------
(* Sets of slots.                                                          *)

(* One record holds as many slots of a channel as it asked for.             *)
LEMMA OneSlots ==
    ASSUME NEW t, NEW n, NEW c, n[t][c] \in Nat
    PROVE  /\ IsFiniteSet(Slots({t}, n, c))
           /\ Cardinality(Slots({t}, n, c)) = n[t][c]
<1>1. Slots({t}, n, c) = {t} \X (1 .. n[t][c])
  BY DEF Slots
<1>2. IsFiniteSet({t}) /\ Cardinality({t}) = 1
  BY FS_Singleton
<1>3. IsFiniteSet(1 .. n[t][c]) /\ Cardinality(1 .. n[t][c]) = n[t][c]
  <2>1. ASSUME NEW m \in Nat PROVE IsFiniteSet(1 .. m) /\ Cardinality(1 .. m) = m
    <3>1. /\ IsFiniteSet(1 .. m)
          /\ Cardinality(1 .. m) = IF 1 > m THEN 0 ELSE m - 1 + 1
      BY FS_Interval
    <3> QED
      BY <3>1
  <2> QED
    BY <2>1
<1>4. /\ IsFiniteSet({t} \X (1 .. n[t][c]))
      /\ Cardinality({t} \X (1 .. n[t][c])) = 1 * n[t][c]
  BY <1>2, <1>3, FS_Product
<1>5. 1 * n[t][c] = n[t][c]
  OBVIOUS
<1> QED
  BY <1>1, <1>4, <1>5

(* The slots of two disjoint groups of records add up.                      *)
LEMMA JoinSlots ==
    ASSUME NEW T, NEW H, NEW U, NEW n, NEW c, T \cap H = {}, U = T \cup H,
           IsFiniteSet(Slots(T, n, c)), IsFiniteSet(Slots(H, n, c))
    PROVE  /\ IsFiniteSet(Slots(U, n, c))
           /\ Cardinality(Slots(U, n, c)) =
                  Cardinality(Slots(T, n, c)) + Cardinality(Slots(H, n, c))
<1> DEFINE A == Slots(T, n, c)
           B == Slots(H, n, c)
<1>1. Slots(U, n, c) = A \cup B
  BY DEF Slots
<1>2. A \cap B = {}
  BY DEF Slots
<1>3. IsFiniteSet(A) /\ IsFiniteSet(B)
  OBVIOUS
<1> HIDE DEF A, B
<1>4. Cardinality(A) \in Nat /\ Cardinality(B) \in Nat
  BY <1>3, FS_CardinalityType
<1>5. /\ IsFiniteSet(A \cup B)
      /\ Cardinality(A \cup B) = Cardinality(A) + Cardinality(B) - Cardinality(A \cap B)
  BY <1>3, FS_Union
<1>6. Cardinality(A \cap B) = 0
  BY <1>2, FS_EmptySet
<1>7. Cardinality(A \cup B) = Cardinality(A) + Cardinality(B)
  BY <1>4, <1>5, <1>6
<1> QED
  BY <1>1, <1>5, <1>7 DEF A, B

(* Only what a record asks for in the channel matters.                      *)
LEMMA SameSlots ==
    ASSUME NEW T, NEW n, NEW m, NEW c, \A t \in T : n[t][c] = m[t][c]
    PROVE  Slots(T, n, c) = Slots(T, m, c)
BY DEF Slots

(* A smaller group of records holds a subset of the slots.                  *)
LEMMA SubSlots ==
    ASSUME NEW T, NEW H, NEW n, NEW c, T \subseteq H, IsFiniteSet(Slots(H, n, c))
    PROVE  /\ IsFiniteSet(Slots(T, n, c))
           /\ Cardinality(Slots(T, n, c)) \in Nat
           /\ Cardinality(Slots(T, n, c)) <= Cardinality(Slots(H, n, c))
<1>1. Slots(T, n, c) \subseteq Slots(H, n, c)
  BY DEF Slots
<1> QED
  BY <1>1, FS_Subset, FS_CardinalityType

(* Dropping one record gives back exactly its slots.                        *)
LEMMA DropSlots ==
    ASSUME NEW T, NEW t \in T, NEW R, R = T \ {t}, NEW n, NEW c,
           n[t][c] \in Nat, IsFiniteSet(Slots(T, n, c))
    PROVE  /\ IsFiniteSet(Slots(R, n, c))
           /\ Cardinality(Slots(R, n, c)) \in Nat
           /\ Cardinality(Slots(R, n, c)) = Cardinality(Slots(T, n, c)) - n[t][c]
<1>1. R \subseteq T /\ R \cap {t} = {} /\ T = R \cup {t}
  OBVIOUS
<1>2. IsFiniteSet(Slots(R, n, c)) /\ Cardinality(Slots(R, n, c)) \in Nat
  BY <1>1, SubSlots
<1>3. IsFiniteSet(Slots({t}, n, c)) /\ Cardinality(Slots({t}, n, c)) = n[t][c]
  BY OneSlots
<1>4. Cardinality(Slots(T, n, c)) =
          Cardinality(Slots(R, n, c)) + Cardinality(Slots({t}, n, c))
  BY <1>1, <1>2, <1>3, JoinSlots
<1> QED
  BY <1>2, <1>3, <1>4

-----------------------------------------------------------------------------
(* The counters.                                                           *)

CounterType ==
    /\ reserved \in [Channels -> Nat]
    /\ authorized \in [Channels -> Nat]
    /\ txn \in [Txns -> TxnState]
    /\ need \in [Txns -> [Channels -> Nat]]

SlotsFinite == \A c \in Channels : IsFiniteSet(Held(Live, c))

(* Inductive by itself: nothing else in a channel feeds the counters.         *)
CounterInv == CounterType /\ SlotsFinite /\ ReservationsAccounted

counters == <<reserved, authorized, txn, need>>

(* What a live record holds is part of the counters.                         *)
LEMMA OwnSlots ==
    ASSUME CounterInv, NEW t \in Txns, NEW c \in Channels
    PROVE  /\ txn[t] \in Live => need[t][c] <= reserved[c]
           /\ txn[t] = "authorized" => need[t][c] <= authorized[c]
           /\ authorized[c] <= reserved[c]
<1>1. need[t][c] \in Nat
  BY DEF CounterInv, CounterType
<1>2. IsFiniteSet(Held(Live, c)) /\ reserved[c] = Cardinality(Held(Live, c))
  BY DEF CounterInv, SlotsFinite, ReservationsAccounted
<1>3. authorized[c] = Cardinality(Held({"authorized"}, c))
  BY DEF CounterInv, ReservationsAccounted
<1>4. Cardinality(Slots({t}, need, c)) = need[t][c]
  BY <1>1, OneSlots
<1>5. InState({"authorized"}) \subseteq InState(Live)
  BY DEF InState, Live
<1>6. /\ IsFiniteSet(Held({"authorized"}, c))
      /\ Cardinality(Held({"authorized"}, c)) <= Cardinality(Held(Live, c))
  BY <1>2, <1>5, SubSlots DEF Held
<1>7. ASSUME txn[t] \in Live PROVE need[t][c] <= reserved[c]
  <2>1. {t} \subseteq InState(Live)
    BY <1>7 DEF InState
  <2> QED
    BY <1>2, <1>4, <2>1, SubSlots DEF Held
<1>8. ASSUME txn[t] = "authorized" PROVE need[t][c] <= authorized[c]
  <2>1. {t} \subseteq InState({"authorized"})
    BY <1>8 DEF InState
  <2> QED
    BY <1>3, <1>4, <1>6, <2>1, SubSlots DEF Held
<1> QED
  BY <1>2, <1>3, <1>6, <1>7, <1>8

(* Initially no record is live and all counters are zero.                    *)
LEMMA CounterInit == Init => CounterInv
<1> SUFFICES ASSUME Init PROVE CounterInv
  OBVIOUS
<1>1. CounterType
  BY DEF Init, CounterType, TxnState
<1>2. InState(Live) = {} /\ InState({"authorized"}) = {}
  BY DEF Init, InState, Live
<1>3. \A c \in Channels : Held(Live, c) = {} /\ Held({"authorized"}, c) = {}
  BY <1>2 DEF Held, Slots
<1>4. \A c \in Channels : reserved[c] = 0 /\ authorized[c] = 0
  BY DEF Init
<1> QED
  BY <1>1, <1>3, <1>4, FS_EmptySet DEF CounterInv, SlotsFinite, ReservationsAccounted

(* A record of t that was not live becomes live with n slots per channel.     *)
LEMMA CounterReserve ==
    ASSUME CounterInv, NEW t \in Txns, NEW n \in Shapes, Reserve(t, n)
    PROVE  CounterInv'
<1>1. n \in [Channels -> Nat]
  BY ChannelsAssumption
<1>2. CounterType'
  BY <1>1 DEF CounterInv, CounterType, Reserve, TxnState
<1>3. /\ InState(Live)' = InState(Live) \cup {t}
      /\ InState(Live) \cap {t} = {}
      /\ InState({"authorized"})' = InState({"authorized"})
      /\ t \notin InState({"authorized"})
  BY DEF InState, Live, Reserve, Runnable, CounterInv, CounterType
<1>4. /\ need'[t] = n
      /\ \A u \in Txns \ {t} : need'[u] = need[u]
  BY DEF Reserve, CounterInv, CounterType
<1>5. ASSUME NEW c \in Channels
      PROVE  /\ IsFiniteSet(Held(Live, c)')
             /\ reserved'[c] = Cardinality(Held(Live, c)')
             /\ authorized'[c] = Cardinality(Held({"authorized"}, c)')
  <2>1. /\ IsFiniteSet(Slots(InState(Live), need, c))
        /\ reserved[c] = Cardinality(Slots(InState(Live), need, c))
        /\ authorized[c] = Cardinality(Slots(InState({"authorized"}), need, c))
    BY DEF CounterInv, SlotsFinite, ReservationsAccounted, Held
  <2>2. Slots(InState(Live), need', c) = Slots(InState(Live), need, c)
    BY <1>3, <1>4, SameSlots DEF InState
  <2>3. Slots(InState({"authorized"}), need', c) =
            Slots(InState({"authorized"}), need, c)
    BY <1>3, <1>4, SameSlots DEF InState
  <2>4. IsFiniteSet(Slots({t}, need', c)) /\ Cardinality(Slots({t}, need', c)) = n[c]
    BY <1>1, <1>4, OneSlots
  <2>5. /\ IsFiniteSet(Slots(InState(Live)', need', c))
        /\ Cardinality(Slots(InState(Live)', need', c)) =
               Cardinality(Slots(InState(Live), need', c))
                 + Cardinality(Slots({t}, need', c))
    BY <1>3, <2>1, <2>2, <2>4, JoinSlots
  <2>6. reserved'[c] = reserved[c] + n[c] /\ authorized'[c] = authorized[c]
    BY DEF Reserve
  <2> QED
    BY <1>3, <2>1, <2>2, <2>3, <2>4, <2>5, <2>6 DEF Held
<1> QED
  BY <1>2, <1>5 DEF CounterInv, SlotsFinite, ReservationsAccounted

(* Authorizing the records of H moves their slots to the authorized counter.  *)
LEMMA CounterAuthorize ==
    ASSUME CounterInv, NEW H \in SUBSET Txns, Authorize(H)
    PROVE  CounterInv'
<1>1. need' = need /\ reserved' = reserved
  BY DEF Authorize
<1>2. /\ H \subseteq InState(Live)
      /\ InState(Live)' = InState(Live)
      /\ InState({"authorized"})' = InState({"authorized"}) \cup H
      /\ InState({"authorized"}) \cap H = {}
      /\ InState({"authorized"}) \subseteq InState(Live)
  BY DEF InState, Live, Authorize
<1>3. ASSUME NEW c \in Channels
      PROVE  /\ IsFiniteSet(Held(Live, c)')
             /\ reserved'[c] = Cardinality(Held(Live, c)')
             /\ authorized'[c] = Cardinality(Held({"authorized"}, c)')
             /\ authorized'[c] \in Nat
  <2>1. /\ IsFiniteSet(Slots(InState(Live), need, c))
        /\ reserved[c] = Cardinality(Slots(InState(Live), need, c))
        /\ authorized[c] = Cardinality(Slots(InState({"authorized"}), need, c))
    BY DEF CounterInv, SlotsFinite, ReservationsAccounted, Held
  <2>2. /\ IsFiniteSet(Slots(H, need, c))
        /\ Cardinality(Slots(H, need, c)) \in Nat
    BY <1>2, <2>1, SubSlots
  <2>3. IsFiniteSet(Slots(InState({"authorized"}), need, c))
    BY <1>2, <2>1, SubSlots
  <2>4. Cardinality(Slots(InState({"authorized"})', need, c)) =
            Cardinality(Slots(InState({"authorized"}), need, c))
              + Cardinality(Slots(H, need, c))
    BY <1>2, <2>2, <2>3, JoinSlots
  <2>5. authorized'[c] = authorized[c] + Cardinality(Slots(H, need, c))
    BY DEF Authorize
  <2>6. authorized[c] \in Nat
    BY DEF CounterInv, CounterType
  <2> QED
    BY <1>1, <1>2, <2>1, <2>2, <2>4, <2>5, <2>6 DEF Held
<1>4. CounterType'
  <2>1. authorized' = [c \in Channels |-> authorized'[c]]
    BY DEF Authorize
  <2> QED
    BY <1>3, <2>1 DEF CounterInv, CounterType, Authorize, TxnState
<1> QED
  BY <1>3, <1>4 DEF CounterInv, SlotsFinite, ReservationsAccounted

(* Commit, a commit that finds an aborted queue, and cancel all end one live  *)
(* record and take exactly its slots off the counters.                       *)
LEMMA CounterResolve ==
    ASSUME CounterInv, NEW t \in Txns, Resolve(t)
    PROVE  CounterInv'
<1>1. /\ txn[t] \in Live
      /\ need' = need
      /\ \A u \in Txns : u # t => txn'[u] = txn[u]
      /\ txn'[t] \in {"committed", "cancelled"}
      /\ txn' \in [Txns -> TxnState]
  BY DEF Resolve, Commit, CommitAborted, Cancel, Live, CounterInv, CounterType, TxnState
<1>2. /\ t \in InState(Live)
      /\ InState(Live)' = InState(Live) \ {t}
      /\ InState({"authorized"})' = InState({"authorized"}) \ {t}
      /\ InState({"authorized"}) \subseteq InState(Live)
      /\ t \in InState({"authorized"}) <=> txn[t] = "authorized"
  BY <1>1 DEF InState, Live
<1>3. ASSUME NEW c \in Channels
      PROVE  /\ reserved'[c] = reserved[c] - need[t][c]
             /\ authorized'[c] =
                   IF txn[t] = "authorized" THEN authorized[c] - need[t][c]
                   ELSE authorized[c]
  <2>0. authorized[c] \in Nat /\ need[t][c] \in Nat
    BY DEF CounterInv, CounterType
  <2>1. CASE Commit(t) \/ CommitAborted(t)
    BY <2>1 DEF Commit, CommitAborted
  <2>2. CASE Cancel(t)
    BY <2>0, <2>2 DEF Cancel, AuthorizedBy
  <2> QED
    BY <2>1, <2>2 DEF Resolve
<1>4. ASSUME NEW c \in Channels
      PROVE  /\ IsFiniteSet(Held(Live, c)')
             /\ reserved'[c] = Cardinality(Held(Live, c)')
             /\ authorized'[c] = Cardinality(Held({"authorized"}, c)')
             /\ reserved'[c] \in Nat /\ authorized'[c] \in Nat
  <2>1. /\ IsFiniteSet(Slots(InState(Live), need, c))
        /\ reserved[c] = Cardinality(Slots(InState(Live), need, c))
        /\ authorized[c] = Cardinality(Slots(InState({"authorized"}), need, c))
        /\ authorized[c] \in Nat
        /\ need[t][c] \in Nat
    BY DEF CounterInv, SlotsFinite, ReservationsAccounted, Held, CounterType
  <2>2. IsFiniteSet(Slots(InState({"authorized"}), need, c))
    BY <1>2, <2>1, SubSlots
  <2>3. /\ IsFiniteSet(Slots(InState(Live)', need, c))
        /\ Cardinality(Slots(InState(Live)', need, c)) \in Nat
        /\ Cardinality(Slots(InState(Live)', need, c)) = reserved[c] - need[t][c]
    BY <1>2, <2>1, DropSlots
  <2>4. /\ authorized'[c] = Cardinality(Slots(InState({"authorized"})', need, c))
        /\ authorized'[c] \in Nat
    <3>1. CASE txn[t] = "authorized"
      <4>1. t \in InState({"authorized"})
        BY <1>2, <3>1
      <4>2. /\ Cardinality(Slots(InState({"authorized"})', need, c)) \in Nat
            /\ Cardinality(Slots(InState({"authorized"})', need, c)) =
                   Cardinality(Slots(InState({"authorized"}), need, c)) - need[t][c]
        BY <1>2, <2>1, <2>2, <4>1, DropSlots
      <4> QED
        BY <1>3, <2>1, <3>1, <4>2
    <3>2. CASE txn[t] # "authorized"
      <4>1. InState({"authorized"})' = InState({"authorized"})
        BY <1>2, <3>2
      <4> QED
        BY <1>3, <2>1, <3>2, <4>1
    <3> QED
      BY <3>1, <3>2
  <2> QED
    BY <1>1, <1>2, <1>3, <2>3, <2>4 DEF Held
<1>5. CounterType'
  <2>1. /\ reserved' = [c \in Channels |-> reserved'[c]]
        /\ authorized' = [c \in Channels |-> authorized'[c]]
    BY DEF Resolve, Commit, CommitAborted, Cancel
  <2> QED
    BY <1>1, <1>4, <2>1 DEF CounterInv, CounterType
<1> QED
  BY <1>4, <1>5 DEF CounterInv, SlotsFinite, ReservationsAccounted

(* A step that touches no record and no counter.                              *)
LEMMA CounterUnchanged == CounterInv /\ UNCHANGED counters => CounterInv'
BY DEF CounterInv, CounterType, SlotsFinite, ReservationsAccounted, Held, InState, counters

(* A record that is not live may change its request or be dropped.            *)
LEMMA CounterIdle ==
    ASSUME CounterInv, NEW t \in Txns, UNCHANGED <<reserved, authorized>>,
           txn[t] \notin Live, txn'[t] \notin Live,
           txn' \in [Txns -> TxnState], need' \in [Txns -> [Channels -> Nat]],
           \A u \in Txns \ {t} : txn'[u] = txn[u] /\ need'[u] = need[u]
    PROVE  CounterInv'
<1>1. /\ InState(Live)' = InState(Live) /\ t \notin InState(Live)
      /\ InState({"authorized"})' = InState({"authorized"})
      /\ t \notin InState({"authorized"})
  BY DEF InState, Live
<1>2. \A c \in Channels :
          /\ Slots(InState(Live), need', c) = Slots(InState(Live), need, c)
          /\ Slots(InState({"authorized"}), need', c) =
                Slots(InState({"authorized"}), need, c)
  BY <1>1, SameSlots DEF InState
<1> QED
  BY <1>1, <1>2
  DEF CounterInv, CounterType, SlotsFinite, ReservationsAccounted, Held

(* Every step of a producer, a consumer, the owner or abort keeps the counters exact. *)
LEMMA CounterStep == CounterInv /\ [Next]_vars => CounterInv'
<1> SUFFICES ASSUME CounterInv, [Next]_vars PROVE CounterInv'
  OBVIOUS
<1>1. CASE UNCHANGED counters
  BY <1>1, CounterUnchanged
<1>2. ASSUME NEW t \in Txns, NEW n \in Shapes, Reserve(t, n) PROVE CounterInv'
  BY <1>2, CounterReserve
<1>3. ASSUME NEW t \in Txns, NEW n \in Shapes, NoRoom(t, n) \/ AtomicOutput(t, n)
      PROVE  CounterInv'
  <2>1. n \in [Channels -> Nat]
    BY ChannelsAssumption
  <2>2. /\ txn[t] \notin Live /\ txn'[t] \notin Live
        /\ txn' \in [Txns -> TxnState]
    BY <1>3 DEF NoRoom, AtomicOutput, Runnable, Live, CounterInv, CounterType, TxnState
  <2>3. /\ UNCHANGED <<reserved, authorized>>
        /\ need' \in [Txns -> [Channels -> Nat]]
        /\ \A u \in Txns \ {t} : txn'[u] = txn[u] /\ need'[u] = need[u]
    BY <1>3, <2>1 DEF NoRoom, AtomicOutput, CounterInv, CounterType
  <2> QED
    BY <2>2, <2>3, CounterIdle
<1>4. ASSUME NEW H \in SUBSET Txns, Authorize(H) PROVE CounterInv'
  BY <1>4, CounterAuthorize
<1>5. ASSUME NEW t \in Txns, Resolve(t) PROVE CounterInv'
  BY <1>5, CounterResolve
<1>6. ASSUME NEW t \in Txns, Release(t) PROVE CounterInv'
  <2>1. /\ txn[t] \notin Live /\ txn'[t] \notin Live
        /\ txn' \in [Txns -> TxnState]
        /\ UNCHANGED <<reserved, authorized>>
        /\ need' \in [Txns -> [Channels -> Nat]]
        /\ \A u \in Txns \ {t} : txn'[u] = txn[u] /\ need'[u] = need[u]
    BY <1>6 DEF Release, Live, CounterInv, CounterType, TxnState
  <2> QED
    BY <2>1, CounterIdle
<1>7. ASSUME NEW p \in Producers, NEW c \in Channels,
             PushAccepted(p, c) \/ PushWouldBlock(p, c)
      PROVE  UNCHANGED counters
  BY <1>7 DEF PushAccepted, PushWouldBlock, counters, account
<1>8. ASSUME NEW c \in Channels, Consume(c) PROVE UNCHANGED counters
  BY <1>8 DEF Consume, TryPopBuffer, TryPopTerminal, TryPopNothing, ReadAborted,
    ReadClosed, ReadOptional, BeginPop, QueuePopWaits, QueuePopTakes, QueuePopFails,
    FinishPopBuffer, FinishPopTerminal, FinishPopFailed, counters, account
<1>9. ASSUME NEW c \in Channels, Close(c) \/ CloseWithTerminal(c) \/ Abort(c)
      PROVE  UNCHANGED counters
  BY <1>9 DEF Close, CloseWithTerminal, Abort, counters
<1>10. ASSUME NEW t \in Txns, NEW c \in Channels,
              SignalPublished(t, c) \/ SignalReleased(t, c)
       PROVE  UNCHANGED counters
  BY <1>10 DEF SignalPublished, SignalReleased, counters, account
<1>11. ASSUME AbortChannels PROVE UNCHANGED counters
  BY <1>11 DEF AbortChannels, counters, account
<1>12. ASSUME UNCHANGED vars PROVE UNCHANGED counters
  BY <1>12 DEF vars, counters, account
<1> QED
  BY <1>1, <1>2, <1>3, <1>4, <1>5, <1>6, <1>7, <1>8, <1>9, <1>10, <1>11, <1>12
  DEF Next, Notify

(* The reservation counters are exact in every reachable state: nothing leaks *)
(* and nothing is released twice, for any number of owners and channels.      *)
THEOREM AccountingCorrect == Spec => []ReservationsAccounted
<1>1. CounterInv => ReservationsAccounted
  BY DEF CounterInv
<1> QED
  BY <1>1, CounterInit, CounterStep, PTL DEF Spec

-----------------------------------------------------------------------------
(* Capacity.                                                               *)

SizeInv == size \in [Channels -> Nat] /\ CapacityRespected

(* The queues start empty, within their capacities.                            *)
LEMMA SizeInit == Init => SizeInv
BY ChannelsAssumption DEF Init, SizeInv, CapacityRespected

(* Buffers and slots together stay within the capacity: push respects the     *)
(* slots, reserve and acquire respect both, commit turns slots into buffers.  *)
LEMMA SizeStep == CounterInv /\ SizeInv /\ [Next]_vars => SizeInv'
<1> SUFFICES ASSUME CounterInv, SizeInv, [Next]_vars PROVE SizeInv'
  OBVIOUS
<1> USE ChannelsAssumption
<1>a. /\ size \in [Channels -> Nat] /\ reserved \in [Channels -> Nat]
      /\ \A c \in Channels : size[c] + reserved[c] <= Capacity[c]
  BY DEF CounterInv, CounterType, SizeInv, CapacityRespected
<1>1. CASE UNCHANGED <<size, reserved>>
  BY <1>1 DEF SizeInv, CapacityRespected
<1>2. ASSUME NEW p \in Producers, NEW c \in Channels, PushAccepted(p, c) PROVE SizeInv'
  BY <1>2, <1>a DEF PushAccepted, HasRoom, SizeInv, CapacityRespected
<1>3. ASSUME NEW c \in Channels, TryPopBuffer(c) \/ QueuePopTakes(c) PROVE SizeInv'
  <2>1. size' = [size EXCEPT ![c] = @ - 1] /\ size[c] > 0 /\ reserved' = reserved
    BY <1>3 DEF TryPopBuffer, QueuePopTakes
  <2> QED
    BY <1>a, <2>1 DEF SizeInv, CapacityRespected
<1>4. ASSUME NEW t \in Txns, NEW n \in Shapes, Reserve(t, n) \/ AtomicOutput(t, n)
      PROVE  SizeInv'
  <2>1. n \in [Channels -> Nat]
    OBVIOUS
  <2>2. \A c \in Channels : size[c] + n[c] + reserved[c] <= Capacity[c]
    <3> SUFFICES ASSUME NEW c \in Channels
                 PROVE  size[c] + n[c] + reserved[c] <= Capacity[c]
      OBVIOUS
    <3>1. /\ size[c] \in Nat /\ reserved[c] \in Nat /\ n[c] \in Nat /\ Capacity[c] \in Nat
          /\ size[c] + reserved[c] <= Capacity[c]
      BY <1>a, <2>1
    <3>2. n[c] > 0 => Fits(n, c)
      BY <1>4 DEF Reserve, AtomicOutput, Touched
    <3> QED
      BY <3>1, <3>2 DEF Fits
  <2>3. CASE Reserve(t, n)
    BY <1>a, <2>1, <2>2, <2>3 DEF Reserve, SizeInv, CapacityRespected
  <2>4. CASE AtomicOutput(t, n)
    BY <1>a, <2>1, <2>2, <2>4 DEF AtomicOutput, SizeInv, CapacityRespected
  <2> QED
    BY <1>4, <2>3, <2>4
<1>5. ASSUME NEW t \in Txns, Resolve(t) PROVE SizeInv'
  <2>1. \A c \in Channels : need[t][c] \in Nat /\ need[t][c] <= reserved[c]
    BY <1>5, OwnSlots
    DEF Resolve, Commit, CommitAborted, Cancel, Live, CounterInv, CounterType
  <2>2. CASE Commit(t)
    <3>1. /\ size' = [c \in Channels |-> size[c] + need[t][c]]
          /\ reserved' = [c \in Channels |-> reserved[c] - need[t][c]]
      BY <2>2 DEF Commit
    <3> QED
      BY <1>a, <2>1, <3>1 DEF SizeInv, CapacityRespected
  <2>3. CASE CommitAborted(t)
    <3>1. /\ size' = size
          /\ reserved' = [c \in Channels |-> reserved[c] - need[t][c]]
      BY <2>3 DEF CommitAborted
    <3> QED
      BY <1>a, <2>1, <3>1 DEF SizeInv, CapacityRespected
  <2>4. CASE Cancel(t)
    <3>1. /\ size' = size
          /\ reserved' = [c \in Channels |-> reserved[c] - need[t][c]]
      BY <2>4 DEF Cancel
    <3> QED
      BY <1>a, <2>1, <3>1 DEF SizeInv, CapacityRespected
  <2> QED
    BY <1>5, <2>2, <2>3, <2>4 DEF Resolve
<1>6. ASSUME NEW p \in Producers, NEW c \in Channels, PushWouldBlock(p, c)
      PROVE  UNCHANGED <<size, reserved>>
  BY <1>6 DEF PushWouldBlock, account
<1>7. ASSUME NEW c \in Channels, Consume(c), ~TryPopBuffer(c), ~QueuePopTakes(c)
      PROVE  UNCHANGED <<size, reserved>>
  BY <1>7 DEF Consume, TryPopTerminal, TryPopNothing, ReadAborted, ReadClosed,
    ReadOptional, BeginPop, QueuePopWaits, QueuePopFails, FinishPopBuffer,
    FinishPopTerminal, FinishPopFailed, account
<1>8. ASSUME NEW c \in Channels, Close(c) \/ CloseWithTerminal(c) \/ Abort(c)
      PROVE  UNCHANGED <<size, reserved>>
  BY <1>8 DEF Close, CloseWithTerminal, Abort
<1>9. ASSUME NEW t \in Txns, NEW n \in Shapes, NoRoom(t, n)
      PROVE  UNCHANGED <<size, reserved>>
  BY <1>9 DEF NoRoom
<1>10. ASSUME NEW H \in SUBSET Txns, Authorize(H) PROVE UNCHANGED <<size, reserved>>
  BY <1>10 DEF Authorize
<1>11. ASSUME NEW t \in Txns, Notify(t) PROVE UNCHANGED <<size, reserved>>
  BY <1>11 DEF Notify, SignalPublished, SignalReleased, Release, account
<1>12. ASSUME AbortChannels PROVE UNCHANGED <<size, reserved>>
  BY <1>12 DEF AbortChannels, account
<1>13. ASSUME UNCHANGED vars PROVE UNCHANGED <<size, reserved>>
  BY <1>13 DEF vars, account
<1> QED
  BY <1>1, <1>2, <1>3, <1>4, <1>5, <1>6, <1>7, <1>8, <1>9, <1>10, <1>11, <1>12, <1>13
  DEF Next

(* No interleaving of pushes, reservations, commits and cancellations makes a *)
(* bounded queue overflow: a commit always finds the room it reserved.        *)
THEOREM CapacityCorrect == Spec => []CapacityRespected
<1>1. SizeInv => CapacityRespected
  BY DEF SizeInv
<1> QED
  BY <1>1, CounterInit, CounterStep, SizeInit, SizeStep, PTL DEF Spec

-----------------------------------------------------------------------------
(* Types of the remaining variables.                                       *)

WaitType ==
    /\ signal \in [Txns -> SUBSET Channels]
    /\ parkedTxn \subseteq Txns
    /\ blockedOn \in [Channels -> SUBSET Producers]
    /\ parkedOn \in [Channels -> SUBSET Producers]
    /\ cons \in [Channels -> ConsumerState]
    /\ wake \in [Channels -> BOOLEAN]
    /\ toAbort \subseteq Channels

FlagType ==
    /\ qClosed \in [Channels -> BOOLEAN]
    /\ qAborted \in [Channels -> BOOLEAN]
    /\ closeRequested \in [Channels -> BOOLEAN]
    /\ terminal \in [Channels -> BOOLEAN]

(* A notification wakes consumers and changes nothing for those that ended.   *)
LEMMA NotifyConsumersEffect ==
    ASSUME WaitType, NEW S, NotifyConsumers(S)
    PROVE  /\ cons' \in [Channels -> ConsumerState]
           /\ wake' \in [Channels -> BOOLEAN]
           /\ \A c \in Channels : cons'[c] = "ended" <=> cons[c] = "ended"
<1>1. cons' \in [Channels -> ConsumerState]
  BY DEF WaitType, NotifyConsumers, WakePoppers, WakeConsumers, ConsumerState
<1>2. wake' \in [Channels -> BOOLEAN]
  BY DEF WaitType, NotifyConsumers
<1>3. \A c \in Channels : cons'[c] = "ended" <=> cons[c] = "ended"
  BY DEF NotifyConsumers, WakePoppers, WakeConsumers
<1> QED
  BY <1>1, <1>2, <1>3

(* Notifying the producers of some channels keeps the lists of parked ones typed. *)
LEMMA NotifyProducersEffect ==
    ASSUME WaitType, NEW S, NotifyProducers(S)
    PROVE  /\ parkedOn' \in [Channels -> SUBSET Producers]
           /\ parkedTxn' \subseteq Txns
BY DEF WaitType, NotifyProducers

(* Signalling the mutation waiters keeps the lists of blocked ones typed.      *)
LEMMA SignalMutationEffect ==
    ASSUME WaitType, NEW S, SignalMutationWaiters(S)
    PROVE  blockedOn' \in [Channels -> SUBSET Producers]
BY DEF WaitType, SignalMutationWaiters

(* The step of one consumer, action by action.                               *)
LEMMA ConsumeType ==
    ASSUME WaitType, NEW c \in Channels, Consume(c)
    PROVE  WaitType'
<1> USE DEF WaitType, ConsumerState
<1>1. CASE TryPopBuffer(c)
  BY <1>1, NotifyProducersEffect, SignalMutationEffect DEF TryPopBuffer
<1>2. CASE TryPopTerminal(c)
  BY <1>2, NotifyProducersEffect, SignalMutationEffect DEF TryPopTerminal
<1>3. CASE TryPopNothing(c)
  BY <1>3 DEF TryPopNothing
<1>4. CASE ReadAborted(c)
  BY <1>4 DEF ReadAborted
<1>5. CASE ReadClosed(c)
  BY <1>5 DEF ReadClosed
<1>6. CASE ReadOptional(c)
  BY <1>6 DEF ReadOptional
<1>7. CASE BeginPop(c) \/ QueuePopWaits(c) \/ QueuePopTakes(c) \/ QueuePopFails(c)
  BY <1>7 DEF BeginPop, QueuePopWaits, QueuePopTakes, QueuePopFails
<1>8. CASE FinishPopBuffer(c)
  BY <1>8, NotifyProducersEffect, SignalMutationEffect DEF FinishPopBuffer
<1>9. CASE FinishPopTerminal(c)
  BY <1>9, NotifyProducersEffect, SignalMutationEffect DEF FinishPopTerminal
<1>10. CASE FinishPopFailed(c)
  BY <1>10 DEF FinishPopFailed
<1> QED
  BY <1>1, <1>2, <1>3, <1>4, <1>5, <1>6, <1>7, <1>8, <1>9, <1>10 DEF Consume

(* The wait lists keep their types.                                            *)
LEMMA WaitStep == CounterInv /\ WaitType /\ [Next]_vars => WaitType'
<1> SUFFICES ASSUME CounterInv, WaitType, [Next]_vars PROVE WaitType'
  OBVIOUS
<1>1. CASE UNCHANGED waiting
  BY <1>1 DEF WaitType, waiting
<1>2. ASSUME NEW p \in Producers, NEW c \in Channels, PushAccepted(p, c) PROVE WaitType'
  BY <1>2, NotifyConsumersEffect, SignalMutationEffect DEF PushAccepted, WaitType
<1>3. ASSUME NEW p \in Producers, NEW c \in Channels, PushWouldBlock(p, c) PROVE WaitType'
  BY <1>3 DEF PushWouldBlock, WaitType
<1>4. ASSUME NEW c \in Channels, Consume(c) PROVE WaitType'
  BY <1>4, ConsumeType
<1>5. ASSUME NEW c \in Channels, Close(c) \/ CloseWithTerminal(c) \/ Abort(c)
      PROVE  WaitType'
  <2>1. /\ NotifyConsumers({c}) /\ NotifyProducers({c}) /\ SignalMutationWaiters({c})
        /\ signal' = signal /\ toAbort' \subseteq toAbort
    BY <1>5 DEF Close, CloseWithTerminal, Abort
  <2> QED
    BY <2>1, NotifyConsumersEffect, NotifyProducersEffect, SignalMutationEffect DEF WaitType
<1>6. ASSUME AbortChannels PROVE WaitType'
  BY <1>6 DEF AbortChannels, WaitType
<1>7. ASSUME NEW t \in Txns, NEW n \in Shapes, NoRoom(t, n) PROVE WaitType'
  BY <1>7 DEF NoRoom, WaitType
<1>8. ASSUME NEW t \in Txns, NEW n \in Shapes, AtomicOutput(t, n) PROVE WaitType'
  BY <1>8 DEF AtomicOutput, Touched, WaitType
<1>9. ASSUME NEW t \in Txns, Resolve(t) PROVE WaitType'
  <2>1. CASE Commit(t)
    BY <2>1 DEF Commit, Touched, WaitType
  <2>2. CASE CommitAborted(t)
    BY <2>2 DEF CommitAborted, waiting, WaitType
  <2>3. CASE Cancel(t)
    BY <2>3, NotifyConsumersEffect, SignalMutationEffect DEF Cancel, Touched, WaitType
  <2> QED
    BY <1>9, <2>1, <2>2, <2>3 DEF Resolve
<1>10. ASSUME NEW t \in Txns, NEW c \in Channels, SignalPublished(t, c) PROVE WaitType'
  BY <1>10, NotifyConsumersEffect, SignalMutationEffect DEF SignalPublished, WaitType
<1>11. ASSUME NEW t \in Txns, NEW c \in Channels, SignalReleased(t, c) PROVE WaitType'
  BY <1>11, NotifyProducersEffect, SignalMutationEffect DEF SignalReleased, WaitType
<1>12. ASSUME NEW t \in Txns, NEW n \in Shapes, Reserve(t, n) PROVE UNCHANGED waiting
  BY <1>12 DEF Reserve, waiting
<1>13. ASSUME NEW H \in SUBSET Txns, Authorize(H) PROVE UNCHANGED waiting
  BY <1>13 DEF Authorize, waiting
<1>14. ASSUME NEW t \in Txns, Release(t) PROVE UNCHANGED waiting
  BY <1>14 DEF Release, waiting
<1>15. ASSUME UNCHANGED vars PROVE UNCHANGED waiting
  BY <1>15 DEF vars, waiting
<1> QED
  BY <1>1, <1>2, <1>3, <1>4, <1>5, <1>6, <1>7, <1>8, <1>9, <1>10, <1>11, <1>12,
     <1>13, <1>14, <1>15
  DEF Next, Notify

-----------------------------------------------------------------------------
(* Close, terminal and abort.                                              *)

(* A terminal is only stored by a close.  abort closes its queue, and         *)
(* abortChannels, once begun, has reached a channel or will reach it.         *)
Shutdown ==
    /\ \A c \in Channels : /\ terminal[c] => closeRequested[c]
                           /\ qAborted[c] => qClosed[c] /\ closeRequested[c]
    /\ toAbort # {} \/ (\E c \in Channels : qAborted[c]) =>
           \A d \in Channels : qAborted[d] \/ d \in toAbort

CloseInv == FlagType /\ Shutdown /\ DeferredClose /\ TerminalLast

flags == <<qClosed, qAborted, closeRequested, terminal>>

(* No channel starts closed, aborted or ended.                                 *)
LEMMA CloseInit == Init => CloseInv
BY DEF Init, CloseInv, FlagType, Shutdown, DeferredClose, TerminalLast

(* A step that closes nothing, adds no media to a channel whose consumer has  *)
(* ended and leaves the authorized slots alone.                               *)
LEMMA CloseUnchanged ==
    ASSUME CloseInv, UNCHANGED <<flags, authorized, toAbort>>,
           \A c \in Channels : cons'[c] = "ended" => cons[c] = "ended" /\ size'[c] = size[c]
    PROVE  CloseInv'
BY DEF CloseInv, FlagType, Shutdown, DeferredClose, TerminalLast, flags

(* Authorizing leaves a channel alone unless it is open.                      *)
LEMMA AuthorizeClosed ==
    ASSUME CounterInv, NEW H \in SUBSET Txns, Authorize(H),
           NEW c \in Channels, closeRequested[c] \/ qClosed[c]
    PROVE  authorized'[c] = authorized[c]
<1>1. \A t \in H : need[t][c] \in Nat /\ ~(need[t][c] > 0)
  BY DEF Authorize, Touched, Open, CounterInv, CounterType
<1>2. \A t \in H : 1 .. need[t][c] = {}
  BY <1>1
<1>3. Slots(H, need, c) = {}
  BY <1>2 DEF Slots
<1>4. authorized'[c] = authorized[c] + Cardinality(Slots(H, need, c))
  BY DEF Authorize
<1>5. authorized[c] \in Nat
  BY DEF CounterInv, CounterType
<1> QED
  BY <1>3, <1>4, <1>5, FS_EmptySet

(* A commit, a refused commit and a cancel finish a deferred close in time.    *)
LEMMA CloseResolve ==
    ASSUME CounterInv, SizeInv, WaitType, CloseInv, NEW t \in Txns, Resolve(t)
    PROVE  CloseInv'
<1>a. ASSUME NEW c \in Channels
      PROVE  /\ need[t][c] \in Nat /\ authorized[c] \in Nat /\ size[c] \in Nat
             /\ txn[t] = "authorized" => need[t][c] <= authorized[c]
  BY OwnSlots DEF CounterInv, CounterType, SizeInv
<1>b. \A c \in Channels : c \in Touched(need[t]) <=> need[t][c] > 0
  BY DEF Touched
<1>1. CASE Commit(t)
  <2>1. FlagType' /\ Shutdown'
    BY <1>1 DEF Commit, CloseInv, FlagType, Shutdown
  <2>2. TerminalLast'
    BY <1>1, <1>a DEF Commit, CloseInv, TerminalLast
  <2>3. DeferredClose'
    <3> SUFFICES ASSUME NEW c \in Channels
                 PROVE  /\ closeRequested[c] /\ authorized'[c] = 0 => qClosed'[c] \/ c \in toAbort
                        /\ qClosed'[c] /\ ~qAborted[c] => authorized'[c] = 0
      BY <1>1 DEF Commit, DeferredClose
    <3>1. authorized'[c] = authorized[c] - need[t][c]
      BY <1>1 DEF Commit
    <3>2. qClosed'[c] = (\/ qClosed[c]
                         \/ (/\ c \in Touched(need[t])
                             /\ closeRequested[c]
                             /\ authorized[c] - need[t][c] = 0))
      BY <1>1 DEF Commit
    <3>3. /\ closeRequested[c] /\ authorized[c] = 0 => qClosed[c] \/ c \in toAbort
          /\ qClosed[c] /\ ~qAborted[c] => authorized[c] = 0
      BY DEF CloseInv, DeferredClose
    <3>4. need[t][c] \in Nat /\ authorized[c] \in Nat /\ need[t][c] <= authorized[c]
      BY <1>1, <1>a DEF Commit
    <3>5. c \in Touched(need[t]) <=> need[t][c] > 0
      BY <1>b
    <3>6. CASE need[t][c] = 0
      BY <3>1, <3>2, <3>3, <3>4, <3>5, <3>6
    <3>7. CASE need[t][c] > 0
      BY <3>1, <3>2, <3>3, <3>4, <3>5, <3>7
    <3>8. need[t][c] = 0 \/ need[t][c] > 0
      BY <3>4
    <3> QED
      BY <3>6, <3>7, <3>8
  <2> QED
    BY <2>1, <2>2, <2>3 DEF CloseInv
<1>2. CASE CommitAborted(t)
  <2>1. FlagType' /\ Shutdown'
    BY <1>2 DEF CommitAborted, waiting, CloseInv, FlagType, Shutdown
  <2>2. TerminalLast'
    <3> SUFFICES ASSUME NEW c \in Channels, cons[c] = "ended"
                 PROVE  authorized'[c] = 0
      BY <1>2 DEF CommitAborted, waiting, CloseInv, TerminalLast
    <3>1. authorized'[c] = authorized[c] - need[t][c]
      BY <1>2 DEF CommitAborted
    <3>2. authorized[c] = 0
      BY DEF CloseInv, TerminalLast
    <3>3. need[t][c] \in Nat /\ need[t][c] <= authorized[c]
      BY <1>2, <1>a DEF CommitAborted
    <3> QED
      BY <3>1, <3>2, <3>3
  <2>3. \A c \in Channels : qClosed[c] \/ c \in toAbort
    BY <1>2 DEF CommitAborted, Touched, CloseInv, Shutdown
  <2>4. DeferredClose'
    <3> SUFFICES ASSUME NEW c \in Channels
                 PROVE  /\ qClosed[c] \/ c \in toAbort
                        /\ qClosed[c] /\ ~qAborted[c] => authorized'[c] = 0
      BY <1>2 DEF CommitAborted, waiting, DeferredClose
    <3>1. authorized'[c] = authorized[c] - need[t][c]
      BY <1>2 DEF CommitAborted
    <3>2. qClosed[c] /\ ~qAborted[c] => authorized[c] = 0
      BY DEF CloseInv, DeferredClose
    <3>3. need[t][c] \in Nat /\ authorized[c] \in Nat /\ need[t][c] <= authorized[c]
      BY <1>2, <1>a DEF CommitAborted
    <3> QED
      BY <2>3, <3>1, <3>2, <3>3
  <2> QED
    BY <2>1, <2>2, <2>4 DEF CloseInv
<1>3. CASE Cancel(t)
  <2>1. FlagType' /\ Shutdown'
    BY <1>3 DEF Cancel, CloseInv, FlagType, Shutdown
  <2>2. \A c \in Channels : cons'[c] = "ended" <=> cons[c] = "ended"
    BY <1>3, NotifyConsumersEffect DEF Cancel
  <2>3. TerminalLast'
    <3>1. /\ size' = size /\ terminal' = terminal /\ closeRequested' = closeRequested
          /\ \A c \in Channels : authorized[c] = 0 => authorized'[c] = 0
      BY <1>3, <1>a DEF Cancel, AuthorizedBy
    <3> QED
      BY <2>2, <3>1 DEF CloseInv, TerminalLast
  <2>4. ASSUME NEW c \in Channels, closeRequested[c], authorized'[c] = 0
        PROVE  qClosed'[c] \/ c \in toAbort
    <3>1. CASE need[t][c] = 0
      <4>1. authorized[c] = 0
        <5>1. authorized[c] - AuthorizedBy(t, c) = 0
          BY <1>3, <2>4 DEF Cancel
        <5>2. AuthorizedBy(t, c) = 0
          BY <3>1 DEF AuthorizedBy
        <5> QED
          BY <1>a, <5>1, <5>2
      <4> QED
        BY <1>3, <2>4, <4>1 DEF Cancel, CloseInv, DeferredClose
    <3>2. CASE need[t][c] > 0
      <4>1. authorized[c] - AuthorizedBy(t, c) = 0
        BY <1>3, <2>4 DEF Cancel
      <4>2. qClosed[c] \/ qAborted[c] \/ c \in FinalizedBy(t)
        BY <1>b, <2>4, <3>2, <4>1 DEF FinalizedBy
      <4> QED
        BY <1>3, <4>2 DEF Cancel, CloseInv, Shutdown
    <3> QED
      BY <1>a, <3>1, <3>2
  <2>5. ASSUME NEW c \in Channels, qClosed'[c], ~qAborted[c]
        PROVE  authorized'[c] = 0
    <3>1. CASE c \in FinalizedBy(t)
      BY <1>3, <3>1 DEF Cancel, FinalizedBy
    <3>2. CASE qClosed[c]
      <4>1. authorized[c] = 0
        BY <2>5, <3>2 DEF CloseInv, DeferredClose
      <4>2. authorized'[c] = authorized[c] - AuthorizedBy(t, c)
        BY <1>3 DEF Cancel
      <4>3. AuthorizedBy(t, c) = 0
        BY <1>a, <4>1 DEF AuthorizedBy
      <4> QED
        BY <4>1, <4>2, <4>3
    <3> QED
      BY <1>3, <2>5, <3>1, <3>2 DEF Cancel
  <2>6. DeferredClose'
    BY <1>3, <2>4, <2>5 DEF Cancel, DeferredClose
  <2> QED
    BY <2>1, <2>3, <2>6 DEF CloseInv
<1> QED
  BY <1>1, <1>2, <1>3 DEF Resolve

(* The step of one consumer; the terminal is taken from an empty queue that   *)
(* no authorized media can reach any more.                                    *)
LEMMA CloseConsume ==
    ASSUME CounterInv, SizeInv, WaitType, CloseInv, NEW c \in Channels, Consume(c)
    PROVE  CloseInv'
<1>1. CASE TryPopTerminal(c) \/ FinishPopTerminal(c)
  <2>1. /\ TerminalReady(c)
        /\ terminal' = [terminal EXCEPT ![c] = FALSE]
        /\ cons' = [cons EXCEPT ![c] = "ended"]
        /\ UNCHANGED <<size, qClosed, qAborted, closeRequested, authorized, toAbort>>
    BY <1>1 DEF TryPopTerminal, FinishPopTerminal
  <2>2. FlagType' /\ Shutdown' /\ DeferredClose'
    BY <2>1 DEF CloseInv, FlagType, Shutdown, DeferredClose
  <2>3. TerminalLast'
    BY <2>1 DEF CloseInv, TerminalLast, TerminalReady, Shutdown, FlagType, WaitType
  <2> QED
    BY <2>2, <2>3 DEF CloseInv
<1>2. CASE TryPopBuffer(c) \/ QueuePopTakes(c)
  <2>1. /\ UNCHANGED <<flags, authorized, toAbort>>
        /\ size' = [size EXCEPT ![c] = @ - 1]
        /\ size[c] > 0
        /\ \A d \in Channels : cons'[d] = "ended" => cons[d] = "ended"
    BY <1>2 DEF TryPopBuffer, QueuePopTakes, flags, WaitType, ConsumerState
  <2>2. cons[c] # "ended"
    BY <1>2 DEF TryPopBuffer, QueuePopTakes
  <2>3. cons'[c] # "ended"
    BY <2>1, <2>2
  <2>4. \A d \in Channels : cons'[d] = "ended" => size'[d] = size[d]
    BY <2>1, <2>3 DEF SizeInv
  <2> QED
    BY <2>1, <2>4, CloseUnchanged
<1>3. CASE TryPopNothing(c) \/ ReadAborted(c) \/ ReadClosed(c) \/ ReadOptional(c)
  <2>1. /\ UNCHANGED <<flags, authorized, toAbort, size>>
        /\ \A d \in Channels : cons'[d] = "ended" => cons[d] = "ended"
    BY <1>3 DEF TryPopNothing, ReadAborted, ReadClosed, ReadOptional, flags, account, WaitType
  <2> QED
    BY <2>1, CloseUnchanged
<1>4. CASE \/ BeginPop(c) \/ QueuePopWaits(c) \/ QueuePopFails(c)
           \/ FinishPopBuffer(c) \/ FinishPopFailed(c)
  <2>1. /\ UNCHANGED <<flags, authorized, toAbort, size>>
        /\ \A d \in Channels : cons'[d] = "ended" => cons[d] = "ended"
    BY <1>4 DEF BeginPop, QueuePopWaits, QueuePopFails, FinishPopBuffer,
      FinishPopFailed, flags, account, WaitType
  <2> QED
    BY <2>1, CloseUnchanged
<1> QED
  BY <1>1, <1>2, <1>3, <1>4 DEF Consume

(* Every step keeps the relation of closes, terminals and authorized media.    *)
LEMMA CloseStep ==
    CounterInv /\ SizeInv /\ WaitType /\ CloseInv /\ [Next]_vars => CloseInv'
<1> SUFFICES ASSUME CounterInv, SizeInv, WaitType, CloseInv, [Next]_vars
             PROVE  CloseInv'
  OBVIOUS
<1>1. ASSUME NEW p \in Producers, NEW c \in Channels, PushAccepted(p, c)
      PROVE  CloseInv'
  <2>1. \A d \in Channels : cons'[d] = "ended" <=> cons[d] = "ended"
    BY <1>1, NotifyConsumersEffect DEF PushAccepted
  <2>2. cons[c] # "ended"
    BY <1>1 DEF PushAccepted, Open, CloseInv, TerminalLast
  <2>3. \A d \in Channels : cons'[d] = "ended" => size'[d] = size[d]
    BY <1>1, <2>1, <2>2 DEF PushAccepted, SizeInv
  <2> QED
    BY <1>1, <2>1, <2>3, CloseUnchanged DEF PushAccepted, flags
<1>2. ASSUME NEW p \in Producers, NEW c \in Channels, PushWouldBlock(p, c)
      PROVE  CloseInv'
  BY <1>2, CloseUnchanged DEF PushWouldBlock, flags, account
<1>3. ASSUME NEW c \in Channels, Consume(c) PROVE CloseInv'
  BY <1>3, CloseConsume
<1>4. ASSUME NEW c \in Channels, Close(c) \/ CloseWithTerminal(c) \/ Abort(c)
      PROVE  CloseInv'
  <2>1. \A d \in Channels : cons'[d] = "ended" <=> cons[d] = "ended"
    BY <1>4, NotifyConsumersEffect DEF Close, CloseWithTerminal, Abort
  <2>2. CASE Close(c)
    BY <2>1, <2>2
    DEF Close, CloseInv, FlagType, Shutdown, DeferredClose, TerminalLast
  <2>3. CASE CloseWithTerminal(c)
    <3>1. cons[c] # "ended"
      BY <2>3 DEF CloseWithTerminal, Open, CloseInv, TerminalLast
    <3> QED
      BY <2>1, <2>3, <3>1
      DEF CloseWithTerminal, Open, CloseInv, FlagType, Shutdown, DeferredClose, TerminalLast
  <2>4. CASE Abort(c)
    <3>1. FlagType' /\ TerminalLast'
      BY <2>1, <2>4 DEF Abort, CloseInv, FlagType, TerminalLast
    <3>2. DeferredClose'
      BY <2>4 DEF Abort, CloseInv, FlagType, DeferredClose
    <3>3. \A d \in Channels : qAborted'[d] \/ d \in toAbort'
      <4>1. \A d \in Channels : qAborted[d] \/ d \in toAbort
        BY <2>4 DEF Abort, CloseInv, Shutdown
      <4> QED
        BY <2>4, <4>1 DEF Abort, CloseInv, FlagType
    <3>4. Shutdown'
      BY <2>4, <3>3 DEF Abort, CloseInv, FlagType, Shutdown
    <3> QED
      BY <3>1, <3>2, <3>4 DEF CloseInv
  <2> QED
    BY <1>4, <2>2, <2>3, <2>4
<1>5. ASSUME AbortChannels PROVE CloseInv'
  BY <1>5
  DEF AbortChannels, account, CloseInv, FlagType, Shutdown, DeferredClose, TerminalLast
<1>6. ASSUME NEW t \in Txns, NEW n \in Shapes, Reserve(t, n) \/ NoRoom(t, n)
      PROVE  CloseInv'
  BY <1>6, CloseUnchanged DEF Reserve, NoRoom, flags, waiting
<1>7. ASSUME NEW t \in Txns, NEW n \in Shapes, AtomicOutput(t, n) PROVE CloseInv'
  <2>1. n \in [Channels -> Nat]
    BY ChannelsAssumption
  <2>2. \A c \in Channels : cons[c] = "ended" => ~(n[c] > 0)
    BY <1>7 DEF AtomicOutput, Touched, Open, CloseInv, TerminalLast
  <2>3. \A c \in Channels : cons'[c] = "ended" => cons[c] = "ended" /\ size'[c] = size[c]
    BY <1>7, <2>1, <2>2 DEF AtomicOutput, SizeInv
  <2> QED
    BY <1>7, <2>3, CloseUnchanged DEF AtomicOutput, flags
<1>8. ASSUME NEW H \in SUBSET Txns, Authorize(H) PROVE CloseInv'
  <2>1. \A c \in Channels : closeRequested[c] \/ qClosed[c] => authorized'[c] = authorized[c]
    BY <1>8, AuthorizeClosed
  <2>2. UNCHANGED <<flags, size, cons, toAbort>>
    BY <1>8 DEF Authorize, flags, waiting
  <2> QED
    BY <2>1, <2>2 DEF flags, CloseInv, FlagType, Shutdown, DeferredClose, TerminalLast
<1>9. ASSUME NEW t \in Txns, Resolve(t) PROVE CloseInv'
  BY <1>9, CloseResolve
<1>10. ASSUME NEW t \in Txns, NEW c \in Channels,
              SignalPublished(t, c) \/ SignalReleased(t, c)
       PROVE  CloseInv'
  <2>1. /\ UNCHANGED <<flags, authorized, toAbort, size>>
        /\ \A d \in Channels : cons'[d] = "ended" => cons[d] = "ended"
    BY <1>10, NotifyConsumersEffect DEF SignalPublished, SignalReleased, flags, account
  <2> QED
    BY <2>1, CloseUnchanged
<1>11. ASSUME NEW t \in Txns, Release(t) PROVE CloseInv'
  BY <1>11, CloseUnchanged DEF Release, flags, waiting
<1>12. ASSUME UNCHANGED vars PROVE CloseInv'
  BY <1>12, CloseUnchanged DEF vars, account, waiting, flags
<1> QED
  BY <1>1, <1>2, <1>3, <1>4, <1>5, <1>6, <1>7, <1>8, <1>9, <1>10, <1>11, <1>12
  DEF Next, Notify

-----------------------------------------------------------------------------
IInv == CounterInv /\ SizeInv /\ WaitType /\ CloseInv

(* The inductive invariant holds in every reachable state.                     *)
LEMMA Invariance == Spec => []IInv
<1>1. Init => IInv
  <2>1. Init => WaitType
    BY DEF Init, WaitType, ConsumerState
  <2> QED
    BY <2>1, CounterInit, SizeInit, CloseInit DEF IInv
<1>2. IInv /\ [Next]_vars => IInv'
  BY CounterStep, SizeStep, WaitStep, CloseStep DEF IInv
<1> QED
  BY <1>1, <1>2, PTL DEF Spec

(* Every variable keeps its type; in particular the unsigned counters         *)
(* m_reservedCapacity and m_authorizedCapacity never go below zero.           *)
THEOREM TypeCorrect == Spec => []TypeOK
<1>1. IInv => TypeOK
  BY DEF IInv, CounterInv, CounterType, SizeInv, WaitType, CloseInv, FlagType, TypeOK
<1> QED
  BY <1>1, Invariance, PTL

(* The terminal is the last thing a consumer of the channel can see.          *)
THEOREM TerminalCorrect == Spec => []TerminalLast
<1>1. IInv => TerminalLast
  BY DEF IInv, CloseInv
<1> QED
  BY <1>1, Invariance, PTL

(* A deferred close takes effect with the last authorized batch, or           *)
(* abortChannels is on its way; media that was authorized before the close    *)
(* never meets a closed queue.                                                *)
THEOREM DeferredCloseCorrect == Spec => []DeferredClose
<1>1. IInv => DeferredClose
  BY DEF IInv, CloseInv
<1> QED
  BY <1>1, Invariance, PTL
=============================================================================
