------------------------- MODULE OutputWakeupProofs -------------------------
(***************************************************************************)
(* No wakeup between the nodes of a graph is lost: proofs of                *)
(* ConsumerNotForgotten and ProducerNotForgotten for every set of channels, *)
(* transaction owners and producers, every capacity and every batch.        *)
(*                                                                         *)
(* Both are proved channel by channel.  A step either notifies the sleepers *)
(* of a channel, or leaves them nothing new to be woken for, or leaves      *)
(* behind somebody who is going to notify them.                            *)
(***************************************************************************)
EXTENDS OutputChannelsProofs

(* A notification still to be delivered stays so until its sender takes it up. *)
LEMMA PendingKept ==
    ASSUME NEW S, NEW c \in Channels,
           \A t \in Txns : txn[t] \in S /\ c \in signal[t]
                              => txn'[t] \in S /\ c \in signal'[t]
    PROVE  Pending(S, c) => Pending(S, c)'
BY DEF Pending

-----------------------------------------------------------------------------
(* Consumers.                                                              *)

(* A node that waits on its wakeup, or is going to: it has found nothing and  *)
(* was not notified since.                                                  *)
Asleep(c) == cons[c] = "parked" \/ (cons[c] \in {"empty", "live"} /\ ~wake[c])

ConsumerOK(c) ==
    ~Pending({"committed"}, c) /\ c \notin toAbort =>
        /\ Asleep(c) => size[c] = 0 /\ ~TerminalReady(c)
        /\ cons[c] = "blocked" => size[c] = 0 /\ ~qClosed[c]

(* ConsumerNotForgotten, and the same of the nodes that are about to wait.     *)
ConsumerInv == \A c \in Channels : ConsumerOK(c)

(* What a step does not give a sleeper to read, or who is about to tell it.   *)
NothingNew(c) ==
    \/ Pending({"committed"}, c)' \/ c \in toAbort'
    \/ /\ size[c] = 0 => size'[c] = 0
       /\ TerminalReady(c)' => TerminalReady(c)
       /\ qClosed'[c] => qClosed[c]

(* A step that leaves a consumer and its channel alone keeps it cared for.     *)
LEMMA ConsumerFrame ==
    ASSUME ConsumerInv, NEW c \in Channels,
           Pending({"committed"}, c) => Pending({"committed"}, c)',
           c \in toAbort => c \in toAbort',
           Asleep(c)' => Asleep(c),
           cons'[c] = "blocked" => cons[c] = "blocked",
           NothingNew(c)
    PROVE  ConsumerOK(c)'
BY DEF ConsumerInv, ConsumerOK, NothingNew

(* A consumer whose wakeup is set is cared for, whatever its channel holds.    *)
LEMMA AwakeOK ==
    ASSUME NEW c \in Channels, ~Asleep(c)', cons'[c] # "blocked"
    PROVE  ConsumerOK(c)'
BY DEF ConsumerOK

(* A notified consumer is awake; one that is not notified stays as it was.    *)
LEMMA NotifiedAwake ==
    ASSUME WaitType, NEW S, NotifyConsumers(S)
    PROVE  /\ \A c \in Channels : c \in S => ~Asleep(c)' /\ cons'[c] # "blocked"
           /\ \A c \in Channels : c \notin S => cons'[c] = cons[c] /\ wake'[c] = wake[c]
           /\ \A c \in Channels : cons'[c] = "popped" <=> cons[c] = "popped"
BY DEF WaitType, NotifyConsumers, WakePoppers, WakeConsumers, Asleep, ConsumerState

(* A step that touches neither the records nor the other channels.            *)
LEMMA ConsumerElsewhere ==
    ASSUME ConsumerInv, NEW c \in Channels,
           UNCHANGED <<txn, signal>>, c \in toAbort => c \in toAbort',
           cons'[c] = cons[c], wake'[c] = wake[c], size'[c] = size[c],
           qClosed'[c] = qClosed[c], qAborted'[c] = qAborted[c],
           terminal'[c] = terminal[c], authorized'[c] = authorized[c]
    PROVE  ConsumerOK(c)'
<1>1. Pending({"committed"}, c) => Pending({"committed"}, c)'
  BY DEF Pending
<1>2. Asleep(c)' => Asleep(c)
  BY DEF Asleep
<1>3. NothingNew(c)
  BY DEF NothingNew, TerminalReady
<1> QED
  BY <1>1, <1>2, <1>3, ConsumerFrame

(* Looking, popping and going to sleep forget no consumer.                     *)
LEMMA ConsumerConsume ==
    ASSUME IInv, ConsumerInv, NEW c \in Channels, Consume(c)
    PROVE  ConsumerInv'
<1> SUFFICES ASSUME NEW d \in Channels PROVE ConsumerOK(d)'
  BY DEF ConsumerInv
<1> USE DEF IInv, WaitType, SizeInv, CloseInv, FlagType
<1>1. UNCHANGED <<txn, signal, toAbort, qClosed, qAborted, authorized>>
  BY DEF Consume, TryPopBuffer, TryPopTerminal, TryPopNothing, ReadAborted, ReadClosed,
    ReadOptional, BeginPop, QueuePopWaits, QueuePopTakes, QueuePopFails,
    FinishPopBuffer, FinishPopTerminal, FinishPopFailed, account
<1>2. CASE d # c
  <2>1. /\ cons'[d] = cons[d] /\ wake'[d] = wake[d]
        /\ size'[d] = size[d] /\ terminal'[d] = terminal[d]
    BY <1>2 DEF Consume, TryPopBuffer, TryPopTerminal, TryPopNothing, ReadAborted,
      ReadClosed, ReadOptional, BeginPop, QueuePopWaits, QueuePopTakes, QueuePopFails,
      FinishPopBuffer, FinishPopTerminal, FinishPopFailed, account
  <2> QED
    BY <1>1, <2>1, ConsumerElsewhere
<1>3. CASE d = c
  <2>1. CASE TryPopNothing(c)
    BY <1>3, <2>1 DEF TryPopNothing, account, ConsumerOK, TerminalReady
  <2>2. CASE QueuePopWaits(c)
    BY <1>3, <2>2 DEF QueuePopWaits, account, ConsumerOK, Asleep
  <2>3. CASE ReadAborted(c) \/ ReadClosed(c) \/ ReadOptional(c)
    <3>1. /\ UNCHANGED <<size, terminal>>
          /\ Asleep(c)' => Asleep(c)
          /\ cons'[c] # "blocked"
      BY <2>3 DEF ReadAborted, ReadClosed, ReadOptional, account, Asleep
    <3>2. NothingNew(c) /\ (Pending({"committed"}, c) => Pending({"committed"}, c)')
      BY <1>1, <3>1 DEF NothingNew, TerminalReady, Pending
    <3> QED
      BY <1>1, <1>3, <3>1, <3>2, ConsumerFrame
  <2>4. CASE \/ TryPopBuffer(c) \/ TryPopTerminal(c) \/ BeginPop(c) \/ QueuePopTakes(c)
             \/ QueuePopFails(c) \/ FinishPopBuffer(c) \/ FinishPopTerminal(c)
             \/ FinishPopFailed(c)
    <3>1. cons'[c] \in {"ready", "ended", "popping", "popped", "missed", "abortedOut",
                        "closedOut"}
      BY <2>4 DEF TryPopBuffer, TryPopTerminal, BeginPop, QueuePopTakes, QueuePopFails,
        FinishPopBuffer, FinishPopTerminal, FinishPopFailed
    <3> QED
      BY <1>3, <3>1, AwakeOK DEF Asleep
  <2> QED
    BY <2>1, <2>2, <2>3, <2>4 DEF Consume
<1> QED
  BY <1>2, <1>3

(* Commit and cancel forget no consumer.                                       *)
LEMMA ConsumerResolve ==
    ASSUME IInv, ConsumerInv, NEW t \in Txns, Resolve(t)
    PROVE  ConsumerInv'
<1> SUFFICES ASSUME NEW d \in Channels PROVE ConsumerOK(d)'
  BY DEF ConsumerInv
<1> USE DEF IInv, CounterInv, CounterType, WaitType, SizeInv, CloseInv, FlagType
<1>1. Pending({"committed"}, d) => Pending({"committed"}, d)'
  <2>1. \A u \in Txns : txn[u] = "committed" => txn'[u] = txn[u] /\ signal'[u] = signal[u]
    BY DEF Resolve, Commit, CommitAborted, Cancel, waiting
  <2> QED
    BY <2>1, PendingKept
<1>2. toAbort' = toAbort
  BY DEF Resolve, Commit, CommitAborted, Cancel, waiting
<1>3. CASE Commit(t)
  <2>1. Asleep(d)' => Asleep(d)
    BY <1>3 DEF Commit, Asleep
  <2>2. NothingNew(d)
    <3>1. CASE d \in Touched(need[t])
      <4>1. txn'[t] = "committed" /\ d \in signal'[t]
        BY <1>3, <3>1 DEF Commit
      <4> QED
        BY <4>1 DEF NothingNew, Pending
    <3>2. CASE d \notin Touched(need[t])
      <4>1. need[t][d] = 0
        BY <3>2 DEF Touched
      <4> QED
        BY <1>3, <3>2, <4>1 DEF Commit, NothingNew, TerminalReady
    <3> QED
      BY <3>1, <3>2
  <2> QED
    BY <1>1, <1>2, <1>3, <2>1, <2>2, ConsumerFrame DEF Commit
<1>4. CASE CommitAborted(t)
  <2>1. Asleep(d)' => Asleep(d)
    BY <1>4 DEF CommitAborted, waiting, Asleep
  <2>2. d \in toAbort \/ qAborted[d]
    BY <1>4 DEF CommitAborted, Shutdown, Touched
  <2>3. NothingNew(d)
    BY <1>2, <1>4, <2>2 DEF CommitAborted, NothingNew, TerminalReady
  <2> QED
    BY <1>1, <1>2, <1>4, <2>1, <2>3, ConsumerFrame DEF CommitAborted, waiting
<1>5. CASE Cancel(t)
  <2>1. CASE d \in FinalizedBy(t)
    BY <1>5, <2>1, NotifiedAwake, AwakeOK DEF Cancel
  <2>2. CASE d \notin FinalizedBy(t)
    <3>1. cons'[d] = cons[d] /\ wake'[d] = wake[d]
      BY <1>5, <2>2, NotifiedAwake DEF Cancel
    <3>2. AuthorizedBy(t, d) \in Nat /\ (d \notin Touched(need[t]) => AuthorizedBy(t, d) = 0)
      BY DEF AuthorizedBy, Touched
    <3>3. TerminalReady(d)' => TerminalReady(d)
      <4> SUFFICES ASSUME TerminalReady(d)', authorized[d] # 0 PROVE FALSE
        BY <1>5 DEF TerminalReady, Cancel
      <4>1. terminal[d] /\ ~qAborted[d] /\ authorized[d] - AuthorizedBy(t, d) = 0
        BY <1>5 DEF TerminalReady, Cancel
      <4>2. closeRequested[d] /\ ~qClosed[d]
        BY <4>1 DEF Shutdown, DeferredClose
      <4>3. d \in Touched(need[t])
        BY <3>2, <4>1
      <4> QED
        BY <2>2, <4>1, <4>2, <4>3 DEF FinalizedBy
    <3>4. NothingNew(d)
      BY <1>5, <2>2, <3>3 DEF NothingNew, Cancel
    <3> QED
      BY <1>1, <1>2, <3>1, <3>4, ConsumerFrame DEF Asleep
  <2> QED
    BY <2>1, <2>2
<1> QED
  BY <1>3, <1>4, <1>5 DEF Resolve

(* No step forgets a consumer.                                                 *)
LEMMA ConsumerStep == IInv /\ ConsumerInv /\ [Next]_vars => ConsumerInv'
<1> SUFFICES ASSUME IInv, ConsumerInv, [Next]_vars PROVE ConsumerInv'
  OBVIOUS
<1> USE DEF IInv, WaitType, SizeInv, CloseInv, FlagType
<1>1. ASSUME NEW p \in Producers, NEW c \in Channels, PushAccepted(p, c)
      PROVE  ConsumerInv'
  <2> SUFFICES ASSUME NEW d \in Channels PROVE ConsumerOK(d)'
    BY DEF ConsumerInv
  <2>1. CASE d = c
    BY <1>1, <2>1, NotifiedAwake, AwakeOK DEF PushAccepted
  <2>2. CASE d # c
    <3>1. cons'[d] = cons[d] /\ wake'[d] = wake[d]
      BY <1>1, <2>2, NotifiedAwake DEF PushAccepted
    <3> QED
      BY <1>1, <2>2, <3>1, ConsumerElsewhere DEF PushAccepted
  <2> QED
    BY <2>1, <2>2
<1>2. ASSUME NEW c \in Channels, Close(c) \/ CloseWithTerminal(c) \/ Abort(c)
      PROVE  ConsumerInv'
  <2> SUFFICES ASSUME NEW d \in Channels PROVE ConsumerOK(d)'
    BY DEF ConsumerInv
  <2>0. NotifyConsumers({c})
    BY <1>2 DEF Close, CloseWithTerminal, Abort
  <2>1. CASE d = c
    BY <2>0, <2>1, NotifiedAwake, AwakeOK
  <2>2. CASE d # c
    <3>1. cons'[d] = cons[d] /\ wake'[d] = wake[d]
      BY <2>0, <2>2, NotifiedAwake
    <3>2. /\ UNCHANGED <<txn, signal, size, authorized>>
          /\ d \in toAbort => d \in toAbort'
          /\ qClosed'[d] = qClosed[d] /\ qAborted'[d] = qAborted[d]
          /\ terminal'[d] = terminal[d]
      BY <1>2, <2>2 DEF Close, CloseWithTerminal, Abort
    <3> QED
      BY <3>1, <3>2, ConsumerElsewhere
  <2> QED
    BY <2>1, <2>2
<1>3. ASSUME AbortChannels PROVE ConsumerInv'
  BY <1>3 DEF AbortChannels, ConsumerInv, ConsumerOK
<1>4. ASSUME NEW t \in Txns, NEW n \in Shapes, AtomicOutput(t, n) PROVE ConsumerInv'
  <2> SUFFICES ASSUME NEW d \in Channels PROVE ConsumerOK(d)'
    BY DEF ConsumerInv
  <2>1. Pending({"committed"}, d) => Pending({"committed"}, d)'
    <3>1. \A u \in Txns : txn[u] = "committed" => txn'[u] = txn[u] /\ signal'[u] = signal[u]
      BY <1>4 DEF AtomicOutput, Runnable
    <3> QED
      BY <3>1, PendingKept
  <2>2. NothingNew(d)
    <3>1. CASE d \in Touched(n)
      <4>1. txn'[t] = "committed" /\ d \in signal'[t]
        BY <1>4, <3>1 DEF AtomicOutput, CounterInv, CounterType
      <4> QED
        BY <4>1 DEF NothingNew, Pending
    <3>2. CASE d \notin Touched(n)
      <4>1. n[d] = 0
        BY <3>2, ChannelsAssumption DEF Touched
      <4> QED
        BY <1>4, <4>1 DEF AtomicOutput, NothingNew, TerminalReady
    <3> QED
      BY <3>1, <3>2
  <2> QED
    BY <1>4, <2>1, <2>2, ConsumerFrame DEF AtomicOutput, Asleep
<1>5. ASSUME NEW H \in SUBSET Txns, Authorize(H) PROVE ConsumerInv'
  <2> SUFFICES ASSUME NEW d \in Channels PROVE ConsumerOK(d)'
    BY DEF ConsumerInv
  <2>1. Pending({"committed"}, d) => Pending({"committed"}, d)'
    <3>1. \A u \in Txns : txn[u] = "committed" => txn'[u] = txn[u] /\ signal'[u] = signal[u]
      BY <1>5 DEF Authorize, waiting
    <3> QED
      BY <3>1, PendingKept
  <2>2. closeRequested[d] => authorized'[d] = authorized[d]
    BY <1>5, AuthorizeClosed
  <2>3. NothingNew(d)
    BY <1>5, <2>2 DEF Authorize, waiting, NothingNew, TerminalReady, Shutdown
  <2> QED
    BY <1>5, <2>1, <2>3, ConsumerFrame DEF Authorize, waiting, Asleep
<1>6. ASSUME NEW t \in Txns, NEW c \in Channels, SignalPublished(t, c)
      PROVE  ConsumerInv'
  <2> SUFFICES ASSUME NEW d \in Channels PROVE ConsumerOK(d)'
    BY DEF ConsumerInv
  <2>1. CASE d = c
    BY <1>6, <2>1, NotifiedAwake, AwakeOK DEF SignalPublished
  <2>2. CASE d # c
    <3>1. cons'[d] = cons[d] /\ wake'[d] = wake[d]
      BY <1>6, <2>2, NotifiedAwake DEF SignalPublished
    <3>2. Pending({"committed"}, d) => Pending({"committed"}, d)'
      BY <1>6, <2>2, PendingKept DEF SignalPublished, account
    <3>3. NothingNew(d)
      BY <1>6 DEF SignalPublished, account, NothingNew, TerminalReady
    <3> QED
      BY <1>6, <3>1, <3>2, <3>3, ConsumerFrame DEF SignalPublished, Asleep
  <2> QED
    BY <2>1, <2>2
<1>7. ASSUME UNCHANGED <<size, qClosed, qAborted, terminal, authorized, cons, wake, toAbort>>,
             \A u \in Txns : txn[u] = "committed" /\ signal[u] # {}
                               => txn'[u] = txn[u] /\ signal'[u] = signal[u]
      PROVE  ConsumerInv'
  <2> SUFFICES ASSUME NEW d \in Channels PROVE ConsumerOK(d)'
    BY DEF ConsumerInv
  <2>1. Pending({"committed"}, d) => Pending({"committed"}, d)'
    BY <1>7, PendingKept
  <2>2. NothingNew(d) /\ (Asleep(d)' => Asleep(d))
    BY <1>7 DEF NothingNew, TerminalReady, Asleep
  <2> QED
    BY <1>7, <2>1, <2>2, ConsumerFrame
<1>8. ASSUME NEW p \in Producers, NEW c \in Channels, PushWouldBlock(p, c)
      PROVE  ConsumerInv'
  BY <1>7, <1>8 DEF PushWouldBlock, account
<1>9. ASSUME NEW t \in Txns, NEW n \in Shapes, Reserve(t, n) \/ NoRoom(t, n)
      PROVE  ConsumerInv'
  <2>1. CASE Reserve(t, n)
    <3>1. \A u \in Txns : txn[u] = "committed" => txn'[u] = txn[u]
      BY <2>1 DEF Reserve, Runnable, CounterInv, CounterType
    <3> QED
      BY <1>7, <2>1, <3>1 DEF Reserve, waiting
  <2>2. CASE NoRoom(t, n)
    BY <1>7, <2>2 DEF NoRoom
  <2> QED
    BY <1>9, <2>1, <2>2
<1>10. ASSUME NEW t \in Txns, NEW c \in Channels, SignalReleased(t, c)
       PROVE  ConsumerInv'
  BY <1>7, <1>10 DEF SignalReleased, account
<1>11. ASSUME NEW t \in Txns, Release(t) PROVE ConsumerInv'
  BY <1>7, <1>11 DEF Release, waiting
<1>12. ASSUME UNCHANGED vars PROVE ConsumerInv'
  BY <1>7, <1>12 DEF vars, account, waiting
<1> QED
  BY <1>1, <1>2, <1>3, <1>4, <1>5, <1>6, <1>8, <1>9, <1>10, <1>11, <1>12,
     ConsumerConsume, ConsumerResolve
  DEF Next, Notify

(* No node sleeps on media or on the terminal, and no pop() on the end of its *)
(* input, unless a commit that has unlocked is about to notify it or          *)
(* abortChannels is about to reach the channel.                               *)
THEOREM ConsumerCorrect == Spec => []ConsumerNotForgotten
<1>1. Init => ConsumerInv
  BY DEF Init, ConsumerInv, ConsumerOK, Asleep
<1>2. ConsumerInv => ConsumerNotForgotten
  BY DEF ConsumerInv, ConsumerOK, Asleep, ConsumerNotForgotten
<1> QED
  BY <1>1, <1>2, Invariance, ConsumerStep, PTL DEF Spec

-----------------------------------------------------------------------------
(* Producers.                                                              *)

Load(c) == size[c] + reserved[c]

(* Somebody is going to notify the producers of the channel.                  *)
Announced(c) == cons[c] = "popped" \/ Pending({"cancelled"}, c) \/ c \in toAbort

(* A parked owner waits for a channel that was not aborted: abort() wakes it. *)
ParkedOK(t) ==
    /\ (\A c \in Touched(need[t]) : Fits(need[t], c)) =>
           \E c \in Touched(need[t]) : Announced(c)
    /\ \E c \in Touched(need[t]) : ~qAborted[c]

PushOK(c) ==
    blockedOn[c] \cup parkedOn[c] # {} /\ (HasRoom(c) \/ ~Open(c)) => Announced(c)

ProducerInv ==
    /\ \A c \in Channels : PushOK(c)
    /\ \A t \in parkedTxn : ParkedOK(t)

(* A step that makes room in a channel leaves somebody behind to announce it,  *)
(* and does not take an announcement away.                                   *)
Steady(c) ==
    /\ Announced(c) => Announced(c)'
    /\ Load(c)' >= Load(c) \/ Announced(c)'
    /\ Open(c)' <=> Open(c)
    /\ qAborted'[c] <=> qAborted[c]
    /\ blockedOn'[c] \subseteq blockedOn[c] /\ parkedOn'[c] \subseteq parkedOn[c]

(* Reserving slots, or pushing into a channel, adds to its load.              *)
LEMMA LoadGrows ==
    ASSUME NEW c, NEW k \in Nat, size[c] \in Nat, reserved[c] \in Nat,
           \/ size'[c] = size[c] /\ reserved'[c] = reserved[c] + k
           \/ size'[c] = size[c] + k /\ reserved'[c] = reserved[c]
    PROVE  Load(c)' >= Load(c)
BY DEF Load

(* S are the channels whose producers the step has notified.                  *)
LEMMA ProducerFrame ==
    ASSUME IInv, IInv', ProducerInv, NEW S,
           \A c \in Channels : c \notin S => Steady(c),
           \A c \in Channels : c \in S => blockedOn'[c] = {} /\ parkedOn'[c] = {},
           parkedTxn' \subseteq parkedTxn,
           \A t \in parkedTxn' : need'[t] = need[t] /\ Touched(need[t]) \cap S = {}
    PROVE  ProducerInv'
<1>1. ASSUME NEW c \in Channels PROVE PushOK(c)'
  <2>1. CASE c \in S
    BY <2>1 DEF PushOK
  <2>2. CASE c \notin S
    <3>1. Load(c) \in Nat /\ Load(c)' \in Nat /\ Capacity[c] \in Nat
      BY ChannelsAssumption DEF IInv, SizeInv, CounterInv, CounterType, Load
    <3>2. (HasRoom(c) <=> Load(c) < Capacity[c]) /\ (HasRoom(c)' <=> Load(c)' < Capacity[c])
      <4>1. /\ size[c] \in Nat /\ reserved[c] \in Nat
            /\ size'[c] \in Nat /\ reserved'[c] \in Nat
        BY DEF IInv, SizeInv, CounterInv, CounterType
      <4> QED
        BY <3>1, <4>1 DEF HasRoom, Load
    <3>3. PushOK(c)
      BY DEF ProducerInv
    <3> QED
      BY <2>2, <3>1, <3>2, <3>3 DEF PushOK, Steady
  <2> QED
    BY <2>1, <2>2
<1>2. ASSUME NEW t \in parkedTxn' PROVE ParkedOK(t)'
  <2> DEFINE n == need[t]
  <2>1. /\ ParkedOK(t) /\ need'[t] = n /\ n \in [Channels -> Nat]
    BY DEF ProducerInv, IInv, WaitType, CounterInv, CounterType
  <2>2. \A c \in Touched(n) : c \in Channels /\ Steady(c)
    BY DEF Touched
  <2>3. \A c \in Touched(n) : /\ Fits(n, c) <=> Load(c) + n[c] <= Capacity[c]
                              /\ Fits(n, c)' <=> Load(c)' + n[c] <= Capacity[c]
                              /\ Load(c) \in Nat /\ Load(c)' \in Nat
                              /\ n[c] \in Nat /\ Capacity[c] \in Nat
    <3> SUFFICES ASSUME NEW c \in Channels
                 PROVE  /\ Fits(n, c) <=> Load(c) + n[c] <= Capacity[c]
                        /\ Fits(n, c)' <=> Load(c)' + n[c] <= Capacity[c]
                        /\ Load(c) \in Nat /\ Load(c)' \in Nat
                        /\ n[c] \in Nat /\ Capacity[c] \in Nat
      BY <2>2
    <3>1. /\ size[c] \in Nat /\ reserved[c] \in Nat
          /\ size'[c] \in Nat /\ reserved'[c] \in Nat
          /\ need[t][c] \in Nat /\ Capacity[c] \in Nat
      BY <2>1, ChannelsAssumption DEF IInv, SizeInv, CounterInv, CounterType
    <3> QED
      BY <2>1, <3>1 DEF Fits, Load
  <2>4. \E c \in Touched(n) : ~qAborted'[c]
    BY <2>1, <2>2 DEF ParkedOK, Steady
  <2>5. ASSUME \A c \in Touched(n) : Fits(n, c)'
        PROVE  \E c \in Touched(n) : Announced(c)'
    <3>1. CASE \A c \in Touched(n) : Fits(n, c)
      <4>1. PICK c \in Touched(n) : Announced(c)
        BY <2>1, <3>1 DEF ParkedOK
      <4> QED
        BY <2>2, <4>1 DEF Steady
    <3>2. CASE \E c \in Touched(n) : ~Fits(n, c)
      <4>1. PICK c \in Touched(n) : ~Fits(n, c)
        BY <3>2
      <4>2. ~(Load(c)' >= Load(c))
        BY <2>3, <2>5, <4>1
      <4> QED
        BY <2>2, <4>2 DEF Steady
    <3> QED
      BY <3>1, <3>2
  <2> QED
    BY <2>1, <2>4, <2>5 DEF ParkedOK, Touched
<1> QED
  BY <1>1, <1>2 DEF ProducerInv

(* What is announced stays announced while its announcers have not moved.      *)
LEMMA AnnouncedKept ==
    ASSUME NEW c \in Channels,
           cons[c] = "popped" => cons'[c] = "popped",
           c \in toAbort => c \in toAbort',
           \A t \in Txns : txn[t] = "cancelled" /\ c \in signal[t]
                              => txn'[t] = "cancelled" /\ c \in signal'[t]
    PROVE  Announced(c) => Announced(c)'
BY PendingKept DEF Announced

(* A step that leaves the slots and the flags of a channel alone.              *)
LEMMA SteadyStill ==
    ASSUME IInv, NEW c \in Channels,
           UNCHANGED <<size, reserved, qClosed, qAborted, closeRequested>>,
           Announced(c) => Announced(c)',
           blockedOn'[c] \subseteq blockedOn[c], parkedOn'[c] \subseteq parkedOn[c]
    PROVE  Steady(c)
<1>1. size[c] \in Nat /\ reserved[c] \in Nat
  BY DEF IInv, SizeInv, CounterInv, CounterType
<1>2. Load(c)' >= Load(c)
  BY <1>1 DEF Load
<1>3. (Open(c)' <=> Open(c)) /\ (qAborted'[c] <=> qAborted[c])
  BY DEF Open
<1> QED
  BY <1>2, <1>3 DEF Steady

(* A step that notifies the producers of c and leaves the other channels alone. *)
LEMMA ProducerNotified ==
    ASSUME IInv, IInv', ProducerInv, NEW c \in Channels,
           SignalMutationWaiters({c}), NotifyProducers({c}), need' = need,
           \A d \in Channels : d # c =>
              /\ cons'[d] = cons[d] \/ cons[d] # "popped"
              /\ d \in toAbort => d \in toAbort'
              /\ size'[d] = size[d] /\ reserved'[d] = reserved[d]
              /\ qClosed'[d] = qClosed[d] /\ qAborted'[d] = qAborted[d]
              /\ closeRequested'[d] = closeRequested[d]
              /\ \A t \in Txns : txn[t] = "cancelled" /\ d \in signal[t]
                                  => txn'[t] = "cancelled" /\ d \in signal'[t]
    PROVE  ProducerInv'
<1>1. ASSUME NEW d \in Channels, d \notin {c} PROVE Steady(d)
  <2>1. Announced(d) => Announced(d)'
    BY <1>1, AnnouncedKept
  <2>2. blockedOn'[d] = blockedOn[d] /\ parkedOn'[d] = parkedOn[d]
    BY <1>1 DEF SignalMutationWaiters, NotifyProducers
  <2>3. Load(d)' = Load(d) /\ Load(d) \in Nat
    BY <1>1 DEF Load, IInv, SizeInv, CounterInv, CounterType
  <2> QED
    BY <1>1, <2>1, <2>2, <2>3 DEF Steady, Open
<1>2. blockedOn'[c] = {} /\ parkedOn'[c] = {}
  BY DEF SignalMutationWaiters, NotifyProducers
<1>3. parkedTxn' \subseteq parkedTxn /\ \A t \in parkedTxn' : Touched(need[t]) \cap {c} = {}
  BY DEF NotifyProducers
<1> QED
  BY <1>1, <1>2, <1>3, ProducerFrame

(* A step after which nobody has been notified.                               *)
LEMMA ProducerQuiet ==
    ASSUME IInv, IInv', ProducerInv, parkedTxn' = parkedTxn,
           \A t \in parkedTxn : need'[t] = need[t],
           \A c \in Channels : Steady(c)
    PROVE  ProducerInv'
<1> DEFINE S == {}
<1>1. \A c \in Channels : c \notin S => Steady(c)
  OBVIOUS
<1>2. \A c \in Channels : c \in S => blockedOn'[c] = {} /\ parkedOn'[c] = {}
  OBVIOUS
<1>3. \A t \in parkedTxn' : need'[t] = need[t] /\ Touched(need[t]) \cap S = {}
  OBVIOUS
<1> QED
  BY <1>1, <1>2, <1>3, ProducerFrame

(* A pop, and the notification that follows it, forget no producer.            *)
LEMMA ProducerConsume ==
    ASSUME IInv, IInv', ProducerInv, NEW c \in Channels, Consume(c)
    PROVE  ProducerInv'
<1> USE DEF IInv, WaitType, SizeInv, CounterInv, CounterType
<1>1. CASE \/ TryPopBuffer(c) \/ TryPopTerminal(c)
           \/ FinishPopBuffer(c) \/ FinishPopTerminal(c)
  <2>1. /\ SignalMutationWaiters({c}) /\ NotifyProducers({c})
        /\ UNCHANGED <<need, reserved, qClosed, qAborted, closeRequested, txn, signal, toAbort>>
    BY <1>1 DEF TryPopBuffer, TryPopTerminal, FinishPopBuffer, FinishPopTerminal, account
  <2>2. \A d \in Channels : d # c => size'[d] = size[d] /\ cons'[d] = cons[d]
    BY <1>1 DEF TryPopBuffer, TryPopTerminal, FinishPopBuffer, FinishPopTerminal, account
  <2> QED
    BY <2>1, <2>2, ProducerNotified
<1>2. CASE \/ TryPopNothing(c) \/ ReadAborted(c) \/ ReadClosed(c) \/ ReadOptional(c)
           \/ BeginPop(c) \/ QueuePopWaits(c) \/ QueuePopFails(c) \/ FinishPopFailed(c)
  <2>1. UNCHANGED <<account, signal, parkedTxn, blockedOn, parkedOn, toAbort>>
    BY <1>2 DEF TryPopNothing, ReadAborted, ReadClosed, ReadOptional, BeginPop,
      QueuePopWaits, QueuePopFails, FinishPopFailed
  <2>2. \A d \in Channels : cons[d] = "popped" => cons'[d] = "popped"
    BY <1>2 DEF TryPopNothing, ReadAborted, ReadClosed, ReadOptional, BeginPop,
      QueuePopWaits, QueuePopFails, FinishPopFailed
  <2>3. ASSUME NEW d \in Channels PROVE Steady(d)
    <3>1. Announced(d) => Announced(d)'
      BY <2>1, <2>2, AnnouncedKept DEF account
    <3> QED
      BY <2>1, <3>1, SteadyStill DEF account
  <2> QED
    BY <2>1, <2>3, ProducerQuiet DEF account
<1>3. CASE QueuePopTakes(c)
  <2>1. /\ UNCHANGED <<qClosed, qAborted, closeRequested, reserved, txn, need, signal,
                       parkedTxn, blockedOn, parkedOn, toAbort>>
        /\ cons'[c] = "popped"
        /\ \A d \in Channels : d # c => size'[d] = size[d] /\ cons'[d] = cons[d]
    BY <1>3 DEF QueuePopTakes
  <2>2. ASSUME NEW d \in Channels PROVE Steady(d)
    <3>1. CASE d = c
      BY <2>1, <3>1 DEF Steady, Announced, Open
    <3>2. CASE d # c
      <4>1. Announced(d) => Announced(d)'
        BY <2>1, <3>2, AnnouncedKept
      <4> QED
        <5>1. Load(d)' >= Load(d)
          BY <2>1, <3>2 DEF Load
        <5> QED
          BY <2>1, <3>2, <4>1, <5>1 DEF Steady, Open
    <3> QED
      BY <3>1, <3>2
  <2> QED
    BY <2>1, <2>2, ProducerQuiet
<1> QED
  BY <1>1, <1>2, <1>3 DEF Consume

(* Commit and cancel forget no producer.                                       *)
LEMMA ProducerResolve ==
    ASSUME IInv, IInv', ProducerInv, NEW t \in Txns, Resolve(t)
    PROVE  ProducerInv'
<1> USE DEF IInv, WaitType, SizeInv, CounterInv, CounterType
<1>1. /\ UNCHANGED <<need, parkedTxn, parkedOn, toAbort, closeRequested, qAborted>>
      /\ \A c \in Channels : cons[c] = "popped" => cons'[c] = "popped"
      /\ \A c \in Channels : blockedOn'[c] \subseteq blockedOn[c]
  <2>1. CASE Commit(t) \/ CommitAborted(t)
    BY <2>1 DEF Commit, CommitAborted, waiting
  <2>2. CASE Cancel(t)
    BY <2>2, NotifiedAwake DEF Cancel, SignalMutationWaiters
  <2> QED
    BY <2>1, <2>2 DEF Resolve
<1>2. \A u \in Txns : txn[u] = "cancelled" => txn'[u] = txn[u] /\ signal'[u] = signal[u]
  BY DEF Resolve, Commit, CommitAborted, Cancel, waiting
<1>3. \A c \in Channels : Announced(c) => Announced(c)'
  BY <1>1, <1>2, AnnouncedKept
<1>4. \A c \in Channels : size[c] \in Nat /\ reserved[c] \in Nat /\ need[t][c] \in Nat
  OBVIOUS
<1>5. CASE Commit(t)
  <2>1. ASSUME NEW c \in Channels PROVE Steady(c)
    <3>1. Load(c)' = Load(c) /\ Load(c) \in Nat
      <4>1. size'[c] = size[c] + need[t][c] /\ reserved'[c] = reserved[c] - need[t][c]
        BY <1>5 DEF Commit
      <4> HIDE DEF IInv, WaitType, SizeInv, CounterInv, CounterType
      <4> QED
        BY <1>4, <4>1 DEF Load
    <3>2. Open(c)' <=> Open(c)
      BY <1>1, <1>5 DEF Commit, Open, CloseInv, FlagType
    <3> QED
      BY <1>1, <1>3, <3>1, <3>2 DEF Steady
  <2> QED
    BY <1>1, <2>1, ProducerQuiet
<1>6. CASE Cancel(t)
  <2>1. ASSUME NEW c \in Channels PROVE Steady(c)
    <3>1. Load(c)' >= Load(c) \/ Announced(c)'
      <4>1. CASE c \in Touched(need[t])
        <5>1. txn'[t] = "cancelled" /\ c \in signal'[t]
          BY <1>6, <4>1 DEF Cancel
        <5> QED
          BY <5>1 DEF Announced, Pending
      <4>2. CASE c \notin Touched(need[t])
        <5>1. need[t][c] = 0
          BY <1>4, <4>2 DEF Touched
        <5> QED
          <6>1. size'[c] = size[c] /\ reserved'[c] = reserved[c] - need[t][c]
            BY <1>6 DEF Cancel
          <6> HIDE DEF IInv, WaitType, SizeInv, CounterInv, CounterType
          <6> QED
            BY <1>4, <5>1, <6>1 DEF Load
      <4> QED
        BY <4>1, <4>2
    <3>2. Open(c)' <=> Open(c)
      BY <1>1, <1>6 DEF Cancel, FinalizedBy, Open, CloseInv, FlagType
    <3> QED
      BY <1>1, <1>3, <3>1, <3>2 DEF Steady
  <2> QED
    BY <1>1, <2>1, ProducerQuiet
<1>7. CASE CommitAborted(t)
  <2>1. \A c \in Channels : qAborted[c] \/ c \in toAbort
    BY <1>7 DEF CommitAborted, Touched, CloseInv, Shutdown
  <2>2. ASSUME NEW c \in Channels PROVE PushOK(c)'
    <3>1. CASE c \in toAbort
      BY <1>1, <3>1 DEF PushOK, Announced
    <3>2. CASE qAborted[c]
      BY <1>1, <1>3, <3>2 DEF ProducerInv, PushOK, Open
    <3> QED
      BY <2>1, <3>1, <3>2
  <2>3. ASSUME NEW u \in parkedTxn PROVE ParkedOK(u)'
    <3>1. PICK c \in Touched(need[u]) : ~qAborted[c]
      BY DEF ProducerInv, ParkedOK
    <3>2. c \in Channels /\ Announced(c)'
      BY <1>1, <2>1, <3>1 DEF Touched, Announced
    <3> QED
      BY <1>1, <3>1, <3>2 DEF ParkedOK, Touched
  <2> QED
    BY <1>1, <2>2, <2>3 DEF ProducerInv
<1> QED
  BY <1>5, <1>6, <1>7 DEF Resolve

(* No step forgets a producer.                                                 *)
LEMMA ProducerStep == IInv /\ IInv' /\ ProducerInv /\ [Next]_vars => ProducerInv'
<1> SUFFICES ASSUME IInv, IInv', ProducerInv, [Next]_vars PROVE ProducerInv'
  OBVIOUS
<1> USE DEF IInv, WaitType, SizeInv, CounterInv, CounterType
<1>1. ASSUME NEW c \in Channels, Close(c) \/ CloseWithTerminal(c) \/ Abort(c)
      PROVE  ProducerInv'
  <2>1. /\ NotifyConsumers({c}) /\ SignalMutationWaiters({c}) /\ NotifyProducers({c})
        /\ UNCHANGED <<need, size, reserved, txn, signal>>
    BY <1>1 DEF Close, CloseWithTerminal, Abort
  <2>2. \A d \in Channels : d # c =>
           /\ d \in toAbort => d \in toAbort'
           /\ qClosed'[d] = qClosed[d] /\ qAborted'[d] = qAborted[d]
           /\ closeRequested'[d] = closeRequested[d]
    <3>1. CASE Close(c)
      BY <3>1 DEF Close, CloseInv, FlagType
    <3>2. CASE CloseWithTerminal(c)
      BY <3>2 DEF CloseWithTerminal, CloseInv, FlagType
    <3>3. CASE Abort(c)
      BY <3>3 DEF Abort, CloseInv, FlagType
    <3> QED
      BY <1>1, <3>1, <3>2, <3>3
  <2>3. \A d \in Channels : d # c => cons'[d] = cons[d]
    BY <2>1, NotifiedAwake
  <2> QED
    BY <2>1, <2>2, <2>3, ProducerNotified
<1>2. ASSUME NEW t \in Txns, NEW c \in Channels, SignalReleased(t, c)
      PROVE  ProducerInv'
  <2>1. /\ SignalMutationWaiters({c}) /\ NotifyProducers({c})
        /\ UNCHANGED <<account, cons, toAbort>>
        /\ \A u \in Txns, d \in Channels : d # c /\ d \in signal[u] => d \in signal'[u]
    BY <1>2 DEF SignalReleased
  <2> QED
    BY <2>1, ProducerNotified DEF account
<1>3. ASSUME NEW p \in Producers, NEW c \in Channels, PushAccepted(p, c)
      PROVE  ProducerInv'
  <2>1. ASSUME NEW d \in Channels PROVE Steady(d)
    <3>1. Announced(d) => Announced(d)'
      BY <1>3, NotifiedAwake, AnnouncedKept DEF PushAccepted
    <3>2. Load(d)' >= Load(d)
      BY <1>3 DEF PushAccepted, Load
    <3>3. blockedOn'[d] \subseteq blockedOn[d]
      BY <1>3 DEF PushAccepted, SignalMutationWaiters
    <3> QED
      BY <1>3, <3>1, <3>2, <3>3 DEF PushAccepted, Steady, Open
  <2> QED
    BY <1>3, <2>1, ProducerQuiet DEF PushAccepted
<1>4. ASSUME NEW p \in Producers, NEW c \in Channels, PushWouldBlock(p, c)
      PROVE  ProducerInv'
  <2>1. UNCHANGED <<account, signal, parkedTxn, cons, toAbort>>
    BY <1>4 DEF PushWouldBlock
  <2>2. \A d \in Channels : Announced(d)' <=> Announced(d)
    BY <2>1 DEF account, Announced, Pending
  <2>3. ASSUME NEW d \in Channels PROVE PushOK(d)'
    <3>1. CASE d = c
      BY <1>4, <2>1, <3>1 DEF PushWouldBlock, PushOK, account, HasRoom, Open
    <3>2. CASE d # c
      <4>1. blockedOn'[d] = blockedOn[d] /\ parkedOn'[d] = parkedOn[d]
        BY <1>4, <3>2 DEF PushWouldBlock
      <4> QED
        BY <2>1, <2>2, <4>1 DEF ProducerInv, PushOK, account, HasRoom, Open
    <3> QED
      BY <3>1, <3>2
  <2>4. ASSUME NEW t \in parkedTxn PROVE ParkedOK(t)'
    BY <2>1, <2>2 DEF ProducerInv, ParkedOK, account, Fits, Touched
  <2> QED
    BY <2>1, <2>3, <2>4 DEF ProducerInv
<1>5. ASSUME AbortChannels PROVE ProducerInv'
  <2>1. \A c \in Channels : Announced(c)'
    BY <1>5 DEF AbortChannels, Announced
  <2>2. \A t \in parkedTxn : ParkedOK(t)'
    BY <1>5, <2>1 DEF AbortChannels, account, ProducerInv, ParkedOK, Touched
  <2> QED
    BY <1>5, <2>1, <2>2 DEF AbortChannels, ProducerInv, PushOK
<1>6. ASSUME NEW t \in Txns, NEW n \in Shapes, NoRoom(t, n) PROVE ProducerInv'
  <2>1. /\ UNCHANGED <<size, qClosed, qAborted, closeRequested, reserved, txn, signal,
                       blockedOn, parkedOn, cons, toAbort>>
        /\ parkedTxn' = parkedTxn \cup {t}
        /\ need'[t] = n /\ \A u \in Txns : u # t => need'[u] = need[u]
        /\ t \notin parkedTxn
    BY <1>6 DEF NoRoom, Runnable
  <2>2. \A d \in Channels : Announced(d)' <=> Announced(d)
    BY <2>1 DEF Announced, Pending
  <2>3. ASSUME NEW d \in Channels PROVE PushOK(d)'
    BY <2>1, <2>2 DEF ProducerInv, PushOK, HasRoom, Open
  <2>4. ParkedOK(t)'
    <3>1. PICK c \in Touched(n) : Open(c) /\ ~Fits(n, c)
      BY <1>6 DEF NoRoom
    <3>2. ~Fits(n, c)' /\ ~qAborted'[c] /\ c \in Touched(n)'
      BY <2>1, <3>1 DEF Open, Fits, Touched
    <3> QED
      BY <2>1, <3>2 DEF ParkedOK, Touched, Fits
  <2>5. ASSUME NEW u \in parkedTxn PROVE ParkedOK(u)'
    <3>1. u \in Txns /\ u # t /\ need'[u] = need[u] /\ ParkedOK(u)
      BY <2>1 DEF ProducerInv
    <3> QED
      BY <2>1, <2>2, <3>1 DEF ParkedOK, Fits, Touched
  <2> QED
    BY <2>1, <2>3, <2>4, <2>5 DEF ProducerInv
<1>7. ASSUME NEW t \in Txns, NEW n \in Shapes, Reserve(t, n) \/ AtomicOutput(t, n)
      PROVE  ProducerInv'
  <2>1. /\ UNCHANGED <<qClosed, qAborted, closeRequested, parkedTxn, blockedOn, parkedOn,
                       cons, toAbort>>
        /\ \A u \in parkedTxn : need'[u] = need[u]
        /\ \A u \in Txns : txn[u] = "cancelled" => txn'[u] = txn[u] /\ signal'[u] = signal[u]
    <3>1. CASE Reserve(t, n)
      BY <3>1 DEF Reserve, Runnable, waiting
    <3>2. CASE AtomicOutput(t, n)
      BY <3>2 DEF AtomicOutput, Runnable
    <3> QED
      BY <1>7, <3>1, <3>2
  <2>2. ASSUME NEW c \in Channels PROVE Steady(c)
    <3>1. Announced(c) => Announced(c)'
      BY <2>1, AnnouncedKept
    <3>2. Load(c)' >= Load(c)
      <4>1. n[c] \in Nat /\ size[c] \in Nat /\ reserved[c] \in Nat
        BY ChannelsAssumption
      <4>2. CASE Reserve(t, n)
        <5>1. size'[c] = size[c] /\ reserved'[c] = reserved[c] + n[c]
          BY <4>2 DEF Reserve
        <5> QED
          BY <4>1, <5>1, LoadGrows
      <4>3. CASE AtomicOutput(t, n)
        <5>1. size'[c] = size[c] + n[c] /\ reserved'[c] = reserved[c]
          BY <4>3 DEF AtomicOutput
        <5> QED
          BY <4>1, <5>1, LoadGrows
      <4> QED
        BY <1>7, <4>2, <4>3
    <3> QED
      BY <2>1, <3>1, <3>2 DEF Steady, Open
  <2> QED
    BY <2>1, <2>2, ProducerQuiet
<1>8. ASSUME UNCHANGED <<size, reserved, qClosed, qAborted, closeRequested, need, parkedTxn,
                         parkedOn, toAbort>>,
             \A c \in Channels : /\ cons[c] = "popped" => cons'[c] = "popped"
                                 /\ blockedOn'[c] \subseteq blockedOn[c],
             \A u \in Txns : txn[u] = "cancelled" /\ signal[u] # {}
                               => txn'[u] = txn[u] /\ signal'[u] = signal[u]
      PROVE  ProducerInv'
  <2>1. ASSUME NEW c \in Channels PROVE Steady(c)
    <3>1. Announced(c) => Announced(c)'
      BY <1>8, AnnouncedKept
    <3> QED
      BY <1>8, <3>1, SteadyStill
  <2> QED
    BY <1>8, <2>1, ProducerQuiet
<1>9. ASSUME NEW H \in SUBSET Txns, Authorize(H) PROVE ProducerInv'
  BY <1>8, <1>9 DEF Authorize, waiting
<1>10. ASSUME NEW t \in Txns, NEW c \in Channels, SignalPublished(t, c)
       PROVE  ProducerInv'
  <2>1. \A d \in Channels : /\ cons[d] = "popped" => cons'[d] = "popped"
                            /\ blockedOn'[d] \subseteq blockedOn[d]
    BY <1>10, NotifiedAwake DEF SignalPublished, SignalMutationWaiters
  <2>2. \A u \in Txns : txn[u] = "cancelled" => signal'[u] = signal[u]
    BY <1>10 DEF SignalPublished
  <2> QED
    BY <1>8, <1>10, <2>1, <2>2 DEF SignalPublished, account
<1>11. ASSUME NEW t \in Txns, Release(t) PROVE ProducerInv'
  BY <1>8, <1>11 DEF Release, waiting
<1>12. ASSUME UNCHANGED vars PROVE ProducerInv'
  BY <1>8, <1>12 DEF vars, account, waiting
<1> QED
  BY <1>1, <1>2, <1>3, <1>4, <1>5, <1>6, <1>7, <1>9, <1>10, <1>11, <1>12,
     ProducerConsume, ProducerResolve
  DEF Next, Notify

(* No producer sleeps in push() and no node sleeps on a reservation that      *)
(* would now succeed, unless the one who made room is about to notify it or   *)
(* abortChannels is about to reach the channel.                               *)
THEOREM ProducerCorrect == Spec => []ProducerNotForgotten
<1>1. Init => ProducerInv
  BY DEF Init, ProducerInv, PushOK
<1>2. ProducerInv => ProducerNotForgotten
  BY DEF ProducerInv, PushOK, ParkedOK, Announced, ProducerNotForgotten
<1> QED
  BY <1>1, <1>2, Invariance, ProducerStep, PTL DEF Spec
=============================================================================
