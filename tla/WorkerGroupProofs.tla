------------------------- MODULE WorkerGroupProofs -------------------------
(***************************************************************************)
(* Proofs about WorkerGroup, for every number of workers and every way the  *)
(* nodes wait.                                                              *)
(*                                                                          *)
(* A call's program fixes the order of its steps, so the argument has two   *)
(* parts.  The first is about the programs alone: in each of them a worker  *)
(* is marked before the step that wakes or interrupts it, and stop() and    *)
(* abort() join every worker before the step that ends them.  The second    *)
(* carries that to what is left of a program while the actors interleave    *)
(* (Ordered, Proceeds), and couples it with the workers' marks and errors.  *)
(***************************************************************************)
EXTENDS WorkerGroup, TLAPS

Marks == {"mark", "markAborted"}
Endings == {"started", "harvest", "teardown"}
Single == {"wake", "interrupt"}
Whole == {"wakeAll", "closeChannels", "abortChannels"}
Plain == {"withdraw", "join", "stopping"}
Body == Marks \cup Single \cup Whole \cup Plain
Ops == Body \cup Endings \cup {"launch"}
Steps == [op : Ops, w : Actors]

(* Some step of s before the i-th marks worker w.                                    *)
Behind(s, i, w) == \E j \in 1 .. i - 1 : s[j].op \in Marks /\ s[j].w = w

(* A program marks a worker before it wakes it or interrupts its node, and every     *)
(* worker before it wakes them all or shuts the channels.                            *)
InOrder(s) ==
    \A i \in 1 .. Len(s) :
        /\ s[i].op \in Single => Behind(s, i, s[i].w)
        /\ s[i].op \in Whole => \A w \in Workers : Behind(s, i, w)

MarksAll(s) == \A w \in Workers : Behind(s, Len(s) + 1, w)

JoinsAll(s) == \A w \in Workers : \E i \in 1 .. Len(s) : s[i] = Step("join", w)

Only(s, O) == \A i \in 1 .. Len(s) : s[i].op \in O

(* The steps of two programs run one after the other.                                *)
LEMMA Chained ==
    ASSUME NEW P \in Seq(Steps), NEW Q \in Seq(Steps)
    PROVE  /\ P \o Q \in Seq(Steps) /\ Len(P \o Q) = Len(P) + Len(Q)
           /\ \A i \in 1 .. Len(P) : (P \o Q)[i] = P[i]
           /\ \A i \in 1 .. Len(Q) : (P \o Q)[Len(P) + i] = Q[i]
           /\ \A i \in 1 .. Len(P \o Q) :
                 \/ i \in 1 .. Len(P)
                 \/ \E k \in 1 .. Len(Q) : i = Len(P) + k
<1>1. P \o Q \in Seq(Steps) /\ Len(P \o Q) = Len(P) + Len(Q)
  OBVIOUS
<1>2. Len(P) \in Nat /\ Len(Q) \in Nat
  OBVIOUS
<1>3. ASSUME NEW i \in 1 .. Len(P) PROVE (P \o Q)[i] = P[i]
  BY <1>2
<1>4. ASSUME NEW i \in 1 .. Len(Q) PROVE (P \o Q)[Len(P) + i] = Q[i]
  BY <1>2
<1>5. ASSUME NEW i \in 1 .. Len(P \o Q), i \notin 1 .. Len(P)
      PROVE  \E k \in 1 .. Len(Q) : i = Len(P) + k
  <2>1. i - Len(P) \in 1 .. Len(Q) /\ i = Len(P) + (i - Len(P))
    BY <1>1, <1>2, <1>5
  <2>2. QED
    BY <2>1, Zenon
<1>6. QED
  BY <1>1, <1>3, <1>4, <1>5

(* What follows a program in order stays in order, if it asks for no mark or the      *)
(* program marks everybody.                                                           *)
LEMMA Followed ==
    ASSUME NEW P \in Seq(Steps), NEW Q \in Seq(Steps), InOrder(P),
           \/ InOrder(Q)
           \/ MarksAll(P) /\ \A i \in 1 .. Len(Q) : Q[i].op \in Single => Q[i].w \in Workers
    PROVE  /\ InOrder(P \o Q)
           /\ MarksAll(P) \/ MarksAll(Q) => MarksAll(P \o Q)
<1>1. PICK R, m, n : R = P \o Q /\ m = Len(P) /\ n = Len(Q)
  BY Zenon
<1>2. /\ R \in Seq(Steps) /\ Len(R) = m + n /\ m \in Nat /\ n \in Nat
      /\ \A i \in 1 .. m : R[i] = P[i]
      /\ \A i \in 1 .. n : R[m + i] = Q[i]
      /\ \A i \in 1 .. m + n : i \in 1 .. m \/ \E k \in 1 .. n : i = m + k
  BY <1>1, Chained
<1>3. ASSUME NEW i \in 1 .. m + 1, NEW w, Behind(P, i, w) PROVE Behind(R, i, w)
  <2>1. PICK j \in 1 .. i - 1 : P[j].op \in Marks /\ P[j].w = w
    BY <1>3 DEF Behind
  <2>2. R[j] = P[j]
    BY <1>2, <2>1
  <2>3. QED
    BY <2>1, <2>2, Zenon DEF Behind
<1>4. ASSUME NEW k \in 1 .. n + 1, NEW w, Behind(Q, k, w) PROVE Behind(R, m + k, w)
  <2>1. PICK j \in 1 .. k - 1 : Q[j].op \in Marks /\ Q[j].w = w
    BY <1>4 DEF Behind
  <2>2. m + j \in 1 .. (m + k) - 1 /\ R[m + j] = Q[j]
    BY <1>2, <2>1
  <2>3. \E l \in 1 .. (m + k) - 1 : R[l].op \in Marks /\ R[l].w = w
    BY <2>1, <2>2, Zenon
  <2>4. QED
    BY <2>3, Zenon DEF Behind
<1>5. ASSUME MarksAll(P), NEW w \in Workers, NEW k \in 1 .. n + 1 PROVE Behind(R, m + k, w)
  <2>1. PICK j \in 1 .. m : P[j].op \in Marks /\ P[j].w = w
    BY <1>1, <1>2, <1>5 DEF MarksAll, Behind
  <2>2. j \in 1 .. (m + k) - 1 /\ R[j] = P[j]
    BY <1>2, <2>1
  <2>3. \E l \in 1 .. (m + k) - 1 : R[l].op \in Marks /\ R[l].w = w
    BY <2>1, <2>2, Zenon
  <2>4. QED
    BY <2>3, Zenon DEF Behind
<1>6. ASSUME NEW i \in 1 .. m + n
      PROVE  /\ R[i].op \in Single => Behind(R, i, R[i].w)
             /\ R[i].op \in Whole => \A w \in Workers : Behind(R, i, w)
  <2>1. CASE i \in 1 .. m
    BY <1>1, <1>2, <1>3, <2>1 DEF InOrder
  <2>2. ASSUME NEW k \in 1 .. n, i = m + k
        PROVE  /\ R[i].op \in Single => Behind(R, i, R[i].w)
               /\ R[i].op \in Whole => \A w \in Workers : Behind(R, i, w)
    <3>1. R[i] = Q[k] /\ k \in 1 .. n + 1
      BY <1>2, <2>2
    <3>2. CASE MarksAll(P) /\ \A l \in 1 .. Len(Q) : Q[l].op \in Single => Q[l].w \in Workers
      BY <1>1, <1>5, <2>2, <3>1, <3>2
    <3>3. CASE InOrder(Q)
      BY <1>1, <1>4, <2>2, <3>1, <3>3 DEF InOrder
    <3>4. QED
      BY <3>2, <3>3
  <2>3. QED
    BY <1>2, <2>1, <2>2
<1>7. InOrder(R)
  BY <1>2, <1>6 DEF InOrder
<1>8. ASSUME MarksAll(P) \/ MarksAll(Q) PROVE MarksAll(R)
  <2>1. n + 1 \in 1 .. n + 1 /\ Len(R) + 1 = m + (n + 1)
    BY <1>2
  <2>2. CASE MarksAll(P)
    BY <1>5, <2>1, <2>2 DEF MarksAll
  <2>3. CASE MarksAll(Q)
    BY <1>1, <1>4, <2>1, <2>3 DEF MarksAll
  <2>4. QED
    BY <1>8, <2>2, <2>3
<1>9. QED
  BY <1>1, <1>7, <1>8

(* The operations of two programs run one after the other.                           *)
LEMMA ChainedOnly ==
    ASSUME NEW P \in Seq(Steps), NEW Q \in Seq(Steps), NEW O, Only(P, O), Only(Q, O)
    PROVE  Only(P \o Q, O)
<1>1. ASSUME NEW i \in 1 .. Len(P \o Q) PROVE (P \o Q)[i].op \in O
  <2>1. i \in 1 .. Len(P) \/ \E k \in 1 .. Len(Q) : i = Len(P) + k
    BY Chained
  <2>2. CASE i \in 1 .. Len(P)
    BY <2>2, Chained DEF Only
  <2>3. ASSUME NEW k \in 1 .. Len(Q), i = Len(P) + k PROVE (P \o Q)[i].op \in O
    BY <2>3, Chained DEF Only
  <2>4. QED
    BY <2>1, <2>2, <2>3
<1>2. QED
  BY <1>1 DEF Only

(* A program that joins every worker does so whatever runs before or after it.           *)
LEMMA ChainedJoins ==
    ASSUME NEW P \in Seq(Steps), NEW Q \in Seq(Steps), JoinsAll(P) \/ JoinsAll(Q)
    PROVE  JoinsAll(P \o Q)
<1>1. PICK R, m, n : R = P \o Q /\ m = Len(P) /\ n = Len(Q)
  BY Zenon
<1>2. /\ Len(R) = m + n /\ m \in Nat /\ n \in Nat
      /\ \A i \in 1 .. m : R[i] = P[i]
      /\ \A i \in 1 .. n : R[m + i] = Q[i]
  BY <1>1, Chained
<1>3. ASSUME NEW w \in Workers PROVE \E i \in 1 .. Len(R) : R[i] = Step("join", w)
  <2>1. CASE JoinsAll(P)
    <3>1. PICK i \in 1 .. m : P[i] = Step("join", w)
      BY <1>1, <2>1 DEF JoinsAll
    <3>2. i \in 1 .. Len(R) /\ R[i] = Step("join", w)
      BY <1>2, <3>1
    <3>3. QED
      BY <3>2
  <2>2. CASE JoinsAll(Q)
    <3>1. PICK i \in 1 .. n : Q[i] = Step("join", w)
      BY <1>1, <2>2 DEF JoinsAll
    <3>2. m + i \in 1 .. Len(R) /\ R[m + i] = Step("join", w)
      BY <1>2, <3>1
    <3>3. QED
      BY <3>2
  <2>3. QED
    BY <2>1, <2>2
<1>4. QED
  BY <1>1, <1>3 DEF JoinsAll

(* One step, and one step for each worker.                                            *)
LEMMA StepType == ASSUME NEW op \in Ops, NEW w \in Actors PROVE Step(op, w) \in Steps
  BY DEF Step, Steps

(* A program of one step.                                                                *)
LEMMA OneStep ==
    ASSUME NEW op \in Ops
    PROVE  /\ <<Step(op, 0)>> \in Seq(Steps) /\ Len(<<Step(op, 0)>>) = 1
           /\ <<Step(op, 0)>>[1] = Step(op, 0)
           /\ Only(<<Step(op, 0)>>, {op})
<1>1. Step(op, 0) \in Steps /\ Step(op, 0).op = op
  BY NAssumption, StepType DEF Actors, Step
<1>2. PICK x \in Steps : x = Step(op, 0) /\ x.op = op
  BY <1>1
<1>3. <<x>> \in Seq(Steps) /\ Len(<<x>>) = 1 /\ <<x>>[1] = x
  OBVIOUS
<1>4. Only(<<x>>, {op})
  BY <1>2, <1>3 DEF Only
<1>5. QED
  BY <1>2, <1>3, <1>4

(* A loop over the workers takes one step for each of them.                              *)
LEMMA EachStep ==
    ASSUME NEW op \in Ops
    PROVE  /\ ForEach(op) \in Seq(Steps) /\ Len(ForEach(op)) = N
           /\ \A w \in 1 .. N : ForEach(op)[w] = Step(op, w)
           /\ Only(ForEach(op), {op})
<1>1. \A w \in 1 .. N : Step(op, w) \in Steps /\ Step(op, w).op = op
  BY NAssumption, StepType DEF Actors, Step
<1>2. N \in Nat
  BY NAssumption
<1>3. PICK f : f = [w \in 1 .. N |-> Step(op, w)] /\ f = ForEach(op)
  BY Zenon DEF ForEach, Workers
<1>4. f \in Seq(Steps) /\ Len(f) = N /\ \A w \in 1 .. N : f[w] = Step(op, w)
  BY <1>1, <1>2, <1>3
<1>5. Only(f, {op})
  BY <1>1, <1>4 DEF Only
<1>6. QED
  BY <1>3, <1>4, <1>5, Zenon

(* A set of operations may grow.                                                      *)
LEMMA OnlyMore == ASSUME NEW s, NEW O, NEW O2, Only(s, O), O \subseteq O2 PROVE Only(s, O2)
  BY DEF Only

(* A program of plain steps asks for no mark.                                         *)
LEMMA PlainOrder ==
    ASSUME NEW s, Only(s, Plain \cup Endings \cup {"launch"}) PROVE InOrder(s)
  BY DEF Only, InOrder, Plain, Endings, Single, Whole

(* The join loop joins every worker.                                                     *)
LEMMA EachJoin == ForEach("join") \in Seq(Steps) /\ JoinsAll(ForEach("join"))
  BY EachStep, NAssumption, Zenon DEF JoinsAll, Workers, Ops, Body, Plain

(* requestStop() of each worker marks it, then wakes it.                              *)
MarkThenWake ==
    [k \in 1..2 * N |-> Step(IF k % 2 = 1 THEN "mark" ELSE "wake", (k + 1) \div 2)]

(* requestStop() of the workers marks each of them before it wakes it.                   *)
LEMMA MarkThenWakeOrder ==
    /\ MarkThenWake \in Seq(Steps) /\ Only(MarkThenWake, Body)
    /\ InOrder(MarkThenWake) /\ MarksAll(MarkThenWake)
<1>1. PICK n \in Nat \ {0} : n = N
  BY NAssumption
<1>2. PICK f : /\ f = MarkThenWake
               /\ f = [k \in 1 .. 2 * n |-> Step(IF k % 2 = 1 THEN "mark" ELSE "wake", (k + 1) \div 2)]
  BY <1>1, Zenon DEF MarkThenWake
<1>3. ASSUME NEW k \in 1 .. 2 * n
      PROVE  /\ f[k] \in Steps /\ f[k].w = (k + 1) \div 2
             /\ f[k].op = (IF k % 2 = 1 THEN "mark" ELSE "wake")
  <2>1. (k + 1) \div 2 \in 0 .. n
    OBVIOUS
  <2>2. (IF k % 2 = 1 THEN "mark" ELSE "wake") \in Ops
    BY DEF Ops, Body, Marks, Single
  <2>3. f[k] = Step(IF k % 2 = 1 THEN "mark" ELSE "wake", (k + 1) \div 2)
    BY <1>2
  <2>4. QED
    BY <1>1, <2>1, <2>2, <2>3, StepType DEF Actors, Step
<1>4. f \in Seq(Steps) /\ Len(f) = 2 * n
  <2>1. 2 * n \in Nat
    OBVIOUS
  <2>2. QED
    BY <1>2, <1>3, <2>1
<1>5. Only(f, Body)
  BY <1>3, <1>4 DEF Only, Body, Marks, Single
<1>6. InOrder(f)
  <2>1. ASSUME NEW k \in 1 .. 2 * n, f[k].op \in Single PROVE Behind(f, k, f[k].w)
    <3>1. k % 2 = 0
      BY <1>3, <2>1 DEF Single
    <3>2. k - 1 \in 1 .. k - 1 /\ (k - 1) % 2 = 1 /\ ((k - 1) + 1) \div 2 = (k + 1) \div 2
      BY <3>1
    <3>3. f[k - 1].op \in Marks /\ f[k - 1].w = f[k].w
      BY <1>3, <3>2 DEF Marks
    <3>4. QED
      BY <3>2, <3>3 DEF Behind
  <2>2. ASSUME NEW k \in 1 .. 2 * n PROVE f[k].op \notin Whole
    BY <1>3 DEF Whole
  <2>3. QED
    BY <1>4, <2>1, <2>2 DEF InOrder
<1>7. MarksAll(f)
  <2>1. ASSUME NEW w \in 1 .. n PROVE Behind(f, 2 * n + 1, w)
    <3>1. 2 * w - 1 \in 1 .. 2 * n /\ (2 * w - 1) % 2 = 1 /\ ((2 * w - 1) + 1) \div 2 = w
      OBVIOUS
    <3>2. f[2 * w - 1].op \in Marks /\ f[2 * w - 1].w = w
      BY <1>3, <3>1 DEF Marks
    <3>3. 2 * w - 1 \in 1 .. (2 * n + 1) - 1
      BY <3>1
    <3>4. QED
      BY <3>2, <3>3 DEF Behind
  <2>2. QED
    BY <1>1, <1>4, <2>1 DEF MarksAll, Workers
<1>8. QED
  BY <1>2, <1>4, <1>5, <1>6, <1>7

(* Behind it come the interrupts of the nodes and of all wakeups.                      *)
LEMMA RequestStopOrder ==
    /\ RequestStop \in Seq(Steps) /\ Only(RequestStop, Body)
    /\ InOrder(RequestStop) /\ MarksAll(RequestStop)
<1>1. PICK E, A : E = ForEach("interrupt") /\ A = <<Step("wakeAll", 0)>>
  BY Zenon
<1>2. /\ E \in Seq(Steps) /\ Len(E) = N /\ \A w \in 1 .. N : E[w] = Step("interrupt", w)
      /\ Only(E, Body)
  <2>1. "interrupt" \in Ops /\ {"interrupt"} \subseteq Body
    BY DEF Ops, Body, Single
  <2>2. QED
    BY <1>1, <2>1, EachStep, OnlyMore, Zenon
<1>3. A \in Seq(Steps) /\ Only(A, {"wakeAll"}) /\ Only(A, Body)
  <2>1. "wakeAll" \in Ops /\ {"wakeAll"} \subseteq Body
    BY DEF Ops, Body, Whole
  <2>2. QED
    BY <1>1, <2>1, OneStep, OnlyMore
<1>4. \A i \in 1 .. Len(E) : E[i].op \in Single => E[i].w \in Workers
  BY <1>2 DEF Step, Workers
<1>5. \A i \in 1 .. Len(A) : A[i].op \in Single => A[i].w \in Workers
  BY <1>3 DEF Only, Single
<1>6. PICK M : M = MarkThenWake /\ M \in Seq(Steps) /\ Only(M, Body) /\ InOrder(M) /\ MarksAll(M)
  BY MarkThenWakeOrder
<1>7. PICK P : /\ P = M \o E /\ P \in Seq(Steps) /\ Only(P, Body)
               /\ InOrder(P) /\ MarksAll(P)
  BY <1>2, <1>4, <1>6, Followed, Chained, ChainedOnly, Zenon
<1>8. PICK R : /\ R = P \o A /\ R \in Seq(Steps) /\ Only(R, Body)
               /\ InOrder(R) /\ MarksAll(R)
  BY <1>3, <1>5, <1>7, Followed, Chained, ChainedOnly, Zenon
<1>9. R = RequestStop
  BY <1>1, <1>6, <1>7, <1>8 DEF RequestStop, MarkThenWake
<1>10. QED
  BY <1>8, <1>9

(* The supervisor's callback.                                                         *)
LEMMA CoordinatedStopOrder == CoordinatedStop \in Seq(Steps) /\ InOrder(CoordinatedStop)
<1>1. PICK P : P = <<Step("withdraw", 0)>>
  BY Zenon
<1>2. P \in Seq(Steps) /\ Only(P, {"withdraw"})
  BY <1>1, OneStep DEF Ops, Body, Plain
<1>3. InOrder(P)
  BY <1>2, OnlyMore, PlainOrder DEF Plain
<1>4. PICK R : R = RequestStop
  OBVIOUS
<1>5. R \in Seq(Steps) /\ InOrder(R)
  BY <1>4, RequestStopOrder
<1>6. P \o R \in Seq(Steps) /\ InOrder(P \o R)
  BY <1>2, <1>3, <1>5, Followed, Chained
<1>7. QED
  BY <1>1, <1>4, <1>6 DEF CoordinatedStop

(* abort() of each worker marks it, wakes it and interrupts its node.                 *)
LEMMA AbortWorkersOrder ==
    /\ AbortWorkers \in Seq(Steps) /\ Only(AbortWorkers, Body)
    /\ InOrder(AbortWorkers) /\ MarksAll(AbortWorkers)
<1>1. PICK n \in Nat \ {0} : n = N
  BY NAssumption
<1>2. PICK f : /\ f = AbortWorkers
               /\ f = [k \in 1 .. 3 * n |->
                         Step(CASE k % 3 = 1 -> "markAborted" [] k % 3 = 2 -> "wake"
                                [] OTHER -> "interrupt", (k + 2) \div 3)]
  BY <1>1, Zenon DEF AbortWorkers
<1>3. ASSUME NEW k \in 1 .. 3 * n
      PROVE  /\ f[k] \in Steps /\ f[k].w = (k + 2) \div 3
             /\ f[k].op \in {"markAborted", "wake", "interrupt"}
             /\ k % 3 = 1 => f[k].op = "markAborted"
             /\ k % 3 # 1 => f[k].op # "markAborted"
  <2>1. (k + 2) \div 3 \in 0 .. n
    OBVIOUS
  <2>2. PICK op : /\ op = (CASE k % 3 = 1 -> "markAborted" [] k % 3 = 2 -> "wake"
                             [] OTHER -> "interrupt")
                  /\ op \in {"markAborted", "wake", "interrupt"}
                  /\ k % 3 = 1 => op = "markAborted"
                  /\ k % 3 # 1 => op # "markAborted"
    OBVIOUS
  <2>3. op \in Ops
    BY <2>2 DEF Ops, Body, Marks, Single
  <2>4. f[k] = Step(op, (k + 2) \div 3)
    BY <1>2, <2>2
  <2>5. f[k] \in Steps /\ f[k].w = (k + 2) \div 3 /\ f[k].op = op
    BY <1>1, <2>1, <2>3, <2>4, StepType DEF Actors, Step
  <2>6. QED
    BY <2>2, <2>5, Zenon
<1>4. f \in Seq(Steps) /\ Len(f) = 3 * n
  <2>1. 3 * n \in Nat
    OBVIOUS
  <2>2. QED
    BY <1>2, <1>3, <2>1
<1>5. Only(f, Body)
  BY <1>3, <1>4 DEF Only, Body, Marks, Single
<1>6. InOrder(f)
  <2>1. ASSUME NEW k \in 1 .. 3 * n, f[k].op \in Single PROVE Behind(f, k, f[k].w)
    <3>1. k % 3 # 1
      BY <1>3, <2>1 DEF Single
    <3>2. PICK j \in 1 .. k - 1 : j % 3 = 1 /\ (j + 2) \div 3 = (k + 2) \div 3
      <4>1. CASE k % 3 = 2
        <5>1. k - 1 \in 1 .. k - 1 /\ (k - 1) % 3 = 1 /\ ((k - 1) + 2) \div 3 = (k + 2) \div 3
          BY <4>1
        <5>2. QED
          BY <5>1
      <4>2. CASE k % 3 = 0
        <5>1. k - 2 \in 1 .. k - 1 /\ (k - 2) % 3 = 1 /\ ((k - 2) + 2) \div 3 = (k + 2) \div 3
          BY <4>2
        <5>2. QED
          BY <5>1, Zenon
      <4>3. QED
        BY <3>1, <4>1, <4>2
    <3>3. f[j].op \in Marks /\ f[j].w = f[k].w
      BY <1>3, <3>2 DEF Marks
    <3>4. QED
      BY <3>3, Zenon DEF Behind
  <2>2. ASSUME NEW k \in 1 .. 3 * n PROVE f[k].op \notin Whole
    BY <1>3 DEF Whole
  <2>3. QED
    BY <1>4, <2>1, <2>2 DEF InOrder
<1>7. MarksAll(f)
  <2>1. ASSUME NEW w \in 1 .. n PROVE Behind(f, 3 * n + 1, w)
    <3>1. 3 * w - 2 \in 1 .. 3 * n /\ (3 * w - 2) % 3 = 1 /\ ((3 * w - 2) + 2) \div 3 = w
      OBVIOUS
    <3>2. f[3 * w - 2].op \in Marks /\ f[3 * w - 2].w = w
      BY <1>3, <3>1 DEF Marks
    <3>3. 3 * w - 2 \in 1 .. (3 * n + 1) - 1
      BY <3>1
    <3>4. QED
      BY <3>2, <3>3 DEF Behind
  <2>2. QED
    BY <1>1, <1>4, <2>1 DEF MarksAll, Workers
<1>8. QED
  BY <1>2, <1>4, <1>5, <1>6, <1>7

(* What a lifecycle call runs: the steps of its body, which join every worker, and    *)
(* one that ends it.                                                                  *)
Finishes(s, op) ==
    /\ s \in Seq(Steps) /\ s # <<>> /\ InOrder(s) /\ JoinsAll(s)
    /\ s[Len(s)].op = op
    /\ \A i \in 1 .. Len(s) : s[i].op # "launch" /\ (s[i].op \in Endings <=> i = Len(s))

(* A program that marks and joins every worker may end the call.                         *)
LEMMA Finished ==
    ASSUME NEW P \in Seq(Steps), InOrder(P), JoinsAll(P), Only(P, Body),
           NEW op \in {"harvest", "teardown"}
    PROVE  Finishes(P \o <<Step(op, 0)>>, op)
<1>1. PICK E : E = <<Step(op, 0)>>
  BY Zenon
<1>2. op \in Ops
  BY DEF Ops, Endings
<1>3. E \in Seq(Steps) /\ Len(E) = 1 /\ E[1].op = op /\ Only(E, {op})
  BY <1>1, <1>2, OneStep DEF Step
<1>4. InOrder(E)
  BY <1>3 DEF InOrder, Only, Single, Whole
<1>5. PICK R, m : R = P \o E /\ m = Len(P)
  BY Zenon
<1>6. InOrder(R) /\ JoinsAll(R)
  BY <1>3, <1>4, <1>5, Followed, ChainedJoins
<1>7. /\ R \in Seq(Steps) /\ Len(R) = m + 1 /\ m \in Nat
      /\ \A i \in 1 .. m : R[i] = P[i]
      /\ R[m + 1] = E[1]
  <2>1. 1 \in 1 .. Len(E) /\ m \in Nat
    BY <1>3, <1>5
  <2>2. /\ R \in Seq(Steps) /\ Len(R) = m + Len(E)
        /\ \A i \in 1 .. m : R[i] = P[i]
        /\ \A i \in 1 .. Len(E) : R[m + i] = E[i]
    BY <1>3, <1>5, Chained, Zenon
  <2>3. QED
    BY <1>3, <2>1, <2>2
<1>8. ASSUME NEW i \in 1 .. m PROVE R[i].op \in Body
  BY <1>5, <1>7 DEF Only
<1>9. ASSUME NEW i \in 1 .. m + 1 PROVE R[i].op # "launch" /\ (R[i].op \in Endings <=> i = m + 1)
  <2>1. CASE i \in 1 .. m
    <3>1. R[i].op # "launch" /\ R[i].op \notin Endings /\ i # m + 1
      BY <1>7, <1>8, <2>1 DEF Body, Endings, Marks, Single, Whole, Plain
    <3>2. QED
      BY <3>1
  <2>2. CASE i = m + 1
    BY <1>3, <1>7, <2>2 DEF Endings
  <2>3. QED
    BY <1>7, <2>1, <2>2
<1>10. R # <<>>
  BY <1>7
<1>11. QED
  BY <1>1, <1>3, <1>5, <1>6, <1>7, <1>9, <1>10 DEF Finishes

(* Behind the marks come only steps of a body, none of them for one worker alone.       *)
LEMMA BodyFollows ==
    ASSUME NEW P \in Seq(Steps), InOrder(P), MarksAll(P), Only(P, Body),
           NEW Q \in Seq(Steps), NEW op \in Body, op \notin Single, Only(Q, {op})
    PROVE  /\ P \o Q \in Seq(Steps) /\ InOrder(P \o Q) /\ MarksAll(P \o Q) /\ Only(P \o Q, Body)
           /\ JoinsAll(Q) => JoinsAll(P \o Q)
<1>1. \A i \in 1 .. Len(Q) : Q[i].op \in Single => Q[i].w \in Workers
  BY DEF Only
<1>2. Only(Q, Body)
  BY DEF Only
<1>3. QED
  BY <1>1, <1>2, Followed, Chained, ChainedOnly, ChainedJoins

(* Plain steps in front change nothing.                                                 *)
LEMMA PlainLeads ==
    ASSUME NEW P \in Seq(Steps), Only(P, Plain),
           NEW Q \in Seq(Steps), InOrder(Q)
    PROVE  /\ P \o Q \in Seq(Steps) /\ InOrder(P \o Q)
           /\ MarksAll(Q) => MarksAll(P \o Q)
           /\ JoinsAll(Q) => JoinsAll(P \o Q)
           /\ Only(Q, Body) => Only(P \o Q, Body)
<1>1. Only(P, Plain \cup Endings \cup {"launch"}) /\ Only(P, Body)
  BY DEF Only, Body
<1>2. InOrder(P)
  BY <1>1, PlainOrder, Zenon
<1>3. P \o Q \in Seq(Steps) /\ InOrder(P \o Q) /\ (MarksAll(Q) => MarksAll(P \o Q))
  BY <1>2, Followed, Chained
<1>4. JoinsAll(Q) => JoinsAll(P \o Q)
  BY ChainedJoins
<1>5. Only(Q, Body) => Only(P \o Q, Body)
  BY <1>1, ChainedOnly
<1>6. QED
  BY <1>3, <1>4, <1>5

(* The steps of abort() before its last one.                                            *)
AbortBody == AbortWorkers \o <<Step("abortChannels", 0)>> \o ForEach("join")

(* abort(), up to the nodes' teardown, marks before it interrupts and joins everybody.   *)
LEMMA AbortBodyOrder ==
    AbortBody \in Seq(Steps) /\ InOrder(AbortBody) /\ JoinsAll(AbortBody) /\ Only(AbortBody, Body)
<1>1. PICK A, B, C : A = AbortWorkers /\ B = <<Step("abortChannels", 0)>> /\ C = ForEach("join")
  BY Zenon
<1>2. "abortChannels" \in Ops /\ "abortChannels" \in Body /\ "abortChannels" \notin Single
  BY DEF Ops, Body, Whole, Single
<1>3. "join" \in Ops /\ "join" \in Body /\ "join" \notin Single
  BY DEF Ops, Body, Plain, Single
<1>4. A \in Seq(Steps) /\ InOrder(A) /\ MarksAll(A) /\ Only(A, Body)
  BY <1>1, AbortWorkersOrder
<1>5. B \in Seq(Steps) /\ Only(B, {"abortChannels"})
  BY <1>1, <1>2, OneStep
<1>6. C \in Seq(Steps) /\ Only(C, {"join"}) /\ JoinsAll(C)
  BY <1>1, <1>3, EachStep, EachJoin
<1>7. PICK D : D = A \o B /\ D \in Seq(Steps) /\ InOrder(D) /\ MarksAll(D) /\ Only(D, Body)
  BY <1>2, <1>4, <1>5, BodyFollows, Zenon
<1>8. PICK E : E = D \o C /\ E \in Seq(Steps) /\ InOrder(E) /\ JoinsAll(E) /\ Only(E, Body)
  BY <1>3, <1>6, <1>7, BodyFollows, Zenon
<1>9. E = AbortBody
  BY <1>1, <1>7, <1>8 DEF AbortBody
<1>10. QED
  BY <1>8, <1>9

(* So does the whole of MediaGraphThreadedExecutor::abort.                               *)
LEMMA AbortFinishes == Finishes(AbortExecutor, "teardown")
<1>1. AbortExecutor = AbortBody \o <<Step("teardown", 0)>>
  BY DEF AbortExecutor, AbortBody
<1>2. QED
  BY <1>1, AbortBodyOrder, Finished, Zenon

(* Synchronize and Abort run it behind a withdrawal.                                     *)
LEMMA WithdrawnAbortFinishes == Finishes(<<Step("withdraw", 0)>> \o AbortExecutor, "teardown")
<1>1. PICK W, B, T : W = <<Step("withdraw", 0)>> /\ B = AbortBody /\ T = <<Step("teardown", 0)>>
  BY Zenon
<1>2. "withdraw" \in Ops /\ "withdraw" \in Plain /\ "teardown" \in Ops
  BY DEF Ops, Body, Plain, Endings
<1>3. W \in Seq(Steps) /\ Only(W, Plain) /\ T \in Seq(Steps)
  <2>1. W \in Seq(Steps) /\ Only(W, {"withdraw"}) /\ T \in Seq(Steps)
    BY <1>1, <1>2, OneStep, Zenon
  <2>2. QED
    BY <1>2, <2>1 DEF Only
<1>4. B \in Seq(Steps) /\ InOrder(B) /\ JoinsAll(B) /\ Only(B, Body)
  BY <1>1, AbortBodyOrder
<1>5. PICK R : R = W \o B /\ R \in Seq(Steps) /\ InOrder(R) /\ JoinsAll(R) /\ Only(R, Body)
  BY <1>3, <1>4, PlainLeads, Zenon
<1>6. Finishes(R \o T, "teardown")
  BY <1>1, <1>5, Finished, Zenon
<1>7. W \o (B \o T) = (W \o B) \o T
  BY <1>3, <1>4
<1>8. AbortExecutor = B \o T
  BY <1>1 DEF AbortExecutor, AbortBody
<1>9. QED
  BY <1>1, <1>5, <1>6, <1>7, <1>8, Zenon

(* The lifecycle stop().                                                                 *)
LEMMA StopFinishes == Finishes(StopExecutor, "harvest")
<1>1. PICK W, R, C, J, H : /\ W = <<Step("withdraw", 0), Step("stopping", 0)>> /\ R = RequestStop
                           /\ C = <<Step("closeChannels", 0)>> /\ J = ForEach("join")
                           /\ H = <<Step("harvest", 0)>>
  BY Zenon
<1>2. "closeChannels" \in Ops /\ "closeChannels" \in Body /\ "closeChannels" \notin Single
  BY DEF Ops, Body, Whole, Single
<1>3. "join" \in Ops /\ "join" \in Body /\ "join" \notin Single
  BY DEF Ops, Body, Plain, Single
<1>4. W \in Seq(Steps) /\ Only(W, Plain)
  <2>1. PICK x \in Steps, y \in Steps : x = Step("withdraw", 0) /\ y = Step("stopping", 0)
    BY NAssumption, StepType DEF Ops, Body, Plain, Actors
  <2>2. x.op \in Plain /\ y.op \in Plain
    BY <2>1 DEF Step, Plain
  <2>3. W = <<x, y>> /\ Len(<<x, y>>) = 2
    BY <1>1, <2>1
  <2>4. \A i \in 1 .. 2 : <<x, y>>[i].op \in Plain
    <3>1. <<x, y>>[1] = x /\ <<x, y>>[2] = y
      OBVIOUS
    <3>2. \A i \in 1 .. 2 : i = 1 \/ i = 2
      OBVIOUS
    <3>3. QED
      BY <2>2, <3>1, <3>2, Zenon
  <2>5. QED
    BY <2>3, <2>4 DEF Only
<1>5. PICK A : A = W \o R /\ A \in Seq(Steps) /\ InOrder(A) /\ MarksAll(A) /\ Only(A, Body)
  BY <1>1, <1>4, RequestStopOrder, PlainLeads, Zenon
<1>6. C \in Seq(Steps) /\ Only(C, {"closeChannels"})
  BY <1>1, <1>2, OneStep
<1>7. J \in Seq(Steps) /\ Only(J, {"join"}) /\ JoinsAll(J)
  BY <1>1, <1>3, EachStep, EachJoin
<1>8. PICK D : D = A \o C /\ D \in Seq(Steps) /\ InOrder(D) /\ MarksAll(D) /\ Only(D, Body)
  BY <1>2, <1>5, <1>6, BodyFollows, Zenon
<1>9. PICK E : E = D \o J /\ E \in Seq(Steps) /\ InOrder(E) /\ JoinsAll(E) /\ Only(E, Body)
  BY <1>3, <1>7, <1>8, BodyFollows, Zenon
<1>10. Finishes(E \o H, "harvest")
  BY <1>1, <1>9, Finished, Zenon
<1>11. E \o H = StopExecutor
  BY <1>1, <1>5, <1>8, <1>9 DEF StopExecutor
<1>12. QED
  BY <1>10, <1>11

(* startThreaded().                                                                      *)
LEMMA StartLaunches ==
    /\ StartExecutor \in Seq(Steps) /\ Len(StartExecutor) = N + 1
    /\ \A w \in 1 .. N : StartExecutor[w] = Step("launch", w)
    /\ StartExecutor[N + 1] = Step("started", 0)
    /\ InOrder(StartExecutor)
<1>1. PICK L, E : L = ForEach("launch") /\ E = <<Step("started", 0)>>
  BY Zenon
<1>2. "launch" \in Ops /\ "started" \in Ops
  BY DEF Ops, Endings
<1>3. L \in Seq(Steps) /\ Len(L) = N /\ (\A w \in 1 .. N : L[w] = Step("launch", w)) /\ Only(L, {"launch"})
  BY <1>1, <1>2, EachStep
<1>4. E \in Seq(Steps) /\ Len(E) = 1 /\ E[1] = Step("started", 0) /\ Only(E, {"started"})
  BY <1>1, <1>2, OneStep
<1>5. InOrder(L) /\ InOrder(E)
  BY <1>3, <1>4, OnlyMore, PlainOrder DEF Endings
<1>6. PICK S : S = L \o E /\ S = StartExecutor
  BY <1>1, Zenon DEF StartExecutor
<1>7. /\ S \in Seq(Steps) /\ Len(S) = N + 1
      /\ \A i \in 1 .. N : S[i] = L[i]
      /\ \A i \in 1 .. 1 : S[N + i] = E[i]
  <2>1. /\ L \o E \in Seq(Steps) /\ Len(L \o E) = Len(L) + Len(E)
        /\ \A i \in 1 .. Len(L) : (L \o E)[i] = L[i]
        /\ \A i \in 1 .. Len(E) : (L \o E)[Len(L) + i] = E[i]
    BY <1>3, <1>4, Chained, Zenon
  <2>2. QED
    BY <1>3, <1>4, <1>6, <2>1
<1>8. InOrder(S)
  BY <1>3, <1>4, <1>5, <1>6, Followed, Zenon
<1>9. S[N + 1] = Step("started", 0)
  <2>1. 1 \in 1 .. 1
    OBVIOUS
  <2>2. QED
    BY <1>4, <1>7, <2>1
<1>10. QED
  BY <1>3, <1>6, <1>7, <1>8, <1>9

-----------------------------------------------------------------------------
(* What is left of a program.                                                            *)

(* In order, the workers of S being marked already.                                      *)
Ordered(s, S) ==
    \A i \in 1 .. Len(s) :
        /\ s[i].op \in Single => s[i].w \in S \/ Behind(s, i, s[i].w)
        /\ s[i].op \in Whole => \A w \in Workers : w \in S \/ Behind(s, i, w)

Last(s) == s[Len(s)].op

(* startThreaded() has only workers of F to start, each once.                            *)
Launches(s, F) ==
    \A i \in 1 .. Len(s) :
        /\ s[i].op \in {"launch", "started"}
        /\ s[i].op = "launch" => /\ s[i].w \in F
                                 /\ \A j \in 1 .. Len(s) : s[j] = s[i] => j = i

(* stop() and abort() join every worker that is not in G, and start none.                *)
Joins(s, G) ==
    /\ \A i \in 1 .. Len(s) : s[i].op # "launch"
    /\ \A w \in Workers : w \in G \/ \E i \in 1 .. Len(s) : s[i] = Step("join", w)

Proceeds(s, F, G) ==
    /\ \A i \in 1 .. Len(s) : s[i].op \in Endings <=> i = Len(s)
    /\ IF Last(s) = "started" THEN Launches(s, F) ELSE Joins(s, G)

(* The fields of a step.                                                                 *)
LEMMA Fields == ASSUME NEW op, NEW w PROVE Step(op, w).op = op /\ Step(op, w).w = w
  BY DEF Step

(* A program that is over asks for no mark.                                              *)
LEMMA NothingLeft == ASSUME NEW S PROVE Ordered(<<>>, S)
<1>1. Len(<<>>) = 0
  OBVIOUS
<1>2. \A i \in 1 .. 0 : FALSE
  OBVIOUS
<1>3. QED
  BY <1>1, <1>2 DEF Ordered

(* Taking the first step.                                                                *)
LEMMA Stepped ==
    ASSUME NEW s \in Seq(Steps), s # <<>>
    PROVE  /\ Tail(s) \in Seq(Steps) /\ Len(s) \in Nat \ {0} /\ Len(Tail(s)) = Len(s) - 1
           /\ \A i \in 1 .. Len(s) - 1 : Tail(s)[i] = s[i + 1]
           /\ Head(s) = s[1] /\ s[1] \in Steps /\ 1 \in 1 .. Len(s)
  OBVIOUS

(* What is left after the first step is in order, the worker it marked included.         *)
LEMMA OrderedTail ==
    ASSUME NEW s \in Seq(Steps), s # <<>>, NEW S, NEW T, Ordered(s, S), S \subseteq T,
           s[1].op \in Marks => s[1].w \in T
    PROVE  Ordered(Tail(s), T)
<1>1. PICK t, n : t = Tail(s) /\ n = Len(t)
  BY Zenon
<1>2. n \in Nat /\ Len(s) = n + 1 /\ \A i \in 1 .. n : t[i] = s[i + 1] /\ i + 1 \in 1 .. Len(s)
  BY <1>1, Stepped
<1>3. ASSUME NEW i \in 1 .. n, NEW w, w \in S \/ Behind(s, i + 1, w)
      PROVE  w \in T \/ Behind(t, i, w)
  <2>1. ASSUME NEW j \in 1 .. (i + 1) - 1, s[j].op \in Marks, s[j].w = w
        PROVE  w \in T \/ Behind(t, i, w)
    <3>1. CASE j = 1
      BY <2>1, <3>1
    <3>2. CASE j # 1
      <4>1. j - 1 \in 1 .. i - 1 /\ t[j - 1] = s[j]
        BY <1>2, <3>2
      <4>2. QED
        BY <2>1, <4>1 DEF Behind
    <3>3. QED
      BY <3>1, <3>2
  <2>2. QED
    BY <1>3, <2>1 DEF Behind
<1>4. ASSUME NEW i \in 1 .. n
      PROVE  /\ t[i].op \in Single => t[i].w \in T \/ Behind(t, i, t[i].w)
             /\ t[i].op \in Whole => \A w \in Workers : w \in T \/ Behind(t, i, w)
  <2>1. t[i] = s[i + 1] /\ i + 1 \in 1 .. Len(s)
    BY <1>2
  <2>2. /\ s[i + 1].op \in Single => s[i + 1].w \in S \/ Behind(s, i + 1, s[i + 1].w)
        /\ s[i + 1].op \in Whole => \A w \in Workers : w \in S \/ Behind(s, i + 1, w)
    BY <2>1 DEF Ordered
  <2>3. QED
    BY <1>3, <2>1, <2>2
<1>5. QED
  BY <1>1, <1>4 DEF Ordered

(* The first step finds its workers marked.                                              *)
LEMMA FirstMarked ==
    ASSUME NEW s \in Seq(Steps), s # <<>>, NEW S, Ordered(s, S)
    PROVE  /\ s[1].op \in Single => s[1].w \in S
           /\ s[1].op \in Whole => \A w \in Workers : w \in S
<1>1. 1 \in 1 .. Len(s)
  BY Stepped
<1>2. \A w : ~Behind(s, 1, w)
  BY DEF Behind
<1>3. QED
  BY <1>1, <1>2 DEF Ordered

(* More workers may be marked.                                                           *)
LEMMA OrderedMore ==
    ASSUME NEW s, NEW S, NEW T, Ordered(s, S), S \subseteq T PROVE Ordered(s, T)
  BY DEF Ordered

(* A program in order needs no worker to be marked before it runs.                       *)
LEMMA InOrderOrdered == ASSUME NEW s, NEW S, InOrder(s) PROVE Ordered(s, S)
  BY DEF Ordered, InOrder

(* More workers to start, and more that have left, change nothing.                       *)
LEMMA ProceedsMore ==
    ASSUME NEW s, NEW F, NEW F2, NEW G, NEW G2, Proceeds(s, F, G), F \subseteq F2, G \subseteq G2
    PROVE  Proceeds(s, F2, G2)
  BY DEF Proceeds, Launches, Joins

(* A step that does not end the call.                                                    *)
LEMMA ProceedsOn ==
    ASSUME NEW s \in Seq(Steps), s # <<>>, NEW F, NEW F2, NEW G, NEW G2, Proceeds(s, F, G),
           s[1].op \notin Endings, G \subseteq G2,
           \A w \in F : w \in F2 \/ s[1] = Step("launch", w),
           \A w \in Workers : s[1] = Step("join", w) => w \in G2
    PROVE  Tail(s) # <<>> /\ Last(Tail(s)) = Last(s) /\ Proceeds(Tail(s), F2, G2)
<1>1. PICK t, n : t = Tail(s) /\ n = Len(t)
  BY Zenon
<1>2. /\ n \in Nat /\ Len(s) = n + 1 /\ 1 \in 1 .. Len(s)
      /\ \A i \in 1 .. n : t[i] = s[i + 1] /\ i + 1 \in 1 .. Len(s)
  BY <1>1, Stepped
<1>3. n # 0
  BY <1>2 DEF Proceeds
<1>4. t # <<>> /\ Last(t) = Last(s)
  <2>1. n \in 1 .. n /\ t[n] = s[n + 1]
    BY <1>2, <1>3
  <2>2. QED
    BY <1>1, <1>2, <1>3, <2>1, Zenon DEF Last
<1>5. \A i \in 1 .. n : t[i].op \in Endings <=> i = n
  BY <1>2 DEF Proceeds
<1>6. CASE Last(s) = "started"
  <2>1. Launches(s, F)
    BY <1>6 DEF Proceeds
  <2>2. ASSUME NEW i \in 1 .. n
        PROVE  /\ t[i].op \in {"launch", "started"}
               /\ t[i].op = "launch" => /\ t[i].w \in F2
                                        /\ \A j \in 1 .. n : t[j] = t[i] => j = i
    <3>1. t[i] = s[i + 1] /\ i + 1 \in 1 .. Len(s) /\ i + 1 # 1
      BY <1>2
    <3>2. t[i].op \in {"launch", "started"}
      BY <2>1, <3>1 DEF Launches
    <3>3. ASSUME t[i].op = "launch" PROVE t[i].w \in F2
      <4>1. t[i].w \in F /\ s[1] # s[i + 1]
        BY <1>2, <2>1, <3>1, <3>3 DEF Launches
      <4>2. s[i + 1] \in Steps
        BY <3>1
      <4>3. s[i + 1] = Step("launch", t[i].w)
        BY <3>1, <3>3, <4>2 DEF Steps, Step
      <4>4. QED
        BY <4>1, <4>3
    <3>4. ASSUME t[i].op = "launch", NEW j \in 1 .. n, t[j] = t[i] PROVE j = i
      <4>1. s[j + 1] = s[i + 1] /\ j + 1 \in 1 .. Len(s)
        BY <1>2, <3>1, <3>4
      <4>2. j + 1 = i + 1
        BY <2>1, <3>1, <3>4, <4>1 DEF Launches
      <4>3. QED
        BY <4>2
    <3>5. QED
      BY <3>2, <3>3, <3>4
  <2>3. QED
    BY <1>1, <1>4, <1>5, <1>6, <2>2 DEF Proceeds, Launches
<1>7. CASE Last(s) # "started"
  <2>1. Joins(s, G)
    BY <1>7 DEF Proceeds
  <2>2. \A i \in 1 .. n : t[i].op # "launch"
    BY <1>2, <2>1 DEF Joins
  <2>3. ASSUME NEW w \in Workers PROVE w \in G2 \/ \E i \in 1 .. n : t[i] = Step("join", w)
    <3>1. CASE w \in G
      BY <3>1
    <3>2. ASSUME NEW i \in 1 .. Len(s), s[i] = Step("join", w)
          PROVE  w \in G2 \/ \E k \in 1 .. n : t[k] = Step("join", w)
      <4>1. CASE i = 1
        BY <3>2, <4>1
      <4>2. CASE i # 1
        <5>1. i - 1 \in 1 .. n /\ t[i - 1] = s[i]
          BY <1>2, <4>2
        <5>2. QED
          BY <3>2, <5>1
      <4>3. QED
        BY <4>1, <4>2
    <3>3. QED
      BY <2>1, <3>1, <3>2 DEF Joins
  <2>4. QED
    BY <1>1, <1>4, <1>5, <1>7, <2>2, <2>3 DEF Proceeds, Joins
<1>8. QED
  BY <1>1, <1>4, <1>6, <1>7

(* A step that changes neither set.                                                      *)
LEMMA ProceedsTail ==
    ASSUME NEW s \in Seq(Steps), s # <<>>, NEW F, NEW G, Proceeds(s, F, G),
           s[1].op \notin Endings, \A w \in Workers : s[1] = Step("join", w) => w \in G
    PROVE  Tail(s) # <<>> /\ Last(Tail(s)) = Last(s) /\ Proceeds(Tail(s), F, G)
  BY ProceedsOn, Zenon

-----------------------------------------------------------------------------
(* The inductive invariant.                                                              *)

Positions == {"new", "launched", "loop", "observe", "process", "waitInput", "waitEither",
              "waitDeadline", "failed", "recording", "recordingRelease", "reporting",
              "reportingRelease", "leaving", "exited"}
Recording == {"recording", "recordingRelease"}
Reporting == {"reporting", "reportingRelease"}

Fresh == {w \in Workers : pc[w] = "new"}
Left == {w \in Workers : Gone(w)}
Stopped == {w \in Workers : Stopping(w)}

Failures == [worker : Workers, error : {"io", "refused"}]

TypeInv ==
    /\ pc \in [Workers -> Positions]
    /\ stopRequested \in [Workers -> BOOLEAN] /\ aborted \in [Workers -> BOOLEAN]
    /\ interrupted \in [Workers -> BOOLEAN] /\ nodeInterrupted \in [Workers -> BOOLEAN]
    /\ err \in [Workers -> {"none", "io", "refused", "interrupt"}]
    /\ errors \in [Workers -> Nat]
    /\ primary \in {None} \cup Failures
    /\ job \in [Actors -> Seq(Steps)]
    /\ call \in {"none", "start", "stop", "sync", "abort"}

(* What is left of the lifecycle call the controller is in.                              *)
CallInv ==
    /\ job[Controller] = <<>> <=> call = "none"
    /\ job[Controller] # <<>> =>
          /\ Proceeds(job[Controller], Fresh, Left)
          /\ Last(job[Controller]) = "started" => call = "start" /\ channels = "open"
          /\ call = "stop" => Last(job[Controller]) = "harvest"
          /\ call \in {"sync", "abort"} => Last(job[Controller]) = "teardown"
          /\ call = "start" /\ Last(job[Controller]) # "started" =>
                Last(job[Controller]) = "teardown" /\ primary # None
    /\ call = "start" => runtime = "Compiled" /\ scheduler = "Running"
    /\ call \in {"stop", "sync", "abort"} => runtime = "ThreadedRunning"
    /\ call = "sync" => primary # None

(* Whatever interrupts a worker finds it marked: its error is no cancellation.           *)
MarkInv ==
    /\ \A a \in Actors : Ordered(job[a], Stopped)
    /\ \A w \in Workers :
          /\ interrupted[w] \/ nodeInterrupted[w] => w \in Stopped
          /\ channels # "open" => w \in Left \/ w \in Stopped
          /\ err[w] = "interrupt" => w \in Stopped
          /\ pc[w] \in Recording => err[w] \in {"io", "refused"}
          /\ pc[w] = "failed" => err[w] # "none"

(* The primary failure is counted by the worker that recorded it, and by nobody before.  *)
FailInv ==
    /\ \A w \in Workers :
          /\ job[w] # <<>> => primary # None
          /\ pc[w] \in Reporting => primary # None
          /\ errors[w] # 0 => primary # None
          /\ runtime = "Compiled" /\ w \in Stopped => primary # None
          /\ primary # None /\ primary.worker = w => errors[w] # 0 \/ pc[w] \in Reporting

(* Before the first call and after the last one.                                         *)
EndInv ==
    /\ runtime = "Compiled" /\ call = "none" =>
          Fresh = Workers /\ primary = None /\ channels = "open"
    /\ runtime = "Stopped" => scheduler = "Stopped" /\ primary = None
    /\ runtime = "Aborted" => scheduler = "Aborted"
    /\ scheduler \in {"Stopping", "Stopped", "Aborted"} => Left = Workers
    /\ PrimaryReported

Inv == TypeInv /\ CallInv /\ MarkInv /\ FailInv /\ EndInv

(* The controller and the workers are different actors.                                  *)
LEMMA Threads == Controller \in Actors /\ Controller \notin Workers /\ Workers \subseteq Actors
  BY NAssumption DEF Controller, Actors, Workers

(* A primary failure names a worker and the error of a node.                             *)
LEMMA PrimaryTyped ==
    ASSUME TypeInv, primary # None
    PROVE  /\ primary \in Failures /\ primary.worker \in Workers
           /\ primary.error \in {"io", "refused"}
  BY DEF TypeInv, Failures

(* What a worker records is a failure.                                                   *)
LEMMA RecordFailed ==
    ASSUME NEW w \in Workers, NEW e \in {"io", "refused"}
    PROVE  [worker |-> w, error |-> e] \in Failures /\ [worker |-> w, error |-> e] # None
  BY Threads DEF Failures, None, Controller

(* Once the workers are gone nobody fails any more.                                      *)
LEMMA EndedInv ==
    ASSUME EndInv, UNCHANGED <<runtime, scheduler, call, primary, channels, result>>,
           Left \subseteq Left', runtime = "Compiled" /\ call = "none" => Fresh \subseteq Fresh'
    PROVE  EndInv'
<1>1. Left' \subseteq Workers /\ Fresh' \subseteq Workers
  BY DEF Left, Fresh
<1>2. PrimaryReported'
  BY DEF EndInv, PrimaryReported, None
<1>3. QED
  BY <1>1, <1>2 DEF EndInv

(* A step of a worker, all but the one that records the primary failure.                 *)
LEMMA WorkerMoves ==
    ASSUME Inv, NEW w \in Workers, NEW p \in Positions \ ({"new"} \cup Reporting),
           pc' = [pc EXCEPT ![w] = p], ~Gone(w),
           UNCHANGED <<job, primary, channels, runtime, scheduler, call, result, nodeInterrupted>>,
           stopRequested' \in [Workers -> BOOLEAN], aborted' \in [Workers -> BOOLEAN],
           Stopped \subseteq Stopped', primary # None \/ Stopped' \subseteq Stopped,
           interrupted' \in [Workers -> BOOLEAN], \A v \in Workers : interrupted'[v] => interrupted[v],
           err' \in [Workers -> {"none", "io", "refused", "interrupt"}],
           \A v \in Workers : v # w => err'[v] = err[v],
           err'[w] = "interrupt" => w \in Stopped',
           p \in Recording => err'[w] \in {"io", "refused"}, p = "failed" => err'[w] # "none",
           errors' \in [Workers -> Nat], \A v \in Workers : errors[v] # 0 => errors'[v] # 0,
           \A v \in Workers : errors'[v] # 0 => errors[v] # 0 \/ primary # None,
           pc[w] \in Reporting => errors'[w] # 0
    PROVE  Inv'
<1>1. /\ TypeInv /\ CallInv /\ MarkInv /\ FailInv /\ EndInv
      /\ pc \in [Workers -> Positions]
  BY DEF Inv, TypeInv
<1>2. pc' \in [Workers -> Positions] /\ pc'[w] = p /\ \A v \in Workers : v # w => pc'[v] = pc[v]
  BY <1>1
<1>3. Left \subseteq Left' /\ Fresh \subseteq Fresh'
  BY <1>1, <1>2 DEF Left, Fresh, Gone
<1>4. TypeInv'
  BY <1>1, <1>2 DEF TypeInv
<1>5. CallInv'
  <2>1. job[Controller] # <<>> => Proceeds(job[Controller], Fresh', Left')
    BY <1>1, <1>3, ProceedsMore, Zenon DEF CallInv
  <2>2. QED
    BY <1>1, <2>1, Zenon DEF CallInv
<1>6. MarkInv'
  <2>1. \A a \in Actors : Ordered(job[a], Stopped')
    BY <1>1, OrderedMore DEF MarkInv
  <2>2. ASSUME NEW v \in Workers
        PROVE  /\ interrupted'[v] \/ nodeInterrupted'[v] => v \in Stopped'
               /\ channels' # "open" => v \in Left' \/ v \in Stopped'
               /\ err'[v] = "interrupt" => v \in Stopped'
               /\ pc'[v] \in Recording => err'[v] \in {"io", "refused"}
               /\ pc'[v] = "failed" => err'[v] # "none"
    <3>1. interrupted'[v] \/ nodeInterrupted'[v] => v \in Stopped'
      BY <1>1 DEF MarkInv
    <3>2. channels' # "open" => v \in Left' \/ v \in Stopped'
      BY <1>1, <1>3, Zenon DEF MarkInv
    <3>3. /\ err'[v] = "interrupt" => v \in Stopped'
          /\ pc'[v] \in Recording => err'[v] \in {"io", "refused"}
          /\ pc'[v] = "failed" => err'[v] # "none"
      BY <1>1, <1>2, Zenon DEF MarkInv
    <3>4. QED
      BY <3>1, <3>2, <3>3
  <2>3. QED
    BY <2>1, <2>2, Zenon DEF MarkInv
<1>7. FailInv'
  <2>1. ASSUME NEW v \in Workers
        PROVE  /\ job'[v] # <<>> => primary' # None
               /\ pc'[v] \in Reporting => primary' # None
               /\ errors'[v] # 0 => primary' # None
               /\ runtime' = "Compiled" /\ v \in Stopped' => primary' # None
               /\ primary' # None /\ primary'.worker = v => errors'[v] # 0 \/ pc'[v] \in Reporting
    BY <1>1, <1>2 DEF FailInv
  <2>2. QED
    BY <2>1 DEF FailInv, None
<1>8. EndInv'
  BY <1>1, <1>3, EndedInv
<1>9. QED
  BY <1>4, <1>5, <1>6, <1>7, <1>8 DEF Inv

(* The facts about a worker that its steps start from.                                    *)
LEMMA WorkerFacts ==
    ASSUME Inv, NEW w \in Workers
    PROVE  /\ pc \in [Workers -> Positions] /\ err \in [Workers -> {"none", "io", "refused", "interrupt"}]
           /\ stopRequested \in [Workers -> BOOLEAN] /\ aborted \in [Workers -> BOOLEAN]
           /\ interrupted \in [Workers -> BOOLEAN] /\ errors \in [Workers -> Nat]
           /\ interrupted[w] \/ nodeInterrupted[w] => Stopping(w)
           /\ channels # "open" => Gone(w) \/ Stopping(w)
           /\ err[w] = "interrupt" => Stopping(w)
           /\ pc[w] \in Recording => err[w] \in {"io", "refused"}
           /\ pc[w] = "failed" => err[w] # "none"
           /\ pc[w] \in Reporting => primary # None
           /\ w \in Stopped <=> Stopping(w)
  BY DEF Inv, TypeInv, MarkInv, FailInv, Stopped, Left

(* run(): the steps that only move the worker.                                            *)
LEMMA LoopSteps ==
    ASSUME Inv, NEW w \in Workers,
           \/ ResetWakeup(w) \/ Loop(w) \/ Observe(w) \/ Processed(w) \/ ProcessFinished(w)
           \/ WaitEnds(w) \/ Exit(w)
    PROVE  Inv'
<1>1. /\ pc \in [Workers -> Positions] /\ err \in [Workers -> {"none", "io", "refused", "interrupt"}]
      /\ stopRequested \in [Workers -> BOOLEAN] /\ aborted \in [Workers -> BOOLEAN]
      /\ interrupted \in [Workers -> BOOLEAN] /\ errors \in [Workers -> Nat]
      /\ err[w] = "interrupt" => Stopping(w)
      /\ w \in Stopped <=> Stopping(w)
  BY WorkerFacts
<1>2. /\ UNCHANGED <<job, primary, channels, runtime, scheduler, call, result, nodeInterrupted,
                     stopRequested, aborted, err, errors>>
      /\ interrupted' \in [Workers -> BOOLEAN] /\ \A v \in Workers : interrupted'[v] => interrupted[v]
  BY <1>1, Zenon DEF ResetWakeup, Loop, Observe, Processed, ProcessFinished, WaitEnds, Exit, failure, states
<1>3. PICK p \in {"loop", "leaving", "observe", "process", "waitInput", "waitEither", "waitDeadline", "exited"} :
          pc' = [pc EXCEPT ![w] = p]
  BY WaitsAssumption DEF ResetWakeup, Loop, Observe, Processed, ProcessFinished, WaitEnds, Exit, Go
<1>4. pc[w] \notin {"new", "exited"} \cup Reporting
  BY DEF ResetWakeup, Loop, Observe, Processed, ProcessFinished, WaitEnds, Exit, Go, Reporting
<1>5. Stopped' = Stopped
  BY <1>2, Zenon DEF Stopped, Stopping
<1>6. p \in Positions \ ({"new"} \cup Reporting) /\ p \notin Recording /\ p # "failed"
  BY DEF Positions, Reporting, Recording
<1>7. ~Gone(w) /\ pc[w] \notin Reporting
  BY <1>4 DEF Gone
<1>8. QED
  BY <1>1, <1>2, <1>3, <1>5, <1>6, <1>7, WorkerMoves, Zenon

(* Errors of the node: one that an interrupt or a shut channel caused finds the worker     *)
(* marked.                                                                                *)
LEMMA NodeErrorsMarked ==
    ASSUME Inv, NEW w \in Workers, ~Gone(w), NEW e \in NodeErrors(w)
    PROVE  e \in {"io", "refused", "interrupt"} /\ (e = "interrupt" => Stopping(w))
<1>1. /\ interrupted[w] \/ nodeInterrupted[w] => Stopping(w)
      /\ channels # "open" => Gone(w) \/ Stopping(w)
  BY WorkerFacts
<1>2. QED
  BY <1>1 DEF NodeErrors

(* The steps in which a worker takes and classifies an error.                            *)
LEMMA ErrorSteps ==
    ASSUME Inv, NEW w \in Workers,
           ProcessFailed(w) \/ Classify(w) \/ WaitInterrupted(w) \/ ExitFailed(w)
    PROVE  Inv'
<1>1. /\ pc \in [Workers -> Positions] /\ err \in [Workers -> {"none", "io", "refused", "interrupt"}]
      /\ stopRequested \in [Workers -> BOOLEAN] /\ aborted \in [Workers -> BOOLEAN]
      /\ interrupted \in [Workers -> BOOLEAN] /\ errors \in [Workers -> Nat]
      /\ interrupted[w] => Stopping(w)
      /\ err[w] = "interrupt" => Stopping(w)
      /\ pc[w] = "failed" => err[w] # "none"
      /\ w \in Stopped <=> Stopping(w)
  BY WorkerFacts
<1>2. UNCHANGED <<job, primary, channels, runtime, scheduler, call, result, nodeInterrupted,
                  aborted, interrupted, errors>>
  BY Zenon DEF ProcessFailed, Classify, WaitInterrupted, ExitFailed, failure, states
<1>3. CASE ProcessFailed(w)
  <2>1. /\ pc[w] = "process" /\ pc' = [pc EXCEPT ![w] = "failed"]
        /\ UNCHANGED stopRequested
    BY <1>3 DEF ProcessFailed, Go
  <2>2. PICK e \in NodeErrors(w) : err' = [err EXCEPT ![w] = e]
    BY <1>3, Zenon DEF ProcessFailed
  <2>3. ~Gone(w) /\ pc[w] \notin Reporting
    BY <2>1 DEF Gone, Reporting
  <2>4. e \in {"io", "refused", "interrupt"} /\ (e = "interrupt" => Stopping(w))
    BY <2>3, NodeErrorsMarked
  <2>5. /\ err' \in [Workers -> {"none", "io", "refused", "interrupt"}] /\ err'[w] = e
        /\ \A v \in Workers : v # w => err'[v] = err[v]
    BY <1>1, <2>2, <2>4
  <2>6. Stopped' = Stopped
    BY <1>2, <2>1 DEF Stopped, Stopping
  <2>7. "failed" \in Positions \ ({"new"} \cup Reporting) /\ "failed" \notin Recording
    BY DEF Positions, Reporting, Recording
  <2>8. QED
    BY <1>1, <1>2, <2>1, <2>3, <2>4, <2>5, <2>6, <2>7, WorkerMoves, Zenon
<1>4. CASE Classify(w)
  <2>1. pc[w] = "failed" /\ UNCHANGED stopRequested
    BY <1>4 DEF Classify, Go
  <2>2. PICK p \in {"leaving", "recording"} : pc' = [pc EXCEPT ![w] = p]
    BY <1>4 DEF Classify, Go
  <2>3. /\ err' \in [Workers -> {"none", "io", "refused", "interrupt"}]
        /\ \A v \in Workers : v # w => err'[v] = err[v]
        /\ err'[w] = "interrupt" => Stopping(w)
    BY <1>1, <1>4 DEF Classify
  <2>4. p = "recording" => err'[w] \in {"io", "refused"}
    <3>1. pc'[w] = p
      BY <1>1, <2>2
    <3>2. p = "recording" => ~(Stopping(w) /\ err[w] \in Cancelled) /\ err' = err
      BY <1>1, <1>4, <3>1 DEF Classify, Go
    <3>3. QED
      BY <1>1, <2>1, <3>2 DEF Cancelled
  <2>5. ~Gone(w) /\ pc[w] \notin Reporting
    BY <2>1 DEF Gone, Reporting
  <2>6. Stopped' = Stopped
    BY <1>2, <2>1, Zenon DEF Stopped, Stopping
  <2>7. p \in Positions \ ({"new"} \cup Reporting) /\ p # "failed" /\ (p \in Recording => p = "recording")
    BY DEF Positions, Reporting, Recording
  <2>8. /\ p \in Recording => err'[w] \in {"io", "refused"}
        /\ p = "failed" => err'[w] # "none"
        /\ err'[w] = "interrupt" => w \in Stopped'
        /\ Stopped \subseteq Stopped' /\ Stopped' \subseteq Stopped
    BY <1>1, <2>3, <2>4, <2>6, <2>7
  <2>9. stopRequested' \in [Workers -> BOOLEAN] /\ aborted' \in [Workers -> BOOLEAN]
    BY <1>1, <1>2, <2>1
  <2>10. QED
    BY <1>1, <1>2, <2>2, <2>3, <2>5, <2>7, <2>8, <2>9, WorkerMoves, Zenon
<1>5. CASE WaitInterrupted(w)
  <2>1. Stopping(w) /\ pc[w] \in Waits
    BY <1>1, <1>5 DEF WaitInterrupted
  <2>2. /\ pc' = [pc EXCEPT ![w] = "loop"] /\ err' = err
        /\ stopRequested' = [stopRequested EXCEPT ![w] = TRUE]
    BY <1>5, <2>1 DEF WaitInterrupted
  <2>3. stopRequested' \in [Workers -> BOOLEAN] /\ Stopped' = Stopped
    BY <1>1, <1>2, <2>1, <2>2 DEF Stopped, Stopping
  <2>4. ~Gone(w) /\ pc[w] \notin Reporting
    BY <2>1, WaitsAssumption DEF Gone, Reporting
  <2>5. "loop" \in Positions \ ({"new"} \cup Reporting) /\ "loop" \notin Recording
    BY DEF Positions, Reporting, Recording
  <2>6. QED
    BY <1>1, <1>2, <2>2, <2>3, <2>4, <2>5, WorkerMoves, Zenon
<1>6. CASE ExitFailed(w)
  <2>1. /\ pc[w] = "leaving" /\ pc' = [pc EXCEPT ![w] = "recordingRelease"]
        /\ UNCHANGED stopRequested
    BY <1>6 DEF ExitFailed, Go
  <2>2. PICK e \in NodeErrors(w) : /\ e # "refused" /\ ~(e \in Cancelled /\ Stopping(w))
                                   /\ err' = [err EXCEPT ![w] = e]
    BY <1>6, Zenon DEF ExitFailed
  <2>3. ~Gone(w) /\ pc[w] \notin Reporting
    BY <2>1 DEF Gone, Reporting
  <2>4. e = "io"
    BY <2>2, <2>3, NodeErrorsMarked DEF Cancelled
  <2>5. /\ err' \in [Workers -> {"none", "io", "refused", "interrupt"}] /\ err'[w] = "io"
        /\ \A v \in Workers : v # w => err'[v] = err[v]
    BY <1>1, <2>2, <2>4
  <2>6. Stopped' = Stopped
    BY <1>2, <2>1, Zenon DEF Stopped, Stopping
  <2>7. "recordingRelease" \in Positions \ ({"new"} \cup Reporting)
    BY DEF Positions, Reporting
  <2>8. QED
    BY <1>1, <1>2, <2>1, <2>3, <2>5, <2>6, <2>7, WorkerMoves, Zenon
<1>7. QED
  BY <1>3, <1>4, <1>5, <1>6

(* recordFailure() after the first failure, and the end of its callback.                   *)
LEMMA LaterSteps ==
    ASSUME Inv, NEW w \in Workers, RecordLater(w) \/ Reported(w)
    PROVE  Inv'
<1>1. /\ pc \in [Workers -> Positions] /\ err \in [Workers -> {"none", "io", "refused", "interrupt"}]
      /\ stopRequested \in [Workers -> BOOLEAN] /\ aborted \in [Workers -> BOOLEAN]
      /\ interrupted \in [Workers -> BOOLEAN] /\ errors \in [Workers -> Nat]
      /\ err[w] = "interrupt" => Stopping(w)
      /\ pc[w] \in Reporting => primary # None
      /\ w \in Stopped <=> Stopping(w)
  BY WorkerFacts
<1>2. UNCHANGED <<job, primary, channels, runtime, scheduler, call, result, nodeInterrupted,
                  interrupted, stopRequested>>
  BY DEF RecordLater, Reported, failure, states
<1>3. PICK p \in {"leaving", "exited"} : pc' = [pc EXCEPT ![w] = p]
  BY DEF RecordLater, Reported, Go
<1>4. pc[w] \in Recording \cup Reporting
  BY DEF RecordLater, Reported, Go, Recording, Reporting
<1>5. primary # None
  <2>1. CASE RecordLater(w)
    BY <2>1 DEF RecordLater
  <2>2. CASE Reported(w)
    BY <1>1, <2>2, Zenon DEF Reported, Go, Reporting
  <2>3. QED
    BY <2>1, <2>2
<1>6. aborted' \in [Workers -> BOOLEAN] /\ \A v \in Workers : aborted[v] => aborted'[v]
  BY <1>1, Zenon DEF RecordLater, Reported
<1>7. Stopped \subseteq Stopped'
  BY <1>2, <1>6 DEF Stopped, Stopping
<1>8. /\ err' \in [Workers -> {"none", "io", "refused", "interrupt"}]
      /\ \A v \in Workers : v # w => err'[v] = err[v]
      /\ err'[w] = "interrupt" => err[w] = "interrupt"
  BY <1>1, Zenon DEF RecordLater, Reported
<1>9. /\ errors' \in [Workers -> Nat] /\ \A v \in Workers : errors[v] # 0 => errors'[v] # 0
      /\ pc[w] \in Reporting => errors'[w] # 0
  <2>1. CASE RecordLater(w)
    <3>1. pc[w] \notin Reporting
      BY <2>1 DEF RecordLater, Go, Reporting
    <3>2. PICK n \in Nat : errors' = [errors EXCEPT ![w] = n] /\ (n = errors[w] \/ n = errors[w] + 1)
      <4>1. errors[w] \in Nat /\ errors[w] + 1 \in Nat
        BY <1>1
      <4>2. CASE err[w] \in Cancelled /\ Stopping(w)
        BY <2>1, <4>1, <4>2, Zenon DEF RecordLater
      <4>3. CASE ~(err[w] \in Cancelled /\ Stopping(w))
        BY <2>1, <4>1, <4>3, Zenon DEF RecordLater
      <4>4. QED
        BY <4>2, <4>3
    <3>3. QED
      BY <1>1, <3>1, <3>2
  <2>2. CASE Reported(w)
    <3>1. errors' = [errors EXCEPT ![w] = errors[w] + 1] /\ errors[w] \in Nat
      BY <1>1, <2>2, Zenon DEF Reported
    <3>2. QED
      BY <1>1, <3>1
  <2>3. QED
    BY <2>1, <2>2, Zenon
<1>10. ~Gone(w)
  BY <1>4 DEF Gone, Recording, Reporting
<1>11. p \in Positions \ ({"new"} \cup Reporting) /\ p \notin Recording /\ p # "failed"
  BY DEF Positions, Reporting, Recording
<1>12. QED
  BY <1>1, <1>2, <1>3, <1>5, <1>6, <1>7, <1>8, <1>9, <1>10, <1>11, WorkerMoves, Zenon

(* The first failure: its worker's error is its own, and nothing else was counted.         *)
LEMMA PrimaryStep ==
    ASSUME Inv, NEW w \in Workers, RecordPrimary(w)
    PROVE  Inv'
<1>1. TypeInv /\ CallInv /\ MarkInv /\ FailInv /\ EndInv
  BY DEF Inv
<1>2. PICK p \in Reporting : pc' = [pc EXCEPT ![w] = p]
  BY DEF RecordPrimary, Go, Reporting
<1>3. pc[w] \in Recording /\ primary = None
  BY DEF RecordPrimary, Go, Recording
<1>4. /\ UNCHANGED <<stopRequested, aborted, interrupted, nodeInterrupted, errors, channels,
                     runtime, scheduler, call, result>>
      /\ primary' = [worker |-> w, error |-> err[w]]
      /\ err' = [err EXCEPT ![w] = "none"]
  BY DEF RecordPrimary, states
<1>5. primary' \in Failures /\ primary' # None /\ primary'.worker = w
  <2>1. err[w] \in {"io", "refused"}
    BY <1>3, WorkerFacts
  <2>2. QED
    BY <1>4, <2>1, RecordFailed, Zenon
<1>6. PICK s \in Seq(Steps) : job' = [job EXCEPT ![w] = s] /\ InOrder(s)
  <2>1. <<>> \in Seq(Steps) /\ InOrder(<<>>)
    BY DEF InOrder
  <2>2. QED
    BY <2>1, CoordinatedStopOrder, Zenon DEF RecordPrimary
<1>7. /\ job' \in [Actors -> Seq(Steps)] /\ job'[Controller] = job[Controller]
      /\ \A a \in Actors : job'[a] = job[a] \/ InOrder(job'[a])
  BY <1>1, <1>6, Threads DEF TypeInv
<1>8. /\ pc' \in [Workers -> Positions] /\ pc'[w] = p /\ \A v \in Workers : v # w => pc'[v] = pc[v]
  BY <1>1, <1>2 DEF TypeInv, Reporting, Positions
<1>9. ~Gone(w) /\ p \notin {"new", "exited", "failed"} \cup Recording
  BY <1>3 DEF Gone, Recording, Reporting
<1>10. Left' = Left /\ Fresh' = Fresh /\ Stopped' = Stopped
  <2>1. Left' = Left /\ Fresh' = Fresh
    BY <1>8, <1>9 DEF Left, Fresh, Gone
  <2>2. Stopped' = Stopped
    BY <1>4, Zenon DEF Stopped, Stopping
  <2>3. QED
    BY <2>1, <2>2
<1>11. err' \in [Workers -> {"none", "io", "refused", "interrupt"}] /\ err'[w] = "none"
       /\ \A v \in Workers : v # w => err'[v] = err[v]
  BY <1>1, <1>4 DEF TypeInv
<1>12. TypeInv'
  BY <1>1, <1>4, <1>5, <1>7, <1>8, <1>11 DEF TypeInv
<1>13. CallInv'
  BY <1>1, <1>4, <1>5, <1>7, <1>10, Zenon DEF CallInv
<1>14. MarkInv'
  <2>1. \A a \in Actors : Ordered(job'[a], Stopped')
    BY <1>1, <1>7, <1>10, InOrderOrdered, Zenon DEF MarkInv
  <2>2. ASSUME NEW v \in Workers
        PROVE  /\ interrupted'[v] \/ nodeInterrupted'[v] => v \in Stopped'
               /\ channels' # "open" => v \in Left' \/ v \in Stopped'
               /\ err'[v] = "interrupt" => v \in Stopped'
               /\ pc'[v] \in Recording => err'[v] \in {"io", "refused"}
               /\ pc'[v] = "failed" => err'[v] # "none"
    BY <1>1, <1>4, <1>8, <1>9, <1>10, <1>11, Zenon DEF MarkInv
  <2>3. QED
    BY <2>1, <2>2, Zenon DEF MarkInv
<1>15. FailInv'
  BY <1>4, <1>5, <1>8, Zenon DEF FailInv, None
<1>16. EndInv'
  <2>1. w \notin Left /\ w \notin Fresh
    BY <1>9 DEF Left, Fresh, Gone
  <2>2. scheduler \notin {"Stopping", "Stopped", "Aborted"} /\ ~(runtime = "Compiled" /\ call = "none")
    BY <1>1, <2>1 DEF EndInv
  <2>3. runtime # "Stopped" /\ runtime # "Aborted"
    BY <1>1, <2>2 DEF EndInv
  <2>4. result \notin {"startCancelled", "internal"}
    BY <1>1 DEF EndInv, PrimaryReported
  <2>5. PrimaryReported'
    BY <1>4, <2>3, <2>4 DEF PrimaryReported
  <2>6. QED
    BY <1>4, <2>2, <2>3, <2>5 DEF EndInv
<1>17. QED
  BY <1>12, <1>13, <1>14, <1>15, <1>16 DEF Inv

(* A step of a program that does not end the call.                                         *)
LEMMA ProgramMoves ==
    ASSUME Inv, NEW a \in Actors, NEW x \in Steps, job[a] # <<>>, Head(job[a]) = x, x.op \in Body,
           job' = [job EXCEPT ![a] = Tail(job[a])],
           UNCHANGED <<pc, err, errors, primary, runtime, scheduler, call, result>>,
           stopRequested' \in [Workers -> BOOLEAN], aborted' \in [Workers -> BOOLEAN],
           interrupted' \in [Workers -> BOOLEAN], nodeInterrupted' \in [Workers -> BOOLEAN],
           Stopped \subseteq Stopped', x.op \in Marks => x.w \in Stopped',
           \A v \in Workers : interrupted'[v] \/ nodeInterrupted'[v] =>
                                interrupted[v] \/ nodeInterrupted[v] \/ v \in Stopped',
           channels' = channels \/ (a = Controller /\ \A v \in Workers : v \in Stopped),
           \A v \in Workers : x = Step("join", v) => v \in Left
    PROVE  Inv'
<1>1. TypeInv /\ CallInv /\ MarkInv /\ FailInv /\ EndInv
  BY DEF Inv
<1>2. PICK s \in Seq(Steps) : s = job[a] /\ s # <<>> /\ s[1] = x
  BY <1>1, Stepped, Zenon DEF TypeInv
<1>3. Tail(s) \in Seq(Steps)
  BY <1>2, Stepped, Zenon
<1>4. /\ job' \in [Actors -> Seq(Steps)] /\ job'[a] = Tail(s)
      /\ \A b \in Actors : b # a => job'[b] = job[b]
  BY <1>1, <1>2, <1>3, Zenon DEF TypeInv
<1>5. Left' = Left /\ Fresh' = Fresh
  BY Zenon DEF Left, Fresh, Gone
<1>6. x.op \notin Endings /\ \A w : x # Step("launch", w)
  BY DEF Body, Endings, Marks, Single, Whole, Plain, Step
<1>7. a = Controller => /\ Tail(s) # <<>> /\ Last(Tail(s)) = Last(s) /\ Proceeds(Tail(s), Fresh, Left)
                        /\ Last(s) # "started"
  <2>1. SUFFICES ASSUME a = Controller
                 PROVE  /\ Tail(s) # <<>> /\ Last(Tail(s)) = Last(s) /\ Proceeds(Tail(s), Fresh, Left)
                        /\ Last(s) # "started"
    BY Zenon
  <2>2. Proceeds(s, Fresh, Left)
    BY <1>1, <1>2, <2>1, Zenon DEF CallInv
  <2>3. Tail(s) # <<>> /\ Last(Tail(s)) = Last(s) /\ Proceeds(Tail(s), Fresh, Left)
    <3>1. PICK F, G : F = Fresh /\ G = Left
      BY Zenon
    <3>2. /\ Proceeds(s, F, G) /\ s[1].op \notin Endings
          /\ \A w \in Workers : s[1] = Step("join", w) => w \in G
      BY <1>2, <1>6, <2>2, <3>1, Zenon
    <3>3. Tail(s) # <<>> /\ Last(Tail(s)) = Last(s) /\ Proceeds(Tail(s), F, G)
      BY <1>2, <3>2, ProceedsTail, Zenon
    <3>4. QED
      BY <3>1, <3>3, Zenon
  <2>4. Last(s) # "started"
    <3>1. 1 \in 1 .. Len(s)
      BY <1>2, Stepped, Zenon
    <3>2. s[1].op \notin {"launch", "started"}
      BY <1>2 DEF Body, Endings, Marks, Single, Whole, Plain
    <3>3. QED
      BY <2>2, <3>1, <3>2, Zenon DEF Proceeds, Launches
  <2>5. QED
    BY <2>3, <2>4, Zenon
<1>8. TypeInv'
  BY <1>1, <1>4, Zenon DEF TypeInv
<1>9. CallInv'
  <2>1. CASE a = Controller
    BY <1>1, <1>2, <1>4, <1>5, <1>7, <2>1, Zenon DEF CallInv
  <2>2. CASE a # Controller
    <3>1. job'[Controller] = job[Controller] /\ channels' = channels
      BY <1>4, <2>2, Threads, Zenon
    <3>2. QED
      BY <1>1, <1>5, <3>1, Zenon DEF CallInv
  <2>3. QED
    BY <2>1, <2>2, Zenon
<1>10. MarkInv'
  <2>1. ASSUME NEW b \in Actors PROVE Ordered(job'[b], Stopped')
    <3>1. CASE b = a
      BY <1>1, <1>2, <1>4, <3>1, OrderedTail, Zenon DEF MarkInv
    <3>2. CASE b # a
      BY <1>1, <1>4, <3>2, OrderedMore, Zenon DEF MarkInv
    <3>3. QED
      BY <3>1, <3>2, Zenon
  <2>2. ASSUME NEW v \in Workers
        PROVE  /\ interrupted'[v] \/ nodeInterrupted'[v] => v \in Stopped'
               /\ channels' # "open" => v \in Left' \/ v \in Stopped'
               /\ err'[v] = "interrupt" => v \in Stopped'
               /\ pc'[v] \in Recording => err'[v] \in {"io", "refused"}
               /\ pc'[v] = "failed" => err'[v] # "none"
    BY <1>1, <1>5, Zenon DEF MarkInv
  <2>3. QED
    BY <2>1, <2>2, Zenon DEF MarkInv
<1>11. FailInv'
  <2>1. \A v \in Workers : job'[v] # <<>> => primary # None
    <3>1. \A v \in Workers : job'[v] # <<>> => job[v] # <<>>
      BY <1>2, <1>4, Threads, Zenon
    <3>2. QED
      BY <1>1, <3>1, Zenon DEF FailInv
  <2>2. runtime = "Compiled" => primary # None
    <3>1. CASE a = Controller
      <4>1. job[Controller] # <<>> /\ Last(job[Controller]) # "started"
        BY <1>2, <1>7, <3>1, Zenon
      <4>2. QED
        BY <1>1, <4>1, Zenon DEF CallInv, TypeInv
    <3>2. CASE a # Controller
      <4>1. a \in Workers
        BY <3>2, NAssumption DEF Actors, Workers, Controller
      <4>2. QED
        BY <1>1, <4>1, Zenon DEF FailInv
    <3>3. QED
      BY <3>1, <3>2, Zenon
  <2>3. QED
    BY <1>1, <2>1, <2>2 DEF FailInv, None
<1>12. EndInv'
  <2>1. channels' = channels \/ call # "none"
    BY <1>1, <1>2, Zenon DEF CallInv
  <2>2. PrimaryReported'
    BY <1>1, Zenon DEF EndInv, PrimaryReported, None
  <2>3. QED
    BY <1>1, <1>5, <2>1, <2>2, Zenon DEF EndInv
<1>13. QED
  BY <1>8, <1>9, <1>10, <1>11, <1>12, Zenon DEF Inv

(* A step is taken from the front.                                                         *)
LEMMA TakesStep ==
    ASSUME Inv, NEW a \in Actors, NEW op \in Body, NEW w \in Actors, Does(a, op, w)
    PROVE  /\ Step(op, w) \in Steps /\ Step(op, w).op = op /\ Step(op, w).w = w
           /\ job[a] # <<>> /\ Head(job[a]) = Step(op, w)
           /\ job' = [job EXCEPT ![a] = Tail(job[a])]
           /\ op \in Single => w \in Stopped
           /\ op \in Whole => \A v \in Workers : v \in Stopped
<1>1. Step(op, w) \in Steps /\ Step(op, w).op = op /\ Step(op, w).w = w
  BY StepType DEF Ops, Step
<1>2. job[a] # <<>> /\ Head(job[a]) = Step(op, w) /\ job' = [job EXCEPT ![a] = Tail(job[a])]
  BY DEF Does
<1>3. job[a] \in Seq(Steps) /\ Ordered(job[a], Stopped)
  BY DEF Inv, TypeInv, MarkInv
<1>4. job[a][1] = Step(op, w)
  BY <1>2, <1>3, Stepped
<1>5. /\ job[a][1].op \in Single => job[a][1].w \in Stopped
      /\ job[a][1].op \in Whole => \A v \in Workers : v \in Stopped
  BY <1>2, <1>3, FirstMarked
<1>6. QED
  BY <1>1, <1>2, <1>4, <1>5

(* The steps of requestStop() and abort().                                                 *)
LEMMA ProgramSteps ==
    ASSUME Inv, NEW a \in Actors, ProgramStep(a)
    PROVE  Inv'
<1>1. /\ stopRequested \in [Workers -> BOOLEAN] /\ aborted \in [Workers -> BOOLEAN]
      /\ interrupted \in [Workers -> BOOLEAN] /\ nodeInterrupted \in [Workers -> BOOLEAN]
  BY DEF Inv, TypeInv
<1>2. ASSUME NEW w \in Workers, Mark(a, w) \/ MarkAborted(a, w) PROVE Inv'
  <2>1. PICK op \in Marks : Does(a, op, w)
    BY <1>2 DEF Mark, MarkAborted, Marks
  <2>2. /\ stopRequested' = [stopRequested EXCEPT ![w] = TRUE]
        /\ aborted' = aborted \/ aborted' = [aborted EXCEPT ![w] = TRUE]
    BY <1>2 DEF Mark, MarkAborted
  <2>3. /\ stopRequested' \in [Workers -> BOOLEAN] /\ aborted' \in [Workers -> BOOLEAN]
        /\ Stopped \subseteq Stopped' /\ w \in Stopped'
    BY <1>1, <2>2, Zenon DEF Stopped, Stopping
  <2>4. op \in Body /\ w \in Actors /\ \A v : Step(op, w) # Step("join", v)
    BY <2>1, Threads DEF Body, Marks, Step
  <2>5. /\ Step(op, w) \in Steps /\ Step(op, w).op = op /\ Step(op, w).w = w
        /\ job[a] # <<>> /\ Head(job[a]) = Step(op, w)
        /\ job' = [job EXCEPT ![a] = Tail(job[a])]
    BY <2>1, <2>4, TakesStep
  <2>6. UNCHANGED <<pc, err, errors, primary, runtime, scheduler, call, result,
                    interrupted, nodeInterrupted, channels>>
    BY <1>2 DEF Mark, MarkAborted, failure, states
  <2>7. QED
    BY <1>1, <2>3, <2>4, <2>5, <2>6, ProgramMoves, Zenon
<1>3. ASSUME NEW w \in Workers, Wake(a, w) \/ Interrupt(a, w) PROVE Inv'
  <2>1. PICK op \in Single : Does(a, op, w)
    BY <1>3 DEF Wake, Interrupt, Single
  <2>2. op \in Body /\ op \notin Marks /\ w \in Actors /\ \A v : Step(op, w) # Step("join", v)
    BY <2>1, Threads, Zenon DEF Body, Marks, Single, Step
  <2>3. /\ Step(op, w) \in Steps /\ Step(op, w).op = op /\ Step(op, w).w = w
        /\ job[a] # <<>> /\ Head(job[a]) = Step(op, w)
        /\ job' = [job EXCEPT ![a] = Tail(job[a])] /\ w \in Stopped
    BY <2>1, <2>2, TakesStep
  <2>4. /\ interrupted' \in [Workers -> BOOLEAN] /\ nodeInterrupted' \in [Workers -> BOOLEAN]
        /\ \A v \in Workers : interrupted'[v] \/ nodeInterrupted'[v] =>
                                interrupted[v] \/ nodeInterrupted[v] \/ v = w
        /\ UNCHANGED <<pc, err, errors, primary, runtime, scheduler, call, result,
                       stopRequested, aborted, channels>>
    BY <1>1, <1>3, Zenon DEF Wake, Interrupt, failure, states
  <2>5. Stopped' = Stopped
    BY <2>4, Zenon DEF Stopped, Stopping
  <2>6. QED
    BY <1>1, <2>2, <2>3, <2>4, <2>5, ProgramMoves, Zenon
<1>4. CASE WakeAll(a)
  <2>1. Does(a, "wakeAll", 0)
    BY <1>4 DEF WakeAll
  <2>2. "wakeAll" \in Body /\ "wakeAll" \in Whole /\ "wakeAll" \notin Marks /\ 0 \in Actors
        /\ \A v : Step("wakeAll", 0) # Step("join", v)
    BY Threads, Zenon DEF Body, Marks, Whole, Step, Controller
  <2>3. /\ Step("wakeAll", 0) \in Steps /\ Step("wakeAll", 0).op = "wakeAll"
        /\ job[a] # <<>> /\ Head(job[a]) = Step("wakeAll", 0)
        /\ job' = [job EXCEPT ![a] = Tail(job[a])] /\ \A v \in Workers : v \in Stopped
    BY <2>1, <2>2, TakesStep
  <2>4. /\ interrupted' \in [Workers -> BOOLEAN]
        /\ UNCHANGED <<pc, err, errors, primary, runtime, scheduler, call, result,
                       stopRequested, aborted, nodeInterrupted, channels>>
    BY <1>4 DEF WakeAll, failure, states
  <2>5. Stopped' = Stopped
    BY <2>4 DEF Stopped, Stopping
  <2>6. QED
    BY <1>1, <2>2, <2>3, <2>4, <2>5, ProgramMoves, Zenon
<1>5. CASE Withdraw(a)
  <2>1. Does(a, "withdraw", 0)
    BY <1>5 DEF Withdraw
  <2>2. "withdraw" \in Body /\ "withdraw" \notin Marks /\ 0 \in Actors
        /\ \A v : Step("withdraw", 0) # Step("join", v)
    BY Threads DEF Body, Marks, Plain, Step, Controller
  <2>3. /\ Step("withdraw", 0) \in Steps /\ Step("withdraw", 0).op = "withdraw"
        /\ job[a] # <<>> /\ Head(job[a]) = Step("withdraw", 0)
        /\ job' = [job EXCEPT ![a] = Tail(job[a])]
    BY <2>1, <2>2, TakesStep
  <2>4. UNCHANGED <<pc, err, errors, primary, runtime, scheduler, call, result,
                    stopRequested, aborted, interrupted, nodeInterrupted, channels>>
    BY <1>5 DEF Withdraw, failure, states
  <2>5. Stopped' = Stopped
    BY <2>4 DEF Stopped, Stopping
  <2>6. QED
    BY <1>1, <2>2, <2>3, <2>4, <2>5, ProgramMoves, Zenon
<1>6. QED
  BY <1>2, <1>3, <1>4, <1>5 DEF ProgramStep

(* The other steps of the controller that do not end its call.                              *)
LEMMA ControllerMoves ==
    ASSUME Inv, \/ CloseChannels \/ AbortChannels \/ StopBegins
                \/ \E w \in Workers : Join(w)
    PROVE  Inv'
<1>1. /\ stopRequested \in [Workers -> BOOLEAN] /\ aborted \in [Workers -> BOOLEAN]
      /\ interrupted \in [Workers -> BOOLEAN] /\ nodeInterrupted \in [Workers -> BOOLEAN]
  BY DEF Inv, TypeInv
<1>2. CASE CloseChannels \/ AbortChannels
  <2>1. PICK op \in {"closeChannels", "abortChannels"} : Does(Controller, op, 0)
    BY <1>2 DEF CloseChannels, AbortChannels, ShutChannels
  <2>2. op \in Body /\ op \in Whole /\ op \notin Marks /\ 0 \in Actors
        /\ \A v : Step(op, 0) # Step("join", v)
    BY <2>1, Threads DEF Body, Marks, Whole, Step, Controller
  <2>3. /\ Step(op, 0) \in Steps /\ Step(op, 0).op = op
        /\ job[Controller] # <<>> /\ Head(job[Controller]) = Step(op, 0)
        /\ job' = [job EXCEPT ![Controller] = Tail(job[Controller])]
        /\ \A v \in Workers : v \in Stopped
    BY <2>1, <2>2, Threads, TakesStep
  <2>4. UNCHANGED <<pc, err, errors, primary, runtime, scheduler, call, result,
                    stopRequested, aborted, interrupted, nodeInterrupted>>
    BY <1>2, Zenon DEF CloseChannels, AbortChannels, ShutChannels, failure, states
  <2>5. Stopped' = Stopped
    BY <2>4 DEF Stopped, Stopping
  <2>6. QED
    BY <1>1, <2>2, <2>3, <2>4, <2>5, Threads, ProgramMoves, Zenon
<1>3. CASE StopBegins
  <2>1. Does(Controller, "stopping", 0)
    BY <1>3 DEF StopBegins
  <2>2. "stopping" \in Body /\ "stopping" \notin Marks /\ 0 \in Actors
        /\ \A v : Step("stopping", 0) # Step("join", v)
    BY Threads DEF Body, Marks, Plain, Step, Controller
  <2>3. /\ Step("stopping", 0) \in Steps /\ Step("stopping", 0).op = "stopping"
        /\ job[Controller] # <<>> /\ Head(job[Controller]) = Step("stopping", 0)
        /\ job' = [job EXCEPT ![Controller] = Tail(job[Controller])]
    BY <2>1, <2>2, Threads, TakesStep
  <2>4. UNCHANGED <<pc, err, errors, primary, runtime, scheduler, call, result,
                    stopRequested, aborted, interrupted, nodeInterrupted, channels>>
    BY <1>3 DEF StopBegins, failure, thread
  <2>5. Stopped' = Stopped
    BY <2>4 DEF Stopped, Stopping
  <2>6. QED
    BY <1>1, <2>2, <2>3, <2>4, <2>5, Threads, ProgramMoves, Zenon
<1>4. ASSUME NEW w \in Workers, Join(w) PROVE Inv'
  <2>1. Does(Controller, "join", w) /\ w \in Left
    BY <1>4 DEF Join, Left, Gone
  <2>2. "join" \in Body /\ "join" \notin Marks /\ w \in Actors
        /\ \A v : Step("join", w) = Step("join", v) => v = w
    BY Threads DEF Body, Marks, Plain, Step
  <2>3. /\ Step("join", w) \in Steps /\ Step("join", w).op = "join"
        /\ job[Controller] # <<>> /\ Head(job[Controller]) = Step("join", w)
        /\ job' = [job EXCEPT ![Controller] = Tail(job[Controller])]
    BY <2>1, <2>2, Threads, TakesStep
  <2>4. UNCHANGED <<pc, err, errors, primary, runtime, scheduler, call, result,
                    stopRequested, aborted, interrupted, nodeInterrupted, channels>>
    BY <1>4 DEF Join, failure, thread, states
  <2>5. Stopped' = Stopped
    BY <2>4 DEF Stopped, Stopping
  <2>6. QED
    BY <1>1, <2>1, <2>2, <2>3, <2>4, <2>5, Threads, ProgramMoves, Zenon
<1>5. QED
  BY <1>2, <1>3, <1>4

(* A program that finishes proceeds, whatever has happened to the workers.                  *)
LEMMA FinishesProceeds ==
    ASSUME NEW P, NEW op \in {"harvest", "teardown"}, Finishes(P, op), NEW F, NEW G, NEW S
    PROVE  /\ P \in Seq(Steps) /\ P # <<>> /\ Last(P) = op
           /\ Proceeds(P, F, G) /\ Ordered(P, S)
<1>1. Ordered(P, S)
  BY InOrderOrdered DEF Finishes
<1>2. Last(P) = op /\ Last(P) # "started"
  BY DEF Finishes, Last
<1>3. Proceeds(P, F, G)
  BY <1>2 DEF Finishes, Proceeds, Joins, JoinsAll
<1>4. QED
  BY <1>1, <1>2, <1>3 DEF Finishes

(* The controller starts stop() or abort(), or gives up a start for an abort.               *)
LEMMA NewProgram ==
    ASSUME Inv, NEW P, NEW op \in {"harvest", "teardown"}, Finishes(P, op),
           job' = [job EXCEPT ![Controller] = P],
           UNCHANGED <<pc, stopRequested, aborted, interrupted, nodeInterrupted, err, errors,
                       primary, channels, runtime, scheduler, result>>,
           call' \in {"start", "stop", "sync", "abort"},
           call' = "start" => call = "start" /\ op = "teardown" /\ primary # None,
           call' = "stop" => op = "harvest", call' \in {"sync", "abort"} => op = "teardown",
           call' # "start" => runtime = "ThreadedRunning", call' = "sync" => primary # None
    PROVE  Inv'
<1>1. TypeInv /\ CallInv /\ MarkInv /\ FailInv /\ EndInv
  BY DEF Inv
<1>2. Left' = Left /\ Fresh' = Fresh /\ Stopped' = Stopped
  BY DEF Left, Fresh, Gone, Stopped, Stopping
<1>3. /\ P \in Seq(Steps) /\ P # <<>> /\ Last(P) = op
      /\ Proceeds(P, Fresh, Left) /\ Ordered(P, Stopped)
  BY FinishesProceeds, Zenon
<1>4. /\ job' \in [Actors -> Seq(Steps)] /\ job'[Controller] = P
      /\ \A a \in Actors : a # Controller => job'[a] = job[a]
      /\ \A w \in Workers : job'[w] = job[w]
  BY <1>1, <1>3, Threads, Zenon DEF TypeInv
<1>5. TypeInv'
  BY <1>1, <1>4, Zenon DEF TypeInv
<1>6. CallInv'
  BY <1>1, <1>2, <1>3, <1>4, Zenon DEF CallInv
<1>7. MarkInv'
  <2>1. \A a \in Actors : Ordered(job'[a], Stopped')
    BY <1>1, <1>2, <1>3, <1>4, Zenon DEF MarkInv
  <2>2. QED
    BY <1>1, <1>2, <2>1, Zenon DEF MarkInv
<1>8. FailInv'
  BY <1>1, <1>2, <1>4, Zenon DEF FailInv, None
<1>9. EndInv'
  <2>1. PrimaryReported'
    BY <1>1 DEF EndInv, PrimaryReported, None
  <2>2. QED
    BY <1>1, <1>2, <2>1, Zenon DEF EndInv, None
<1>10. QED
  BY <1>5, <1>6, <1>7, <1>8, <1>9 DEF Inv

(* The calls that begin a program, and the two steps that replace a start by an abort.   *)
LEMMA ProgramStarts ==
    ASSUME Inv, \/ Stop \/ Synchronize \/ Abort \/ StartedFailed
                \/ \E w \in Workers : LaunchRefused(w)
    PROVE  Inv'
<1>1. CASE Stop
  <2>1. /\ runtime = "ThreadedRunning" /\ call' = "stop"
        /\ job' = [job EXCEPT ![Controller] = StopExecutor]
        /\ UNCHANGED <<pc, stopRequested, aborted, interrupted, nodeInterrupted, err, errors,
                       primary, channels, runtime, scheduler, result>>
    BY <1>1 DEF Stop, Begin, thread, failure
  <2>2. QED
    BY <2>1, StopFinishes, NewProgram, Zenon
<1>2. CASE Synchronize \/ Abort
  <2>1. /\ runtime = "ThreadedRunning" /\ call' \in {"sync", "abort"}
        /\ call' = "sync" => primary # None
        /\ job' = [job EXCEPT ![Controller] = <<Step("withdraw", 0)>> \o AbortExecutor]
        /\ UNCHANGED <<pc, stopRequested, aborted, interrupted, nodeInterrupted, err, errors,
                       primary, channels, runtime, scheduler, result>>
    BY <1>2, Zenon DEF Synchronize, Abort, Begin, thread, failure
  <2>2. QED
    BY <2>1, WithdrawnAbortFinishes, NewProgram, Zenon
<1>3. ASSUME NEW x \in {Step("started", 0)} \cup {Step("launch", w) : w \in Workers},
             job[Controller] # <<>>, Head(job[Controller]) = x
      PROVE  call = "start" /\ Last(job[Controller]) = "started" /\ Proceeds(job[Controller], Fresh, Left)
  <2>1. PICK s \in Seq(Steps) : s = job[Controller] /\ s # <<>> /\ s[1] = x /\ 1 \in 1 .. Len(s)
    BY <1>3, Threads, Stepped DEF Inv, TypeInv
  <2>2. Proceeds(s, Fresh, Left) /\ (Last(s) = "started" => call = "start")
    BY <2>1 DEF Inv, CallInv
  <2>3. s[1].op \in {"launch", "started"}
    BY <2>1 DEF Step
  <2>4. Last(s) = "started"
    <3>1. CASE s[1].op = "launch"
      BY <2>1, <2>2, <3>1 DEF Proceeds, Joins
    <3>2. CASE s[1].op = "started"
      <4>1. 1 = Len(s)
        BY <2>1, <2>2, <3>2, Zenon DEF Proceeds, Endings
      <4>2. QED
        BY <3>2, <4>1, Zenon DEF Last
    <3>3. QED
      BY <2>3, <3>1, <3>2
  <2>5. QED
    BY <2>1, <2>2, <2>4
<1>4. CASE StartedFailed
  <2>1. /\ primary # None /\ job[Controller] # <<>> /\ Head(job[Controller]) = Step("started", 0)
        /\ job' = [job EXCEPT ![Controller] = AbortExecutor]
        /\ UNCHANGED <<pc, stopRequested, aborted, interrupted, nodeInterrupted, err, errors,
                       primary, channels, runtime, scheduler, result, call>>
    BY <1>4 DEF StartedFailed, thread, failure, states
  <2>2. call = "start"
    BY <1>3, <2>1
  <2>3. QED
    BY <2>1, <2>2, AbortFinishes, NewProgram, Zenon
<1>5. ASSUME NEW w \in Workers, LaunchRefused(w) PROVE Inv'
  <2>1. /\ Stopping(w) /\ job[Controller] # <<>> /\ Head(job[Controller]) = Step("launch", w)
        /\ job' = [job EXCEPT ![Controller] = AbortExecutor]
        /\ UNCHANGED <<pc, stopRequested, aborted, interrupted, nodeInterrupted, err, errors,
                       primary, channels, runtime, scheduler, result, call>>
    BY <1>5 DEF LaunchRefused, thread, failure, states
  <2>2. call = "start"
    BY <1>3, <2>1
  <2>3. primary # None
    BY <2>1, <2>2, Zenon DEF Inv, CallInv, FailInv, Stopped
  <2>4. QED
    BY <2>1, <2>2, <2>3, AbortFinishes, NewProgram, Zenon
<1>6. QED
  BY <1>1, <1>2, <1>4, <1>5

(* The step that ends a call is its last, and behind it every worker is joined.             *)
LEMMA CallEnds ==
    ASSUME Inv, NEW op \in Endings, Does(Controller, op, 0)
    PROVE  /\ job' \in [Actors -> Seq(Steps)] /\ job'[Controller] = <<>>
           /\ \A w \in Workers : job'[w] = job[w]
           /\ \A a \in Actors : Ordered(job'[a], Stopped)
           /\ job[Controller] # <<>> /\ Last(job[Controller]) = op
           /\ op # "started" => Left = Workers
<1>1. TypeInv /\ CallInv /\ MarkInv
  BY DEF Inv
<1>2. PICK s \in Seq(Steps) : s = job[Controller] /\ s # <<>> /\ Head(s) = Step(op, 0)
  BY <1>1, Threads DEF TypeInv, Does
<1>3. /\ Len(s) \in Nat \ {0} /\ Tail(s) \in Seq(Steps) /\ Len(Tail(s)) = Len(s) - 1
      /\ s[1] = Step(op, 0) /\ 1 \in 1 .. Len(s)
  BY <1>2, Stepped
<1>4. Proceeds(s, Fresh, Left)
  BY <1>1, <1>2, Zenon DEF CallInv
<1>5. Len(s) = 1
  <2>1. s[1].op = op
    BY <1>3, Fields
  <2>2. QED
    BY <1>3, <1>4, <2>1, Zenon DEF Proceeds
<1>6. Tail(s) = <<>>
  <2>1. Tail(s) # <<>> => Len(Tail(s)) # 0
    BY <1>3, Stepped
  <2>2. QED
    BY <1>3, <1>5, <2>1
<1>7. /\ job' \in [Actors -> Seq(Steps)] /\ job'[Controller] = <<>>
      /\ \A a \in Actors : a # Controller => job'[a] = job[a]
  BY <1>1, <1>2, <1>3, <1>6, Threads DEF TypeInv, Does
<1>8. \A a \in Actors : Ordered(job'[a], Stopped)
  <2>1. Ordered(<<>>, Stopped)
    BY NothingLeft
  <2>2. QED
    BY <1>1, <1>7, <2>1, Zenon DEF MarkInv
<1>9. Last(s) = op
  BY <1>3, <1>5, Fields DEF Last
<1>10. ASSUME op # "started" PROVE Left = Workers
  <2>1. Joins(s, Left)
    BY <1>4, <1>9, <1>10, Zenon DEF Proceeds
  <2>2. \A w : s[1] # Step("join", w)
    BY <1>3 DEF Step, Endings
  <2>3. \A i \in 1 .. Len(s) : i = 1
    BY <1>5
  <2>4. Workers \subseteq Left
    BY <2>1, <2>2, <2>3, Zenon DEF Joins
  <2>5. QED
    BY <2>4 DEF Left
<1>11. QED
  BY <1>2, <1>7, <1>8, <1>9, <1>10, Threads, Zenon

(* What the end of a call leaves to show.                                                   *)
LEMMA EndedCall ==
    ASSUME Inv, NEW op \in Endings, Does(Controller, op, 0),
           UNCHANGED <<pc, stopRequested, aborted, interrupted, nodeInterrupted, err, errors,
                       primary>>,
           call' = "none", channels' = channels \/ op # "started",
           runtime' # "Compiled", EndInv'
    PROVE  Inv'
<1>1. TypeInv /\ CallInv /\ MarkInv /\ FailInv
  BY DEF Inv
<1>2. Left' = Left /\ Fresh' = Fresh /\ Stopped' = Stopped
  BY DEF Left, Fresh, Gone, Stopped, Stopping
<1>3. /\ job' \in [Actors -> Seq(Steps)] /\ job'[Controller] = <<>>
      /\ \A w \in Workers : job'[w] = job[w]
      /\ \A a \in Actors : Ordered(job'[a], Stopped)
      /\ op # "started" => Left = Workers
  BY CallEnds, Zenon
<1>4. TypeInv'
  BY <1>1, <1>3 DEF TypeInv
<1>5. CallInv'
  BY <1>3, Zenon DEF CallInv
<1>6. MarkInv'
  BY <1>1, <1>2, <1>3, Zenon DEF MarkInv
<1>7. FailInv'
  BY <1>1, <1>2, <1>3, Zenon DEF FailInv, None
<1>8. QED
  BY <1>4, <1>5, <1>6, <1>7 DEF Inv

(* The four steps that end a lifecycle call.                                             *)
LEMMA CallsEnd ==
    ASSUME Inv, Started \/ HarvestErrors \/ HarvestClean \/ Teardown
    PROVE  Inv'
<1>1. TypeInv /\ CallInv /\ MarkInv /\ FailInv /\ EndInv
  BY DEF Inv
<1>2. UNCHANGED <<pc, stopRequested, aborted, interrupted, nodeInterrupted, err, errors, primary>>
  BY Zenon DEF Started, HarvestErrors, HarvestClean, Teardown, thread, failure
<1>3. Left' = Left /\ Fresh' = Fresh
  BY <1>2 DEF Left, Fresh, Gone
<1>4. CASE Started
  <2>1. /\ Does(Controller, "started", 0) /\ "started" \in Endings
        /\ runtime' = "ThreadedRunning" /\ call' = "none" /\ result' = "ok"
        /\ scheduler' = scheduler /\ channels' = channels
    BY <1>4 DEF Started, Endings
  <2>2. call = "start"
    BY <1>1, <2>1, CallEnds, Zenon DEF CallInv
  <2>3. scheduler = "Running"
    BY <1>1, <2>2, Zenon DEF CallInv
  <2>4. EndInv'
    BY <2>1, <2>3 DEF EndInv, PrimaryReported
  <2>5. QED
    BY <1>2, <2>1, <2>4, EndedCall
<1>5. CASE HarvestErrors
  <2>1. /\ Does(Controller, "harvest", 0) /\ "harvest" \in Endings
        /\ runtime' = "Aborted" /\ call' = "none" /\ scheduler' = "Aborted"
        /\ result' = IF primary = None THEN "internal" ELSE primary.error
    BY <1>5 DEF HarvestErrors, Endings
  <2>2. primary # None
    BY <1>1, <1>5 DEF HarvestErrors, FailInv
  <2>3. result' = primary.error /\ primary.error \in {"io", "refused"}
    BY <1>1, <2>1, <2>2, PrimaryTyped
  <2>4. Left = Workers
    BY <2>1, CallEnds, Zenon
  <2>5. PrimaryReported'
    BY <1>2, <2>3 DEF PrimaryReported
  <2>6. EndInv'
    BY <1>3, <2>1, <2>4, <2>5 DEF EndInv
  <2>7. QED
    BY <1>2, <2>1, <2>6, EndedCall
<1>6. CASE HarvestClean
  <2>1. /\ Does(Controller, "harvest", 0) /\ "harvest" \in Endings /\ call' = "none"
        /\ \/ scheduler' = "Stopped" /\ runtime' = "Stopped" /\ result' = "ok"
           \/ scheduler' = "Stopping" /\ runtime' = runtime /\ result' = "io"
        /\ channels' = channels
    BY <1>6 DEF HarvestClean, Endings
  <2>2. Left = Workers /\ job[Controller] # <<>> /\ Last(job[Controller]) = "harvest"
    BY <2>1, CallEnds
  <2>3. runtime = "ThreadedRunning"
    BY <1>1, <2>2 DEF CallInv, TypeInv
  <2>4. primary = None
    <3>1. SUFFICES ASSUME primary # None PROVE FALSE
      OBVIOUS
    <3>2. PICK w \in Workers : primary.worker = w
      BY <1>1, <3>1, PrimaryTyped
    <3>3. errors[w] # 0 \/ pc[w] \in Reporting
      BY <1>1, <3>1, <3>2 DEF FailInv
    <3>4. errors[w] = 0
      BY <1>6 DEF HarvestClean
    <3>5. w \in Left
      BY <2>2, Zenon
    <3>6. QED
      BY <3>3, <3>4, <3>5 DEF Left, Gone, Reporting
  <2>5. PrimaryReported'
    BY <2>1, <2>3 DEF PrimaryReported
  <2>6. EndInv'
    BY <1>2, <1>3, <2>1, <2>2, <2>3, <2>4, <2>5, Zenon DEF EndInv, None
  <2>7. QED
    BY <1>2, <2>1, <2>3, <2>6, EndedCall
<1>7. CASE Teardown
  <2>1. /\ Does(Controller, "teardown", 0) /\ "teardown" \in Endings
        /\ runtime' = "Aborted" /\ call' = "none" /\ scheduler' = "Aborted"
        /\ result' = IF call = "abort" THEN "ok"
                     ELSE IF primary # None THEN primary.error
                     ELSE IF call = "start" THEN "startCancelled" ELSE "internal"
        /\ channels' = channels
    BY <1>7 DEF Teardown, Endings
  <2>2. Left = Workers /\ job[Controller] # <<>> /\ Last(job[Controller]) = "teardown"
    BY <2>1, CallEnds, Zenon
  <2>3. call = "abort" \/ primary # None
    BY <1>1, <2>2 DEF CallInv, TypeInv
  <2>4. result' = "ok" \/ (primary # None /\ result' = primary.error)
    BY <2>1, <2>3
  <2>5. primary # None => primary.error \in {"io", "refused"}
    BY <1>1, PrimaryTyped
  <2>6. PrimaryReported'
    BY <1>2, <2>4, <2>5 DEF PrimaryReported
  <2>7. EndInv'
    BY <1>3, <2>1, <2>2, <2>6 DEF EndInv
  <2>8. QED
    BY <1>2, <2>1, <2>7, EndedCall
<1>8. QED
  BY <1>4, <1>5, <1>6, <1>7

(* While it starts workers a program has nobody to join.                                    *)
LEMMA LaunchesOn ==
    ASSUME NEW s, Last(s) = "started", NEW F, NEW G, NEW G2, Proceeds(s, F, G)
    PROVE  Proceeds(s, F, G2)
  BY DEF Proceeds

(* MediaGraphWorker::start runs a worker's thread once: it was new.                         *)
LEMMA LaunchStep ==
    ASSUME Inv, NEW w \in Workers, Launch(w)
    PROVE  Inv'
<1>1. TypeInv /\ CallInv /\ MarkInv /\ FailInv /\ EndInv
  BY DEF Inv
<1>2. /\ ~Stopping(w) /\ job[Controller] # <<>> /\ Head(job[Controller]) = Step("launch", w)
      /\ job' = [job EXCEPT ![Controller] = Tail(@)] /\ pc' = [pc EXCEPT ![w] = "launched"]
      /\ UNCHANGED <<stopRequested, aborted, interrupted, nodeInterrupted, err, errors, primary,
                     channels, runtime, scheduler, call, result>>
  BY DEF Launch, Does, failure, states
<1>3. PICK s \in Seq(Steps) : s = job[Controller] /\ s # <<>> /\ s[1] = Step("launch", w)
  BY <1>1, <1>2, Threads, Stepped DEF TypeInv
<1>4. /\ 1 \in 1 .. Len(s) /\ Tail(s) \in Seq(Steps)
      /\ s[1].op = "launch" /\ s[1].w = w /\ s[1].op \notin Endings
      /\ \A v : s[1] # Step("join", v)
  <2>1. s[1].op = "launch" /\ s[1].w = w
    BY <1>3, Fields
  <2>2. \A v : Step("join", v).op = "join"
    BY Fields
  <2>3. 1 \in 1 .. Len(s) /\ Tail(s) \in Seq(Steps)
    BY <1>3, Stepped
  <2>4. QED
    BY <2>1, <2>2, <2>3 DEF Endings
<1>5. Proceeds(s, Fresh, Left)
  BY <1>1, <1>3, Zenon DEF CallInv
<1>6. Last(s) = "started" /\ w \in Fresh
  <2>1. Last(s) = "started"
    BY <1>4, <1>5, Zenon DEF Proceeds, Joins
  <2>2. QED
    BY <1>4, <1>5, <2>1, Zenon DEF Proceeds, Launches
<1>7. call = "start" /\ channels = "open" /\ runtime = "Compiled" /\ scheduler = "Running"
  BY <1>1, <1>3, <1>6, Zenon DEF CallInv
<1>8. /\ pc' \in [Workers -> Positions] /\ pc'[w] = "launched" /\ pc[w] = "new"
      /\ \A v \in Workers : v # w => pc'[v] = pc[v]
  BY <1>1, <1>2, <1>6, Zenon DEF TypeInv, Fresh, Positions
<1>9. Fresh' = Fresh \ {w} /\ Stopped' = Stopped
  BY <1>2, <1>8, Zenon DEF Fresh, Stopped, Stopping
<1>10. /\ job' \in [Actors -> Seq(Steps)] /\ job'[Controller] = Tail(s)
       /\ \A a \in Actors : a # Controller => job'[a] = job[a]
  BY <1>1, <1>2, <1>3, <1>4, Threads, Zenon DEF TypeInv
<1>11. Tail(s) # <<>> /\ Last(Tail(s)) = "started" /\ Proceeds(Tail(s), Fresh', Left')
  <2>1. PICK F, F2, G, G2 : F = Fresh /\ F2 = Fresh' /\ G = Left /\ G2 = Left'
    OBVIOUS
  <2>2. \A v \in F : v \in F2 \/ s[1] = Step("launch", v)
    BY <1>3, <1>9, <2>1, Zenon
  <2>3. Proceeds(s, F, G)
    BY <1>5, <2>1
  <2>4. Tail(s) # <<>> /\ Last(Tail(s)) = "started" /\ Proceeds(Tail(s), F2, G)
    BY <1>3, <1>4, <1>6, <2>2, <2>3, ProceedsOn, Zenon
  <2>5. Proceeds(Tail(s), F2, G2)
    BY <2>4, LaunchesOn
  <2>6. QED
    BY <2>1, <2>4, <2>5
<1>12. TypeInv'
  BY <1>1, <1>2, <1>8, <1>10, Zenon DEF TypeInv
<1>13. CallInv'
  BY <1>1, <1>2, <1>3, <1>7, <1>10, <1>11, Zenon DEF CallInv
<1>14. MarkInv'
  <2>1. Ordered(Tail(s), Stopped)
    <3>1. PICK S : S = Stopped
      OBVIOUS
    <3>2. Ordered(s, S) /\ s[1].op \notin Marks
      BY <1>1, <1>3, <1>4, <3>1, Threads, Zenon DEF MarkInv, Marks
    <3>3. QED
      BY <1>3, <3>1, <3>2, OrderedTail
  <2>2. \A a \in Actors : Ordered(job'[a], Stopped')
    BY <1>1, <1>9, <1>10, <2>1, Zenon DEF MarkInv
  <2>3. \A v \in Workers : /\ pc'[v] \in Recording => pc[v] \in Recording
                           /\ pc'[v] = "failed" => pc[v] = "failed"
    BY <1>8 DEF Recording
  <2>4. QED
    BY <1>1, <1>2, <1>7, <1>9, <2>2, <2>3, Zenon DEF MarkInv
<1>15. FailInv'
  <2>1. \A v \in Workers : job'[v] = job[v] /\ (pc'[v] \in Reporting <=> pc[v] \in Reporting)
    BY <1>8, <1>10, Threads DEF Reporting
  <2>2. QED
    BY <1>1, <1>2, <1>9, <2>1, Zenon DEF FailInv, None
<1>16. EndInv'
  <2>1. PrimaryReported'
    BY <1>1, <1>2, Zenon DEF EndInv, PrimaryReported, None
  <2>2. QED
    BY <1>2, <1>7, <2>1 DEF EndInv
<1>17. QED
  BY <1>12, <1>13, <1>14, <1>15, <1>16 DEF Inv

(* startThreaded() begins with every worker new.                                            *)
LEMMA StartStep ==
    ASSUME Inv, StartThreaded
    PROVE  Inv'
<1>1. TypeInv /\ CallInv /\ MarkInv /\ FailInv /\ EndInv
  BY DEF Inv
<1>2. /\ runtime = "Compiled" /\ call = "none" /\ call' = "start" /\ scheduler' = "Running"
      /\ job' = [job EXCEPT ![Controller] = StartExecutor]
      /\ UNCHANGED <<pc, stopRequested, aborted, interrupted, nodeInterrupted, err, errors,
                     primary, channels, runtime, result>>
  BY DEF StartThreaded, thread, failure
<1>3. Left' = Left /\ Fresh' = Fresh /\ Stopped' = Stopped
  BY <1>2, Zenon DEF Left, Fresh, Gone, Stopped, Stopping
<1>4. Fresh = Workers /\ channels = "open"
  BY <1>1, <1>2 DEF EndInv
<1>5. PICK s \in Seq(Steps) :
        /\ s = StartExecutor /\ Len(s) = N + 1 /\ InOrder(s)
        /\ \A w \in 1 .. N : s[w] = Step("launch", w)
        /\ s[N + 1] = Step("started", 0)
  BY StartLaunches
<1>6. s # <<>> /\ Last(s) = "started" /\ Ordered(s, Stopped)
  <2>1. s # <<>> /\ Last(s) = "started"
    BY <1>5, NAssumption DEF Last, Step
  <2>2. QED
    BY <1>5, <2>1, InOrderOrdered
<1>7. ASSUME NEW G PROVE Proceeds(s, Workers, G)
  <2>1. ASSUME NEW i \in 1 .. Len(s)
        PROVE  /\ i = N + 1 => s[i] = Step("started", 0)
               /\ i # N + 1 => i \in Workers /\ s[i] = Step("launch", i)
    BY <1>5, NAssumption DEF Workers
  <2>2. ASSUME NEW i \in 1 .. Len(s)
        PROVE  /\ s[i].op \in {"launch", "started"} /\ (s[i].op = "started" <=> i = N + 1)
               /\ s[i].op = "launch" => s[i].w = i /\ i \in Workers
    <3>1. CASE i = N + 1
      <4>1. s[i] = Step("started", 0)
        BY <2>1, <3>1
      <4>2. s[i].op = "started"
        BY <4>1, Fields
      <4>3. QED
        BY <3>1, <4>2
    <3>2. CASE i # N + 1
      <4>1. i \in Workers /\ s[i] = Step("launch", i)
        BY <2>1, <3>2
      <4>2. s[i].op = "launch" /\ s[i].w = i
        BY <4>1, Fields
      <4>3. QED
        BY <3>2, <4>1, <4>2
    <3>3. QED
      BY <3>1, <3>2
  <2>3. \A i \in 1 .. Len(s) : s[i].op \in Endings <=> i = Len(s)
    BY <1>5, <2>2 DEF Endings
  <2>4. ASSUME NEW i \in 1 .. Len(s), NEW j \in 1 .. Len(s), s[i].op = "launch", s[j] = s[i]
        PROVE  j = i
    <3>1. s[i].w = i /\ s[j].w = j
      BY <2>2, <2>4
    <3>2. QED
      BY <2>4, <3>1
  <2>5. Launches(s, Workers)
    BY <2>2, <2>4 DEF Launches
  <2>6. QED
    BY <1>6, <2>3, <2>5 DEF Proceeds
<1>8. /\ job' \in [Actors -> Seq(Steps)] /\ job'[Controller] = s
      /\ \A a \in Actors : a # Controller => job'[a] = job[a]
      /\ \A w \in Workers : job'[w] = job[w]
  BY <1>1, <1>2, <1>5, Threads, Zenon DEF TypeInv
<1>9. TypeInv'
  BY <1>1, <1>2, <1>8, Zenon DEF TypeInv
<1>10. CallInv'
  <2>1. Proceeds(s, Fresh', Left')
    BY <1>3, <1>4, <1>7
  <2>2. QED
    BY <1>2, <1>4, <1>6, <1>8, <2>1 DEF CallInv
<1>11. MarkInv'
  <2>1. \A a \in Actors : Ordered(job'[a], Stopped')
    BY <1>1, <1>3, <1>6, <1>8, Zenon DEF MarkInv
  <2>2. QED
    BY <1>1, <1>2, <1>3, <2>1, Zenon DEF MarkInv
<1>12. FailInv'
  BY <1>1, <1>2, <1>3, <1>8, Zenon DEF FailInv, None
<1>13. EndInv'
  <2>1. PrimaryReported'
    BY <1>1, <1>2 DEF EndInv, PrimaryReported, None
  <2>2. QED
    BY <1>2, <2>1 DEF EndInv
<1>14. QED
  BY <1>9, <1>10, <1>11, <1>12, <1>13 DEF Inv

(* The scheduler refuses to start: nobody runs.                                             *)
LEMMA RefusedStep ==
    ASSUME Inv, StartRefused
    PROVE  Inv'
<1>1. TypeInv /\ CallInv /\ MarkInv /\ FailInv /\ EndInv
  BY DEF Inv
<1>2. /\ runtime = "Compiled" /\ call = "none" /\ call' = call /\ job' = job
      /\ channels' = "aborted" /\ scheduler' = "Aborted" /\ runtime' = "Aborted" /\ result' = "io"
      /\ UNCHANGED <<pc, stopRequested, aborted, interrupted, nodeInterrupted, err, errors, primary>>
  BY DEF StartRefused, thread, failure
<1>3. Left' = Left /\ Fresh' = Fresh /\ Stopped' = Stopped
  BY <1>2 DEF Left, Fresh, Gone, Stopped, Stopping
<1>4. Fresh = Workers /\ primary = None
  BY <1>1, <1>2 DEF EndInv
<1>5. Left = Workers
  BY <1>4 DEF Left, Fresh, Gone
<1>6. TypeInv' /\ CallInv'
  BY <1>1, <1>2, <1>3, Zenon DEF TypeInv, CallInv
<1>7. MarkInv'
  BY <1>1, <1>2, <1>3, <1>5, Zenon DEF MarkInv
<1>8. FailInv'
  BY <1>1, <1>2, <1>3, Zenon DEF FailInv, None
<1>9. EndInv'
  BY <1>2, <1>3, <1>4, <1>5 DEF EndInv, PrimaryReported, None
<1>10. QED
  BY <1>6, <1>7, <1>8, <1>9 DEF Inv

-----------------------------------------------------------------------------
(* Nobody has started, nothing has failed.                                                  *)
LEMMA InitInv == Init => Inv
<1>1. SUFFICES ASSUME Init PROVE Inv
  OBVIOUS
<1>2. /\ primary = None /\ channels = "open" /\ runtime = "Compiled" /\ scheduler = "Idle"
      /\ call = "none" /\ result = "none"
      /\ \A w \in Workers : /\ pc[w] = "new" /\ ~Stopping(w) /\ ~interrupted[w]
                            /\ ~nodeInterrupted[w] /\ err[w] = "none" /\ errors[w] = 0
      /\ \A a \in Actors : job[a] = <<>>
  BY <1>1 DEF Init, Stopping
<1>3. TypeInv
  BY <1>1 DEF Init, TypeInv, Positions
<1>4. CallInv
  BY <1>2, Threads, Zenon DEF CallInv
<1>5. MarkInv
  <2>1. Ordered(<<>>, Stopped)
    BY NothingLeft
  <2>2. QED
    BY <1>2, <2>1, Zenon DEF MarkInv, Recording
<1>6. FailInv
  BY <1>2, Threads DEF FailInv, Reporting, Stopped
<1>7. EndInv
  BY <1>2 DEF EndInv, PrimaryReported, Fresh
<1>8. QED
  BY <1>3, <1>4, <1>5, <1>6, <1>7 DEF Inv

(* A step that changes nothing.                                                             *)
LEMMA Stutter ==
    ASSUME Inv, UNCHANGED vars
    PROVE  Inv'
<1>1. UNCHANGED <<pc, stopRequested, aborted, interrupted, nodeInterrupted, err, errors, primary,
                  job, channels, runtime, scheduler, call, result>>
  BY DEF vars, thread, failure, states
<1>2. Left' = Left /\ Fresh' = Fresh /\ Stopped' = Stopped
  BY <1>1, Zenon DEF Left, Fresh, Gone, Stopped, Stopping
<1>3. TypeInv' /\ CallInv'
  BY <1>1, <1>2, Zenon DEF Inv, TypeInv, CallInv
<1>4. MarkInv'
  BY <1>1, <1>2, Zenon DEF Inv, MarkInv
<1>5. FailInv'
  BY <1>1, <1>2, Zenon DEF Inv, FailInv, None
<1>6. EndInv'
  BY <1>1, <1>2, EndedInv DEF Inv
<1>7. QED
  BY <1>3, <1>4, <1>5, <1>6 DEF Inv

(* Every action preserves the invariant.                                                    *)
LEMMA NextInv == Inv /\ [Next]_vars => Inv'
<1>1. SUFFICES ASSUME Inv, Next \/ UNCHANGED vars PROVE Inv'
  OBVIOUS
<1>2. CASE Call
  BY <1>1, <1>2, StartStep, RefusedStep, ProgramStarts DEF Call
<1>3. CASE ControllerStep
  <2>1. Controller \in Actors
    BY Threads
  <2>2. CASE ProgramStep(Controller)
    BY <1>1, <2>1, <2>2, ProgramSteps
  <2>3. CASE CloseChannels \/ AbortChannels \/ StopBegins
    BY <1>1, <2>3, ControllerMoves
  <2>4. CASE Started \/ HarvestErrors \/ HarvestClean \/ Teardown
    BY <1>1, <2>4, CallsEnd
  <2>5. CASE StartedFailed
    BY <1>1, <2>5, ProgramStarts
  <2>6. ASSUME NEW w \in Workers, Launch(w) \/ LaunchRefused(w) \/ Join(w) PROVE Inv'
    BY <1>1, <2>6, LaunchStep, ProgramStarts, ControllerMoves
  <2>7. QED
    BY <1>3, <2>2, <2>3, <2>4, <2>5, <2>6 DEF ControllerStep
<1>4. ASSUME NEW w \in Workers, WorkerStep(w) PROVE Inv'
  <2>1. CASE ProgramStep(w)
    BY <1>1, <1>4, <2>1, Threads, ProgramSteps
  <2>2. CASE ResetWakeup(w) \/ Loop(w) \/ Observe(w) \/ WaitEnds(w) \/ Exit(w)
    BY <1>1, <1>4, <2>2, LoopSteps
  <2>3. CASE Classify(w) \/ WaitInterrupted(w) \/ ExitFailed(w)
    BY <1>1, <1>4, <2>3, ErrorSteps
  <2>4. CASE RecordLater(w) \/ Reported(w)
    BY <1>1, <1>4, <2>4, LaterSteps
  <2>5. CASE RecordPrimary(w)
    BY <1>1, <1>4, <2>5, PrimaryStep
  <2>6. QED
    BY <1>4, <2>1, <2>2, <2>3, <2>4, <2>5 DEF WorkerStep
<1>5. ASSUME NEW w \in Workers, ProcessReturns(w) PROVE Inv'
  <2>1. CASE Processed(w) \/ ProcessFinished(w)
    BY <1>1, <1>5, <2>1, LoopSteps
  <2>2. CASE ProcessFailed(w)
    BY <1>1, <1>5, <2>2, ErrorSteps
  <2>3. QED
    BY <1>5, <2>1, <2>2 DEF ProcessReturns
<1>6. CASE Over \/ UNCHANGED vars
  BY <1>1, <1>6, Stutter DEF Over
<1>7. QED
  BY <1>1, <1>2, <1>3, <1>4, <1>5, <1>6 DEF Next

(* The inductive invariant of the executor and its workers.                                 *)
THEOREM WorkerInvariant == Spec => []Inv
<1>1. QED
  BY InitInv, NextInv, PTL DEF Spec

(* Whatever order the workers fail, are marked and are interrupted in, the primary failure  *)
(* is an error of a node and never the cancellation of one.                                 *)
THEOREM PrimaryIsNeverCancellation == Spec => []PrimaryIsNotCancellation
<1>1. Inv => PrimaryIsNotCancellation
  <2>1. SUFFICES ASSUME Inv PROVE PrimaryIsNotCancellation
    OBVIOUS
  <2>2. CASE primary = None
    BY <2>2 DEF PrimaryIsNotCancellation, None
  <2>3. CASE primary # None
    BY <2>1, <2>3, PrimaryTyped DEF PrimaryIsNotCancellation, Inv
  <2>4. QED
    BY <2>2, <2>3
<1>2. QED
  BY <1>1, WorkerInvariant, PTL

(* The scheduler stops or aborts the nodes only when every worker thread has been joined    *)
(* or was never started, in stop(), abort(), a failed start and a refused one.              *)
THEOREM TeardownsFollowExit == Spec => []TeardownAfterExit
<1>1. Inv => TeardownAfterExit
  BY DEF Inv, EndInv, TeardownAfterExit, Left
<1>2. QED
  BY <1>1, WorkerInvariant, PTL

(* A stop() that reports success has seen every failure a worker recorded.                  *)
THEOREM StopsHarvestFailures == Spec => []StopHarvestsFailures
<1>1. Inv => StopHarvestsFailures
  BY DEF Inv, EndInv, StopHarvestsFailures
<1>2. QED
  BY <1>1, WorkerInvariant, PTL

(* A lifecycle call that fails after a worker failed returns the primary failure.           *)
THEOREM PrimaryIsReported == Spec => []PrimaryReported
<1>1. Inv => PrimaryReported
  BY DEF Inv, EndInv
<1>2. QED
  BY <1>1, WorkerInvariant, PTL

=============================================================================
