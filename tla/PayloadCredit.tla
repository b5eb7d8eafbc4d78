--------------------------- MODULE PayloadCredit ---------------------------
(***************************************************************************)
(* MediaGraphPayloadCreditLedger: the session's source account, the branch  *)
(* and fixed-storage accounts admitted beside it, the leases producers hold *)
(* and the waiters they arm when an account is at its bound.                *)
(*                                                                          *)
(* A quantity is a pair [b, o] of bytes and objects, as every bound and     *)
(* every usage of the ledger is.  A demand is the sequence of the byte      *)
(* sizes of its objects.  One action is one critical section of an          *)
(* account's mutex; notify() calls made after the unlock are separate, and  *)
(* so is the walk of cancelBlockedWaiters over the accounts.                *)
(***************************************************************************)
EXTENDS Integers, SequencesExt

CONSTANTS
    Source,      \* m_state, the account of the initial producers
    Branches,    \* accounts admitted beside it
    Storage,     \* the fixed-storage accounts among them: they have no producers
    Producers,
    AccountOf,   \* the account a producer is registered in
    Plan,        \* [Accounts -> quantity], the planner's bound
    SharedPlan,  \* what extractInitialBranch leaves to the source account
    Growth,      \* quantity of one retention growth
    Sizes,       \* byte sizes of objects
    Demands,     \* what each producer asks for: non-empty sequences of sizes
    MaxValue     \* largest std::uint64_t

Accounts == {Source} \cup Branches

Quantities == [b : 0..MaxValue, o : 0..MaxValue]

ASSUME LedgerAssumption ==
    /\ Source \notin Branches /\ Storage \subseteq Branches
    /\ AccountOf \in [Producers -> Accounts \ Storage]
    /\ Plan \in [Accounts -> Quantities] /\ SharedPlan \in Quantities
    /\ Growth \in Quantities /\ Growth.o > 0
    /\ Sizes \subseteq Nat
    /\ \A p \in Producers : Demands[p] \subseteq Seq(Sizes) \ {<<>>}

VARIABLES
    planned,    \* m_plan: the source account's bound without retention growth
    limit,      \* plan.maximumBytes and maximumObjects of each account
    use,        \* snapshot.currentBytes and currentObjects
    total,      \* the session aggregate's currentBytes and currentObjects
    waiters,    \* the deque of Pending
    cancelled,
    used,       \* snapshot.reservations is not zero
    status,     \* "absent"; "owned" by a MediaGraphPayloadBranchReservation; "retired"
    grown,      \* a MediaGraphPayloadRetentionReservation on the account is alive
    leases,     \* how many leases of each size are alive
    waiting,    \* producers whose worker waits on its wakeup
    changed,    \* the waiting producers whose wakeup was notified since they looked
    toNotify,   \* producers with a notify() still to be made after an unlock
    joined,     \* branch accounts whose workers MediaRuntimeBranch has joined
    destroyed,  \* producers whose MediaNodeWakeup is gone: weak handles have expired
    cancelling  \* accounts cancelBlockedWaiters still has to visit

usage == <<use, total, waiters, used, leases>>
admission == <<planned, limit, cancelled, status, grown>>
wakeups == <<waiting, changed, toNotify>>
teardown == <<joined, destroyed>>
vars == <<usage, admission, wakeups, teardown, cancelling>>

-----------------------------------------------------------------------------
Zero == [b |-> 0, o |-> 0]
Plus(x, y) == [b |-> x.b + y.b, o |-> x.o + y.o]
Minus(x, y) == [b |-> x.b - y.b, o |-> x.o - y.o]
AtMost(x, y) == x.b <= y.b /\ x.o <= y.o

SumOver(f, S) == FoldSet(LAMBDA x, acc : Plus(acc, f[x]), Zero, S)

Quantity(demand) == [b |-> FoldSeq(LAMBDA x, y : x + y, 0, demand), o |-> Len(demand)]

\* Mutant: current usage is not counted.
Fits_IgnoreUse(bound, current, demand) == AtMost(Quantity(demand), bound)

\* The room a demand finds in an account.
Fits(bound, current, demand) == AtMost(Plus(current, Quantity(demand)), bound)

\* What the granted ones among these waiters hold.
GrantedCredit(queue) ==
    LET G == {i \in DOMAIN queue : queue[i].granted} IN
    SumOver([i \in G |-> Quantity(queue[i].demand)], G)

\* promoteOne erases the waiters it passes whose wakeup is gone ...
Alive(queue) == SelectSeq(queue, LAMBDA w : w.producer \notin destroyed)

\* ... and takes back the credit of the granted ones among them.
TakenBack(queue) == GrantedCredit(SelectSeq(queue, LAMBDA w : w.producer \in destroyed))

Before(queue, i) == SubSeq(queue, 1, i - 1)

\* The waiters that are alive, not granted, and fit when the pass reaches them.
Promotable(bound, current, queue) ==
    {i \in DOMAIN queue :
        /\ queue[i].producer \notin destroyed /\ ~queue[i].granted
        /\ Fits(bound, Minus(current, TakenBack(Before(queue, i))), queue[i].demand)}

FirstOf(S) == CHOOSE i \in S : \A j \in S : i <= j

\* Mutant: nobody is promoted.
Promotion_Never(bound, current, queue) ==
    [use |-> current, queue |-> queue, wakes |-> {}]

\* Mutant: a waiter without a wakeup is erased with the credit it was granted.
Promotion_KeepCredit(bound, current, queue) ==
    LET P == Promotable(bound, current, queue) IN
    IF P = {}
    THEN [use |-> current, queue |-> Alive(queue), wakes |-> {}]
    ELSE LET i == FirstOf(P) IN
         [use   |-> Plus(current, Quantity(queue[i].demand)),
          queue |-> Alive(Before(queue, i)) \o <<[queue[i] EXCEPT !.granted = TRUE]>>
                       \o SubSeq(queue, i + 1, Len(queue)),
          wakes |-> {queue[i].producer}]

\* promoteOne: one pass, up to the first waiter it can grant.
Promotion(bound, current, queue) ==
    LET P == Promotable(bound, current, queue) IN
    IF P = {}
    THEN [use |-> Minus(current, TakenBack(queue)), queue |-> Alive(queue), wakes |-> {}]
    ELSE LET i == FirstOf(P) IN
         [use   |-> Plus(Minus(current, TakenBack(Before(queue, i))),
                         Quantity(queue[i].demand)),
          queue |-> Alive(Before(queue, i)) \o <<[queue[i] EXCEPT !.granted = TRUE]>>
                       \o SubSeq(queue, i + 1, Len(queue)),
          wakes |-> {queue[i].producer}]

\* Set account a's usage and waiters to these values after promoteOne(a).
PromoteOne(a, current, queue) ==
    LET promoted == Promotion(limit[a], current, queue) IN
    /\ use' = [use EXCEPT ![a] = promoted.use]
    /\ waiters' = [waiters EXCEPT ![a] = promoted.queue]
    /\ toNotify' = toNotify \cup promoted.wakes

\* AggregatePublication: the aggregate moves by the account's difference.
Publish(a) == total' = Minus(Plus(total, use'[a]), use[a])

\* The producers of an account: the nodes of the one branch it was admitted for.
Registered(a) == {p \in Producers : AccountOf[p] = a}

Position(a, p) == {i \in DOMAIN waiters[a] : waiters[a][i].producer = p}

\* No shared_ptr to the account is left: not its owner's, a lease's or a growth's.
Expired(a) ==
    status[a] # "owned" /\ ~grown[a] /\ \A s \in Sizes : leases[a][s] = 0

Live == {a \in Accounts : ~Expired(a)}

\* m_accountsMutex is free: no cancelBlockedWaiters is under way.
Unlocked == cancelling = {}

AddLeases(a, demand) ==
    leases' = [leases EXCEPT ![a] =
        [s \in Sizes |-> leases[a][s] + Cardinality({i \in DOMAIN demand : demand[i] = s})]]

Init ==
    /\ planned = Plan[Source]
    /\ limit = [a \in Accounts |-> IF a = Source THEN Plan[a] ELSE Zero]
    /\ use = [a \in Accounts |-> Zero]
    /\ total = Zero
    /\ waiters = [a \in Accounts |-> <<>>]
    /\ cancelled = [a \in Accounts |-> FALSE]
    /\ used = [a \in Accounts |-> FALSE]
    /\ status = [a \in Accounts |-> IF a = Source THEN "owned" ELSE "absent"]
    /\ grown = [a \in Accounts |-> FALSE]
    /\ leases = [a \in Accounts |-> [s \in Sizes |-> 0]]
    /\ waiting = {} /\ changed = {} /\ toNotify = {} /\ cancelling = {}
    /\ joined = {} /\ destroyed = {}

-----------------------------------------------------------------------------
(* Reservations and leases. *)

\* tryReserveOrArm looks up the producer's account and finds it open; the
\* producer's worker is running.
Admits(p) ==
    /\ p \notin waiting /\ AccountOf[p] \notin joined
    /\ ~Expired(AccountOf[p]) /\ ~cancelled[AccountOf[p]]

\* The lease vector is handed out at once.
Take(a, demand) ==
    /\ Fits(limit[a], use[a], demand)
    /\ use' = [use EXCEPT ![a] = Plus(@, Quantity(demand))]
    /\ AddLeases(a, demand)
    /\ used' = [used EXCEPT ![a] = TRUE]
    /\ Publish(a)
    /\ UNCHANGED <<waiters, admission, wakeups, teardown, cancelling>>

Reserve(p, demand) ==
    /\ Admits(p)
    /\ Position(AccountOf[p], p) = {}
    /\ Take(AccountOf[p], demand)

\* It does not fit: the producer is queued and its worker will wait.
Arm(p, demand) ==
    /\ Admits(p)
    /\ Position(AccountOf[p], p) = {}
    /\ ~Fits(limit[AccountOf[p]], use[AccountOf[p]], demand)
    /\ waiters' = [waiters EXCEPT ![AccountOf[p]] =
          Append(@, [producer |-> p, demand |-> demand, granted |-> FALSE])]
    /\ waiting' = waiting \cup {p}
    /\ UNCHANGED <<use, total, used, leases, admission, changed, toNotify,
                   teardown, cancelling>>

\* Its waiter is still there and not granted.
StillArmed(p) ==
    /\ Admits(p)
    /\ \E i \in Position(AccountOf[p], p) : ~waiters[AccountOf[p]][i].granted
    /\ waiting' = waiting \cup {p}
    /\ UNCHANGED <<usage, admission, changed, toNotify, teardown, cancelling>>

\* Mutant: a claim does not try the next waiter.
Claim_NoPromotion(p) ==
    LET a == AccountOf[p] IN
    /\ Admits(p)
    /\ \E i \in Position(a, p) :
          /\ waiters[a][i].granted
          /\ AddLeases(a, waiters[a][i].demand)
          /\ waiters' = [waiters EXCEPT ![a] = RemoveAt(@, i)]
    /\ used' = [used EXCEPT ![a] = TRUE]
    /\ UNCHANGED <<use, total, admission, wakeups, teardown, cancelling>>

\* Its waiter was granted: the credit becomes leases, the next waiter is tried.
Claim(p) ==
    LET a == AccountOf[p] IN
    /\ Admits(p)
    /\ \E i \in Position(a, p) :
          /\ waiters[a][i].granted
          /\ AddLeases(a, waiters[a][i].demand)
          /\ PromoteOne(a, use[a], RemoveAt(waiters[a], i))
    /\ used' = [used EXCEPT ![a] = TRUE]
    /\ Publish(a)
    /\ UNCHANGED <<admission, waiting, changed, teardown, cancelling>>

\* ~MediaGraphPayloadCreditLease.
Release(a, size) ==
    /\ leases[a][size] > 0
    /\ leases' = [leases EXCEPT ![a][size] = @ - 1]
    /\ PromoteOne(a, Minus(use[a], [b |-> size, o |-> 1]), waiters[a])
    /\ Publish(a)
    /\ UNCHANGED <<used, admission, waiting, changed, teardown, cancelling>>

ShrinkTo(a, size, smaller) ==
    /\ leases[a][size] > 0 /\ smaller < size
    /\ leases' = [leases EXCEPT ![a] =
          [@ EXCEPT ![size] = @ - 1, ![smaller] = @ + 1]]
    /\ PromoteOne(a, Minus(use[a], [b |-> size - smaller, o |-> 0]), waiters[a])
    /\ Publish(a)
    /\ UNCHANGED <<used, admission, waiting, changed, teardown, cancelling>>

\* Mutant: the notification is dropped.
Notify_Lost(p) ==
    /\ p \in toNotify
    /\ toNotify' = toNotify \ {p}
    /\ UNCHANGED <<usage, admission, waiting, changed, teardown, cancelling>>

\* The notify() that follows an unlock, and the worker it wakes.
Notify(p) ==
    /\ p \in toNotify
    /\ toNotify' = toNotify \ {p}
    /\ changed' = changed \cup ({p} \cap waiting)
    /\ UNCHANGED <<usage, admission, waiting, teardown, cancelling>>

Wake(p) ==
    /\ p \in waiting \cap changed
    /\ waiting' = waiting \ {p}
    /\ changed' = changed \ {p}
    /\ UNCHANGED <<usage, admission, toNotify, teardown, cancelling>>

-----------------------------------------------------------------------------
(* Admission of accounts. *)

Representable(q) == q.b <= MaxValue /\ q.o <= MaxValue

\* A fresh account b with this bound, for the workers of a new branch.
Open(b) ==
    /\ limit' = [limit EXCEPT ![b] = Plan[b]]
    /\ cancelled' = [cancelled EXCEPT ![b] = FALSE]
    /\ used' = [used EXCEPT ![b] = FALSE]
    /\ status' = [status EXCEPT ![b] = "owned"]
    /\ joined' = joined \ {b}
    /\ destroyed' = destroyed \ Registered(b)

\* Mutant: a terminated session admits accounts.
Admit_Revived(b) ==
    /\ Unlocked
    /\ Expired(b)
    /\ Representable(Plus(SumOver(limit, Live), Plan[b]))
    /\ Open(b)
    /\ UNCHANGED <<use, total, waiters, leases, planned, grown, wakeups,
                   cancelling>>

\* Mutant: the other accounts' bounds are not added up.
Admit_OwnPlanOnly(b) ==
    /\ Unlocked
    /\ Expired(b)
    /\ ~cancelled[Source]
    /\ Representable(Plan[b])
    /\ Open(b)
    /\ UNCHANGED <<use, total, waiters, leases, planned, grown, wakeups,
                   cancelling>>

\* The admission that reserveBranch and an additional fixed storage share.
Admit(b) ==
    /\ Unlocked
    /\ Expired(b)
    /\ ~cancelled[Source]
    /\ Representable(Plus(SumOver(limit, Live), Plan[b]))
    /\ Open(b)
    /\ UNCHANGED <<use, total, waiters, leases, planned, grown, wakeups,
                   cancelling>>

ReserveBranch(b) == b \notin Storage /\ Admit(b)

ReserveFixedStorage(b) == b \in Storage /\ Admit(b)

\* No account has been admitted, used, grown or cancelled yet.
ExtractInitialBranch(b) ==
    /\ Unlocked /\ b \notin Storage
    /\ \A c \in Branches : status[c] = "absent"
    /\ ~cancelled[Source] /\ limit[Source] = planned
    /\ use[Source] = Zero /\ ~used[Source] /\ waiters[Source] = <<>>
    /\ Representable(Plus(SharedPlan, Plan[b]))
    /\ planned' = SharedPlan
    /\ limit' = [limit EXCEPT ![Source] = SharedPlan, ![b] = Plan[b]]
    /\ status' = [status EXCEPT ![b] = "owned"]
    /\ UNCHANGED <<usage, cancelled, grown, wakeups, teardown, cancelling>>

\* Fixed storage that the source account's bound already contains.
ExtractInitialFixedStorage(b) ==
    /\ Unlocked /\ b \in Storage /\ Expired(b)
    /\ \A a \in Live : /\ ~cancelled[a] /\ ~used[a]
                        /\ use[a] = Zero /\ waiters[a] = <<>>
    /\ Representable(SumOver(limit, Live))
    /\ Plan[b].b < limit[Source].b /\ limit[Source] = planned
    /\ planned' = [planned EXCEPT !.b = @ - Plan[b].b]
    /\ limit' = [limit EXCEPT ![Source].b = @ - Plan[b].b, ![b] = Plan[b]]
    /\ status' = [status EXCEPT ![b] = "owned"]
    /\ cancelled' = [cancelled EXCEPT ![b] = FALSE]
    /\ UNCHANGED <<usage, grown, wakeups, teardown, cancelling>>

\* promoteOne until a pass grants nobody, each waiter notified under the lock.
RECURSIVE PromoteAll(_, _, _)
PromoteAll(bound, current, queue) ==
    LET pass == Promotion(bound, current, queue) IN
    IF pass.wakes = {}
    THEN pass
    ELSE LET rest == PromoteAll(bound, pass.use, pass.queue) IN
         [rest EXCEPT !.wakes = @ \cup pass.wakes]

ReserveRetentionGrowth(a) ==
    LET bound == Plus(limit[a], Growth)
        promoted == PromoteAll(bound, use[a], waiters[a]) IN
    /\ Unlocked /\ a \notin Storage /\ ~cancelled[a] /\ ~grown[a] /\ ~Expired(a)
    /\ Representable(Plus(SumOver(limit, Live), Growth))
    /\ limit' = [limit EXCEPT ![a] = bound]
    /\ grown' = [grown EXCEPT ![a] = TRUE]
    /\ use' = [use EXCEPT ![a] = promoted.use]
    /\ waiters' = [waiters EXCEPT ![a] = promoted.queue]
    /\ changed' = changed \cup (promoted.wakes \cap waiting)
    /\ Publish(a)
    /\ UNCHANGED <<used, leases, planned, cancelled, status, waiting, toNotify,
                   teardown, cancelling>>

\* ~MediaGraphPayloadRetentionReservation.
ReleaseRetentionGrowth(a) ==
    /\ grown[a]
    /\ limit' = [limit EXCEPT ![a] = Minus(@, Growth)]
    /\ grown' = [grown EXCEPT ![a] = FALSE]
    /\ UNCHANGED <<usage, planned, cancelled, status, wakeups, teardown,
                   cancelling>>

-----------------------------------------------------------------------------
(* A branch is torn down: MediaRuntimeBranch::reclaim.  The context of a      *)
(* branch does not cancel the account, which the branch's reservation keeps   *)
(* open until the branch object dies.  (The session's context cancels every   *)
(* account before it lets go of its wakeups.)                                 *)

\* Every worker of the branch has left its wait and is joined.
JoinWorkers(b) ==
    /\ b \in Branches \ Storage /\ status[b] = "owned" /\ b \notin joined
    /\ joined' = joined \cup {b}
    /\ waiting' = waiting \ Registered(b)
    /\ changed' = changed \ Registered(b)
    /\ UNCHANGED <<usage, admission, toNotify, destroyed, cancelling>>

\* The context drops its wakeups; a channel of another segment may hold one for
\* longer, and so does a promoteOne that has yet to notify it.  Only the wakeup of
\* a producer that still has a waiter is looked at again.
DestroyWakeup(p) ==
    /\ AccountOf[p] \in joined /\ Position(AccountOf[p], p) # {}
    /\ p \notin destroyed \cup toNotify
    /\ destroyed' = destroyed \cup {p}
    /\ UNCHANGED <<usage, admission, wakeups, joined, cancelling>>

-----------------------------------------------------------------------------
(* Cancellation. *)

Granted(a) == {i \in DOMAIN waiters[a] : waiters[a][i].granted}

\* Mutant: every waiter's demand is taken off, granted or not.
CancelAccount_AllWaiters(a) ==
    /\ cancelled' = [cancelled EXCEPT ![a] = TRUE]
    /\ use' = [use EXCEPT ![a] =
          Minus(@, SumOver([i \in DOMAIN waiters[a] |-> Quantity(waiters[a][i].demand)],
                           DOMAIN waiters[a]))]
    /\ changed' = changed \cup {p \in waiting : Position(a, p) # {}}
    /\ waiters' = [waiters EXCEPT ![a] = <<>>]
    /\ Publish(a)

\* cancelAccount: granted credit returns, every waiter is notified and dropped.
CancelAccount(a) ==
    /\ cancelled' = [cancelled EXCEPT ![a] = TRUE]
    /\ use' = [use EXCEPT ![a] =
          Minus(@, GrantedCredit(waiters[a]))]
    /\ changed' = changed \cup {p \in waiting : Position(a, p) # {}}
    /\ waiters' = [waiters EXCEPT ![a] = <<>>]
    /\ Publish(a)

\* ~MediaGraphPayloadBranchReservation: the branch object dies, after its workers
\* were joined or without having run.
RetireBranch(b) ==
    /\ b # Source /\ status[b] = "owned"
    /\ b \in joined \/ (~used[b] /\ waiters[b] = <<>>)
    /\ CancelAccount(b)
    /\ status' = [status EXCEPT ![b] = "retired"]
    /\ UNCHANGED <<used, leases, planned, limit, grown, waiting, toNotify,
                   teardown, cancelling>>

\* cancelBlockedWaiters: the source account, then the live branch accounts.
CancelBlockedWaiters ==
    /\ Unlocked
    /\ CancelAccount(Source)
    /\ cancelling' = Live \ {Source}
    /\ UNCHANGED <<used, leases, planned, limit, status, grown, waiting,
                   toNotify, teardown>>

CancelNext(b) ==
    /\ b \in cancelling
    /\ cancelling' = cancelling \ {b}
    /\ IF Expired(b)
       THEN UNCHANGED <<use, total, waiters, cancelled, changed>>
       ELSE CancelAccount(b)
    /\ UNCHANGED <<used, leases, planned, limit, status, grown, waiting,
                   toNotify, teardown>>

-----------------------------------------------------------------------------
Next ==
    \/ \E p \in Producers :
          \/ \E d \in Demands[p] : Reserve(p, d) \/ Arm(p, d)
          \/ StillArmed(p) \/ Claim(p) \/ Notify(p) \/ Wake(p)
          \/ DestroyWakeup(p)
    \/ \E a \in Accounts, size \in Sizes :
          \/ Release(a, size)
          \/ \E smaller \in Sizes : ShrinkTo(a, size, smaller)
    \/ \E b \in Branches :
          \/ ReserveBranch(b) \/ ReserveFixedStorage(b)
          \/ ExtractInitialBranch(b) \/ ExtractInitialFixedStorage(b)
          \/ JoinWorkers(b) \/ RetireBranch(b) \/ CancelNext(b)
    \/ \E a \in Accounts : ReserveRetentionGrowth(a) \/ ReleaseRetentionGrowth(a)
    \/ CancelBlockedWaiters

Spec == Init /\ [][Next]_vars

\* Payloads die, woken workers run and ask again for what they armed.
Fairness ==
    /\ \A a \in Accounts : WF_vars(\E size \in Sizes : Release(a, size))
    /\ \A p \in Producers :
          WF_vars(Claim(p)) /\ WF_vars(Notify(p)) /\ WF_vars(Wake(p))

FairSpec == Spec /\ Fairness

-----------------------------------------------------------------------------
(* Safety. *)

Held(a) == [b |-> FoldSet(LAMBDA s, acc : acc + s * leases[a][s], 0, Sizes),
            o |-> FoldSet(LAMBDA s, acc : acc + leases[a][s], 0, Sizes)]

\* Every variable keeps its type; usage and bounds are never negative, so no
\* unsigned subtraction of the ledger wraps.
TypeOK ==
    /\ planned \in Quantities /\ total \in [b : Nat, o : Nat]
    /\ limit \in [Accounts -> Quantities]
    /\ use \in [Accounts -> [b : Nat, o : Nat]]
    /\ \A a \in Accounts : waiters[a] \in
          Seq([producer : Producers, demand : UNION {Demands[p] : p \in Producers},
               granted : BOOLEAN])
    /\ cancelled \in [Accounts -> BOOLEAN] /\ used \in [Accounts -> BOOLEAN]
    /\ status \in [Accounts -> {"absent", "owned", "retired"}]
    /\ grown \in [Accounts -> BOOLEAN]
    /\ leases \in [Accounts -> [Sizes -> Nat]]
    /\ waiting \subseteq Producers /\ changed \subseteq waiting
    /\ toNotify \subseteq Producers /\ cancelling \subseteq Branches
    /\ joined \subseteq Branches /\ destroyed \subseteq Producers

\* An account's usage is exactly what its live leases and its granted but
\* unclaimed waiters hold, and the session aggregate the sum over the accounts,
\* retired ones included: a release never meets the accounting underflow that
\* terminates the process, and cancelling an account leaks nothing.
CreditsAccounted ==
    /\ \A a \in Accounts :
          use[a] = Plus(Held(a), GrantedCredit(waiters[a]))
    /\ total = SumOver(use, Accounts)

\* While an account's workers run, a waiter that would fit is not stranded: some
\* waiter of its account holds a grant, and claiming that grant promotes the next
\* one.  (Once they are joined a pass may take a destroyed waiter's grant back
\* after it has gone by an earlier one; that one's worker waits no more.)
NoStrandedWaiter ==
    \A a \in Accounts \ joined :
        Promotable(limit[a], use[a], waiters[a]) # {} => Granted(a) # {}

\* A producer whose waiter was granted, or dropped by a cancellation, does not
\* sleep through it: its wakeup has been or is about to be notified.
GrantReachesProducer ==
    \A p \in waiting :
        \/ p \in changed \cup toNotify
        \/ \E i \in Position(AccountOf[p], p) : ~waiters[AccountOf[p]][i].granted

\* Bounds of all live accounts together stay representable, through branch
\* admission, partitioning and retention growth.
AdmissionRepresentable == Representable(SumOver(limit, Live))

\* Once cancelBlockedWaiters has returned every live account is cancelled, and
\* no branch is admitted to a terminated session.
CancelComplete ==
    Unlocked /\ cancelled[Source] => \A a \in Live : cancelled[a]

\* A step that raises an account's usage leaves it within the bound in force,
\* also after a retention reservation has lowered that bound again.
GrantsRespectBound ==
    [][\A a \in Accounts :
          use'[a].b > use[a].b \/ use'[a].o > use[a].o
              => AtMost(use'[a], limit'[a])]_vars

-----------------------------------------------------------------------------
(* Liveness. *)

\* A producer that armed a demand gets it or is cancelled, when all demands of
\* its account are equal (a smaller demand may overtake a larger one for ever).
ArmedIsServed ==
    \A p \in Producers : []<>(Position(AccountOf[p], p) = {})

=============================================================================
