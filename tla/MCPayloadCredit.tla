-------------------------- MODULE MCPayloadCredit --------------------------
(***************************************************************************)
(* PayloadCredit for TLC: a source account with one producer, an output     *)
(* branch with two, one fixed-storage account.  The branch's bound does not *)
(* fit beside a grown source account and storage, so that admission is      *)
(* refused in some states.  The branch's producers ask for one size that    *)
(* can overtake the other, so that a grant behind an ungranted waiter       *)
(* occurs, also when the branch is torn down.                               *)
(***************************************************************************)
EXTENDS PayloadCredit

CONSTANTS src, out, store, p1, q1, q2

MCAccountOf == (p1 :> src) @@ (q1 :> out) @@ (q2 :> out)

MCPlan == (src :> [b |-> 2, o |-> 1]) @@ (out :> [b |-> 2, o |-> 2])
          @@ (store :> [b |-> 1, o |-> 0])

MCSharedPlan == [b |-> 1, o |-> 1]
MCGrowth == [b |-> 1, o |-> 1]
MCSizes == {1, 2}
MCDemands == (p1 :> {<<1>>}) @@ (q1 :> {<<1>>, <<2>>}) @@ (q2 :> {<<1>>, <<2>>})

\* The live run: three producers in the source account alone, equal demands.
MCLiveAccountOf == [p \in {p1, q1, q2} |-> src]
MCLivePlan == src :> [b |-> 4, o |-> 2]
MCEqualDemands == [p \in {p1, q1, q2} |-> {<<2>>}]

ProducerSymmetry == Permutations({q1, q2})

=============================================================================
