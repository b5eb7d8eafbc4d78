---------------------------- MODULE MCMediaQueues ----------------------------
(* Small instances of MediaQueues for TLC.                                 *)
EXTENDS MediaQueues, TLC

CONSTANTS k, d, p1, p2, c1, c2

\* Every queue with every policy.  MediaBlockingQueue::push is not called
\* directly under DropNonKeyFrame: see BlockingPushResumes.
MCSetups ==
    {s \in SetupType :
        s.direct => (s.kind # "spsc" => s.policy # "DropNonKeyFrame")}

MCRing == {[kind |-> "spsc", policy |-> "BlockProducer", direct |-> FALSE]}
=============================================================================
