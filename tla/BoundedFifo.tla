----------------------------- MODULE BoundedFifo -----------------------------
(***************************************************************************)
(* What a MediaQueue promises, whichever class implements it: a bounded     *)
(* first-in first-out queue that, when it is full, does with the incoming   *)
(* frame what its overflow policy says.  Nothing enters a closed queue, and *)
(* a frame leaves in the order it was accepted, unless the policy gives it  *)
(* up or the queue is cleared.                                              *)
(***************************************************************************)
EXTENDS Integers, Sequences

CONSTANTS Frames,     \* the buffers that may be queued
          KeyFrames,  \* those whose isKeyFrame() is true
          Capacity    \* m_policy.capacity

VARIABLES policy,     \* m_policy.overflowPolicy
          content,    \* the queued frames, oldest first
          closed,     \* m_closed
          aborted     \* m_aborted

fifo == <<policy, content, closed, aborted>>

Policies == {"BlockProducer", "DropNewest", "DropOldest", "DropNonKeyFrame",
             "Abort"}

HasRoom(n) == Len(content) + n <= Capacity

\* The queued frame that a full queue gives up for the incoming frame f: the
\* oldest one, or for a key frame the oldest that is not a key frame.
Victims(f) ==
    {i \in 1 .. Len(content) :
        \/ policy = "DropOldest" /\ i = 1
        \/ /\ policy = "DropNonKeyFrame" /\ f \in KeyFrames
           /\ content[i] \notin KeyFrames
           /\ \A j \in 1 .. i - 1 : content[j] \in KeyFrames}

\* A sequence without its i-th element.
Without(s, i) == SubSeq(s, 1, i - 1) \o SubSeq(s, i + 1, Len(s))

Init ==
    /\ policy \in Policies
    /\ content = << >> /\ closed = FALSE /\ aborted = FALSE

\* A batch of frames is accepted as a whole, in its order.
Accept(batch) ==
    /\ ~closed /\ HasRoom(Len(batch))
    /\ content' = content \o batch
    /\ UNCHANGED <<policy, closed, aborted>>

AcceptDropping(f) ==
    /\ ~closed /\ ~HasRoom(1)
    /\ \E i \in Victims(f) : content' = Append(Without(content, i), f)
    /\ UNCHANGED <<policy, closed, aborted>>

\* Under Abort a full queue is aborted by the frame that does not fit.
OverflowAborts ==
    /\ policy = "Abort" /\ ~closed /\ ~HasRoom(1)
    /\ closed' = TRUE /\ aborted' = TRUE
    /\ UNCHANGED <<policy, content>>

Take ==
    /\ content # << >>
    /\ content' = Tail(content)
    /\ UNCHANGED <<policy, closed, aborted>>

CloseQueue ==
    closed' = TRUE /\ UNCHANGED <<policy, content, aborted>>

AbortQueue ==
    closed' = TRUE /\ aborted' = TRUE /\ UNCHANGED <<policy, content>>

ClearQueue ==
    content' = << >> /\ UNCHANGED <<policy, closed, aborted>>

Next ==
    \/ \E n \in 1 .. Capacity : \E batch \in [1 .. n -> Frames] : Accept(batch)
    \/ \E f \in Frames : AcceptDropping(f)
    \/ OverflowAborts \/ Take \/ CloseQueue \/ AbortQueue \/ ClearQueue

Spec == Init /\ [][Next]_fifo
=============================================================================
