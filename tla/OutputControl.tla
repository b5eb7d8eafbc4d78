---------------------------- MODULE OutputControl ----------------------------
(***************************************************************************)
(* The outputs of a realtime session: the mailbox the caller's threads put  *)
(* one change in (MediaRealtimeVideoRunControl), the run controller's       *)
(* thread that polls the outputs and the encoding groups they share         *)
(* (MediaRealtimeOutputRunController), and the preparation worker that       *)
(* hands it a candidate (MediaRealtimePreparationExchange).                 *)
(*                                                                         *)
(* poll() is a sequence of steps (pc) because the branches, the preparation *)
(* worker and the callers go on between them.  A branch is the lifecycle    *)
(* RuntimeBranch implements, as far as its owner sees it; exited stands for *)
(* workers gone and reclamation completed.  An encoding group is named      *)
(* after the output it was made for.                                       *)
(***************************************************************************)
EXTENDS Integers, FiniteSets, FiniteSetsExt

CONSTANT MaxOutputs   \* bound on m_nextOutputId

ASSUME OutputsAssumption == MaxOutputs \in Nat \ {0}

Ids == 1 .. MaxOutputs

VARIABLES
    enabled,      \* m_outputChangesEnabled
    inProgress,   \* m_outputChangeInProgress
    pending,      \* m_pendingOutputChange: [id, add], id 0 for none
    nextId,       \* m_nextOutputId
    listed,       \* ids in m_outputSnapshots
    out,          \* outputs: [on, group, snap, late], late behind its deadline
    grp,          \* registry.groups(): [on, count, draining, published, witness]
    br, gbr,      \* the branches of the outputs and of the groups
    prep,         \* preparation: [id, group, stage, stale, expired]
    changing,     \* changingOutput, 0 for none
    terminal,     \* pendingTerminal and pendingTerminalGroup
    finishing,
    pc, cursor,   \* where poll() or finish() is, and at which output
    seen          \* the last state the observer was told for each output

mailbox == <<enabled, inProgress, pending, nextId, listed>>
branches == <<br, gbr>>
vars == <<mailbox, out, grp, branches, prep, changing, terminal, finishing, pc,
          cursor, seen>>

Live == [phase |-> "Running", failed |-> FALSE, exited |-> FALSE]
Gone == [phase |-> "none", failed |-> FALSE, exited |-> FALSE]
NoOutput == [on |-> FALSE, group |-> 0, snap |-> "none", late |-> FALSE]
NoGroup == [on |-> FALSE, count |-> 0, draining |-> FALSE, published |-> FALSE,
            witness |-> FALSE]
NoPreparation == [id |-> 0, group |-> 0, stage |-> "none", stale |-> FALSE,
                  expired |-> FALSE]
NoChange == [id |-> 0, add |-> FALSE]
NoTerminal == [id |-> 0, failed |-> FALSE, group |-> 0]

Outputs == {o \in Ids : out[o].on}
Groups == {g \in Ids : grp[g].on}
Members(g) == {o \in Outputs : out[o].group = g}

\* fail() of a branch; a branch that is being retired ignores it.
Failing(b) == IF b.exited THEN b ELSE [b EXCEPT !.phase = "Failed", !.failed = TRUE]

\* beginDrain() refuses a branch that is not Running, and the caller fails it.
Draining(b) == IF b.phase = "Running" THEN [b EXCEPT !.phase = "Draining"]
                                      ELSE Failing(b)

-----------------------------------------------------------------------------
(* The callers: addOutput, removeOutput.                                   *)

MailboxFree == enabled /\ ~inProgress /\ pending.id = 0

AddOutput ==
    /\ MailboxFree /\ nextId <= MaxOutputs
    /\ pending' = [id |-> nextId, add |-> TRUE]
    /\ listed' = listed \cup {nextId}
    /\ nextId' = nextId + 1
    /\ UNCHANGED <<enabled, inProgress, out, grp, branches, prep, changing,
                   terminal, finishing, pc, cursor, seen>>

RemoveOutput(o) ==
    /\ MailboxFree /\ o \in listed
    /\ pending' = [id |-> o, add |-> FALSE]
    /\ UNCHANGED <<enabled, inProgress, nextId, listed, out, grp, branches,
                   prep, changing, terminal, finishing, pc, cursor, seen>>

-----------------------------------------------------------------------------
(* The branches and the preparation worker go on by themselves.            *)

Alive(b) == b.phase # "none" /\ ~b.exited

BranchesOnly ==
    UNCHANGED <<mailbox, out, grp, prep, changing, terminal, finishing, pc, cursor,
                seen>>

BranchFails(o) ==
    /\ \/ Alive(br[o]) /\ br' = [br EXCEPT ![o].failed = TRUE] /\ UNCHANGED gbr
       \/ Alive(gbr[o]) /\ gbr' = [gbr EXCEPT ![o].failed = TRUE] /\ UNCHANGED br
    /\ BranchesOnly

\* A branch that was not told to drain or stop exits when the source has ended.
OutputExits(o) ==
    /\ Alive(br[o])
    /\ br' = [br EXCEPT ![o].exited = TRUE]
    /\ UNCHANGED gbr /\ BranchesOnly

\* Nobody looks whether a group with outputs has exited.
GroupExits(g) ==
    /\ Alive(gbr[g]) /\ grp[g].count = 0
    /\ gbr' = [gbr EXCEPT ![g].exited = TRUE]
    /\ UNCHANGED br /\ BranchesOnly

Told(b) == b.failed \/ b.phase \in {"Draining", "Failed"}

\* planned(), constructed() and complete().
WorkerStep ==
    /\ \/ prep.stage = "Planning" /\ prep' = [prep EXCEPT !.stage = "Planned"]
       \/ prep.stage = "Constructing" /\ prep' = [prep EXCEPT !.stage = "Constructed"]
       \/ prep.stage = "Releasing" /\ prep' = [prep EXCEPT !.stage = "Complete"]
    /\ UNCHANGED <<mailbox, out, grp, branches, changing, terminal, finishing, pc,
                   cursor, seen>>

-----------------------------------------------------------------------------
(* poll(): the preparation.                                                *)

\* The initial group gets its witness and is subscribed, or fails.
RefreshWitness(r) ==
    IF grp[1].on /\ ~grp[1].witness /\ ~grp[1].draining /\ ~gbr[1].failed
    THEN /\ grp' = [grp EXCEPT ![1].witness = (r = "witness")]
         /\ gbr' = [gbr EXCEPT ![1] = IF r = "fails" THEN Failing(@) ELSE @]
    ELSE UNCHANGED <<grp, gbr>>

\* finish() waits for every branch and for the preparation.
Settled == prep.id = 0 /\ Outputs = {} /\ Groups = {}

\* The startup budget of the preparation is checked; the budget may end at any
\* poll.  A published output keeps the deadline of its preparation.
PollBegins ==
    /\ pc = "idle"
    /\ finishing => ~Settled
    /\ \E r \in {"witness", "fails", "later"} : RefreshWitness(r)
    /\ \/ UNCHANGED <<prep, out, seen>>
       \/ /\ prep.id # 0 /\ ~prep.expired
          /\ prep' = [prep EXCEPT !.expired = TRUE]
          /\ out' = [out EXCEPT ![prep.id].late = @ \/ out[prep.id].on]
          /\ seen' = [seen EXCEPT ![prep.id] = "Failed"]
    /\ pc' = IF prep.stage \in {"Planned", "Constructed"} THEN "prepare" ELSE "groups"
    /\ UNCHANGED <<mailbox, br, changing, terminal, finishing, cursor>>

\* release(): the worker drops its hold, and the plan is not looked at again.
Release == prep' = [prep EXCEPT !.stage = "Releasing", !.stale = FALSE]

\* The registry or the graph is no longer the one the preparation was planned for.
Outdated(change) ==
    [prep EXCEPT !.stale = /\ @ \/ change
                           /\ prep.stage \notin {"none", "Releasing", "Complete"}]

\* reject() of the candidate, followed by release(): the worker drops it.
RejectCandidate ==
    /\ seen' = [seen EXCEPT ![prep.id] = "Failed"]
    /\ terminal' = [id |-> prep.id, failed |-> TRUE, group |-> 0]
    /\ Release

GroupUsable(g) ==
    /\ grp[g].on /\ ~grp[g].draining
    /\ ~gbr[g].failed /\ gbr[g].phase = "Running"

\* Mutant: a candidate that ran out of its startup budget is published.
StillValid_NoDeadline ==
    /\ ~finishing /\ ~prep.stale
    /\ prep.group # prep.id => GroupUsable(prep.group)

\* Mutant: that the group is registered is all that is looked at again.
StillValid_GroupOnly == prep.group # prep.id => grp[prep.group].on

\* What admitPrepared and publishPrepared check again.
StillValid ==
    /\ ~prep.expired /\ ~finishing /\ ~prep.stale
    /\ prep.group # prep.id => GroupUsable(prep.group)

\* registry.available().
Available == {g \in Groups : grp[g].published /\ grp[g].witness /\ GroupUsable(g)}

\* admitPrepared().  Construction takes the worker until a later poll().
Admit ==
    /\ pc = "prepare" /\ prep.stage = "Planned" /\ StillValid
    /\ prep' = [prep EXCEPT !.stage = "Constructing"]
    /\ pc' = "groups"
    /\ UNCHANGED <<mailbox, out, grp, branches, changing, terminal, finishing, cursor,
                   seen>>

\* The candidate is refused when a check fails, and may be refused for a reason
\* outside of this model (its plan, the ledger, the source).
Refuse ==
    /\ pc = "prepare" /\ RejectCandidate
    /\ pc' = "groups"
    /\ UNCHANGED <<mailbox, out, grp, branches, changing, finishing, cursor>>

\* Group and output are registered; made is the branch of a new group.
Register(o, g, published, made) ==
    /\ grp' = [grp EXCEPT ![g] = IF g = o
                  THEN [on |-> TRUE, count |-> 1, draining |-> FALSE,
                        published |-> published, witness |-> TRUE]
                  ELSE [grp[g] EXCEPT !.count = @ + 1, !.published = @ \/ published]]
    /\ gbr' = [gbr EXCEPT ![g] = IF g = o THEN made ELSE @]
    /\ out' = [out EXCEPT ![o] = [on |-> TRUE, group |-> g,
                                  snap |-> "WaitingForRandomAccess", late |-> FALSE]]

\* publishPrepared() and the release() after it.
Publish ==
    /\ pc = "prepare" /\ prep.stage = "Constructed" /\ StillValid
    /\ Register(prep.id, prep.group, TRUE, Live)
    /\ br' = [br EXCEPT ![prep.id] = Live]
    /\ seen' = [seen EXCEPT ![prep.id] = "WaitingForRandomAccess"]
    /\ Release
    /\ pc' = "groups"
    /\ UNCHANGED <<mailbox, changing, terminal, finishing, cursor>>

\* A subscription fails: the output, or the new group, fails where it is.
PublishUnsubscribed ==
    /\ pc = "prepare" /\ prep.stage = "Constructed" /\ StillValid
    /\ \/ /\ Register(prep.id, prep.group, FALSE, Live)
          /\ br' = [br EXCEPT ![prep.id] = Failing(Live)]
       \/ /\ prep.group = prep.id
          /\ Register(prep.id, prep.group, FALSE, Failing(Live))
          /\ br' = [br EXCEPT ![prep.id] = Live]
    /\ Release
    /\ pc' = "groups"
    /\ UNCHANGED <<mailbox, changing, terminal, finishing, cursor, seen>>

\* An exception between the new group's registration and the output's: reject()
\* finds changingGroup without an output and fails it.
PublishRaises ==
    /\ pc = "prepare" /\ prep.stage = "Constructed" /\ StillValid
    /\ prep.group = prep.id
    /\ grp' = [grp EXCEPT ![prep.id] = [on |-> TRUE, count |-> 0, draining |-> TRUE,
                                        published |-> FALSE, witness |-> TRUE]]
    /\ gbr' = [gbr EXCEPT ![prep.id] = Failing(Live)]
    /\ seen' = [seen EXCEPT ![prep.id] = "Failed"]
    /\ terminal' = [id |-> prep.id, failed |-> TRUE, group |-> prep.id]
    /\ Release
    /\ pc' = "groups"
    /\ UNCHANGED <<mailbox, out, br, changing, finishing, cursor>>

-----------------------------------------------------------------------------
(* poll(): groups and outputs.                                             *)

\* Mutant: the worker's hold on the candidate is not waited for.
TerminalReady_NoPreparation(t) ==
    t.id # 0 /\ (t.group = 0 \/ ~grp'[t.group].on)

TerminalReady(t) ==
    t.id # 0 /\ prep'.id = 0 /\ (t.group = 0 \/ ~grp'[t.group].on)

\* publishPendingTerminal().
PublishPendingTerminal(t, told) ==
    IF TerminalReady(t)
    THEN /\ terminal' = NoTerminal
         /\ inProgress' = FALSE
         /\ changing' = IF changing = t.id THEN 0 ELSE changing
         /\ listed' = listed \ {t.id}
         /\ seen' = [told EXCEPT ![t.id] = "Retired"]
    ELSE terminal' = t /\ seen' = told /\ UNCHANGED <<inProgress, changing, listed>>

\* pollGroups(): a group's failure is its outputs'; a group without outputs
\* drains, and is erased when its branch has retired.
PollGroups ==
    LET broken == {g \in Groups : gbr[g].failed}
        idle == {g \in Groups : grp[g].count = 0}
        retired == {g \in idle : gbr[g].exited}
        late == /\ terminal.group \in retired /\ ~terminal.failed
                /\ gbr[terminal.group].failed
        stale == \E g \in retired : grp[g].published
    IN  /\ br' = [o \in Ids |-> IF o \in Outputs /\ out[o].group \in broken
                                   /\ ~br[o].failed
                                THEN Failing(br[o]) ELSE br[o]]
        /\ grp' = [g \in Ids |-> IF g \in retired THEN NoGroup
                                 ELSE IF g \in idle THEN [grp[g] EXCEPT !.draining = TRUE]
                                 ELSE grp[g]]
        /\ gbr' = [g \in Ids |->
                      IF g \in retired THEN Gone
                      ELSE IF g \notin idle THEN gbr[g]
                      ELSE IF gbr[g].failed THEN Failing(gbr[g])
                      ELSE IF ~grp[g].draining /\ gbr[g].phase = "Running"
                           THEN Draining(gbr[g]) ELSE gbr[g]]
        /\ prep' = IF prep.stage = "Complete" /\ pc = "groups" THEN NoPreparation
                   ELSE Outdated(stale)
        /\ PublishPendingTerminal([terminal EXCEPT !.failed = @ \/ late],
                                  IF late THEN [seen EXCEPT ![terminal.id] = "Failed"]
                                          ELSE seen)

After(o) == {x \in Outputs : x > o}
NextOutput(o) == IF After(o) = {} THEN MaxOutputs + 1 ELSE Min(After(o))

\* The result of the preparation is collected first.
FirstGroups ==
    /\ pc = "groups" /\ PollGroups
    /\ pc' = "outputs" /\ cursor' = NextOutput(0)
    /\ UNCHANGED <<enabled, pending, nextId, out, finishing>>

AtOutput(o) == pc = "outputs" /\ cursor = o /\ out[o].on

\* The output shows a decodable picture in time.
OutputReady(o) ==
    /\ AtOutput(o)
    /\ out[o].snap = "WaitingForRandomAccess" /\ ~out[o].late
    /\ prep.id = 0 /\ ~br[o].failed
    /\ out' = [out EXCEPT ![o].snap = "Running"]
    /\ inProgress' = (inProgress /\ changing # o)
    /\ changing' = IF changing = o THEN 0 ELSE changing
    /\ seen' = [seen EXCEPT ![o] = "Running"]
    /\ UNCHANGED <<enabled, pending, nextId, listed, grp, branches, prep,
                   terminal, finishing, pc, cursor>>

OutputTimesOut(o) ==
    /\ AtOutput(o)
    /\ out[o].snap = "WaitingForRandomAccess" /\ br[o].phase # "Failed" /\ ~br[o].exited
    /\ br' = [br EXCEPT ![o] = Failing(@)]
    /\ UNCHANGED <<mailbox, out, grp, gbr, prep, changing, terminal, finishing, pc,
                   cursor, seen>>

\* The branch goes on.  A failure recorded after poll() looked at it leaves the
\* branch's state as it was.
OutputPolled(o) ==
    /\ AtOutput(o) /\ ~br[o].exited
    /\ \/ /\ ~br[o].failed /\ ~(out[o].late /\ out[o].snap = "WaitingForRandomAccess")
          /\ UNCHANGED <<out, br, seen>>
       \/ /\ br[o].failed
          /\ br' \in {br, [br EXCEPT ![o].phase = "Failed"]}
          /\ out' = [out EXCEPT ![o].snap = "Failed"]
          /\ seen' = IF out[o].snap = "Failed" THEN seen
                     ELSE [seen EXCEPT ![o] = "Failed"]
    /\ cursor' = NextOutput(o)
    /\ UNCHANGED <<mailbox, grp, gbr, prep, changing, terminal, finishing, pc>>

\* The retired output is the change in progress and nothing of it is left.
Completes(o, held) == changing = o /\ ~held

\* The branch has retired: the output is erased and its group loses a consumer.
\* The change it belongs to stays busy for its group and its preparation.
OutputRetires(o) ==
    LET g == out[o].group
        last == grp[g].on /\ grp[g].count = 1
        held == last \/ prep.id = o
        failure == br[o].failed /\ out[o].snap # "Failed"
    IN  /\ AtOutput(o) /\ br[o].exited
        /\ out' = [out EXCEPT ![o] = NoOutput]
        /\ br' = [br EXCEPT ![o] = Gone]
        /\ grp' = [grp EXCEPT ![g].count = IF grp[g].on THEN @ - 1 ELSE @]
        /\ prep' = Outdated(TRUE)
        /\ inProgress' = (inProgress /\ ~Completes(o, held))
        /\ changing' = IF Completes(o, held) THEN 0 ELSE changing
        /\ IF changing = o /\ held
           THEN /\ terminal' = [id |-> o, failed |-> br[o].failed,
                                group |-> IF last THEN g ELSE 0]
                /\ seen' = IF failure THEN [seen EXCEPT ![o] = "Failed"] ELSE seen
                /\ UNCHANGED listed
           ELSE /\ seen' = [seen EXCEPT ![o] = "Retired"]
                /\ listed' = listed \ {o}
                /\ UNCHANGED terminal
        /\ cursor' = NextOutput(o)
        /\ UNCHANGED <<enabled, pending, nextId, gbr, finishing, pc>>

LastGroups ==
    /\ pc = "outputs" /\ cursor > MaxOutputs /\ PollGroups
    /\ pc' = "take" /\ cursor' = 0
    /\ UNCHANGED <<enabled, pending, nextId, out, finishing>>

-----------------------------------------------------------------------------
(* poll(): the next change.                                                *)

MayTake == ~finishing /\ prep.id = 0 /\ terminal.id = 0
Takes == pc = "take" /\ MayTake /\ ~inProgress /\ pending.id # 0

NothingToTake ==
    /\ pc = "take" /\ ~(MayTake /\ ~inProgress /\ pending.id # 0)
    /\ pc' = "idle"
    /\ UNCHANGED <<mailbox, out, grp, branches, prep, changing, terminal, finishing,
                   cursor, seen>>

\* reject() and publishPendingTerminal() at once: nothing was prepared.
RejectChange ==
    /\ pending' = NoChange
    /\ listed' = listed \ {pending.id}
    /\ seen' = [seen EXCEPT ![pending.id] = "Retired"]
    /\ inProgress' = FALSE /\ changing' = 0

\* The source has not published what a preparation needs, or the worker's
\* thread is not created.
TakeRefused ==
    /\ Takes /\ (pending.add \/ pending.id \notin Outputs)
    /\ RejectChange
    /\ pc' = "idle"
    /\ UNCHANGED <<enabled, nextId, out, grp, branches, prep, terminal,
                   finishing, cursor>>

\* The worker is given the available groups by value: its planner reuses one of
\* them, or plans a group of its own.
BeginPreparation ==
    /\ Takes /\ pending.add
    /\ \E g \in Available \cup {pending.id} :
          prep' = [id |-> pending.id, group |-> g, stage |-> "Planning",
                   stale |-> FALSE, expired |-> FALSE]
    /\ seen' = [seen EXCEPT ![pending.id] = "Preparing"]
    /\ changing' = pending.id
    /\ pending' = NoChange /\ inProgress' = TRUE
    /\ pc' = "idle"
    /\ UNCHANGED <<enabled, nextId, listed, out, grp, branches, terminal,
                   finishing, cursor>>

\* drain(): unsubscribed, then closed behind its last buffer.
TakeRemoval ==
    LET o == pending.id
        drains == br[o].phase = "Running"
    IN  /\ Takes /\ ~pending.add /\ o \in Outputs
        /\ br' = [br EXCEPT ![o] = Draining(@)]
        /\ out' = [out EXCEPT ![o].snap = IF drains THEN "Draining" ELSE @]
        /\ seen' = [seen EXCEPT ![o] = IF drains THEN "Draining" ELSE @]
        /\ changing' = o
        /\ pending' = NoChange /\ inProgress' = TRUE
        /\ pc' = "idle"
        /\ UNCHANGED <<enabled, nextId, listed, grp, gbr, prep, terminal,
                       finishing, cursor>>

-----------------------------------------------------------------------------
(* finish().                                                               *)

\* Mutant: the outputs are told nothing.
Finished_Untold(o, failure) == br[o]

\* fail() of every output, or drain() of the ones that run.
Finished(o, failure) ==
    IF failure THEN Failing(br[o])
    ELSE IF br[o].phase = "Running" THEN Draining(br[o]) ELSE br[o]

\* The run loop ends: stopRequested(), the end of the source or a failure.
\* A change nobody has taken is refused.
BeginFinish ==
    /\ pc = "idle" /\ ~finishing
    /\ finishing' = TRUE /\ enabled' = FALSE
    /\ LET refused == IF inProgress THEN {} ELSE {pending.id} \cap Ids IN
       /\ pending' = NoChange
       /\ listed' = listed \ refused
       /\ \E failure \in BOOLEAN :
          LET drained == {o \in Outputs : ~failure /\ br[o].phase = "Running"} IN
          /\ br' = [o \in Ids |-> IF o \in Outputs THEN Finished(o, failure) ELSE br[o]]
          /\ out' = [o \in Ids |-> IF o \in drained
                                   THEN [out[o] EXCEPT !.snap = "Draining"] ELSE out[o]]
          /\ seen' = [o \in Ids |-> IF o \in drained THEN "Draining"
                                    ELSE IF o \in refused THEN "Retired" ELSE seen[o]]
    /\ UNCHANGED <<inProgress, nextId, grp, gbr, prep, changing, terminal, pc,
                   cursor>>

FinishReturns ==
    /\ pc = "idle" /\ finishing /\ Settled
    /\ pc' = "finished" /\ inProgress' = FALSE
    /\ UNCHANGED <<enabled, pending, nextId, listed, out, grp, branches, prep,
                   changing, terminal, finishing, cursor, seen>>

-----------------------------------------------------------------------------
\* startInitial() has returned: the first output waits in the first group.
Init ==
    /\ enabled = TRUE /\ inProgress = FALSE
    /\ pending = NoChange /\ nextId = 2 /\ listed = {1}
    /\ out = [o \in Ids |-> IF o = 1 THEN [on |-> TRUE, group |-> 1,
                                           snap |-> "WaitingForRandomAccess",
                                           late |-> FALSE]
                                     ELSE NoOutput]
    /\ grp = [g \in Ids |-> IF g = 1 THEN [on |-> TRUE, count |-> 1,
                                           draining |-> FALSE, published |-> TRUE,
                                           witness |-> FALSE]
                                     ELSE NoGroup]
    /\ br = [o \in Ids |-> IF o = 1 THEN Live ELSE Gone]
    /\ gbr = br
    /\ prep = NoPreparation /\ changing = 0 /\ terminal = NoTerminal
    /\ finishing = FALSE /\ pc = "idle" /\ cursor = 0
    /\ seen = [o \in Ids |-> IF o = 1 THEN "WaitingForRandomAccess" ELSE "none"]

Callers == AddOutput \/ \E o \in Ids : RemoveOutput(o)

Controller ==
    \/ PollBegins \/ Admit \/ Refuse
    \/ Publish \/ PublishUnsubscribed \/ PublishRaises
    \/ FirstGroups \/ LastGroups
    \/ \E o \in Ids : OutputReady(o) \/ OutputTimesOut(o) \/ OutputPolled(o)
                      \/ OutputRetires(o)
    \/ NothingToTake \/ TakeRefused \/ BeginPreparation \/ TakeRemoval
    \/ BeginFinish \/ FinishReturns

Next ==
    \/ Callers \/ Controller \/ WorkerStep
    \/ \E o \in Ids : BranchFails(o) \/ OutputExits(o) \/ GroupExits(o)

Spec == Init /\ [][Next]_vars

ToldExits ==
    \E o \in Ids : \/ Told(br[o]) /\ OutputExits(o)
                   \/ Told(gbr[o]) /\ GroupExits(o)

StartupDeadline == \E o \in Ids : OutputTimesOut(o)

(* The controller's thread runs; the worker returns from the driver in the end;  *)
(* a branch that drains or has failed retires (RuntimeBranch!BranchRetires);     *)
(* and an output that waits for its first picture meets its deadline.            *)
FairSpec ==
    /\ Spec
    /\ WF_vars(Controller) /\ WF_vars(WorkerStep) /\ WF_vars(ToldExits)
    /\ SF_vars(StartupDeadline)

-----------------------------------------------------------------------------
(* What the callers of a session rely on.                                  *)

(* Every output has its encoding group as long as it lives, the count that lets  *)
(* a group go is the number of its outputs, and a group that drains has none:    *)
(* neither a candidate that was prepared meanwhile nor a failing output slips     *)
(* past pollGroups().                                                           *)
GroupsCounted ==
    /\ \A o \in Outputs : grp[out[o].group].on
    /\ \A g \in Groups : /\ grp[g].count = Cardinality(Members(g))
                         /\ grp[g].draining => Members(g) = {}

(* What the controller holds for a caller.                                     *)
Owned ==
    (Outputs \cup {prep.id, terminal.id}
     \cup (IF pending.add THEN {pending.id} ELSE {})) \ {0}

(* The snapshots a caller can list are exactly what the controller still owns:   *)
(* an output, a preparation a worker holds, a change that waits to be taken or    *)
(* a terminal state that waits for its group.  Nothing is forgotten while its     *)
(* resources are held, until finish() begins, and nothing released stays listed.  *)
ListedIsOwned == listed \subseteq Owned /\ (~finishing => Owned \subseteq listed)

(* The observer is told that an output has retired only when its branch has: "Keep  *)
(* the change busy until the branch is ready or has physically retired"            *)
(* (MediaRealtimeOutputRunController.cpp:780).  finish() that finds a removal not  *)
(* yet taken rejects it, and with it reports an output retired that still runs.    *)
RetiredIsReleased == \A o \in Outputs : seen[o] # "Retired"

(* An output the observer was told has failed, or has retired and is released, is  *)
(* never reported as preparing, waiting or running afterwards, whatever its        *)
(* preparation or its branch still does.                                          *)
NeverRevived ==
    [][\A o \in Ids :
          seen[o] = "Failed" \/ (seen[o] = "Retired" /\ o \notin Outputs) =>
             seen'[o] \notin {"Preparing", "WaitingForRandomAccess", "Running"}]_vars

(* An accepted change is answered, so that the mailbox becomes free again although   *)
(* the output runs, fails or retires by itself meanwhile; and a session whose run    *)
(* loop has ended finishes, with no output and no change left.                      *)
SessionAnswers ==
    []<>(/\ pending.id = 0 /\ ~inProgress
         /\ finishing => pc = "finished" /\ listed = {})
=============================================================================
