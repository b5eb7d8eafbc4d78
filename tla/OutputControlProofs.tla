------------------------- MODULE OutputControlProofs -------------------------
(***************************************************************************)
(* The encoding groups of a session are counted right, so that a group is   *)
(* let go exactly when its last output is, and what callers can list is      *)
(* what the controller owns; and an output once reported failed or retired   *)
(* is never reported alive again: all for every number of outputs.          *)
(***************************************************************************)
EXTENDS OutputControl, FiniteSetTheorems, TLAPS

USE OutputsAssumption DEF Ids

(* The outputs, the groups, the preparation and the mailbox keep their types.   *)
Snaps == {"none", "WaitingForRandomAccess", "Running", "Draining", "Failed"}
Stages == {"none", "Planning", "Planned", "Constructing", "Constructed", "Releasing",
           "Complete"}
OutputRecord == [on : BOOLEAN, group : Nat, snap : Snaps, late : BOOLEAN]
GroupRecord == [on : BOOLEAN, count : Nat, draining : BOOLEAN, published : BOOLEAN,
                witness : BOOLEAN]
PreparationRecord == [id : Nat, group : Nat, stage : Stages, stale : BOOLEAN,
                      expired : BOOLEAN]

Typed ==
    /\ out \in [Ids -> OutputRecord]
    /\ grp \in [Ids -> GroupRecord]
    /\ prep \in PreparationRecord
    /\ pending \in [id : Nat, add : BOOLEAN]
    /\ nextId \in Nat

(* An output that has not been made, nor a group for it.                       *)
Absent(o) == ~out[o].on /\ ~grp[o].on

(* The worker holds a candidate that may still be published.                   *)
Active == {"Planning", "Planned", "Constructing", "Constructed"}

(* An id that is still to be given out, waits in the mailbox or is being        *)
(* prepared names neither an output nor a group, and no two of them are the     *)
(* same: what publishPrepared() registers is new.                              *)
NewIsAbsent ==
    /\ \A o \in Ids : o >= nextId => Absent(o)
    /\ prep.id < nextId
    /\ pending.add => /\ pending.id \in Ids /\ pending.id < nextId
                      /\ Absent(pending.id) /\ prep.id # pending.id
    /\ prep.stage \in Active => /\ prep.id \in Ids /\ prep.group \in Ids
                                /\ Absent(prep.id)

(* The group of an output is one that was made.                                *)
Homed == \A o \in Outputs : out[o].group \in Ids

(* The inductive invariant of the count.                                       *)
CountInv == Typed /\ Homed /\ GroupsCounted /\ NewIsAbsent

(* A group has finitely many outputs, so that they can be counted.             *)
LEMMA MembersFinite == \A g : IsFiniteSet(Members(g))
<1>1. IsFiniteSet(1 .. MaxOutputs)
  BY FS_Interval
<1>2. \A g : Members(g) \in SUBSET (1 .. MaxOutputs)
  BY DEF Members, Outputs
<1>3. QED
  BY <1>1, <1>2, FS_Subset

(* A session starts with one output in one group.                              *)
LEMMA CountInit == Init => CountInv
<1> SUFFICES ASSUME Init PROVE CountInv
  OBVIOUS
<1>1. Typed
  <2>1. NoOutput \in OutputRecord /\ NoGroup \in GroupRecord
        /\ NoPreparation \in PreparationRecord /\ NoChange \in [id : Nat, add : BOOLEAN]
    BY DEF Snaps, Stages, OutputRecord, GroupRecord, PreparationRecord, NoOutput, NoGroup,
           NoPreparation, NoChange
  <2>2. [on |-> TRUE, group |-> 1, snap |-> "WaitingForRandomAccess", late |-> FALSE]
           \in OutputRecord
    BY DEF OutputRecord, Snaps
  <2>3. [on |-> TRUE, count |-> 1, draining |-> FALSE, published |-> TRUE,
         witness |-> FALSE] \in GroupRecord
    BY DEF GroupRecord
  <2>4. QED
    BY <2>1, <2>2, <2>3 DEF Init, Typed
<1>2. GroupsCounted
  <2>1. Outputs = {1} /\ Groups = {1}
    BY DEF Init, Outputs, Groups, NoOutput, NoGroup
  <2>2. Members(1) = {1}
    BY <2>1 DEF Init, Members
  <2>3. Cardinality({1}) = 1
    BY FS_Singleton
  <2>4. out[1].group = 1 /\ grp[1].on /\ grp[1].count = 1 /\ ~grp[1].draining
    BY DEF Init
  <2>5. QED
    BY <2>1, <2>2, <2>3, <2>4 DEF GroupsCounted
<1>3. NewIsAbsent
  BY DEF Init, NewIsAbsent, Absent, Active, NoOutput, NoGroup, NoPreparation, NoChange
<1>4. Homed
  BY DEF Init, Homed, Outputs, NoOutput
<1>5. QED
  BY <1>1, <1>2, <1>3, <1>4 DEF CountInv

(* A step that changes neither who is an output of which group nor what is      *)
(* counted keeps the count.                                                    *)
SameOutputs == \A o \in Ids : out'[o].on = out[o].on /\ out'[o].group = out[o].group
SameGroups == \A g \in Ids : /\ grp'[g].on = grp[g].on
                             /\ grp'[g].count = grp[g].count
                             /\ grp'[g].draining = grp[g].draining

(* The outputs of each group are the ones they were.                           *)
LEMMA SameMembers ==
    SameOutputs => Outputs' = Outputs /\ \A g : Members(g)' = Members(g)
<1> SUFFICES ASSUME SameOutputs
             PROVE  Outputs' = Outputs /\ \A g : Members(g)' = Members(g)
  OBVIOUS
<1>1. Outputs' = Outputs
  BY DEF SameOutputs, Outputs
<1>2. \A g : Members(g)' = Members(g)
  BY <1>1 DEF SameOutputs, Outputs, Members
<1>3. QED
  BY <1>1, <1>2

(* A count stays right as long as nothing that it counts changes.              *)
LEMMA CountKept ==
    Homed /\ GroupsCounted /\ SameOutputs /\ SameGroups => GroupsCounted'
<1> SUFFICES ASSUME Homed, GroupsCounted, SameOutputs, SameGroups PROVE GroupsCounted'
  OBVIOUS
<1>1. Groups' = Groups
  BY DEF SameGroups, Groups
<1>2. ASSUME NEW o \in Outputs' PROVE grp'[out'[o].group].on
  <2>1. o \in Ids /\ o \in Outputs /\ out'[o].group = out[o].group
    BY SameMembers DEF SameOutputs, Outputs
  <2>2. out[o].group \in Ids
    BY <2>1 DEF Homed
  <2>3. QED
    BY <2>1, <2>2 DEF SameGroups, GroupsCounted
<1>3. ASSUME NEW g \in Groups'
      PROVE  /\ grp'[g].count = Cardinality(Members(g)')
             /\ grp'[g].draining => Members(g)' = {}
  <2>1. g \in Groups /\ g \in Ids /\ Members(g)' = Members(g)
    BY <1>1, SameMembers DEF Groups
  <2>2. QED
    BY <2>1 DEF GroupsCounted, SameGroups
<1>4. QED
  BY <1>2, <1>3 DEF GroupsCounted

(* What the mailbox and the preparation do in most steps: the candidate stays    *)
(* the one it is, or is given up.                                              *)
SameChange ==
    /\ nextId' = nextId /\ prep'.id \in {0, prep.id}
    /\ prep'.stage \in Active => /\ prep.stage \in Active
                                 /\ prep'.id = prep.id /\ prep'.group = prep.group
    /\ pending'.add => pending' = pending

(* A new id stays new as long as nothing is registered.                        *)
LEMMA AbsentKept ==
    ASSUME Typed, NewIsAbsent, SameChange,
           \A o \in Ids : Absent(o) => Absent(o)'
    PROVE  NewIsAbsent'
<1>1. prep'.id <= prep.id
  BY DEF SameChange, Typed, PreparationRecord
<1>2. prep'.id < nextId' /\ nextId' = nextId
  BY <1>1 DEF SameChange, NewIsAbsent, Typed, PreparationRecord
<1>3. ASSUME pending'.add
      PROVE  (pending.id \in Ids /\ pending.id < nextId /\ Absent(pending.id)
              /\ prep.id # pending.id)'
  <2>1. pending' = pending /\ pending.add
    BY <1>3 DEF SameChange
  <2>2. pending.id \in Ids /\ pending.id < nextId /\ Absent(pending.id)
        /\ prep.id # pending.id
    BY <2>1 DEF NewIsAbsent
  <2>3. Absent(pending.id)'
    BY <2>1, <2>2 DEF Absent
  <2>4. QED
    BY <2>1, <2>2, <2>3 DEF SameChange
<1>4. ASSUME prep'.stage \in Active
      PROVE  (prep.id \in Ids /\ prep.group \in Ids /\ Absent(prep.id))'
  <2>1. prep.stage \in Active /\ prep'.id = prep.id /\ prep'.group = prep.group
    BY <1>4 DEF SameChange
  <2>2. prep.id \in Ids /\ prep.group \in Ids /\ Absent(prep.id)
    BY <2>1 DEF NewIsAbsent
  <2>3. QED
    BY <2>1, <2>2 DEF Absent
<1>5. \A o \in Ids : o >= nextId' => Absent(o)'
  BY DEF SameChange, NewIsAbsent
<1>6. QED
  BY <1>2, <1>3, <1>4, <1>5 DEF NewIsAbsent

(* A step that registers nothing and drops nothing keeps the count.            *)
LEMMA Plain ==
    ASSUME CountInv, Typed', SameOutputs, SameGroups, SameChange
    PROVE  CountInv'
<1>1. \A o \in Ids : Absent(o) => Absent(o)'
  BY DEF SameOutputs, SameGroups, Absent
<1>2. Homed'
  BY SameMembers DEF CountInv, Homed, SameOutputs, Outputs
<1>3. QED
  BY <1>1, <1>2, CountKept, AbsentKept DEF CountInv

(* Steps that leave the outputs, the groups and the preparation alone.          *)
LEMMA Still ==
    ASSUME CountInv, UNCHANGED <<out, grp, prep, pending, nextId>>
    PROVE  CountInv'
<1>1. Typed'
  BY DEF CountInv, Typed
<1>2. SameOutputs /\ SameGroups /\ SameChange
  BY DEF SameOutputs, SameGroups, SameChange
<1>3. QED
  BY <1>1, <1>2, Plain

(* Adding and removing only write the mailbox and give out a new id.           *)
LEMMA CallersCount == CountInv /\ Callers => CountInv'
<1> SUFFICES ASSUME CountInv, Callers PROVE CountInv'
  OBVIOUS
<1>1. CASE AddOutput
  <2>1. Typed'
    BY <1>1 DEF AddOutput, CountInv, Typed
  <2>2. SameOutputs /\ SameGroups
    BY <1>1 DEF AddOutput, SameOutputs, SameGroups
  <2>3. Homed' /\ GroupsCounted'
    BY <2>2, <1>1, CountKept DEF AddOutput, CountInv, Homed, Outputs
  <2>4. NewIsAbsent'
    BY <1>1 DEF AddOutput, CountInv, NewIsAbsent, Typed, PreparationRecord, Absent
  <2>5. QED
    BY <2>1, <2>3, <2>4 DEF CountInv
<1>2. ASSUME NEW o \in Ids, RemoveOutput(o) PROVE CountInv'
  <2>1. Typed'
    BY <1>2 DEF RemoveOutput, CountInv, Typed
  <2>2. SameOutputs /\ SameGroups
    BY <1>2 DEF RemoveOutput, SameOutputs, SameGroups
  <2>3. SameChange
    BY <1>2 DEF RemoveOutput, SameChange
  <2>4. QED
    BY <2>1, <2>2, <2>3, Plain
<1>3. QED
  BY <1>1, <1>2 DEF Callers

(* Branches that fail or exit are not counted until poll() sees them.          *)
LEMMA BranchesCount ==
    ASSUME CountInv, NEW o \in Ids, BranchFails(o) \/ OutputExits(o) \/ GroupExits(o)
    PROVE  CountInv'
BY Still DEF BranchFails, OutputExits, GroupExits, BranchesOnly, mailbox

(* The preparation worker registers nothing.                                   *)
LEMMA WorkerCount == CountInv /\ WorkerStep => CountInv'
<1> SUFFICES ASSUME CountInv, WorkerStep PROVE CountInv'
  OBVIOUS
<1>1. Typed'
  BY DEF WorkerStep, CountInv, Typed, mailbox, PreparationRecord, Stages
<1>2. SameOutputs /\ SameGroups
  BY DEF WorkerStep, SameOutputs, SameGroups
<1>3. SameChange
  BY DEF WorkerStep, SameChange, mailbox, CountInv, Typed, PreparationRecord, Active
<1>4. QED
  BY <1>1, <1>2, <1>3, Plain

(* What release() and Outdated leave of the preparation.                       *)
LEMMA ReleaseTyped ==
    ASSUME Typed, Release
    PROVE  /\ prep' \in PreparationRecord
           /\ prep'.id = prep.id /\ prep'.stage \notin Active
BY Zenon DEF Typed, Release, PreparationRecord, Stages, Active

(* Marking a preparation outdated leaves the candidate the one it is.          *)
LEMMA OutdatedTyped ==
    ASSUME Typed, NEW change \in BOOLEAN, prep' = Outdated(change)
    PROVE  /\ prep' \in PreparationRecord
           /\ prep'.id = prep.id /\ prep'.group = prep.group /\ prep'.stage = prep.stage
<1>1. \E b \in BOOLEAN : prep' = [prep EXCEPT !.stale = b]
  BY Zenon DEF Outdated
<1>2. QED
  BY <1>1 DEF Typed, PreparationRecord

(* A missed deadline changes no membership.                                    *)
LEMMA LateKept ==
    ASSUME Typed, NEW x, NEW b \in BOOLEAN, out' = [out EXCEPT ![x].late = b]
    PROVE  out' \in [Ids -> OutputRecord] /\ SameOutputs
<1>1. ASSUME NEW o \in Ids
      PROVE  /\ out'[o] \in OutputRecord
             /\ out'[o].on = out[o].on /\ out'[o].group = out[o].group
  <2>1. out[o] \in OutputRecord
    BY DEF Typed
  <2>2. out'[o] = out[o] \/ out'[o] = [out[o] EXCEPT !.late = b]
    BY DEF Typed
  <2>3. [out[o] EXCEPT !.late = b] \in OutputRecord
    BY <2>1 DEF OutputRecord
  <2>4. QED
    BY <2>1, <2>2, <2>3 DEF OutputRecord
<1>2. QED
  BY <1>1, Zenon DEF Typed, SameOutputs

(* A new snapshot state changes no membership.                                 *)
LEMMA SnapKept ==
    ASSUME Typed, NEW x, NEW s \in Snaps, out' = [out EXCEPT ![x].snap = s]
    PROVE  out' \in [Ids -> OutputRecord] /\ SameOutputs
<1>1. ASSUME NEW o \in Ids
      PROVE  /\ out'[o] \in OutputRecord
             /\ out'[o].on = out[o].on /\ out'[o].group = out[o].group
  <2>1. out[o] \in OutputRecord
    BY DEF Typed
  <2>2. out'[o] = out[o] \/ out'[o] = [out[o] EXCEPT !.snap = s]
    BY DEF Typed
  <2>3. [out[o] EXCEPT !.snap = s] \in OutputRecord
    BY <2>1 DEF OutputRecord
  <2>4. QED
    BY <2>1, <2>2, <2>3 DEF OutputRecord
<1>2. QED
  BY <1>1, Zenon DEF Typed, SameOutputs

(* The witness of a group changes no count.                                    *)
LEMMA WitnessKept ==
    ASSUME Typed, NEW x, NEW b \in BOOLEAN, grp' = [grp EXCEPT ![x].witness = b]
    PROVE  grp' \in [Ids -> GroupRecord] /\ SameGroups
<1>1. ASSUME NEW g \in Ids
      PROVE  /\ grp'[g] \in GroupRecord
             /\ grp'[g].on = grp[g].on /\ grp'[g].count = grp[g].count
             /\ grp'[g].draining = grp[g].draining
  <2>1. grp[g] \in GroupRecord
    BY DEF Typed
  <2>2. grp'[g] = grp[g] \/ grp'[g] = [grp[g] EXCEPT !.witness = b]
    BY DEF Typed
  <2>3. [grp[g] EXCEPT !.witness = b] \in GroupRecord
    BY <2>1 DEF GroupRecord
  <2>4. QED
    BY <2>1, <2>2, <2>3 DEF GroupRecord
<1>2. QED
  BY <1>1, Zenon DEF Typed, SameGroups

(* poll() begins: it looks at the clock and at the worker.                     *)
LEMMA PollBeginsCount == CountInv /\ PollBegins => CountInv'
<1> SUFFICES ASSUME CountInv, PollBegins PROVE CountInv'
  OBVIOUS
<1>1. PICK r \in {"witness", "fails", "later"} : RefreshWitness(r)
  BY DEF PollBegins
<1>2. grp' \in [Ids -> GroupRecord] /\ SameGroups
  <2>1. \/ grp' = grp
        \/ \E b \in BOOLEAN : grp' = [grp EXCEPT ![1].witness = b]
    BY <1>1, Zenon DEF RefreshWitness
  <2>2. QED
    BY <2>1, WitnessKept, Zenon DEF CountInv, Typed, SameGroups
<1>3. out' \in [Ids -> OutputRecord] /\ SameOutputs
  <2>1. \/ out' = out
        \/ \E b \in BOOLEAN : out' = [out EXCEPT ![prep.id].late = b]
    <3>1. CASE UNCHANGED <<prep, out, seen>>
      BY <3>1
    <3>2. CASE out' = [out EXCEPT ![prep.id].late = @ \/ out[prep.id].on]
      BY <3>2, Zenon
    <3>3. QED
      BY <3>1, <3>2 DEF PollBegins
  <2>2. QED
    BY <2>1, LateKept, Zenon DEF CountInv, Typed, SameOutputs
<1>4. prep' \in PreparationRecord /\ SameChange
  BY Zenon DEF PollBegins, CountInv, Typed, PreparationRecord, SameChange, mailbox
<1>5. Typed'
  BY <1>2, <1>3, <1>4 DEF Typed, CountInv, PollBegins, mailbox
<1>6. QED
  BY <1>2, <1>3, <1>4, <1>5, Plain

(* Admitting or refusing a planned candidate registers nothing.                *)
LEMMA AdmitCount == CountInv /\ (Admit \/ Refuse) => CountInv'
<1> SUFFICES ASSUME CountInv, Admit \/ Refuse PROVE CountInv'
  OBVIOUS
<1>1. prep' \in PreparationRecord /\ SameChange
  <2>1. CASE Admit
    BY <2>1 DEF Admit, CountInv, Typed, PreparationRecord, Stages, Active, SameChange,
                mailbox
  <2>2. CASE Refuse
    BY <2>2, ReleaseTyped DEF Refuse, RejectCandidate, CountInv, SameChange, mailbox
  <2>3. QED
    BY <2>1, <2>2
<1>2. UNCHANGED <<out, grp, mailbox>>
  BY DEF Admit, Refuse
<1>3. Typed' /\ SameOutputs /\ SameGroups
  BY <1>1, <1>2 DEF CountInv, Typed, mailbox, SameOutputs, SameGroups
<1>4. QED
  BY <1>1, <1>3, Plain

(* A group that is not registered has no outputs.                              *)
LEMMA NoMembers == ASSUME Homed, GroupsCounted, NEW g, ~grp[g].on PROVE Members(g) = {}
BY DEF GroupsCounted, Members

(* publishPrepared() registers a new output, in a group that is used or new.    *)
LEMMA RegisterCount ==
    ASSUME CountInv, prep.stage = "Constructed", StillValid, NEW p \in BOOLEAN, NEW made,
           NEW o, NEW g, o = prep.id, g = prep.group,
           Register(o, g, p, made), Release, UNCHANGED mailbox
    PROVE  CountInv'
<1> DEFINE entry == [on |-> TRUE, group |-> g, snap |-> "WaitingForRandomAccess",
                     late |-> FALSE]
<1> USE DEF CountInv
<1>1. o \in Ids /\ g \in Ids /\ Absent(o) /\ o < nextId
  BY DEF NewIsAbsent, Active
<1>2. g # o => grp[g].on /\ ~grp[g].draining
  BY DEF StillValid, GroupUsable
<1>3. out' = [out EXCEPT ![o] = entry]
  BY DEF Register
<1>4. /\ out'[o].on /\ out'[o].group = g
      /\ \A x \in Ids \ {o} : out'[x] = out[x]
  BY <1>1, <1>3 DEF Typed
<1>5. out' \in [Ids -> OutputRecord]
  <2>1. entry \in OutputRecord
    BY <1>1 DEF OutputRecord, Snaps
  <2>2. QED
    BY <2>1, <1>3, Zenon DEF Typed
<1>6. \A x \in Ids \ {g} : grp'[x] = grp[x]
  BY <1>1 DEF Register, Typed
<1>7. /\ grp' \in [Ids -> GroupRecord]
      /\ grp'[g].on /\ ~grp'[g].draining
      /\ grp'[g].count = IF g = o THEN 1 ELSE grp[g].count + 1
  <2>1. CASE g = o
    <3> DEFINE new == [on |-> TRUE, count |-> 1, draining |-> FALSE, published |-> p,
                       witness |-> TRUE]
    <3>1. grp' = [grp EXCEPT ![g] = new]
      BY <2>1 DEF Register
    <3>2. new \in GroupRecord
      BY DEF GroupRecord
    <3>3. new.on /\ ~new.draining /\ new.count = 1
      OBVIOUS
    <3> HIDE DEF new
    <3>4. QED
      BY <3>1, <3>2, <3>3, <2>1, <1>1 DEF Typed
  <2>2. CASE g # o
    <3>1. PICK b \in BOOLEAN :
             grp' = [grp EXCEPT ![g] = [grp[g] EXCEPT !.count = @ + 1,
                                                      !.published = b]]
      BY <2>2, Zenon DEF Register
    <3>2. grp[g] \in GroupRecord
      BY <1>1 DEF Typed
    <3> DEFINE next == [grp[g] EXCEPT !.count = @ + 1, !.published = b]
    <3>3. next \in GroupRecord /\ next.count = grp[g].count + 1 /\ next.on = grp[g].on
          /\ next.draining = grp[g].draining
      <4>1. grp[g].count + 1 \in Nat /\ b \in BOOLEAN
        BY <3>2 DEF GroupRecord
      <4>2. [grp[g] EXCEPT !.count = grp[g].count + 1] \in GroupRecord
        BY <3>2, <4>1 DEF GroupRecord
      <4>3. next \in GroupRecord
        BY <3>2, <4>1, <4>2, Zenon DEF GroupRecord
      <4>4. QED
        BY <3>2, <4>3 DEF GroupRecord
    <3>4. grp' = [grp EXCEPT ![g] = next]
      BY <3>1
    <3> HIDE DEF next
    <3>5. QED
      BY <3>3, <3>4, <2>2, <1>1, <1>2 DEF Typed
  <2>3. QED
    BY <2>1, <2>2
<1>8. Typed'
  BY <1>5, <1>7, ReleaseTyped DEF Typed, mailbox
<1>9. o \notin Outputs /\ Outputs' = Outputs \cup {o}
  BY <1>1, <1>4 DEF Outputs, Absent
<1>10. Members(g)' = Members(g) \cup {o} /\ o \notin Members(g)
  BY <1>4, <1>9 DEF Members, Outputs
<1>11. \A h \in Ids \ {g} : Members(h)' = Members(h)
  BY <1>4, <1>9 DEF Members, Outputs
<1>12. Homed'
  BY <1>1, <1>4, <1>9 DEF Homed, Outputs
<1>13. \A x \in Outputs' : grp'[out'[x].group].on
  BY <1>4, <1>6, <1>7, <1>9 DEF GroupsCounted, Homed, Outputs
<1>14. Cardinality(Members(g)') = Cardinality(Members(g)) + 1
  BY <1>10, MembersFinite, FS_AddElement
<1>15. grp'[g].count = Cardinality(Members(g)')
  <2>1. CASE g = o
    <3>1. Members(g) = {}
      BY <2>1, <1>1, NoMembers DEF Absent
    <3>2. Cardinality(Members(g)) = 0
      BY <3>1, FS_EmptySet
    <3>3. QED
      BY <3>2, <2>1, <1>7, <1>14
  <2>2. CASE g # o
    BY <2>2, <1>1, <1>2, <1>7, <1>14 DEF GroupsCounted, Groups
  <2>3. QED
    BY <2>1, <2>2
<1>16. ASSUME NEW h \in Groups'
       PROVE  grp'[h].count = Cardinality(Members(h)')
              /\ (grp'[h].draining => Members(h)' = {})
  <2>1. CASE h = g
    BY <2>1, <1>7, <1>15
  <2>2. CASE h # g
    BY <2>2, <1>6, <1>11 DEF GroupsCounted, Groups
  <2>3. QED
    BY <2>1, <2>2
<1>17. NewIsAbsent'
  <2>1. \A x \in Ids : x # o /\ Absent(x) => Absent(x)'
    BY <1>2, <1>4, <1>6 DEF Absent
  <2>2. prep'.stage \notin Active /\ prep'.id = o /\ nextId' = nextId /\ pending' = pending
    BY ReleaseTyped DEF mailbox
  <2>3. \A x \in Ids : x >= nextId => x # o
    BY <1>1 DEF Typed
  <2>4. QED
    BY <1>1, <2>1, <2>2, <2>3 DEF NewIsAbsent, Absent
<1>18. QED
  BY <1>8, <1>12, <1>13, <1>16, <1>17 DEF GroupsCounted

(* Publishing a candidate counts it.                                           *)
LEMMA PublishCount == CountInv /\ (Publish \/ PublishUnsubscribed) => CountInv'
BY RegisterCount, Zenon DEF Publish, PublishUnsubscribed

(* The outputs stay and groups without outputs begin to drain or are erased,    *)
(* which is what pollGroups() does; or one is added (an exception between the   *)
(* two registrations of publishPrepared).                                      *)
LEMMA IdleGroups ==
    ASSUME CountInv, SameOutputs, grp' \in [Ids -> GroupRecord],
           \A g \in Ids : \/ grp'[g] = grp[g]
                          \/ /\ Members(g) = {}
                             /\ grp'[g].on => grp'[g].count = 0
    PROVE  Homed' /\ GroupsCounted'
<1> USE DEF CountInv
<1>1. Homed'
  BY SameMembers DEF Homed, SameOutputs, Outputs
<1>2. ASSUME NEW o \in Outputs' PROVE grp'[out'[o].group].on
  <2>1. o \in Ids /\ o \in Outputs /\ out'[o].group = out[o].group
    BY SameMembers DEF SameOutputs, Outputs
  <2>2. out[o].group \in Ids /\ grp[out[o].group].on /\ Members(out[o].group) # {}
    BY <2>1 DEF Homed, GroupsCounted, Members
  <2>3. QED
    BY <2>1, <2>2
<1>3. ASSUME NEW g \in Groups'
      PROVE  grp'[g].count = Cardinality(Members(g)')
             /\ (grp'[g].draining => Members(g)' = {})
  <2>1. g \in Ids /\ grp'[g].on /\ Members(g)' = Members(g)
    BY SameMembers DEF Groups
  <2>2. CASE grp'[g] = grp[g]
    BY <2>1, <2>2 DEF GroupsCounted, Groups
  <2>3. CASE Members(g) = {} /\ grp'[g].count = 0
    <3>1. Cardinality({}) = 0
      BY FS_EmptySet
    <3>2. QED
      BY <3>1, <2>1, <2>3
  <2>4. QED
    BY <2>1, <2>2, <2>3
<1>4. QED
  BY <1>1, <1>2, <1>3 DEF GroupsCounted

(* An exception in the middle of publishing leaves a group nobody is in.       *)
LEMMA PublishRaisesCount == CountInv /\ PublishRaises => CountInv'
<1> SUFFICES ASSUME CountInv, PublishRaises PROVE CountInv'
  OBVIOUS
<1> DEFINE new == [on |-> TRUE, count |-> 0, draining |-> TRUE, published |-> FALSE,
                   witness |-> TRUE]
<1> USE DEF CountInv
<1>1. prep.id \in Ids /\ Absent(prep.id) /\ prep.id < nextId
  BY DEF PublishRaises, NewIsAbsent, Active
<1>2. Members(prep.id) = {}
  BY <1>1, NoMembers DEF Absent
<1>3. new \in GroupRecord /\ new.count = 0
  BY DEF GroupRecord
<1>4. grp' = [grp EXCEPT ![prep.id] = new] /\ UNCHANGED <<out, mailbox>> /\ Release
  BY DEF PublishRaises
<1> HIDE DEF new
<1>5. grp' \in [Ids -> GroupRecord]
  BY <1>3, <1>4, Zenon DEF Typed
<1>6. SameOutputs
  BY <1>4 DEF SameOutputs
<1>7. Homed' /\ GroupsCounted'
  BY <1>1, <1>2, <1>3, <1>4, <1>5, <1>6, IdleGroups DEF Typed
<1>8. Typed'
  BY <1>4, <1>5, ReleaseTyped DEF Typed, mailbox
<1>9. NewIsAbsent'
  <2>1. \A x \in Ids : x # prep.id /\ Absent(x) => Absent(x)'
    BY <1>1, <1>4 DEF Absent, Typed
  <2>2. prep'.stage \notin Active /\ prep'.id = prep.id /\ nextId' = nextId
        /\ pending' = pending
    BY <1>4, ReleaseTyped DEF mailbox
  <2>3. \A x \in Ids : x >= nextId => x # prep.id
    BY <1>1 DEF Typed
  <2>4. QED
    BY <1>1, <2>1, <2>2, <2>3 DEF NewIsAbsent, Absent
<1>10. QED
  BY <1>7, <1>8, <1>9

(* pollGroups() drains and drops only groups that nobody is in.                *)
LEMMA PollGroupsCount ==
    ASSUME CountInv, PollGroups, UNCHANGED <<out, pending, nextId>>
    PROVE  CountInv'
<1> DEFINE idle == {g \in Groups : grp[g].count = 0}
           retired == {g \in idle : gbr[g].exited}
<1> USE DEF CountInv
<1>1. grp' = [g \in Ids |-> IF g \in retired THEN NoGroup
                            ELSE IF g \in idle THEN [grp[g] EXCEPT !.draining = TRUE]
                            ELSE grp[g]]
  BY DEF PollGroups
<1>2. ASSUME NEW g \in idle PROVE Members(g) = {}
  BY <1>2, MembersFinite, FS_EmptySet DEF GroupsCounted
<1>3. ASSUME NEW g \in Ids
      PROVE  /\ grp'[g] \in GroupRecord
             /\ grp'[g].on => grp[g].on
             /\ \/ grp'[g] = grp[g]
                \/ /\ Members(g) = {}
                   /\ grp'[g].on => grp'[g].count = 0
  <2>1. grp[g] \in GroupRecord
    BY DEF Typed
  <2>2. CASE g \in retired
    <3>1. grp'[g] = NoGroup
      BY <1>1, <2>2
    <3>2. NoGroup \in GroupRecord /\ ~NoGroup.on
      BY DEF NoGroup, GroupRecord
    <3>3. QED
      BY <1>2, <2>2, <3>1, <3>2
  <2>3. CASE g \in idle \ retired
    <3>1. grp'[g] = [grp[g] EXCEPT !.draining = TRUE]
      BY <1>1, <2>3
    <3>2. grp'[g] \in GroupRecord /\ grp'[g].count = grp[g].count /\ grp'[g].on = grp[g].on
      BY <2>1, <3>1, Zenon DEF GroupRecord
    <3>3. QED
      BY <1>2, <2>3, <3>2
  <2>4. CASE g \notin idle
    BY <1>1, <2>1, <2>4
  <2>5. QED
    BY <2>2, <2>3, <2>4
<1> HIDE DEF idle, retired
<1>4. SameOutputs /\ grp' \in [Ids -> GroupRecord]
  BY <1>1, <1>3 DEF SameOutputs
<1>5. Homed' /\ GroupsCounted'
  BY <1>3, <1>4, IdleGroups
<1>6. prep' \in PreparationRecord /\ SameChange
  <2>1. prep' = NoPreparation \/ \E b \in BOOLEAN : prep' = Outdated(b)
    BY Zenon DEF PollGroups
  <2>2. CASE prep' = NoPreparation
    BY <2>2 DEF NoPreparation, PreparationRecord, Stages, SameChange, Active
  <2>3. CASE \E b \in BOOLEAN : prep' = Outdated(b)
    BY <2>3, OutdatedTyped DEF SameChange
  <2>4. QED
    BY <2>1, <2>2, <2>3
<1>7. NewIsAbsent'
  BY <1>3, <1>4, <1>6, AbsentKept DEF Absent, SameOutputs
<1>8. QED
  BY <1>4, <1>5, <1>6, <1>7 DEF Typed

(* A step that only shows an output in another state.                          *)
LEMMA SnapCount ==
    ASSUME CountInv, UNCHANGED <<grp, prep, nextId>>, pending'.add => pending' = pending,
           pending' \in [id : Nat, add : BOOLEAN],
           out' = out \/ \E x, s : s \in Snaps /\ out' = [out EXCEPT ![x].snap = s]
    PROVE  CountInv'
<1>1. out' \in [Ids -> OutputRecord] /\ SameOutputs
  BY SnapKept, Zenon DEF CountInv, Typed, SameOutputs
<1>2. Typed' /\ SameGroups /\ SameChange
  BY <1>1 DEF CountInv, Typed, SameGroups, SameChange
<1>3. QED
  BY <1>1, <1>2, Plain

(* An output that is polled and stays keeps its group.                         *)
LEMMA OutputCount ==
    ASSUME CountInv, NEW o \in Ids, OutputReady(o) \/ OutputTimesOut(o) \/ OutputPolled(o)
    PROVE  CountInv'
<1>1. UNCHANGED <<grp, prep, nextId, pending>>
  BY DEF OutputReady, OutputTimesOut, OutputPolled, mailbox
<1>2. out' = out \/ \E x, s : s \in Snaps /\ out' = [out EXCEPT ![x].snap = s]
  BY DEF OutputReady, OutputTimesOut, OutputPolled, Snaps
<1>3. QED
  BY <1>1, <1>2, SnapCount DEF CountInv, Typed

(* An output that retires is taken from the count of its group.                *)
LEMMA OutputRetiresCount ==
    ASSUME CountInv, NEW o \in Ids, OutputRetires(o)
    PROVE  CountInv'
<1> USE DEF CountInv
<1>1. PICK g : g = out[o].group
  OBVIOUS
<1>2. o \in Outputs /\ g \in Ids /\ grp[g].on /\ o \in Members(g)
  BY <1>1, Zenon DEF OutputRetires, AtOutput, Outputs, Homed, GroupsCounted, Members
<1>3. out' = [out EXCEPT ![o] = NoOutput] /\ UNCHANGED <<pending, nextId>>
  BY DEF OutputRetires
<1>4. grp' = [grp EXCEPT ![g].count = grp[g].count - 1] /\ prep' = Outdated(TRUE)
  BY <1>1, <1>2 DEF OutputRetires
<1>5. ~NoOutput.on /\ NoOutput \in OutputRecord
  BY DEF NoOutput, OutputRecord, Snaps
<1>6. out' \in [Ids -> OutputRecord] /\ ~out'[o].on /\ \A x \in Ids \ {o} : out'[x] = out[x]
  BY <1>3, <1>5 DEF Typed
<1>7. Outputs' = Outputs \ {o} /\ \A h : Members(h)' = Members(h) \ {o}
  BY <1>6 DEF Outputs, Members
<1>8. grp[g].count = Cardinality(Members(g)) /\ grp[g].count # 0 /\ ~grp[g].draining
  BY <1>2, MembersFinite, FS_EmptySet DEF GroupsCounted, Groups
<1>9. Cardinality(Members(g)') = grp[g].count - 1
  BY <1>2, <1>7, <1>8, MembersFinite, FS_RemoveElement
<1>10. /\ grp' \in [Ids -> GroupRecord]
       /\ grp'[g].count = grp[g].count - 1
       /\ ~grp'[g].draining
       /\ \A h \in Ids : grp'[h].on = grp[h].on
       /\ \A h \in Ids \ {g} : grp'[h] = grp[h]
  <2> DEFINE next == [grp[g] EXCEPT !.count = grp[g].count - 1]
  <2>1. grp[g] \in GroupRecord
    BY <1>2 DEF Typed
  <2>2. grp[g].count - 1 \in Nat
    BY <1>8, <2>1 DEF GroupRecord
  <2>3. next \in GroupRecord /\ next.count = grp[g].count - 1 /\ next.on = grp[g].on
        /\ next.draining = grp[g].draining
    BY <2>1, <2>2 DEF GroupRecord
  <2>4. grp' = [grp EXCEPT ![g] = next]
    BY <1>4
  <2> HIDE DEF next
  <2>5. QED
    BY <2>3, <2>4, <1>2, <1>8, Zenon DEF Typed
<1>11. Homed' /\ \A x \in Outputs' : grp'[out'[x].group].on
  BY <1>6, <1>7, <1>10, Zenon DEF Homed, GroupsCounted, Outputs
<1>12. ASSUME NEW h \in Groups'
       PROVE  grp'[h].count = Cardinality(Members(h)')
              /\ (grp'[h].draining => Members(h)' = {})
  <2>1. CASE h = g
    BY <2>1, <1>9, <1>10
  <2>2. CASE h # g
    <3>1. h \in Groups /\ grp'[h] = grp[h]
      BY <2>2, <1>10 DEF Groups
    <3>2. Members(h)' = Members(h)
      BY <2>2, <1>1, <1>7 DEF Members
    <3>3. QED
      BY <3>1, <3>2 DEF GroupsCounted
  <2>3. QED
    BY <2>1, <2>2
<1>13. prep' \in PreparationRecord /\ SameChange
  BY <1>3, <1>4, OutdatedTyped, Zenon DEF SameChange
<1>14. NewIsAbsent'
  BY <1>6, <1>10, <1>13, AbsentKept DEF Absent
<1>15. QED
  BY <1>3, <1>6, <1>10, <1>11, <1>12, <1>13, <1>14 DEF Typed, GroupsCounted

(* Taking a change from the mailbox registers nothing.                         *)
LEMMA TakeCount ==
    CountInv /\ (NothingToTake \/ TakeRefused \/ BeginPreparation \/ TakeRemoval) => CountInv'
<1> SUFFICES ASSUME CountInv, NothingToTake \/ TakeRefused \/ BeginPreparation \/ TakeRemoval
             PROVE  CountInv'
  OBVIOUS
<1>1. CASE NothingToTake
  BY <1>1, Still DEF NothingToTake, mailbox
<1>2. NoChange \in [id : Nat, add : BOOLEAN] /\ ~NoChange.add
  BY DEF NoChange
<1>3. CASE TakeRefused
  BY <1>2, <1>3, SnapCount DEF TakeRefused, RejectChange
<1>4. CASE TakeRemoval
  <2>1. pending.id \in Ids
    BY <1>4 DEF TakeRemoval, Outputs
  <2>2. out[pending.id].snap \in Snaps
    BY <2>1 DEF CountInv, Typed, OutputRecord
  <2>3. \E s \in Snaps : out' = [out EXCEPT ![pending.id].snap = s]
    BY <1>4, <2>2, Zenon DEF TakeRemoval, Snaps
  <2>4. UNCHANGED <<grp, prep, nextId>> /\ pending' = NoChange
    BY <1>4 DEF TakeRemoval
  <2>5. QED
    BY <1>2, <2>3, <2>4, SnapCount, Zenon
<1>5. CASE BeginPreparation
  <2>1. PICK g \in Available \cup {pending.id} :
           prep' = [id |-> pending.id, group |-> g, stage |-> "Planning",
                    stale |-> FALSE, expired |-> FALSE]
    BY <1>5, Zenon DEF BeginPreparation
  <2>2. UNCHANGED <<out, grp, nextId>> /\ pending' = NoChange /\ pending.add
    BY <1>5 DEF BeginPreparation
  <2>3. pending.id \in Ids /\ g \in Ids /\ pending.id < nextId /\ Absent(pending.id)
    BY <2>2 DEF CountInv, NewIsAbsent, Available, Groups
  <2>4. prep' \in PreparationRecord
    BY <2>1, <2>3 DEF PreparationRecord, Stages
  <2>5. Typed'
    BY <1>2, <2>2, <2>4 DEF CountInv, Typed
  <2>6. SameOutputs /\ SameGroups
    BY <2>2 DEF SameOutputs, SameGroups
  <2>7. Homed' /\ GroupsCounted'
    BY <2>2, <2>6, CountKept DEF CountInv, Homed, Outputs
  <2>8. NewIsAbsent'
    BY <1>2, <2>1, <2>2, <2>3 DEF CountInv, NewIsAbsent, Absent
  <2>9. QED
    BY <2>5, <2>7, <2>8 DEF CountInv
<1>6. QED
  BY <1>1, <1>3, <1>4, <1>5

(* finish() neither registers nor drops a group as it begins or returns.       *)
LEMMA FinishCount == CountInv /\ (BeginFinish \/ FinishReturns) => CountInv'
<1> SUFFICES ASSUME CountInv, BeginFinish \/ FinishReturns PROVE CountInv'
  OBVIOUS
<1>1. CASE FinishReturns
  BY <1>1, Still DEF FinishReturns
<1>2. CASE BeginFinish
  <2>1. PICK D : out' = [o \in Ids |-> IF o \in D THEN [out[o] EXCEPT !.snap = "Draining"]
                                                 ELSE out[o]]
    BY <1>2, Zenon DEF BeginFinish
  <2>2. UNCHANGED <<grp, prep, nextId>> /\ pending' = NoChange
    BY <1>2 DEF BeginFinish
  <2>3. ASSUME NEW o \in Ids
        PROVE  /\ out'[o] \in OutputRecord
               /\ out'[o].on = out[o].on /\ out'[o].group = out[o].group
    <3>1. out[o] \in OutputRecord
      BY DEF CountInv, Typed
    <3>2. [out[o] EXCEPT !.snap = "Draining"] \in OutputRecord
      BY <3>1 DEF OutputRecord, Snaps
    <3>3. out'[o] \in {out[o], [out[o] EXCEPT !.snap = "Draining"]}
      BY <2>1
    <3>4. QED
      BY <3>1, <3>2, <3>3 DEF OutputRecord
  <2>4. Typed'
    BY <2>1, <2>2, <2>3 DEF CountInv, Typed, NoChange
  <2>5. SameOutputs /\ SameGroups /\ SameChange
    BY <2>2, <2>3 DEF SameOutputs, SameGroups, SameChange, NoChange
  <2>6. QED
    BY <2>4, <2>5, Plain
<1>3. QED
  BY <1>1, <1>2

(* Every step keeps the groups counted.                                        *)
LEMMA CountStep == CountInv /\ [Next]_vars => CountInv'
<1> SUFFICES ASSUME CountInv, [Next]_vars PROVE CountInv'
  OBVIOUS
<1>1. CASE FirstGroups \/ LastGroups
  BY <1>1, PollGroupsCount DEF FirstGroups, LastGroups
<1>2. CASE UNCHANGED vars
  BY <1>2, Still DEF vars, mailbox
<1>3. CASE Controller
  BY <1>1, <1>3, PollBeginsCount, AdmitCount, PublishCount, PublishRaisesCount,
     OutputCount, OutputRetiresCount, TakeCount, FinishCount DEF Controller
<1>4. QED
  BY <1>2, <1>3, CallersCount, WorkerCount, BranchesCount DEF Next

(* Whatever is prepared, published, refused, failing or retiring meanwhile, and   *)
(* for any number of outputs: an output's encoding group is registered as long    *)
(* as the output is, its count is the number of its outputs, and a group that     *)
(* drains has none.                                                             *)
THEOREM GroupsCorrect == Spec => []GroupsCounted
<1>1. CountInv => GroupsCounted
  BY DEF CountInv
<1>2. QED
  BY <1>1, CountInit, CountStep, PTL DEF Spec

-----------------------------------------------------------------------------
(* The callers' list.                                                      *)

(* The change the controller is busy with is the candidate being prepared and    *)
(* the output whose terminal state waits: there is one at a time, the mailbox     *)
(* is empty meanwhile, and a candidate that was given up has left an output or    *)
(* a terminal state behind.                                                     *)
OneChange ==
    /\ prep.id # 0 => changing = prep.id
    /\ terminal.id # 0 => changing = terminal.id /\ terminal.id \notin Outputs
    /\ changing # 0 /\ pc # "finished" => inProgress
    /\ inProgress => pending.id = 0
    /\ prep.stage \in Active => terminal.id = 0
    /\ prep.id # 0 /\ prep.stage \notin Active => prep.id \in Outputs \cup {terminal.id}
    /\ pc = "prepare" => prep.stage \in {"Planned", "Constructed"}
    /\ pc = "finished" => finishing
    /\ finishing => ~enabled

TerminalShape ==
    terminal = [id |-> terminal.id, failed |-> terminal.failed, group |-> terminal.group]

OwnInv == TerminalShape /\ OneChange /\ ListedIsOwned

(* A session starts with its first output listed and owned.                    *)
LEMMA OwnInit == Init => OwnInv
<1> SUFFICES ASSUME Init PROVE OwnInv
  OBVIOUS
<1>1. Outputs = {1}
  BY DEF Init, Outputs, NoOutput
<1>2. prep.id = 0 /\ prep.stage = "none" /\ terminal.id = 0 /\ ~pending.add /\ pending.id = 0
  BY DEF Init, NoPreparation, NoTerminal, NoChange
<1>3. TerminalShape
  BY DEF Init, TerminalShape, NoTerminal
<1>4. OneChange
  BY <1>2 DEF Init, OneChange, Active
<1>5. ListedIsOwned
  BY <1>1, <1>2 DEF Init, ListedIsOwned, Owned
<1>6. QED
  BY <1>3, <1>4, <1>5 DEF OwnInv

(* A step of the branches, the worker or poll() that changes nobody's owner.     *)
LEMMA OwnPlain ==
    ASSUME OwnInv, SameOutputs,
           UNCHANGED <<terminal, changing, inProgress, pending, listed, finishing, enabled>>,
           prep'.id = prep.id, prep'.stage \in Active <=> prep.stage \in Active,
           pc' = "prepare" => prep'.stage \in {"Planned", "Constructed"},
           pc' = "finished" <=> pc = "finished"
    PROVE  OwnInv'
<1>1. Outputs' = Outputs
  BY SameMembers
<1>2. OneChange'
  BY <1>1 DEF OwnInv, OneChange
<1>3. ListedIsOwned'
  BY <1>1 DEF OwnInv, ListedIsOwned, Owned
<1>4. QED
  BY <1>2, <1>3 DEF OwnInv, TerminalShape

(* An output is listed as soon as a caller adds it.                            *)
LEMMA CallersOwn == CountInv /\ OwnInv /\ Callers => OwnInv'
<1> SUFFICES ASSUME CountInv, OwnInv, Callers PROVE OwnInv'
  OBVIOUS
<1>1. /\ MailboxFree /\ UNCHANGED <<enabled, inProgress, out, prep, changing, terminal,
                                    finishing, pc>>
      /\ \/ /\ pending'.id = nextId /\ pending'.add /\ listed' = listed \cup {nextId}
            /\ nextId \in Ids
         \/ ~pending'.add /\ listed' = listed
  <2>1. CASE AddOutput
    <3>1. nextId \in Ids
      BY <2>1 DEF AddOutput, CountInv, Typed, NewIsAbsent, PreparationRecord
    <3>2. QED
      BY <2>1, <3>1 DEF AddOutput
  <2>2. ASSUME NEW o \in Ids, RemoveOutput(o)
        PROVE  /\ MailboxFree /\ ~pending'.add
               /\ UNCHANGED <<enabled, inProgress, out, prep, changing, terminal,
                              finishing, pc, listed>>
    BY <2>2 DEF RemoveOutput
  <2>3. QED
    BY <2>1, <2>2 DEF Callers
<1>2. prep.id = 0 /\ terminal.id = 0 /\ ~pending.add
  BY <1>1 DEF MailboxFree, OwnInv, OneChange, CountInv, NewIsAbsent
<1>3. Outputs' = Outputs
  BY <1>1 DEF Outputs
<1>4. OneChange'
  BY <1>1, <1>2, <1>3 DEF MailboxFree, OwnInv, OneChange
<1>5. ListedIsOwned'
  BY <1>1, <1>2, <1>3 DEF OwnInv, ListedIsOwned, Owned
<1>6. QED
  BY <1>1, <1>4, <1>5 DEF OwnInv, TerminalShape

(* The branches and the worker list nothing and own nothing themselves.        *)
LEMMA BackgroundOwn ==
    ASSUME CountInv, OwnInv,
           \/ WorkerStep
           \/ \E o \in Ids : BranchFails(o) \/ OutputExits(o) \/ GroupExits(o)
    PROVE  OwnInv'
<1>1. SameOutputs /\ UNCHANGED <<mailbox, changing, terminal, finishing, pc>>
  BY DEF WorkerStep, BranchFails, OutputExits, GroupExits, BranchesOnly, SameOutputs
<1>2. prep'.id = prep.id /\ (prep'.stage \in Active <=> prep.stage \in Active)
  BY DEF WorkerStep, BranchFails, OutputExits, GroupExits, BranchesOnly, CountInv, Typed,
         PreparationRecord, Active
<1>3. pc = "prepare" => prep'.stage \in {"Planned", "Constructed"}
  BY DEF WorkerStep, BranchFails, OutputExits, GroupExits, BranchesOnly, OwnInv, OneChange
<1>4. QED
  BY <1>1, <1>2, <1>3, OwnPlain, Zenon DEF mailbox, OwnInv, OneChange

(* poll() begins: the owners are the same.                                     *)
LEMMA PollBeginsOwn == CountInv /\ OwnInv /\ PollBegins => OwnInv'
<1> SUFFICES ASSUME CountInv, OwnInv, PollBegins PROVE OwnInv'
  OBVIOUS
<1>1. SameOutputs
  <2>1. CASE UNCHANGED <<prep, out, seen>>
    BY <2>1 DEF SameOutputs
  <2>2. CASE out' = [out EXCEPT ![prep.id].late = @ \/ out[prep.id].on]
    <3>1. \E b \in BOOLEAN : out' = [out EXCEPT ![prep.id].late = b]
      BY <2>2, Zenon
    <3>2. QED
      BY <3>1, LateKept, Zenon DEF CountInv
  <2>3. QED
    BY <2>1, <2>2 DEF PollBegins
<1>2. prep'.id = prep.id /\ prep'.stage = prep.stage
  BY DEF PollBegins, CountInv, Typed, PreparationRecord
<1>3. UNCHANGED <<mailbox, changing, terminal, finishing>> /\ pc = "idle"
      /\ pc' = IF prep.stage \in {"Planned", "Constructed"} THEN "prepare" ELSE "groups"
  BY DEF PollBegins
<1>4. QED
  BY <1>1, <1>2, <1>3, OwnPlain DEF mailbox

(* The candidate is handed from the worker to the outputs, or to a terminal state. *)
LEMMA PrepareOwn ==
    ASSUME CountInv, OwnInv,
           Admit \/ Refuse \/ Publish \/ PublishUnsubscribed \/ PublishRaises
    PROVE  OwnInv'
<1>1. UNCHANGED <<mailbox, changing, finishing>> /\ pc' = "groups" /\ pc = "prepare"
  BY Zenon DEF Admit, Refuse, Publish, PublishUnsubscribed, PublishRaises
<1>2. /\ prep.stage \in {"Planned", "Constructed"} /\ prep.stage \in Active
      /\ terminal.id = 0 /\ prep.id \in Ids /\ prep.id \notin Outputs /\ prep.id # 0
  <2>1. prep.stage \in {"Planned", "Constructed"}
    BY <1>1 DEF OwnInv, OneChange
  <2>2. prep.stage \in Active /\ terminal.id = 0
    BY <2>1 DEF OwnInv, OneChange, Active
  <2>3. prep.id \in Ids /\ ~out[prep.id].on
    BY <2>2 DEF CountInv, NewIsAbsent, Absent
  <2>4. QED
    BY <2>1, <2>2, <2>3 DEF Outputs
<1>3. CASE Admit
  <2>1. SameOutputs /\ terminal' = terminal /\ prep'.id = prep.id /\ prep'.stage \in Active
    BY <1>3 DEF Admit, SameOutputs, CountInv, Typed, PreparationRecord, Active
  <2>2. QED
    BY <1>2, <1>1, <2>1, OwnPlain DEF mailbox
<1>4. CASE Refuse \/ PublishRaises
  <2>1. Outputs' = Outputs /\ Release
    BY <1>4, Zenon DEF Refuse, PublishRaises, RejectCandidate, Outputs
  <2>2. prep'.id = prep.id /\ prep'.stage \notin Active
    BY <2>1, ReleaseTyped DEF CountInv
  <2>3. terminal'.id = prep.id /\ TerminalShape'
    BY <1>4 DEF Refuse, PublishRaises, RejectCandidate, TerminalShape
  <2>4. OneChange'
    BY <1>2, <1>1, <2>1, <2>2, <2>3 DEF mailbox, OwnInv, OneChange
  <2>5. ListedIsOwned'
    BY <1>2, <1>1, <2>1, <2>2, <2>3 DEF mailbox, OwnInv, ListedIsOwned, Owned
  <2>6. QED
    BY <2>3, <2>4, <2>5 DEF OwnInv
<1>5. CASE Publish \/ PublishUnsubscribed
  <2>1. PICK e : out' = [out EXCEPT ![prep.id] = e] /\ e.on
    <3>1. [on |-> TRUE, group |-> prep.group, snap |-> "WaitingForRandomAccess",
           late |-> FALSE].on
      OBVIOUS
    <3>2. QED
      BY <1>5, <3>1, Zenon DEF Publish, PublishUnsubscribed, Register
  <2>2. Outputs' = Outputs \cup {prep.id}
    BY <1>2, <2>1 DEF Outputs, CountInv, Typed
  <2>3. prep'.id = prep.id /\ prep'.stage \notin Active /\ terminal' = terminal
    BY <1>5, ReleaseTyped, Zenon DEF CountInv, Publish, PublishUnsubscribed
  <2>4. OneChange'
    BY <1>2, <1>1, <2>2, <2>3 DEF mailbox, OwnInv, OneChange
  <2>5. ListedIsOwned'
    BY <1>2, <1>1, <2>2, <2>3 DEF mailbox, OwnInv, ListedIsOwned, Owned
  <2>6. QED
    BY <2>3, <2>4, <2>5 DEF OwnInv, TerminalShape
<1>6. QED
  BY <1>3, <1>4, <1>5

(* publishPendingTerminal(): the terminal state leaves the list together with     *)
(* the last that is owned for it, or waits.                                     *)
LEMMA PollGroupsOwn ==
    ASSUME CountInv, OwnInv, PollGroups, pc # "finished",
           UNCHANGED <<out, pending, enabled, finishing>>,
           pc' \in {"outputs", "take"}
    PROVE  OwnInv'
<1>1. PICK f, told : PublishPendingTerminal([terminal EXCEPT !.failed = f], told)
  BY Zenon DEF PollGroups
<1> DEFINE t == [id |-> terminal.id, failed |-> f, group |-> terminal.group]
<1>2. [terminal EXCEPT !.failed = f] = t /\ t.id = terminal.id
  BY DEF OwnInv, TerminalShape
<1>3. Outputs' = Outputs
  BY DEF Outputs
<1>4. \/ prep' = NoPreparation /\ prep.stage = "Complete"
      \/ prep'.id = prep.id /\ prep'.stage = prep.stage
  <2>1. \/ prep' = NoPreparation /\ prep.stage = "Complete"
        \/ \E b \in BOOLEAN : prep' = Outdated(b)
    BY Zenon DEF PollGroups
  <2>2. QED
    BY <2>1, OutdatedTyped DEF CountInv
<1>5. /\ prep'.id \in {0, prep.id}
      /\ prep'.stage \in Active => prep.stage \in Active
      /\ prep'.id # 0 => prep'.stage = prep.stage
      /\ prep'.id # prep.id => prep.stage \notin Active
  BY <1>4 DEF NoPreparation, Active
<1> HIDE DEF t
<1>6. CASE TerminalReady(t)
  <2>1. /\ terminal' = NoTerminal /\ ~inProgress'
        /\ changing' = (IF changing = t.id THEN 0 ELSE changing)
        /\ listed' = listed \ {t.id} /\ t.id # 0 /\ prep'.id = 0
    BY <1>1, <1>2, <1>6, Zenon DEF PublishPendingTerminal, TerminalReady
  <2>2. /\ terminal'.id = 0 /\ TerminalShape' /\ changing' = 0
        /\ terminal.id \notin Outputs /\ prep.stage \notin Active /\ ~pending.add
    BY <1>2, <2>1 DEF NoTerminal, TerminalShape, OwnInv, OneChange, CountInv, NewIsAbsent
  <2>3. prep'.stage \notin Active
    BY <1>5, <2>2
  <2>4. OneChange'
    BY <1>3, <2>1, <2>2, <2>3 DEF OwnInv, OneChange
  <2>5. prep.id # 0 => prep.id = terminal.id
    BY <1>2, <2>1 DEF OwnInv, OneChange
  <2>6. ListedIsOwned'
    BY <1>2, <1>3, <2>1, <2>2, <2>5 DEF OwnInv, ListedIsOwned, Owned
  <2>7. QED
    BY <2>2, <2>4, <2>6 DEF OwnInv
<1>7. CASE ~TerminalReady(t)
  <2>1. terminal' = t /\ UNCHANGED <<inProgress, changing, listed>>
    BY <1>1, <1>2, <1>7 DEF PublishPendingTerminal
  <2>2. terminal'.id = terminal.id /\ TerminalShape'
    BY <2>1 DEF t, TerminalShape
  <2>3. OneChange'
    BY <1>3, <1>5, <2>1, <2>2 DEF OwnInv, OneChange
  <2>4. prep'.id = prep.id \/ prep.id \in Outputs \cup {terminal.id}
    BY <1>5 DEF OwnInv, OneChange
  <2>5. ListedIsOwned'
    BY <1>3, <1>5, <2>1, <2>2, <2>4 DEF OwnInv, ListedIsOwned, Owned
  <2>6. QED
    BY <2>2, <2>3, <2>5 DEF OwnInv
<1>8. QED
  BY <1>6, <1>7

(* An output that is polled and stays is owned as before.                      *)
LEMMA OutputOwn ==
    ASSUME CountInv, OwnInv, NEW o \in Ids,
           OutputReady(o) \/ OutputTimesOut(o) \/ OutputPolled(o)
    PROVE  OwnInv'
<1>1. SameOutputs
  <2>1. out' = out \/ \E x, s : s \in Snaps /\ out' = [out EXCEPT ![x].snap = s]
    BY DEF OutputReady, OutputTimesOut, OutputPolled, Snaps
  <2>2. QED
    BY <2>1, SnapKept, Zenon DEF CountInv, SameOutputs
<1>2. Outputs' = Outputs
  BY <1>1, SameMembers
<1>3. CASE OutputTimesOut(o) \/ OutputPolled(o)
  BY <1>1, <1>3, OwnPlain, Zenon
     DEF OutputTimesOut, OutputPolled, mailbox, OwnInv, OneChange
<1>4. CASE OutputReady(o)
  <2>1. /\ UNCHANGED <<enabled, pending, listed, prep, terminal, finishing, pc>>
        /\ inProgress' = (inProgress /\ changing # o) /\ prep.id = 0
        /\ changing' = (IF changing = o THEN 0 ELSE changing) /\ o \in Outputs
        /\ pc = "outputs"
    BY <1>4 DEF OutputReady, AtOutput, Outputs
  <2>2. OneChange'
    BY <1>2, <2>1, Zenon DEF OwnInv, OneChange
  <2>3. ListedIsOwned'
    BY <1>2, <2>1 DEF OwnInv, ListedIsOwned, Owned
  <2>4. QED
    BY <2>1, <2>2, <2>3 DEF OwnInv, TerminalShape
<1>5. QED
  BY <1>3, <1>4

(* An output that retires leaves the list, or its terminal state waits.        *)
LEMMA OutputRetiresOwn ==
    ASSUME CountInv, OwnInv, NEW o \in Ids, OutputRetires(o)
    PROVE  OwnInv'
<1>1. o \in Outputs /\ pc = "outputs" /\ UNCHANGED <<enabled, pending, finishing, pc>>
  BY Zenon DEF OutputRetires, AtOutput, Outputs
<1>2. Outputs' = Outputs \ {o}
  <2>1. out' = [out EXCEPT ![o] = NoOutput] /\ ~NoOutput.on
    BY DEF OutputRetires, NoOutput
  <2>2. QED
    BY <2>1 DEF Outputs, CountInv, Typed
<1>3. prep'.id = prep.id /\ prep'.stage = prep.stage
  BY OutdatedTyped, Zenon DEF OutputRetires, CountInv
<1>4. /\ terminal.id = 0 \/ (changing # o /\ terminal.id # o)
      /\ prep.id = o => changing = o /\ prep.stage \notin Active
      /\ pending.add => pending.id # o
      /\ o # 0
  BY <1>1 DEF OwnInv, OneChange, CountInv, NewIsAbsent, Absent, Outputs
<1>5. PICK held \in BOOLEAN :
         /\ prep.id = o => held
         /\ inProgress' = (inProgress /\ ~Completes(o, held))
         /\ changing' = IF Completes(o, held) THEN 0 ELSE changing
         /\ \/ /\ changing = o /\ held /\ terminal'.id = o /\ TerminalShape'
               /\ listed' = listed
            \/ /\ ~(changing = o /\ held)
               /\ listed' = listed \ {o} /\ terminal' = terminal
  <2> DEFINE h == (grp[out[o].group].on /\ grp[out[o].group].count = 1) \/ prep.id = o
  <2>1. /\ inProgress' = (inProgress /\ ~Completes(o, h))
        /\ changing' = IF Completes(o, h) THEN 0 ELSE changing
        /\ prep.id = o => h
    BY Zenon DEF OutputRetires
  <2>2. CASE changing = o /\ h
    <3>1. listed' = listed /\ \E f, g : terminal' = [id |-> o, failed |-> f, group |-> g]
      BY <2>2, Zenon DEF OutputRetires
    <3>2. terminal'.id = o /\ TerminalShape'
      BY <3>1 DEF TerminalShape
    <3>3. QED
      BY <2>1, <2>2, <3>1, <3>2, Zenon
  <2>3. CASE ~(changing = o /\ h)
    <3>1. listed' = listed \ {o} /\ terminal' = terminal
      BY <2>3, Zenon DEF OutputRetires
    <3>2. QED
      BY <2>1, <2>3, <3>1, Zenon
  <2>4. QED
    BY <2>2, <2>3
<1>6. OneChange'
  <2>1. CASE changing = o /\ held
    <3>1. (inProgress' <=> inProgress) /\ changing' = changing /\ terminal'.id = o
      BY <1>5, <2>1, Zenon DEF Completes
    <3>2. prep.stage \notin Active
      <4>1. ASSUME prep.stage \in Active PROVE FALSE
        <5>1. prep.id = o /\ ~out[prep.id].on
          BY <2>1, <4>1 DEF OwnInv, OneChange, CountInv, NewIsAbsent, Absent
        <5>2. QED
          BY <1>1, <5>1 DEF Outputs
      <4>2. QED
        BY <4>1
    <3>3. QED
      BY <1>1, <1>2, <1>3, <1>4, <2>1, <3>1, <3>2 DEF OwnInv, OneChange
  <2>2. CASE changing = o /\ ~held
    <3>1. ~inProgress' /\ changing' = 0 /\ terminal' = terminal
      BY <1>5, <2>2 DEF Completes
    <3>2. prep.id = 0 /\ terminal.id = 0
      BY <1>4, <1>5, <2>2 DEF OwnInv, OneChange
    <3>3. QED
      BY <1>1, <1>2, <1>3, <3>1, <3>2 DEF OwnInv, OneChange
  <2>3. CASE changing # o
    <3>1. (inProgress' <=> inProgress) /\ UNCHANGED <<changing, terminal>>
      BY <1>5, <2>3, Zenon DEF Completes
    <3>2. QED
      BY <1>1, <1>2, <1>3, <1>4, <2>3, <3>1 DEF OwnInv, OneChange
  <2>4. QED
    BY <2>1, <2>2, <2>3
<1>7. ListedIsOwned'
  BY <1>1, <1>2, <1>3, <1>4, <1>5, Zenon DEF OwnInv, ListedIsOwned, Owned
<1>8. QED
  BY <1>5, <1>6, <1>7 DEF OwnInv, TerminalShape

(* A change that is taken moves from the mailbox to the controller, or is answered. *)
LEMMA TakeOwn ==
    ASSUME CountInv, OwnInv,
           NothingToTake \/ TakeRefused \/ BeginPreparation \/ TakeRemoval
    PROVE  OwnInv'
<1>1. pc = "take" /\ pc' = "idle" /\ UNCHANGED <<enabled, terminal, finishing>>
  BY DEF NothingToTake, TakeRefused, BeginPreparation, TakeRemoval, Takes, mailbox
<1>2. CASE NothingToTake
  BY <1>1, <1>2, OwnPlain DEF NothingToTake, mailbox, SameOutputs
<1>3. ~NoChange.add /\ NoChange.id = 0
  BY DEF NoChange
<1>4. CASE TakeRefused
  <2>1. /\ prep.id = 0 /\ terminal.id = 0 /\ UNCHANGED <<out, prep>> /\ pending' = NoChange
        /\ listed' = listed \ {pending.id} /\ ~inProgress' /\ changing' = 0
        /\ pending.add \/ pending.id \notin Outputs
    BY <1>4 DEF TakeRefused, RejectChange, Takes, MayTake
  <2>2. Outputs' = Outputs /\ pending.id \notin Outputs
    BY <2>1 DEF Outputs, CountInv, NewIsAbsent, Absent
  <2>3. OneChange'
    BY <1>1, <1>3, <2>1, <2>2 DEF OwnInv, OneChange
  <2>4. ListedIsOwned'
    BY <1>1, <1>3, <2>1, <2>2 DEF OwnInv, ListedIsOwned, Owned
  <2>5. QED
    BY <1>1, <2>3, <2>4 DEF OwnInv, TerminalShape
<1>5. CASE BeginPreparation
  <2>1. /\ prep.id = 0 /\ terminal.id = 0 /\ out' = out /\ pending' = NoChange
        /\ listed' = listed /\ inProgress' /\ changing' = pending.id /\ pending.add
        /\ prep'.id = pending.id /\ prep'.stage = "Planning"
    BY <1>5 DEF BeginPreparation, Takes, MayTake
  <2>2. Outputs' = Outputs
    BY <2>1 DEF Outputs
  <2>3. OneChange'
    BY <1>1, <1>3, <2>1, <2>2 DEF OwnInv, OneChange, Active
  <2>4. ListedIsOwned'
    BY <1>1, <1>3, <2>1, <2>2 DEF OwnInv, ListedIsOwned, Owned
  <2>5. QED
    BY <1>1, <2>3, <2>4 DEF OwnInv, TerminalShape
<1>6. CASE TakeRemoval
  <2>1. /\ prep.id = 0 /\ terminal.id = 0 /\ prep' = prep /\ pending' = NoChange
        /\ listed' = listed /\ inProgress' /\ ~pending.add
        /\ pending.id \in Outputs
    BY <1>6 DEF TakeRemoval, Takes, MayTake
  <2>2. Outputs' = Outputs
    <3>1. out[pending.id].snap \in Snaps
      BY <2>1 DEF CountInv, Typed, OutputRecord, Outputs
    <3>2. \E s \in Snaps : out' = [out EXCEPT ![pending.id].snap = s]
      BY <1>6, <3>1, Zenon DEF TakeRemoval, Snaps
    <3>3. QED
      BY <3>2, SnapKept, SameMembers, Zenon DEF CountInv
  <2>3. OneChange'
    BY <1>1, <1>3, <2>1, <2>2 DEF OwnInv, OneChange
  <2>4. ListedIsOwned'
    BY <1>1, <1>3, <2>1, <2>2 DEF OwnInv, ListedIsOwned, Owned
  <2>5. QED
    BY <1>1, <2>3, <2>4 DEF OwnInv, TerminalShape
<1>7. QED
  BY <1>2, <1>4, <1>5, <1>6

(* finish() takes the addition it refuses from the list.                       *)
LEMMA FinishOwn == CountInv /\ OwnInv /\ (BeginFinish \/ FinishReturns) => OwnInv'
<1> SUFFICES ASSUME CountInv, OwnInv, BeginFinish \/ FinishReturns PROVE OwnInv'
  OBVIOUS
<1>1. CASE FinishReturns
  <2>1. /\ UNCHANGED <<enabled, pending, listed, out, prep, changing, terminal, finishing>>
        /\ pc' = "finished" /\ ~inProgress' /\ finishing
    BY <1>1 DEF FinishReturns
  <2>2. Outputs' = Outputs
    BY <2>1 DEF Outputs
  <2>3. OneChange' /\ ListedIsOwned'
    BY <2>1, <2>2 DEF OwnInv, OneChange, ListedIsOwned, Owned
  <2>4. QED
    BY <2>1, <2>3 DEF OwnInv, TerminalShape
<1>2. CASE BeginFinish
  <2>1. /\ pc = "idle" /\ finishing' /\ ~enabled' /\ pending' = NoChange
        /\ listed' = listed \ (IF inProgress THEN {} ELSE {pending.id} \cap Ids)
        /\ UNCHANGED <<inProgress, prep, changing, terminal, pc>>
    BY <1>2 DEF BeginFinish
  <2>2. Outputs' = Outputs
    <3>1. PICK D : out' = [o \in Ids |-> IF o \in D
                                         THEN [out[o] EXCEPT !.snap = "Draining"]
                                         ELSE out[o]]
      BY <1>2, Zenon DEF BeginFinish
    <3>2. \A o \in Ids : out'[o].on = out[o].on
      BY <3>1 DEF CountInv, Typed, OutputRecord
    <3>3. QED
      BY <3>2 DEF Outputs
  <2>3. ~NoChange.add /\ NoChange.id = 0
    BY DEF NoChange
  <2>4. OneChange'
    BY <2>1, <2>2, <2>3 DEF OwnInv, OneChange
  <2>5. pending.add => pending.id \in Ids /\ ~inProgress
    BY DEF CountInv, NewIsAbsent, OwnInv, OneChange
  <2>6. ListedIsOwned'
    BY <2>1, <2>2, <2>3, <2>5 DEF OwnInv, ListedIsOwned, Owned
  <2>7. QED
    BY <2>1, <2>4, <2>6 DEF OwnInv, TerminalShape
<1>3. QED
  BY <1>1, <1>2

(* Every step keeps the list equal to what is owned.                           *)
LEMMA OwnStep == CountInv /\ OwnInv /\ [Next]_vars => OwnInv'
<1> SUFFICES ASSUME CountInv, OwnInv, [Next]_vars PROVE OwnInv'
  OBVIOUS
<1>1. CASE FirstGroups \/ LastGroups
  BY <1>1, PollGroupsOwn DEF FirstGroups, LastGroups
<1>2. CASE UNCHANGED vars
  BY <1>2, OwnPlain, Zenon DEF vars, mailbox, SameOutputs, OwnInv, OneChange
<1>3. CASE Controller
  BY <1>1, <1>3, PollBeginsOwn, PrepareOwn, OutputOwn, OutputRetiresOwn, TakeOwn,
     FinishOwn DEF Controller
<1>4. QED
  BY <1>2, <1>3, CallersOwn, BackgroundOwn DEF Next

(* For any number of outputs, the snapshots a caller can list are exactly what    *)
(* the controller still owns for it, until finish() begins: completeOutput() is   *)
(* called neither while a branch, a group or the worker holds a resource nor too   *)
(* late.                                                                        *)
THEOREM ListedCorrect == Spec => []ListedIsOwned
<1>1. OwnInv => ListedIsOwned
  BY DEF OwnInv
<1>2. QED
  BY <1>1, CountInit, CountStep, OwnInit, OwnStep, PTL DEF Spec

-----------------------------------------------------------------------------
(* What the observer is told.                                              *)

Observed == {"none", "Preparing", "WaitingForRandomAccess", "Running", "Draining",
             "Failed", "Retired"}

(* Ids that are listed, wait in the mailbox or as a terminal state were given    *)
(* out, and nothing was ever told of one that was not or is still to be taken.    *)
Numbered == \A o \in listed \cup {pending.id, terminal.id} : o \in Nat /\ o < nextId
Unseen == /\ \A o \in Ids : o >= nextId => seen[o] = "none"
          /\ pending.add => seen[pending.id] = "none"

(* A candidate was reported as preparing, and as failed once it is late.         *)
Candidate ==
    prep.stage \in Active =>
       seen[prep.id] = IF prep.expired THEN "Failed" ELSE "Preparing"

(* An output that was reported failed while it waits is late for good.           *)
Overdue ==
    \A o \in Outputs :
       seen[o] = "Failed" /\ out[o].snap = "WaitingForRandomAccess" => out[o].late

SeenInv == seen \in [Ids -> Observed] /\ Numbered /\ Unseen /\ Candidate /\ Overdue

(* What NeverRevived says of a step.                                             *)
NotRevived ==
    \A o \in Ids :
       seen[o] = "Failed" \/ (seen[o] = "Retired" /\ o \notin Outputs) =>
          seen'[o] \notin {"Preparing", "WaitingForRandomAccess", "Running"}

(* Nothing was told but of the first output.                                   *)
LEMMA SeenInit == Init => SeenInv
<1> SUFFICES ASSUME Init PROVE SeenInv
  OBVIOUS
<1>1. /\ prep.stage = "none" /\ terminal.id = 0 /\ ~pending.add /\ pending.id = 0
      /\ nextId = 2 /\ listed = {1}
  BY Zenon DEF Init, NoPreparation, NoTerminal, NoChange
<1>2. /\ seen \in [Ids -> Observed]
      /\ \A o \in Ids : seen[o] = IF o = 1 THEN "WaitingForRandomAccess" ELSE "none"
  BY Zenon DEF Init, Observed
<1>3. Numbered
  BY <1>1 DEF Numbered
<1>4. Unseen
  BY <1>1, <1>2 DEF Unseen
<1>5. Candidate
  BY <1>1 DEF Candidate, Active
<1>6. Overdue
  BY <1>2 DEF Overdue, Outputs
<1>7. QED
  BY <1>2, <1>3, <1>4, <1>5, <1>6 DEF SeenInv

(* A step that tells something only of ids in D, none of them new, and gives      *)
(* out no id.                                                                  *)
LEMMA ToldOf ==
    ASSUME CountInv, SeenInv, NEW D \in SUBSET Ids,
           nextId' = nextId, listed' \subseteq listed,
           pending' \in {pending, NoChange},
           terminal'.id \in {0, terminal.id} \cup D,
           seen' \in [Ids -> Observed],
           \A o \in Ids \ D : seen'[o] = seen[o],
           \A o \in D : o < nextId,
           pending'.add => pending.id \notin D
    PROVE  Numbered' /\ Unseen'
<1>1. NoChange.id = 0 /\ ~NoChange.add /\ nextId \in Nat /\ 0 < nextId
  BY DEF NoChange, CountInv, Typed, NewIsAbsent, PreparationRecord
<1>2. \A o \in listed \cup {pending.id, terminal.id} : o \in Nat /\ o < nextId
  BY DEF SeenInv, Numbered
<1>3. Numbered'
  <2>1. \A o \in D : o \in Nat /\ o < nextId
    OBVIOUS
  <2>2. pending'.id \in {0, pending.id}
    BY <1>1
  <2>3. \A o \in (listed' \cup {pending'.id, terminal'.id}) :
           o \in listed \cup {pending.id, terminal.id} \cup D \cup {0}
    BY <2>2
  <2>4. \A o \in listed \cup {pending.id, terminal.id} \cup D \cup {0} :
           o \in Nat /\ o < nextId
    <3>1. 0 \in Nat
      OBVIOUS
    <3>2. QED
      BY <1>1, <1>2, <2>1, <3>1, Zenon
  <2>5. \A o \in (listed' \cup {pending'.id, terminal'.id}) : o \in Nat /\ o < nextId'
    BY <2>3, <2>4
  <2>6. QED
    BY <2>5, Zenon DEF Numbered
<1>4. \A o \in Ids : o >= nextId => o \notin D
  <2>1. \A o \in D : ~(o >= nextId)
    BY <1>1
  <2>2. QED
    BY <2>1
<1>5. \A o \in Ids : o >= nextId' => seen'[o] = "none"
  BY <1>4 DEF SeenInv, Unseen
<1>6. ASSUME pending'.add PROVE seen'[pending'.id] = "none"
  <2>1. pending' = pending /\ pending.add /\ pending.id \notin D /\ pending.id \in Ids
    BY <1>1, <1>6 DEF CountInv, NewIsAbsent
  <2>2. QED
    BY <2>1 DEF SeenInv, Unseen
<1>7. QED
  BY <1>3, <1>5, <1>6 DEF Unseen

(* Steps that tell nothing and change no output, candidate or list.            *)
LEMMA Untold ==
    ASSUME CountInv, SeenInv, seen' = seen, out' = out, nextId' = nextId,
           listed' \subseteq listed, pending' \in {pending, NoChange},
           terminal' = terminal,
           prep'.stage \in Active =>
              /\ prep.stage \in Active /\ prep'.id = prep.id
              /\ prep'.expired = prep.expired
    PROVE  SeenInv' /\ NotRevived
<1>1. Numbered' /\ Unseen' /\ seen' \in [Ids -> Observed]
  <2>1. {} \in SUBSET Ids /\ seen' \in [Ids -> Observed]
    BY DEF SeenInv
  <2>2. QED
    BY <2>1, ToldOf, Zenon
<1>2. Candidate'
  BY DEF SeenInv, Candidate
<1>3. Overdue'
  BY DEF SeenInv, Overdue, Outputs
<1>4. NotRevived
  BY DEF NotRevived
<1>5. QED
  BY <1>1, <1>2, <1>3, <1>4 DEF SeenInv

(* A caller that adds an output takes a new id.                                *)
LEMMA CallersSeen ==
    ASSUME CountInv, SeenInv, Callers PROVE SeenInv' /\ NotRevived
<1>1. /\ UNCHANGED <<out, prep, seen, terminal>>
      /\ \/ /\ pending' = [id |-> nextId, add |-> TRUE] /\ nextId \in Ids
            /\ listed' = listed \cup {nextId} /\ nextId' = nextId + 1
         \/ \E o \in listed : /\ pending' = [id |-> o, add |-> FALSE]
                              /\ UNCHANGED <<listed, nextId>>
  <2>1. CASE AddOutput
    <3>1. nextId \in Ids
      BY <2>1 DEF AddOutput, CountInv, Typed, NewIsAbsent, PreparationRecord
    <3>2. QED
      BY <2>1, <3>1 DEF AddOutput
  <2>2. ASSUME NEW o \in Ids, RemoveOutput(o)
        PROVE  /\ o \in listed /\ pending' = [id |-> o, add |-> FALSE]
               /\ UNCHANGED <<out, prep, seen, terminal, listed, nextId>>
    BY <2>2 DEF RemoveOutput
  <2>3. QED
    BY <2>1, <2>2 DEF Callers
<1>2. nextId \in Nat
  BY DEF CountInv, Typed
<1>3. \A o \in listed \cup {pending.id, terminal.id} : o \in Nat /\ o < nextId
  BY DEF SeenInv, Numbered
<1>4. Numbered'
  BY <1>1, <1>2, <1>3 DEF Numbered
<1>5. Unseen'
  <2>1. \A o \in Ids : o >= nextId => seen[o] = "none"
    BY DEF SeenInv, Unseen
  <2>2. CASE \E o \in listed : /\ pending' = [id |-> o, add |-> FALSE]
                               /\ UNCHANGED <<listed, nextId>>
    BY <1>1, <2>1, <2>2 DEF Unseen
  <2>3. CASE pending' = [id |-> nextId, add |-> TRUE] /\ nextId \in Ids
             /\ nextId' = nextId + 1
    <3>1. pending'.id = nextId /\ seen'[nextId] = "none"
      BY <1>1, <1>2, <2>1, <2>3
    <3>2. \A o \in Ids : o >= nextId' => o >= nextId
      BY <1>2, <2>3
    <3>3. QED
      BY <1>1, <2>1, <3>1, <3>2 DEF Unseen
  <2>4. QED
    BY <1>1, <2>2, <2>3
<1>6. Candidate' /\ Overdue' /\ NotRevived
  BY <1>1 DEF SeenInv, Candidate, Overdue, Outputs, NotRevived
<1>7. QED
  BY <1>1, <1>4, <1>5, <1>6 DEF SeenInv

(* The branches and the worker tell nothing.                                   *)
LEMMA BackgroundSeen ==
    ASSUME CountInv, SeenInv,
           \/ WorkerStep
           \/ \E o \in Ids : BranchFails(o) \/ OutputExits(o) \/ GroupExits(o)
    PROVE  SeenInv' /\ NotRevived
<1>1. UNCHANGED <<seen, out, nextId, listed, pending, terminal>>
  BY DEF WorkerStep, BranchFails, OutputExits, GroupExits, BranchesOnly, mailbox
<1>2. /\ prep'.id = prep.id
      /\ prep'.stage \in Active => prep.stage \in Active
      /\ prep'.expired = prep.expired
  BY DEF WorkerStep, BranchFails, OutputExits, GroupExits, BranchesOnly, CountInv, Typed,
         PreparationRecord, Active
<1>3. QED
  BY <1>1, <1>2, Untold

(* poll() reports a candidate that is late as failed, and its output is late too. *)
LEMMA PollBeginsSeen ==
    ASSUME CountInv, SeenInv, PollBegins PROVE SeenInv' /\ NotRevived
<1>1. UNCHANGED <<nextId, listed, pending, terminal>>
  BY DEF PollBegins, mailbox
<1>2. CASE UNCHANGED <<prep, out, seen>>
  BY <1>1, <1>2, Untold
<1>3. CASE /\ prep.id # 0 /\ ~prep.expired
           /\ prep' = [prep EXCEPT !.expired = TRUE]
           /\ out' = [out EXCEPT ![prep.id].late = @ \/ out[prep.id].on]
           /\ seen' = [seen EXCEPT ![prep.id] = "Failed"]
  <2>1. /\ prep'.id = prep.id /\ prep'.stage = prep.stage /\ prep'.expired
        /\ prep.id \in Nat /\ prep.id < nextId
    BY <1>3 DEF CountInv, Typed, PreparationRecord, NewIsAbsent
  <2>2. /\ seen' \in [Ids -> Observed]
        /\ \A o \in Ids \ {prep.id} : seen'[o] = seen[o]
        /\ prep.id \in Ids => seen'[prep.id] = "Failed"
    BY <1>3, Zenon DEF SeenInv, Observed
  <2>3. Numbered' /\ Unseen'
    <3>1. {prep.id} \cap Ids \in SUBSET Ids
      OBVIOUS
    <3>2. pending.add => pending.id \notin {prep.id} \cap Ids
      BY DEF CountInv, NewIsAbsent
    <3>3. QED
      BY <1>1, <2>1, <2>2, <3>1, <3>2, ToldOf, Zenon
  <2>4. Candidate'
    BY <2>1, <2>2, Zenon DEF Candidate, CountInv, NewIsAbsent
  <2>5. Overdue'
    <3>1. PICK b \in BOOLEAN : /\ out' = [out EXCEPT ![prep.id].late = b]
                               /\ prep.id \in Ids /\ out[prep.id].on => b
      BY <1>3, Zenon DEF CountInv, Typed, OutputRecord
    <3>2. ASSUME NEW o \in Ids
          PROVE  /\ out'[o].on = out[o].on /\ out'[o].snap = out[o].snap
                 /\ o # prep.id => out'[o].late = out[o].late
                 /\ o = prep.id => (out'[o].late <=> b)
      BY <3>1 DEF CountInv, Typed, OutputRecord
    <3>3. ASSUME NEW o \in Ids, out'[o].on, seen'[o] = "Failed",
                 out'[o].snap = "WaitingForRandomAccess"
          PROVE  out'[o].late
      <4>1. CASE o = prep.id
        BY <3>1, <3>2, <3>3, <4>1
      <4>2. CASE o # prep.id
        BY <2>2, <3>2, <3>3, <4>2 DEF SeenInv, Overdue, Outputs
      <4>3. QED
        BY <4>1, <4>2
    <3>4. QED
      BY <3>3 DEF Overdue, Outputs
  <2>6. NotRevived
    BY <2>2 DEF NotRevived
  <2>7. QED
    BY <2>2, <2>3, <2>4, <2>5, <2>6 DEF SeenInv
<1>4. QED
  BY <1>2, <1>3, Zenon DEF PollBegins

(* The candidate is published as waiting while it is reported preparing, or is    *)
(* reported failed.                                                            *)
LEMMA PrepareSeen ==
    ASSUME CountInv, OwnInv, SeenInv,
           Admit \/ Refuse \/ Publish \/ PublishUnsubscribed \/ PublishRaises
    PROVE  SeenInv' /\ NotRevived
<1>1. UNCHANGED <<nextId, listed, pending>> /\ pc = "prepare"
  BY Zenon DEF Admit, Refuse, Publish, PublishUnsubscribed, PublishRaises, mailbox
<1>2. prep.stage \in Active /\ prep.stage # "none"
  BY <1>1 DEF OwnInv, OneChange, Active
<1>3. /\ prep.id \in Ids /\ ~out[prep.id].on /\ prep.id < nextId
      /\ pending.add => pending.id # prep.id
      /\ seen[prep.id] = IF prep.expired THEN "Failed" ELSE "Preparing"
  BY <1>2 DEF CountInv, NewIsAbsent, Absent, SeenInv, Candidate
<1>4. CASE Admit
  <2>1. /\ UNCHANGED <<out, seen, terminal>>
        /\ prep'.id = prep.id /\ prep'.expired = prep.expired
    BY <1>4 DEF Admit, CountInv, Typed, PreparationRecord
  <2>2. QED
    BY <1>1, <1>2, <2>1, Untold
<1>5. prep' = [prep EXCEPT !.stage = "Releasing", !.stale = FALSE]
      => prep'.stage \notin Active
  BY DEF CountInv, Typed, PreparationRecord, Active
<1>6. ASSUME NEW s \in Observed, seen' = [seen EXCEPT ![prep.id] = s],
             terminal'.id \in {0, terminal.id, prep.id}, prep'.stage \notin Active
      PROVE  /\ seen' \in [Ids -> Observed] /\ Numbered' /\ Unseen' /\ Candidate'
             /\ \A o \in Ids \ {prep.id} : seen'[o] = seen[o]
             /\ seen'[prep.id] = s
  <2>1. /\ seen' \in [Ids -> Observed]
        /\ \A o \in Ids \ {prep.id} : seen'[o] = seen[o]
        /\ seen'[prep.id] = s
    BY <1>3, <1>6 DEF SeenInv
  <2>2. Numbered' /\ Unseen'
    <3>1. {prep.id} \in SUBSET Ids
      BY <1>3
    <3>2. QED
      BY <1>1, <1>3, <1>6, <2>1, <3>1, ToldOf, Zenon
  <2>3. QED
    BY <1>6, <2>1, <2>2 DEF Candidate
<1>7. CASE Refuse \/ PublishRaises
  <2>1. /\ seen' = [seen EXCEPT ![prep.id] = "Failed"] /\ out' = out
        /\ terminal'.id = prep.id /\ prep'.stage \notin Active /\ "Failed" \in Observed
    BY <1>5, <1>7 DEF Refuse, PublishRaises, RejectCandidate, Release, Observed
  <2>2. /\ seen' \in [Ids -> Observed] /\ Numbered' /\ Unseen' /\ Candidate'
        /\ \A o \in Ids \ {prep.id} : seen'[o] = seen[o]
        /\ seen'[prep.id] = "Failed"
    BY <1>6, <2>1, Zenon
  <2>3. Overdue'
    BY <1>3, <2>1, <2>2 DEF SeenInv, Overdue, Outputs
  <2>4. NotRevived
    BY <2>2 DEF NotRevived
  <2>5. QED
    BY <2>2, <2>3, <2>4 DEF SeenInv
<1>8. CASE Publish \/ PublishUnsubscribed
  <2>1. ~prep.expired /\ seen[prep.id] = "Preparing"
    BY <1>3, <1>8, Zenon DEF Publish, PublishUnsubscribed, StillValid
  <2>2. PICK s \in Observed \ {"Failed", "Retired"} :
           seen' = [seen EXCEPT ![prep.id] = s]
    <3>1. CASE Publish
      BY <3>1, Zenon DEF Publish, Observed
    <3>2. CASE PublishUnsubscribed
      <4>1. seen' = [seen EXCEPT ![prep.id] = "Preparing"]
        BY <2>1, <3>2 DEF PublishUnsubscribed, SeenInv
      <4>2. QED
        BY <4>1, Zenon DEF Observed
    <3>3. QED
      BY <1>8, <3>1, <3>2
  <2>3. /\ terminal' = terminal /\ prep'.stage \notin Active
        /\ \A o \in Ids \ {prep.id} : out'[o] = out[o]
    BY <1>5, <1>8, Zenon
       DEF Publish, PublishUnsubscribed, Release, Register, CountInv, Typed
  <2>4. /\ seen' \in [Ids -> Observed] /\ Numbered' /\ Unseen' /\ Candidate'
        /\ \A o \in Ids \ {prep.id} : seen'[o] = seen[o]
        /\ seen'[prep.id] = s
    BY <1>6, <2>2, <2>3, Zenon
  <2>5. Overdue'
    BY <2>2, <2>3, <2>4 DEF SeenInv, Overdue, Outputs
  <2>6. NotRevived
    BY <2>1, <2>4 DEF NotRevived
  <2>7. QED
    BY <2>4, <2>5, <2>6 DEF SeenInv
<1>9. QED
  BY <1>4, <1>7, <1>8

(* publishPendingTerminal() reports an output retired that is registered no more, *)
(* and a late failure of its group as its failure.                             *)
LEMMA PollGroupsSeen ==
    ASSUME CountInv, OwnInv, SeenInv, PollGroups, pc # "finished",
           UNCHANGED <<out, pending, nextId>>
    PROVE  SeenInv' /\ NotRevived
<1>1. PICK f, told :
         /\ PublishPendingTerminal([terminal EXCEPT !.failed = f], told)
         /\ told \in {seen, [seen EXCEPT ![terminal.id] = "Failed"]}
  BY Zenon DEF PollGroups
<1> DEFINE t == [id |-> terminal.id, failed |-> f, group |-> terminal.group]
<1>2. [terminal EXCEPT !.failed = f] = t /\ t.id = terminal.id
  BY DEF OwnInv, TerminalShape
<1> HIDE DEF t
<1>3. /\ terminal'.id \in {0, terminal.id} /\ listed' \subseteq listed
      /\ seen' \in {told, [told EXCEPT ![terminal.id] = "Retired"]}
  BY <1>1, <1>2 DEF PublishPendingTerminal, NoTerminal
<1>4. /\ seen' \in [Ids -> Observed]
      /\ \A o \in Ids \ {terminal.id} : seen'[o] = seen[o]
      /\ \A o \in Ids : seen'[o] \in {seen[o], "Failed", "Retired"}
  <2>1. /\ told \in [Ids -> Observed]
        /\ \A o \in Ids \ {terminal.id} : told[o] = seen[o]
        /\ \A o \in Ids : told[o] \in {seen[o], "Failed"}
    BY <1>1 DEF SeenInv, Observed
  <2>2. QED
    BY <1>3, <2>1 DEF Observed
<1>5. terminal.id # 0 => ~pending.add /\ prep.stage \notin Active
                         /\ terminal.id \notin Outputs
  BY DEF OwnInv, OneChange, CountInv, NewIsAbsent
<1>6. Numbered' /\ Unseen'
  <2>1. {terminal.id} \cap Ids \in SUBSET Ids
    OBVIOUS
  <2>2. \A o \in {terminal.id} \cap Ids : o < nextId /\ o # 0
    BY DEF SeenInv, Numbered
  <2>3. QED
    BY <1>3, <1>4, <1>5, <2>1, <2>2, ToldOf, Zenon
<1>7. Candidate'
  <2>1. prep'.stage \in Active => /\ prep.stage \in Active /\ prep'.id = prep.id
                                  /\ prep'.expired = prep.expired
    <3>1. \/ prep' = NoPreparation
          \/ \E b : prep' = [prep EXCEPT !.stale = b]
      BY Zenon DEF PollGroups, Outdated
    <3>2. QED
      BY <3>1 DEF NoPreparation, Active, CountInv, Typed, PreparationRecord
  <2>2. prep.stage \in Active => prep.id \in Ids /\ prep.id # terminal.id
    BY <1>5 DEF CountInv, NewIsAbsent
  <2>3. QED
    BY <1>4, <2>1, <2>2 DEF SeenInv, Candidate
<1>8. Overdue'
  <2>1. \A o \in Outputs : seen'[o] = seen[o]
    BY <1>4, <1>5 DEF Outputs
  <2>2. QED
    BY <2>1 DEF SeenInv, Overdue, Outputs
<1>9. NotRevived
  BY <1>4 DEF NotRevived
<1>10. QED
  BY <1>4, <1>6, <1>7, <1>8, <1>9 DEF SeenInv

(* An output shows its first picture only while it is not reported failed.      *)
LEMMA OutputSeen ==
    ASSUME CountInv, OwnInv, SeenInv, NEW o \in Ids,
           OutputReady(o) \/ OutputTimesOut(o) \/ OutputPolled(o)
    PROVE  SeenInv' /\ NotRevived
<1>1. /\ UNCHANGED <<nextId, listed, pending, terminal, prep>>
      /\ out[o].on
  BY DEF OutputReady, OutputTimesOut, OutputPolled, mailbox, AtOutput
<1>2. /\ pending.add => pending.id # o
      /\ prep.stage \in Active => prep.id # o
      /\ o < nextId
  BY <1>1 DEF CountInv, NewIsAbsent, Absent, Typed
<1>3. CASE UNCHANGED <<out, seen>>
  BY <1>1, <1>3, Untold
<1>4. ASSUME NEW s \in {"Running", "Failed"}, out' = [out EXCEPT ![o].snap = s],
             seen' \in {seen, [seen EXCEPT ![o] = s]},
             s = "Running" => seen[o] # "Failed"
      PROVE  SeenInv' /\ NotRevived
  <2>1. /\ seen' \in [Ids -> Observed]
        /\ \A x \in Ids \ {o} : seen'[x] = seen[x]
        /\ seen'[o] \in {seen[o], s}
    BY <1>4 DEF SeenInv, Observed
  <2>2. Numbered' /\ Unseen'
    <3>1. {o} \in SUBSET Ids
      OBVIOUS
    <3>2. QED
      BY <1>1, <1>2, <2>1, <3>1, ToldOf, Zenon
  <2>3. Candidate'
    BY <1>1, <1>2, <2>1 DEF SeenInv, Candidate, CountInv, NewIsAbsent
  <2>4. /\ \A x \in Ids \ {o} : out'[x] = out[x]
        /\ out'[o].snap = s
    BY <1>4 DEF CountInv, Typed, OutputRecord
  <2>5. Overdue'
    BY <1>4, <2>1, <2>4 DEF SeenInv, Overdue, Outputs
  <2>6. NotRevived
    BY <1>1, <1>4, <2>1 DEF NotRevived, Outputs
  <2>7. QED
    BY <2>1, <2>2, <2>3, <2>5, <2>6 DEF SeenInv
<1>5. CASE OutputReady(o)
  <2>1. seen[o] # "Failed"
    BY <1>1, <1>5 DEF OutputReady, SeenInv, Overdue, Outputs
  <2>2. QED
    BY <1>4, <1>5, <2>1 DEF OutputReady
<1>6. CASE OutputPolled(o)
  BY <1>3, <1>4, <1>6 DEF OutputPolled
<1>7. QED
  BY <1>3, <1>5, <1>6 DEF OutputTimesOut

(* An output that retires was registered, so it is no candidate.               *)
LEMMA OutputRetiresSeen ==
    ASSUME CountInv, OwnInv, SeenInv, NEW o \in Ids, OutputRetires(o)
    PROVE  SeenInv' /\ NotRevived
<1>1. /\ UNCHANGED <<nextId, pending>> /\ listed' \subseteq listed /\ out[o].on
      /\ out' = [out EXCEPT ![o] = NoOutput]
      /\ terminal'.id \in {terminal.id, o}
      /\ seen' \in {seen, [seen EXCEPT ![o] = "Failed"], [seen EXCEPT ![o] = "Retired"]}
  <2>1. /\ UNCHANGED <<nextId, pending>> /\ listed' \subseteq listed /\ out[o].on
        /\ out' = [out EXCEPT ![o] = NoOutput]
    BY DEF OutputRetires, AtOutput
  <2>2. \/ terminal' = terminal
        \/ \E f, g : terminal' = [id |-> o, failed |-> f, group |-> g]
    BY Zenon DEF OutputRetires
  <2>3. seen' \in {seen, [seen EXCEPT ![o] = "Failed"], [seen EXCEPT ![o] = "Retired"]}
    BY Zenon DEF OutputRetires
  <2>4. QED
    BY <2>1, <2>2, <2>3
<1>2. /\ pending.add => pending.id # o
      /\ prep.stage \in Active => prep.id # o /\ prep.id \in Ids
      /\ o < nextId
  BY <1>1 DEF CountInv, NewIsAbsent, Absent, Typed
<1>3. /\ seen' \in [Ids -> Observed]
      /\ \A x \in Ids \ {o} : seen'[x] = seen[x]
      /\ seen'[o] \in {seen[o], "Failed", "Retired"}
  BY <1>1 DEF SeenInv, Observed
<1>4. Numbered' /\ Unseen'
  <2>1. {o} \in SUBSET Ids
    OBVIOUS
  <2>2. QED
    BY <1>1, <1>2, <1>3, <2>1, ToldOf, Zenon
<1>5. Candidate'
  <2>1. prep'.id = prep.id /\ prep'.stage = prep.stage /\ prep'.expired = prep.expired
    <3>1. \E b : prep' = [prep EXCEPT !.stale = b]
      BY Zenon DEF OutputRetires, Outdated
    <3>2. QED
      BY <3>1 DEF CountInv, Typed, PreparationRecord
  <2>2. QED
    BY <1>2, <1>3, <2>1, Zenon DEF SeenInv, Candidate
<1>6. Overdue'
  <2>1. \A x \in Ids \ {o} : out'[x] = out[x]
    BY <1>1 DEF CountInv, Typed
  <2>2. ~out'[o].on
    BY <1>1 DEF CountInv, Typed, NoOutput
  <2>3. QED
    BY <1>3, <2>1, <2>2, Zenon DEF SeenInv, Overdue, Outputs
<1>7. NotRevived
  BY <1>3 DEF NotRevived
<1>8. QED
  BY <1>3, <1>4, <1>5, <1>6, <1>7 DEF SeenInv

(* A change that is taken: an addition is reported preparing for the first time.  *)
LEMMA TakeSeen ==
    ASSUME CountInv, OwnInv, SeenInv,
           NothingToTake \/ TakeRefused \/ BeginPreparation \/ TakeRemoval
    PROVE  SeenInv' /\ NotRevived
<1>1. UNCHANGED <<nextId, terminal>>
  BY DEF NothingToTake, TakeRefused, BeginPreparation, TakeRemoval, mailbox
<1>2. CASE NothingToTake
  BY <1>2, Untold DEF NothingToTake, mailbox
<1>3. ~NoChange.add /\ NoChange.id = 0
  BY DEF NoChange
<1>4. ASSUME Takes, pending' = NoChange, listed' \subseteq listed,
             NEW s \in Observed, seen' = [seen EXCEPT ![pending.id] = s]
      PROVE  /\ seen' \in [Ids -> Observed] /\ Numbered' /\ Unseen'
             /\ \A o \in Ids \ {pending.id} : seen'[o] = seen[o]
             /\ pending.id \in Ids => seen'[pending.id] = s
  <2>1. /\ seen' \in [Ids -> Observed]
        /\ \A o \in Ids \ {pending.id} : seen'[o] = seen[o]
        /\ pending.id \in Ids => seen'[pending.id] = s
    BY <1>4, Zenon DEF SeenInv
  <2>2. \A o \in {pending.id} \cap Ids : o < nextId
    BY DEF SeenInv, Numbered
  <2>3. {pending.id} \cap Ids \in SUBSET Ids
    OBVIOUS
  <2>4. Numbered' /\ Unseen'
    BY <1>1, <1>3, <1>4, <2>1, <2>2, <2>3, ToldOf, Zenon
  <2>5. QED
    BY <2>1, <2>4
<1>5. CASE TakeRefused
  <2>1. /\ Takes /\ prep.id = 0 /\ UNCHANGED <<out, prep>> /\ pending' = NoChange
        /\ listed' \subseteq listed /\ "Retired" \in Observed
        /\ seen' = [seen EXCEPT ![pending.id] = "Retired"]
        /\ pending.add \/ pending.id \notin Outputs
    BY <1>5 DEF TakeRefused, RejectChange, Takes, MayTake, Observed
  <2>2. /\ seen' \in [Ids -> Observed] /\ Numbered' /\ Unseen'
        /\ \A o \in Ids \ {pending.id} : seen'[o] = seen[o]
        /\ pending.id \in Ids => seen'[pending.id] = "Retired"
    BY <1>4, <2>1, Zenon
  <2>3. Candidate'
    BY <2>1 DEF Candidate, CountInv, NewIsAbsent
  <2>4. Overdue'
    BY <2>1, <2>2, Zenon DEF SeenInv, Overdue, Outputs
  <2>5. NotRevived
    BY <2>2 DEF NotRevived
  <2>6. QED
    BY <2>2, <2>3, <2>4, <2>5 DEF SeenInv
<1>6. CASE BeginPreparation
  <2>1. /\ Takes /\ out' = out /\ pending' = NoChange /\ listed' \subseteq listed
        /\ "Preparing" \in Observed /\ pending.add
        /\ seen' = [seen EXCEPT ![pending.id] = "Preparing"]
        /\ prep'.id = pending.id /\ ~prep'.expired
    <3>1. PICK g : prep' = [id |-> pending.id, group |-> g, stage |-> "Planning",
                            stale |-> FALSE, expired |-> FALSE]
      BY <1>6, Zenon DEF BeginPreparation
    <3>2. prep'.id = pending.id /\ ~prep'.expired
      BY <3>1
    <3>3. QED
      BY <1>6, <3>2, Zenon DEF BeginPreparation, Observed
  <2>2. pending.id \in Ids /\ seen[pending.id] = "none" /\ ~out[pending.id].on
    BY <2>1, Zenon DEF CountInv, NewIsAbsent, Absent, SeenInv, Unseen
  <2>3. /\ seen' \in [Ids -> Observed] /\ Numbered' /\ Unseen'
        /\ \A o \in Ids \ {pending.id} : seen'[o] = seen[o]
        /\ seen'[pending.id] = "Preparing"
    BY <1>4, <2>1, <2>2, Zenon
  <2>4. Candidate'
    BY <2>1, <2>3 DEF Candidate
  <2>5. Overdue'
    BY <2>1, <2>2, <2>3, Zenon DEF SeenInv, Overdue, Outputs
  <2>6. NotRevived
    BY <2>2, <2>3 DEF NotRevived
  <2>7. QED
    BY <2>3, <2>4, <2>5, <2>6 DEF SeenInv
<1>7. CASE TakeRemoval
  <2>1. /\ Takes /\ prep' = prep /\ prep.id = 0 /\ pending' = NoChange
        /\ listed' \subseteq listed /\ pending.id \in Ids
    BY <1>7 DEF TakeRemoval, Takes, MayTake, Outputs
  <2>2. Candidate'
    BY <2>1 DEF Candidate, CountInv, NewIsAbsent
  <2>3. CASE br[pending.id].phase = "Running"
    <3>1. /\ out' = [out EXCEPT ![pending.id].snap = "Draining"]
          /\ seen' = [seen EXCEPT ![pending.id] = "Draining"]
          /\ "Draining" \in Observed
      BY <1>7, <2>3 DEF TakeRemoval, Observed
    <3>2. /\ seen' \in [Ids -> Observed] /\ Numbered' /\ Unseen'
          /\ \A o \in Ids \ {pending.id} : seen'[o] = seen[o]
          /\ seen'[pending.id] = "Draining"
      BY <1>4, <2>1, <3>1, Zenon
    <3>3. \A o \in Ids \ {pending.id} : out'[o] = out[o]
      BY <3>1 DEF CountInv, Typed
    <3>4. Overdue'
      BY <3>2, <3>3 DEF SeenInv, Overdue, Outputs
    <3>5. NotRevived
      BY <3>2 DEF NotRevived
    <3>6. QED
      BY <2>2, <3>2, <3>4, <3>5 DEF SeenInv
  <2>4. CASE br[pending.id].phase # "Running"
    <3>1. seen' = seen
      BY <1>7, <2>4, Zenon DEF TakeRemoval, SeenInv
    <3>2. out' = out
      <4>1. out[pending.id] \in OutputRecord
        BY <2>1 DEF CountInv, Typed
      <4>2. out' = [out EXCEPT ![pending.id].snap = out[pending.id].snap]
        BY <1>7, <2>4 DEF TakeRemoval
      <4>3. [out[pending.id] EXCEPT !.snap = out[pending.id].snap] = out[pending.id]
        BY <4>1 DEF OutputRecord
      <4>4. QED
        BY <4>2, <4>3 DEF CountInv, Typed
    <3>3. QED
      BY <1>1, <2>1, <3>1, <3>2, Untold
  <2>5. QED
    BY <2>3, <2>4
<1>8. QED
  BY <1>2, <1>5, <1>6, <1>7

(* finish() reports the outputs it drains, and refuses what nobody has taken.    *)
LEMMA FinishSeen ==
    ASSUME CountInv, OwnInv, SeenInv, BeginFinish \/ FinishReturns
    PROVE  SeenInv' /\ NotRevived
<1>1. CASE FinishReturns
  BY <1>1, Untold DEF FinishReturns
<1>2. CASE BeginFinish
  <2>1. PICK D \in SUBSET Outputs, R \in SUBSET Ids :
           /\ pc = "idle" /\ pending' = NoChange /\ listed' = listed \ R
           /\ R = (IF inProgress THEN {} ELSE {pending.id} \cap Ids)
           /\ UNCHANGED <<nextId, terminal, prep>>
           /\ out' = [o \in Ids |-> IF o \in D
                                    THEN [out[o] EXCEPT !.snap = "Draining"] ELSE out[o]]
           /\ seen' = [o \in Ids |-> IF o \in D THEN "Draining"
                                     ELSE IF o \in R THEN "Retired" ELSE seen[o]]
    <3> DEFINE refused == IF inProgress THEN {} ELSE {pending.id} \cap Ids
               drained(failure) == {o \in Outputs : ~failure /\ br[o].phase = "Running"}
    <3>1. PICK failure \in BOOLEAN :
           /\ out' = [o \in Ids |-> IF o \in drained(failure)
                                    THEN [out[o] EXCEPT !.snap = "Draining"] ELSE out[o]]
           /\ seen' = [o \in Ids |-> IF o \in drained(failure) THEN "Draining"
                                     ELSE IF o \in refused THEN "Retired" ELSE seen[o]]
      BY <1>2, Zenon DEF BeginFinish
    <3>2. drained(failure) \in SUBSET Outputs /\ refused \in SUBSET Ids
      OBVIOUS
    <3>3. /\ pc = "idle" /\ pending' = NoChange /\ listed' = listed \ refused
          /\ UNCHANGED <<nextId, terminal, prep>>
      BY <1>2 DEF BeginFinish
    <3> HIDE DEF drained
    <3>4. QED
      BY <3>1, <3>2, <3>3, Zenon
  <2>2. /\ D \in SUBSET Ids /\ ~NoChange.add
        /\ \A o \in D \cup R : o < nextId
        /\ prep.stage \in Active => prep.id \in Ids \ (D \cup R)
    <3>1. \A o \in Outputs : o \in Ids /\ o < nextId
      BY DEF CountInv, NewIsAbsent, Absent, Outputs, Typed
    <3>2. \A o \in R : o < nextId
      BY <2>1 DEF SeenInv, Numbered
    <3>3. prep.stage \in Active => prep.id \in Ids \ Outputs /\ inProgress
      BY <2>1 DEF CountInv, NewIsAbsent, Absent, Outputs, OwnInv, OneChange
    <3>4. QED
      BY <2>1, <3>1, <3>2, <3>3 DEF NoChange
  <2>3. /\ seen' \in [Ids -> Observed]
        /\ \A o \in Ids \ (D \cup R) : seen'[o] = seen[o]
        /\ \A o \in Ids : seen'[o] \in {seen[o], "Draining", "Retired"}
        /\ \A o \in D : seen'[o] = "Draining"
        /\ \A o \in R \ D : seen'[o] = "Retired"
    BY <2>1, <2>2 DEF SeenInv, Observed
  <2>4. Numbered' /\ Unseen'
    <3>1. D \cup R \in SUBSET Ids
      BY <2>1, <2>2
    <3>2. QED
      BY <2>1, <2>2, <2>3, <3>1, ToldOf, Zenon
  <2>5. Candidate'
    BY <2>1, <2>2, <2>3 DEF SeenInv, Candidate
  <2>6. Overdue'
    <3>1. \A o \in Ids \ D : out'[o] = out[o]
      BY <2>1
    <3>2. \A o \in Ids \ D : seen'[o] = "Failed" => seen[o] = "Failed"
      BY <2>3
    <3>3. \A o \in D : seen'[o] # "Failed"
      BY <2>3
    <3>4. QED
      BY <3>1, <3>2, <3>3 DEF SeenInv, Overdue, Outputs
  <2>7. NotRevived
    BY <2>3 DEF NotRevived
  <2>8. QED
    BY <2>3, <2>4, <2>5, <2>6, <2>7 DEF SeenInv
<1>3. QED
  BY <1>1, <1>2

(* Every step keeps what is known of the reports, and revives nothing.          *)
LEMMA SeenStep ==
    ASSUME CountInv, OwnInv, SeenInv, [Next]_vars PROVE SeenInv' /\ NotRevived
<1>1. CASE FirstGroups \/ LastGroups
  BY <1>1, PollGroupsSeen DEF FirstGroups, LastGroups
<1>2. CASE UNCHANGED vars
  BY <1>2, Untold DEF vars, mailbox
<1>3. CASE Controller
  BY <1>1, <1>3, PollBeginsSeen, PrepareSeen, OutputSeen, OutputRetiresSeen, TakeSeen,
     FinishSeen DEF Controller
<1>4. QED
  BY <1>2, <1>3, CallersSeen, BackgroundSeen DEF Next

(* For any number of outputs and whatever a preparation, a branch or finish()      *)
(* still does: an output the observer was told has failed, or has retired and is   *)
(* released, is never again reported preparing, waiting or running.               *)
THEOREM ReportsNeverRevive == Spec => NeverRevived
<1>1. CountInv /\ OwnInv /\ SeenInv /\ [Next]_vars => SeenInv'
  BY SeenStep
<1>2. CountInv /\ OwnInv /\ SeenInv /\ [Next]_vars =>
        [\A o \in Ids :
           seen[o] = "Failed" \/ (seen[o] = "Retired" /\ o \notin Outputs) =>
             seen'[o] \notin {"Preparing", "WaitingForRandomAccess", "Running"}]_vars
  BY SeenStep DEF NotRevived
<1>3. QED
  BY <1>1, <1>2, CountInit, CountStep, OwnInit, OwnStep, SeenInit, PTL
     DEF Spec, NeverRevived
=============================================================================
