------------------------ MODULE ReacquisitionProofs ------------------------
(***************************************************************************)
(* The clock generations of an A/V group change safely for every number of *)
(* gates and of generations: the reacquisition coordinator and the epoch   *)
(* transition service never disagree, nothing is published or emitted      *)
(* outside the permit of its generation, and a failure is final.           *)
(***************************************************************************)
EXTENDS Reacquisition, TLAPS

Purges == [old : Nat, next : Nat, seq : Nat]
Wants == [gen : Nat, reason : {"none", "HardDiscontinuity", "RecoveryBudgetExhausted"}]
Phases == {"Inactive", "Purging", "Acquiring", "ReadyForActivation", "Activating",
           "Publishing", "Aborted"}
Errors == {"incompatible", "invalid", "purge", "readiness", "reservation", "abandoned",
           "aborted"}
Services == [readiness : {"Acquiring", "Locked", "Reacquire"}, epoch : Nat,
             current : Nat, permitted : BOOLEAN, poisoned : BOOLEAN, failed : BOOLEAN,
             active : Purges, completed : Purges, nextSeq : Nat \ {0}]
Coordinators == [phase : Phases, request : Wants, transition : Purges,
                 inFlight : Nat, lastPublished : Nat, err : Errors \cup {"none"}]
Sources == [gen : Nat, state : {"acquiring", "locked", "reacquiring", "stopped"}]
Evidence == [kind : {"Locked", "ReacquireRequired"}, gen : Nat]
Gatings == [pc : {"idle", "observe", "observed", "request", "refused", "failed", "stopped"},
            locked : Nat, gen : Nat, ready : BOOLEAN]
Requestings == [pc : {"idle", "check", "begin", "purge", "reject", "returned"},
                want : Wants, purge : Purges, next : Nat, ok : BOOLEAN]
Startings == [pc : {"idle", "mark", "failed", "stopped"}, last : Nat, purge : Purges]
Releasings == [kind : {"Initial", "Next", "PassThrough"}, gen : Nat, seq : Nat]
Sequencings == [pc : {"idle", "publish", "reserve", "commit", "check", "activate",
                      "activateNext", "authorize", "finalize", "abort", "failed", "stopped"},
                active : Nat]
Schedulings == [pc : {"idle", "configure", "emit", "request", "failed", "stopped"},
                gen : Nat, permitted : Nat, pending : Nat, fresh : BOOLEAN]

(* Every variable keeps its type. *)
Typed ==
    /\ service \in Services /\ coord \in Coordinators
    /\ purged \in [{1, 2} -> Nat]
    /\ source \in Sources
    /\ clock \in [Gates -> Seq(Evidence)]
    /\ gate \in [Gates -> Gatings] /\ req \in [Requesters -> Requestings]
    /\ fed \in [Gates -> Nat] /\ startup \in Startings
    /\ releases \in Seq(Releasings) /\ seqr \in Sequencings
    /\ units \subseteq Nat /\ sched \in Schedulings /\ emitted \in Nat

(* The activation mutex is kept by a sequencer that activates or commits,  *)
(* the service mutex by a scheduler that emits, and a request is made by a *)
(* gate or a scheduler that waits for its return.                          *)
Keeping == {"commit", "activateNext", "authorize", "finalize"}
Mutexes ==
    /\ arb = IF seqr.pc \in Keeping THEN Sequencer ELSE Free
    /\ permit = IF sched.pc = "emit" THEN Scheduler ELSE Free
    /\ \A g \in Gates : req[g].pc # "idle" => gate[g].pc = "request"
    /\ req[Scheduler].pc # "idle" => sched.pc = "request"

Settled(seq) == \A p \in DOMAIN purged : purged[p] = seq
SchedulerReset(next) == sched.permitted = 0 /\ sched.pending = next

(* The purge that requester r carries out is the transition, and what it   *)
(* has purged so far, unless it met a failure, stays purged.               *)
Purging(r) ==
    /\ req[r].purge = coord.transition
    /\ req[r].next \in 1 .. 3
    /\ req[r].ok => /\ req[r].next > 1 => purged[1] = coord.transition.seq
                    /\ req[r].next > 2 => /\ purged[2] = coord.transition.seq
                                          /\ SchedulerReset(coord.transition.next)

(* At most one request purges, and only while the coordinator says so or   *)
(* after the group was aborted under it.                                   *)
RequestInv ==
    /\ \A r \in Requesters : req[r].pc = "purge" =>
           /\ coord.phase \in {"Purging", "Aborted"} /\ service.epoch # 0
           /\ coord.phase = "Purging" => Purging(r)
    /\ \A r, s \in Requesters : req[r].pc = "purge" /\ req[s].pc = "purge" => r = s

(* The group before its first epoch. *)
Fresh ==
    /\ service.current = 0 /\ service.nextSeq = 1 /\ Settled(0)
    /\ SchedulerReset(0)

(* The service within a transition. *)
Moving ==
    /\ ~service.permitted /\ ~service.failed
    /\ service.epoch = coord.transition.old /\ service.epoch # 0
    /\ coord.transition.next = coord.transition.old + 1
    /\ coord.transition.seq = service.nextSeq - 1 /\ coord.transition.seq # 0

(* ... and after the purge of every participant. *)
Purged ==
    /\ Moving
    /\ service.readiness = "Acquiring"
    /\ service.active = NoPurge /\ service.completed = coord.transition
    /\ Settled(coord.transition.seq) /\ SchedulerReset(coord.transition.next)

SchedulerFollows ==
    \/ sched.permitted = service.epoch /\ sched.pending = 0
    \/ sched.permitted = 0 /\ sched.pending = service.epoch
    \/ sched.permitted = 0 /\ sched.pending = 0 /\ service.nextSeq = 1

(* The service in an epoch. *)
Opened ==
    /\ service.readiness = "Locked" /\ service.permitted
    /\ ~service.poisoned /\ ~service.failed
    /\ service.epoch # 0 /\ service.current = service.epoch
    /\ service.active = NoPurge /\ service.completed = NoPurge
    /\ Settled(service.nextSeq - 1) /\ SchedulerFollows

(* The release the sequencer holds is that of the transition. *)
NextIs == /\ Head(releases).gen = coord.transition.next
          /\ Head(releases).seq = coord.transition.seq

Opening == /\ Opened /\ NextIs /\ service.epoch = coord.transition.next
           /\ coord.transition.seq = service.nextSeq - 1 /\ coord.transition.seq # 0

(* What each phase of the coordinator says about the service and about the *)
(* step the sequencer is in.                                               *)
PhaseInv ==
    /\ coord.phase = "Aborted" <=> service.poisoned
    /\ coord.phase = "Aborted" <=> coord.err # "none"
    /\ coord.phase = "Aborted" => ~service.permitted
    /\ service.epoch = 0 => Fresh /\ coord.phase \in {"Inactive", "Aborted"}
    /\ coord.phase = "Inactive" =>
          \/ Opened
          \/ /\ service.epoch = 0 /\ service.readiness = "Acquiring"
             /\ service.active = NoPurge /\ service.completed = NoPurge
    /\ coord.phase = "Purging" =>
          /\ Moving /\ service.readiness = "Reacquire"
          /\ service.active = coord.transition /\ service.completed = NoPurge
    /\ coord.phase \in {"Acquiring", "ReadyForActivation"} => Purged
    /\ coord.phase = "Activating" =>
          \/ seqr.pc = "activateNext" /\ Purged /\ NextIs
          \/ seqr.pc = "authorize" /\ Opening
    /\ coord.phase = "Publishing" => seqr.pc = "finalize" /\ Opening

(* The sequencer's step, its head release and the phase. *)
Holding == Keeping \cup {"publish", "reserve", "check", "activate"}
SequencerInv ==
    /\ seqr.pc \in Holding => releases # << >>
    /\ \A i \in 1 .. Len(releases) : releases[i].kind = "Initial" => releases[i].gen # 0
    /\ seqr.pc \in {"activateNext", "authorize"} => coord.phase = "Activating"
    /\ seqr.pc = "finalize" => coord.phase = "Publishing"
    /\ seqr.pc = "commit" => /\ coord.phase = "Inactive" /\ Opened
                             /\ Head(releases).gen = service.epoch

SchedulerInv ==
    /\ sched.pc = "emit" => Opened /\ service.epoch = sched.gen
    /\ emitted <= service.epoch
    /\ coord.lastPublished < service.nextSeq

(* The inductive invariant. *)
IInv == Typed /\ Mutexes /\ RequestInv /\ PhaseInv /\ SequencerInv /\ SchedulerInv

(* Initially no epoch is open and no one holds anything. *)
LEMMA InitIInv == Init => IInv
<1> SUFFICES ASSUME Init PROVE IInv
  OBVIOUS
<1>1. Typed
  <2>1. NoPurge \in Purges /\ NoRequest \in Wants
    BY DEF NoPurge, Purges, NoRequest, Wants
  <2>2. service \in Services /\ coord \in Coordinators /\ startup \in Startings
    BY <2>1 DEF Init, Services, Coordinators, Phases, Startings
  <2>3. gate \in [Gates -> Gatings] /\ req \in [Requesters -> Requestings]
    BY <2>1 DEF Init, Gatings, Requestings
  <2>4. purged \in [{1, 2} -> Nat] /\ clock \in [Gates -> Seq(Evidence)]
        /\ fed \in [Gates -> Nat] /\ releases \in Seq(Releasings)
    BY DEF Init, Participants
  <2>5. QED
    BY <2>2, <2>3, <2>4, Zenon DEF Init, Typed, Schedulings, Sequencings, Sources
<1>2. Mutexes
  BY ActorsAssumption DEF Init, Mutexes, Keeping, Requesters
<1>3. RequestInv
  BY DEF Init, RequestInv
<1>4. PhaseInv
  BY DEF Init, PhaseInv, Fresh, Settled, SchedulerReset, Participants
<1>5. SequencerInv
  BY DEF Init, SequencerInv, Holding, Keeping
<1>6. SchedulerInv
  BY DEF Init, SchedulerInv
<1>7. QED
  BY <1>1, <1>2, <1>3, <1>4, <1>5, <1>6 DEF IInv

(* FailTerminal and Abort leave the group aborted in both layers.          *)
Aborts ==
    /\ coord' \in Coordinators /\ service' \in Services
    /\ coord'.phase = "Aborted" /\ coord'.err # "none"
    /\ coord.err # "none" => coord'.err = coord.err
    /\ coord'.transition = coord.transition
    /\ coord'.lastPublished = coord.lastPublished
    /\ service'.poisoned /\ ~service'.permitted
    /\ service'.epoch = service.epoch /\ service'.current = service.current
    /\ service'.nextSeq = service.nextSeq

(* The terminal failure of a release, a purge or a request aborts the group. *)
LEMMA FailTerminalAborts ==
    ASSUME Typed, PhaseInv, NEW error \in Errors, FailTerminal(error)
    PROVE  Aborts
<1>1. coord' \in Coordinators
  BY Zenon DEF Typed, Coordinators, FailTerminal, Phases, Errors
<1>2. service' \in Services
  <2>1. NoPurge \in Purges
    BY DEF NoPurge, Purges
  <2>2. Poison(service) \in Services
    BY <2>1, Zenon DEF Typed, Services, Poison
  <2>3. FailService(service) \in Services
    BY <2>2, Zenon DEF Services, FailService
  <2>4. QED
    BY <2>3 DEF Typed, FailTerminal
<1>3. /\ coord'.phase = "Aborted" /\ coord'.err # "none"
      /\ coord.err # "none" => coord'.err = coord.err
      /\ coord'.transition = coord.transition
      /\ coord'.lastPublished = coord.lastPublished
  BY DEF Typed, Coordinators, FailTerminal, Errors
<1>4. /\ service'.poisoned /\ ~service'.permitted
      /\ service'.epoch = service.epoch /\ service'.current = service.current
      /\ service'.nextSeq = service.nextSeq
  <2>1. CASE coord.err = "none"
    BY <2>1 DEF Typed, Services, FailTerminal, FailService, Poison
  <2>2. CASE coord.err # "none"
    BY <2>2 DEF FailTerminal, PhaseInv
  <2>3. QED
    BY <2>1, <2>2
<1>5. QED
  BY <1>1, <1>2, <1>3, <1>4 DEF Aborts

(* An abort from outside aborts the group. *)
LEMMA AbortAborts == ASSUME Typed, PhaseInv, Abort PROVE Aborts
<1>1. coord' \in Coordinators
  BY Zenon DEF Typed, Coordinators, Abort, Phases, Errors
<1>2. service' \in Services
  BY Zenon DEF Typed, Services, Abort, Poison, NoPurge, Purges
<1>3. QED
  BY <1>1, <1>2 DEF Typed, Coordinators, Services, PhaseInv, Abort, Poison, Aborts

(* What a step that leaves these variables alone preserves. *)
LEMMA PhaseFrame ==
    ASSUME PhaseInv, UNCHANGED <<service, coord, seqr, releases, purged, sched>>
    PROVE  PhaseInv'
BY Zenon DEF PhaseInv, Fresh, Moving, Purged, Opened, Opening, NextIs, Settled, SchedulerReset,
       SchedulerFollows

(* The sequencer's part survives what leaves its inputs alone. *)
LEMMA SequencerFrame ==
    ASSUME SequencerInv, UNCHANGED <<service, coord, seqr, releases, purged, sched>>
    PROVE  SequencerInv'
BY DEF SequencerInv, Opened, Settled, SchedulerFollows

(* The scheduler's part survives what leaves its inputs alone. *)
LEMMA SchedulerFrame ==
    ASSUME SchedulerInv, UNCHANGED <<service, coord, purged, sched, emitted>>
    PROVE  SchedulerInv'
BY DEF SchedulerInv, Opened, Settled, SchedulerFollows

(* The requests' part survives what leaves its inputs alone. *)
LEMMA RequestFrame ==
    ASSUME RequestInv, UNCHANGED <<req, service, coord, purged, sched>>
    PROVE  RequestInv'
BY DEF RequestInv, Purging, SchedulerReset

(* The ownership facts survive what moves no program counter and no lock. *)
LEMMA MutexFrame ==
    ASSUME Mutexes, UNCHANGED <<arb, permit, seqr, sched, req, gate>>
    PROVE  Mutexes'
BY DEF Mutexes

(* The source sends clock evidence; nothing else changes. *)
LEMMA SourceStep == ASSUME IInv, Source PROVE IInv'
<1> USE DEF Source, SourceLocked, SourceDiscontinuity, SourceRelocked, Broadcast
<1>1. UNCHANGED <<service, coord, arb, permit, purged, gate, req, release, output>>
  OBVIOUS
<1>2. Typed'
  <2>1. source' \in Sources
    BY DEF IInv, Typed, Sources
  <2>2. clock' \in [Gates -> Seq(Evidence)]
    <3>1. ASSUME NEW e \in Evidence, clock' = [g \in Gates |-> Append(clock[g], e)]
          PROVE  clock' \in [Gates -> Seq(Evidence)]
      BY <3>1 DEF IInv, Typed
    <3>2. /\ [kind |-> "Locked", gen |-> source.gen] \in Evidence
          /\ [kind |-> "ReacquireRequired", gen |-> source.gen] \in Evidence
          /\ [kind |-> "Locked", gen |-> source.gen + 1] \in Evidence
      BY DEF IInv, Typed, Sources, Evidence
    <3>3. QED
      BY <3>1, <3>2
  <2>3. QED
    BY <1>1, <2>1, <2>2 DEF IInv, Typed, release, output
<1>3. QED
  BY <1>1, <1>2, PhaseFrame, SequencerFrame, SchedulerFrame, RequestFrame, MutexFrame
     DEF IInv, release, output

(* A purge in progress is not disturbed by what other requests do. *)
LEMMA RequestOther ==
    ASSUME RequestInv, UNCHANGED <<service, coord, purged, sched>>,
           \A r \in Requesters : req'[r].pc = "purge" => req'[r] = req[r]
    PROVE  RequestInv'
BY DEF RequestInv, Purging, SchedulerReset

(* The head and the tail of a queue that is not empty. *)
LEMMA HeadTail ==
    ASSUME NEW S, NEW q \in Seq(S), q # << >>
    PROVE  Head(q) \in S /\ Tail(q) \in Seq(S)
OBVIOUS

(* One gate changes its state. *)
GateTurns(g) ==
    /\ gate' \in [Gates -> Gatings]
    /\ \A h \in Gates \ {g} : gate'[h] = gate[h]

(* The gate reads and observes; it makes a request only when it has none,   *)
(* and answers a discontinuity once the request has returned.              *)
LEMMA GateReadsLockedTurns ==
    ASSUME IInv, NEW g \in Gates, GateReadsLocked(g)
    PROVE  GateTurns(g) /\ clock' \in [Gates -> Seq(Evidence)]
<1>1. /\ gate \in [Gates -> Gatings] /\ clock \in [Gates -> Seq(Evidence)]
      /\ clock[g] # << >> /\ clock' = [clock EXCEPT ![g] = Tail(@)]
  BY DEF IInv, Typed, GateReadsLocked, ReadsClock
<1>2. Head(clock[g]).gen \in Nat
  <2>1. Head(clock[g]) \in Evidence
    BY <1>1, HeadTail
  <2>2. QED
    BY <2>1 DEF Evidence
<1>3. PICK locked \in Nat, pc \in {"failed", "idle"} :
         gate' = [gate EXCEPT ![g].locked = locked, ![g].pc = pc]
  <2>1. gate[g].locked \in Nat
    BY <1>1 DEF Gatings
  <2> HIDE DEF ClassifyGate
  <2>2. QED
    BY <1>1, <1>2, <2>1, Zenon DEF GateReadsLocked
<1>4. GateTurns(g)
  <2>1. gate'[g] \in Gatings
    BY <1>1, <1>3, Zenon DEF Gatings
  <2>2. QED
    BY <1>1, <1>3, <2>1 DEF GateTurns
<1>5. QED
  BY <1>1, <1>4

(* Reading a discontinuity only turns the gate. *)
LEMMA GateReadsDiscontinuityTurns ==
    ASSUME IInv, NEW g \in Gates, GateReadsDiscontinuity(g)
    PROVE  GateTurns(g) /\ clock' \in [Gates -> Seq(Evidence)]
<1>1. /\ gate \in [Gates -> Gatings] /\ clock \in [Gates -> Seq(Evidence)]
      /\ clock[g] # << >> /\ clock' = [clock EXCEPT ![g] = Tail(@)]
  BY DEF IInv, Typed, GateReadsDiscontinuity, ReadsClock
<1>2. Head(clock[g]).gen \in Nat
  <2>1. Head(clock[g]) \in Evidence
    BY <1>1, HeadTail
  <2>2. QED
    BY <2>1 DEF Evidence
<1>3. PICK gen \in Nat, pc \in {"idle", "observe", "refused"} :
         gate' = [gate EXCEPT ![g].gen = gen, ![g].pc = pc]
  <2> DEFINE gen == Head(clock[g]).gen
             withheld == /\ TransitionActive(coord.phase)
                         /\ coord.transition.old = gen
                         /\ coord.request.reason = "HardDiscontinuity"
             pc == CASE gate[g].locked = gen /\ withheld -> "idle"
                     [] gate[g].locked = gen /\ coord.phase = "Inactive" -> "observe"
                     [] OTHER -> "refused"
  <2>1. gate' = [gate EXCEPT ![g].gen = gen, ![g].pc = pc]
    BY DEF GateReadsDiscontinuity
  <2>2. pc \in {"idle", "observe", "refused"}
    OBVIOUS
  <2> HIDE DEF gen, pc
  <2>3. gen \in Nat
    BY <1>2 DEF gen
  <2>4. QED
    BY <2>1, <2>2, <2>3, Zenon
<1>4. GateTurns(g)
  <2>1. gate'[g] \in Gatings
    BY <1>1, <1>3, Zenon DEF Gatings
  <2>2. QED
    BY <1>1, <1>3, <2>1 DEF GateTurns
<1>5. QED
  BY <1>1, <1>4

(* Reading the service under the gate only turns the gate. *)
LEMMA GateObservesServiceTurns ==
    ASSUME IInv, NEW g \in Gates, GateObservesService(g)
    PROVE  GateTurns(g) /\ clock' \in [Gates -> Seq(Evidence)]
<1>1. gate \in [Gates -> Gatings] /\ clock' \in [Gates -> Seq(Evidence)]
  BY DEF IInv, Typed, GateObservesService
<1>2. PICK ready \in BOOLEAN, pc \in {"observed", "refused"} :
         gate' = [gate EXCEPT ![g].ready = ready, ![g].pc = pc]
  BY Zenon DEF GateObservesService
<1>3. GateTurns(g)
  <2>1. gate'[g] \in Gatings
    BY <1>1, <1>2, Zenon DEF Gatings
  <2>2. QED
    BY <1>1, <1>2, <2>1 DEF GateTurns
<1>4. QED
  BY <1>1, <1>3

(* The gate's reading steps preserve the invariant. *)
LEMMA GateReadsStep ==
    ASSUME IInv, NEW g \in Gates,
           GateReadsLocked(g) \/ GateReadsDiscontinuity(g) \/ GateObservesService(g)
    PROVE  IInv'
<1>1. /\ UNCHANGED <<service, coord, arb, permit, purged, source, req, fed, startup,
                     releases, seqr, units, sched, emitted>>
      /\ gate[g].pc \in {"idle", "observe"}
  BY Zenon DEF GateReadsLocked, GateReadsDiscontinuity, GateObservesService, ReadsClock,
         release, output
<1>2. GateTurns(g) /\ clock' \in [Gates -> Seq(Evidence)]
  BY GateReadsLockedTurns, GateReadsDiscontinuityTurns, GateObservesServiceTurns
<1>3. Typed'
  BY <1>1, <1>2 DEF IInv, Typed, GateTurns
<1>4. Mutexes'
  BY <1>1, <1>2, Zenon DEF IInv, Mutexes, GateTurns
<1>5. QED
  BY <1>1, <1>3, <1>4, PhaseFrame, SequencerFrame, SchedulerFrame, RequestFrame DEF IInv

(* Only requester r's own record changes, and not into a purge. *)
RequestTurns(r) ==
    /\ req' \in [Requesters -> Requestings]
    /\ \A s \in Requesters \ {r} : req'[s] = req[s]
    /\ req'[r].pc # "purge"

(* The gate's steps that call the coordinator preserve the invariant. *)
LEMMA GateRequestsStep ==
    ASSUME IInv, NEW g \in Gates, GateObservesCoordinator(g) \/ GateVerifies(g)
    PROVE  IInv'
<1>1. /\ UNCHANGED <<service, coord, arb, permit, purged, source, clock, fed, startup,
                     releases, seqr, units, sched, emitted>>
  BY DEF GateObservesCoordinator, GateVerifies, release, output
<1>2. /\ gate \in [Gates -> Gatings] /\ req \in [Requesters -> Requestings]
      /\ g \in Requesters /\ g # Scheduler
      /\ gate[g].pc = "observed" => req[g].pc = "idle"
  BY ActorsAssumption DEF IInv, Typed, Mutexes, Requesters
<1>3. GateTurns(g) /\ RequestTurns(g) /\ (req'[g].pc # "idle" => gate'[g].pc = "request")
  <2>1. CASE GateObservesCoordinator(g)
    <3>1. \/ /\ gate' = [gate EXCEPT ![g].pc = "request"]
             /\ req' = [req EXCEPT ![g].pc = "check", ![g].want =
                             [gen |-> gate[g].gen, reason |-> "HardDiscontinuity"]]
          \/ gate' = [gate EXCEPT ![g].pc = "refused"] /\ req' = req
      BY <2>1, Zenon DEF GateObservesCoordinator, GateGoes
    <3>2. [gen |-> gate[g].gen, reason |-> "HardDiscontinuity"] \in Wants
      BY <1>2 DEF Gatings, Wants
    <3>3. GateTurns(g)
      BY <1>2, <3>1 DEF GateTurns, Gatings
    <3>4. req' \in [Requesters -> Requestings]
      BY <1>2, <3>1, <3>2 DEF Requestings
    <3>5. gate[g].pc = "observed"
      BY <2>1 DEF GateObservesCoordinator
    <3>6. QED
      BY <1>2, <3>1, <3>3, <3>4, <3>5 DEF RequestTurns, Gatings, Requestings
  <2>2. CASE GateVerifies(g)
    <3>1. req' = [req EXCEPT ![g].pc = "idle"]
      BY <2>2 DEF GateVerifies
    <3>2. PICK pc \in {"idle", "refused"} : gate' = [gate EXCEPT ![g].pc = pc]
      BY <2>2, Zenon DEF GateVerifies, GateGoes
    <3>3. QED
      BY <1>2, <3>1, <3>2 DEF GateTurns, RequestTurns, Gatings, Requestings
  <2>3. QED
    BY <2>1, <2>2
<1>4. Typed'
  BY <1>1, <1>3 DEF IInv, Typed, GateTurns, RequestTurns
<1>5. Mutexes'
  BY <1>1, <1>2, <1>3 DEF IInv, Mutexes, GateTurns, RequestTurns, Requesters
<1>6. RequestInv'
  BY <1>1, <1>3, RequestOther DEF IInv, RequestTurns
<1>7. QED
  BY <1>1, <1>4, <1>5, <1>6, PhaseFrame, SequencerFrame, SchedulerFrame DEF IInv

(* A packet at a gate preserves the invariant. *)
LEMMA PacketStep == ASSUME IInv, NEW g \in Gates, Packet(g) PROVE IInv'
<1>1. PICK gen \in 1 .. source.gen : GatePacket(g, gen)
  BY DEF Packet
<1>2. /\ UNCHANGED <<service, coord, arb, permit, purged, source, clock, req, startup,
                     releases, seqr, units, sched, emitted>>
      /\ gate[g].pc = "idle"
  BY <1>1 DEF GatePacket, output
<1>3. gate' = gate \/ gate' = [gate EXCEPT ![g].pc = "failed"]
  BY <1>1 DEF GatePacket
<1>4. fed' = fed \/ fed' = [fed EXCEPT ![g] = gen]
  BY <1>1 DEF GatePacket
<1>5. /\ gate \in [Gates -> Gatings] /\ fed \in [Gates -> Nat]
      /\ gen \in Nat
  BY <1>1 DEF IInv, Typed, Sources
<1>6. GateTurns(g)
  BY <1>3, <1>5 DEF GateTurns, Gatings
<1>7. Typed'
  BY <1>2, <1>4, <1>5, <1>6, Zenon DEF IInv, Typed, GateTurns
<1>8. Mutexes'
  BY <1>2, <1>6 DEF IInv, Mutexes, GateTurns
<1>9. QED
  BY <1>2, <1>7, <1>8, PhaseFrame, SequencerFrame, SchedulerFrame, RequestFrame, Zenon DEF IInv

(* An abort of the group keeps the invariant when no activation is reserved *)
(* and nothing is being emitted.                                           *)
LEMMA AbortKeeps ==
    ASSUME IInv, Aborts, UNCHANGED <<purged, releases, emitted>>,
           seqr'.pc \notin Keeping,
           seqr'.pc \in Holding => seqr' = seqr,
           sched'.pc # "emit",
           sched'.permitted = sched.permitted, sched'.pending = sched.pending
    PROVE  PhaseInv' /\ SequencerInv' /\ SchedulerInv'
<1>1. PhaseInv'
  BY Zenon DEF IInv, Aborts, PhaseInv, Fresh, Settled, SchedulerReset
<1>2. SequencerInv'
  BY Zenon DEF IInv, SequencerInv, Keeping
<1>3. SchedulerInv'
  BY Zenon DEF IInv, Aborts, SchedulerInv
<1>4. QED
  BY <1>1, <1>2, <1>3

(* An abort leaves nothing to say of a purge under way but that it was one. *)
LEMMA AbortKeepsRequests ==
    ASSUME IInv, Aborts,
           \A r \in Requesters : req'[r].pc = "purge" => req[r].pc = "purge"
    PROVE  RequestInv'
BY Zenon DEF IInv, Aborts, RequestInv

(* What a free mutex says about its users. *)
LEMMA FreeMutexes ==
    ASSUME IInv
    PROVE  /\ ArbFree => seqr.pc \notin Keeping
           /\ ServiceFree => sched.pc # "emit"
BY ActorsAssumption DEF IInv, Mutexes, ArbFree, ServiceFree

(* A request moves on, returns or fails the group; the caller still waits. *)
LEMMA RequestMutexes ==
    ASSUME IInv, NEW r \in Requesters, req[r].pc # "idle",
           \A s \in Requesters \ {r} : req'[s] = req[s],
           UNCHANGED <<arb, permit, seqr, gate>>, sched'.pc = sched.pc
    PROVE  Mutexes'
<1>1. \A s \in Requesters : req'[s].pc # "idle" => req[s].pc # "idle"
  OBVIOUS
<1>2. QED
  BY <1>1 DEF IInv, Mutexes, Requesters

(* A request that moves on, without purging, only turns its requester. *)
LEMMA RequestGoesTurns ==
    ASSUME IInv, NEW r \in Requesters, NEW pc \in {"begin", "reject"}, RequestGoes(r, pc)
    PROVE  RequestTurns(r)
<1>1. req \in [Requesters -> Requestings]
  BY DEF IInv, Typed
<1>2. req'[r] \in Requestings /\ req'[r].pc = pc
  BY <1>1 DEF Requestings, RequestGoes
<1>3. QED
  BY <1>1, <1>2 DEF RequestTurns, RequestGoes

(* So does a request that returns. *)
LEMMA ReturnsTurns ==
    ASSUME IInv, NEW r \in Requesters, NEW ok \in BOOLEAN, Returns(r, ok)
    PROVE  RequestTurns(r)
<1>1. req \in [Requesters -> Requestings]
  BY DEF IInv, Typed
<1>2. req'[r] = [pc |-> "returned", want |-> NoRequest, purge |-> NoPurge, next |-> 1,
                 ok |-> ok]
  BY <1>1 DEF Returns
<1>3. req'[r] \in Requestings /\ req'[r].pc = "returned"
  BY <1>2 DEF Requestings, NoRequest, NoPurge, Wants, Purges
<1>4. QED
  BY <1>1, <1>3 DEF RequestTurns, Returns

(* The request's first check preserves the invariant. *)
LEMMA RequestCheckStep ==
    ASSUME IInv, NEW r \in Requesters, RequestCheck(r)
    PROVE  IInv'
<1>1. /\ UNCHANGED <<service, coord, arb, permit, purged, source, clock, gate, fed, startup,
                     releases, seqr, units, sched, emitted>>
      /\ req[r].pc # "idle"
  BY DEF RequestCheck, input, release, output
<1>2. RequestTurns(r)
  <2>1. \/ Returns(r, FALSE) \/ Returns(r, TRUE)
        \/ RequestGoes(r, "begin") \/ RequestGoes(r, "reject")
    BY Zenon DEF RequestCheck
  <2>2. QED
    BY <2>1, RequestGoesTurns, ReturnsTurns, Zenon
<1>3. Typed'
  BY <1>1, <1>2 DEF IInv, Typed, RequestTurns
<1>4. Mutexes'
  BY <1>1, <1>2, RequestMutexes DEF RequestTurns
<1>5. RequestInv'
  BY <1>1, <1>2, RequestOther, Zenon DEF IInv, RequestTurns
<1>6. QED
  BY <1>1, <1>3, <1>4, <1>5, PhaseFrame, SequencerFrame, SchedulerFrame DEF IInv

(* A request that is refused fails the group. *)
LEMMA RequestAborts ==
    ASSUME IInv, NEW r \in Requesters, RequestTurns(r), Aborts, req[r].pc # "idle",
           seqr.pc \notin Keeping, sched.pc # "emit",
           UNCHANGED <<arb, permit, purged, source, clock, gate, fed, startup,
                       releases, seqr, units, sched, emitted>>
    PROVE  IInv'
<1>1. Typed'
  BY DEF IInv, Typed, RequestTurns, Aborts
<1>2. Mutexes'
  BY RequestMutexes, Zenon DEF RequestTurns
<1>3. RequestInv'
  BY AbortKeepsRequests DEF RequestTurns
<1>4. QED
  BY <1>1, <1>2, <1>3, AbortKeeps DEF IInv

(* A rejected request preserves the invariant: it aborts the group. *)
LEMMA RequestRejectStep ==
    ASSUME IInv, NEW r \in Requesters, RequestReject(r)
    PROVE  IInv'
<1>1. /\ UNCHANGED <<arb, permit, purged, source, clock, gate, fed, startup,
                     releases, seqr, units, sched, emitted>>
      /\ req[r].pc # "idle" /\ ArbFree /\ ServiceFree
      /\ FailTerminal("incompatible") /\ Returns(r, FALSE)
  BY Zenon DEF RequestReject, input, release, output
<1>2. RequestTurns(r)
  BY <1>1, ReturnsTurns, Zenon
<1>3. Aborts
  BY <1>1, FailTerminalAborts DEF IInv, Errors
<1>4. QED
  BY <1>1, <1>2, <1>3, RequestAborts, FreeMutexes

(* A request that joins the transition under way preserves the invariant. *)
LEMMA RequestJoinsStep ==
    ASSUME IInv, NEW r \in Requesters, RequestJoins(r)
    PROVE  IInv'
<1>1. /\ UNCHANGED <<arb, permit, purged, source, clock, gate, fed, startup,
                     releases, seqr, units, sched, emitted>>
      /\ req[r].pc # "idle" /\ ArbFree /\ ServiceFree
      /\ UNCHANGED <<coord, service>> \/ FailTerminal("incompatible")
  BY Zenon DEF RequestJoins, input, release, output
<1>2. RequestTurns(r)
  <2>1. PICK ok \in BOOLEAN : Returns(r, ok)
    BY Zenon DEF RequestJoins
  <2>2. QED
    BY <2>1, ReturnsTurns, Zenon
<1>3. CASE UNCHANGED <<coord, service>>
  <2>1. Typed'
    BY <1>1, <1>2, <1>3 DEF IInv, Typed, RequestTurns
  <2>2. Mutexes'
    BY <1>1, <1>2, RequestMutexes, Zenon DEF RequestTurns
  <2>3. RequestInv'
    BY <1>1, <1>2, <1>3, RequestOther DEF IInv, RequestTurns
  <2>4. QED
    BY <1>1, <1>3, <2>1, <2>2, <2>3, PhaseFrame, SequencerFrame, SchedulerFrame, Zenon DEF IInv
<1>4. CASE FailTerminal("incompatible")
  <2>1. Aborts
    BY <1>4, FailTerminalAborts DEF IInv, Errors
  <2>2. QED
    BY <1>1, <1>2, <2>1, RequestAborts, FreeMutexes, Zenon
<1>5. QED
  BY <1>1, <1>3, <1>4

(* beginReacquisition: the permit closes and a purge of the epoch begins.  *)
LEMMA RequestBeginsStep ==
    ASSUME IInv, NEW r \in Requesters, RequestBegins(r)
    PROVE  IInv'
<1> DEFINE old == service.epoch
<1>0. PICK purge : purge = NewPurge(old, old + 1)
  OBVIOUS
<1>1. /\ UNCHANGED <<arb, permit, purged, source, clock, gate, fed, startup,
                     releases, seqr, units, sched, emitted>>
      /\ req[r].pc = "begin" /\ ArbFree /\ ServiceFree
      /\ coord.err = "none" /\ coord.phase = "Inactive"
  BY DEF RequestBegins, BeginsFor, input, release, output
<1>2. CASE FailTerminal("invalid") /\ Returns(r, FALSE)
  <2>1. Aborts
    BY <1>2, FailTerminalAborts DEF IInv, Errors
  <2>2. RequestTurns(r)
    BY <1>2, ReturnsTurns, Zenon
  <2>3. QED
    BY <1>1, <2>1, <2>2, RequestAborts, FreeMutexes, Zenon
<1>3. CASE /\ LiveEpoch
           /\ service' = BeginReacquisition(old, old + 1)
           /\ coord' = [coord EXCEPT !.request = req[r].want, !.transition = purge,
                                     !.inFlight = purge.seq, !.phase = "Purging"]
           /\ req' = [req EXCEPT ![r].pc = "purge", ![r].purge = purge,
                                 ![r].next = 1, ![r].ok = TRUE]
  <2>1. Opened
    BY <1>1, <1>3 DEF IInv, PhaseInv, LiveEpoch
  <2>2. purge \in Purges /\ purge.old = old /\ purge.next = old + 1
        /\ purge.seq = service.nextSeq
    BY <1>0 DEF IInv, Typed, Services, NewPurge, Purges
  <2>3. /\ service' \in Services /\ ~service'.permitted /\ ~service'.failed
        /\ ~service'.poisoned /\ service'.epoch = old
        /\ service'.readiness = "Reacquire" /\ service'.active = purge
        /\ service'.completed = NoPurge /\ service'.nextSeq = service.nextSeq + 1
    <3>1. service' = [service EXCEPT !.permitted = FALSE, !.readiness = "Reacquire",
                                     !.active = purge, !.nextSeq = service.nextSeq + 1]
      BY <1>0, <1>3 DEF BeginReacquisition
    <3>2. service \in Services /\ service.nextSeq + 1 \in Nat \ {0}
      BY DEF IInv, Typed, Services
    <3>3. service' \in Services
      BY <2>2, <3>1, <3>2, Zenon DEF Services
    <3>4. QED
      BY <2>1, <3>1, <3>2, <3>3 DEF Services, Opened
  <2>4. /\ coord' \in Coordinators /\ coord'.transition = purge
        /\ coord'.phase = "Purging" /\ coord'.err = "none"
        /\ coord'.lastPublished = coord.lastPublished
    <3>1. req[r].want \in Wants
      BY DEF IInv, Typed, Requestings
    <3>2. purge.seq \in Nat
      BY <2>2 DEF Purges
    <3>3. QED
      BY <1>1, <1>3, <2>2, <3>1, <3>2, Zenon DEF IInv, Typed, Coordinators, Phases
  <2>5. /\ req' \in [Requesters -> Requestings]
        /\ \A s \in Requesters \ {r} : req'[s] = req[s]
        /\ req'[r].purge = purge /\ req'[r].next = 1
    <3>1. req'[r] \in Requestings /\ req'[r].purge = purge /\ req'[r].next = 1
      <4>1. req \in [Requesters -> Requestings] /\ purge \in Purges
        BY <2>2 DEF IInv, Typed
      <4>2. req' = [req EXCEPT ![r].pc = "purge", ![r].purge = purge, ![r].next = 1,
                               ![r].ok = TRUE]
        BY <1>3
      <4>3. req'[r] \in Requestings
        BY <4>1, <4>2, Zenon DEF Requestings
      <4>4. req'[r].purge = purge /\ req'[r].next = 1
        BY <4>1, <4>2 DEF Requestings
      <4>5. QED
        BY <4>3, <4>4
    <3>2. QED
      BY <1>3, <3>1 DEF IInv, Typed
  <2>6. \A s \in Requesters : req[s].pc # "purge"
    BY <1>1, Zenon DEF IInv, RequestInv
  <2>7. seqr.pc \notin Keeping /\ sched.pc # "emit"
    BY <1>1, FreeMutexes
  <2>8. Typed'
    BY <1>1, <2>3, <2>4, <2>5, Zenon DEF IInv, Typed
  <2>9. Mutexes'
    BY <1>1, <2>5, RequestMutexes, Zenon
  <2>10. service.epoch # 0 /\ service.nextSeq \in Nat \ {0} /\ old \in Nat
         /\ coord.lastPublished \in Nat
    BY <2>1 DEF Opened, IInv, Typed, Services, Coordinators
  <2>11. RequestInv'
    <3>1. Purging(r)'
      BY <2>4, <2>5, SMTT(30) DEF Purging
    <3>2. \A s \in Requesters : req'[s].pc = "purge" => s = r
      BY <2>5, <2>6
    <3>3. coord'.phase = "Purging" /\ service'.epoch # 0
      BY <2>3, <2>4, <2>10
    <3>4. QED
      BY <3>1, <3>2, <3>3, Zenon DEF RequestInv
  <2>12. PhaseInv'
    BY <2>2, <2>3, <2>4, <2>10, SMTT(30) DEF PhaseInv, Moving
  <2>13. SequencerInv'
    BY <1>1, <2>7, Zenon DEF IInv, SequencerInv, Keeping
  <2>14. SchedulerInv'
    <3>1. sched'.pc # "emit" /\ emitted' = emitted /\ service'.epoch = service.epoch
      BY <1>1, <2>3, <2>7
    <3>2. emitted' <= service'.epoch
      BY <3>1 DEF IInv, SchedulerInv
    <3>3. coord'.lastPublished < service'.nextSeq
      <4>1. coord.lastPublished < service.nextSeq
        BY DEF IInv, SchedulerInv
      <4>2. QED
        BY <2>3, <2>4, <2>10, <4>1
    <3>4. QED
      BY <3>1, <3>2, <3>3, Zenon DEF SchedulerInv
  <2>15. QED
    BY <2>8, <2>9, <2>11, <2>12, <2>13, <2>14 DEF IInv
<1>4. QED
  BY <1>0, <1>2, <1>3, Zenon DEF RequestBegins, BeginsFor

(* While a request purges no activation is reserved and nothing is emitted. *)
LEMMA PurgeExcludes ==
    ASSUME IInv, NEW r \in Requesters, req[r].pc = "purge"
    PROVE  /\ coord.phase \in {"Purging", "Aborted"} /\ service.epoch # 0
           /\ seqr.pc \notin Keeping /\ sched.pc # "emit"
<1>1. coord.phase \in {"Purging", "Aborted"} /\ service.epoch # 0
  BY DEF IInv, RequestInv
<1>2. seqr.pc \notin Keeping
  BY <1>1 DEF IInv, SequencerInv, Keeping
<1>3. sched.pc # "emit"
  BY <1>1, Zenon DEF IInv, SchedulerInv, PhaseInv, Opened, Moving
<1>4. QED
  BY <1>1, <1>2, <1>3

(* The acknowledgement after the last purge preserves the invariant. *)
LEMMA RequestAcknowledgesStep ==
    ASSUME IInv, NEW r \in Requesters, RequestAcknowledges(r)
    PROVE  IInv'
<1>1. /\ UNCHANGED <<arb, permit, purged, source, clock, gate, fed, startup,
                     releases, seqr, units, sched, emitted>>
      /\ req[r].pc = "purge" /\ req[r].next \notin {1, 2}
  BY DEF RequestAcknowledges, input, release, output, Participants
<1>2. RequestTurns(r)
  <2>1. PICK ok \in BOOLEAN : Returns(r, ok)
    BY Zenon DEF RequestAcknowledges
  <2>2. QED
    BY <2>1, ReturnsTurns, Zenon
<1>3. /\ coord.phase \in {"Purging", "Aborted"} /\ service.epoch # 0
      /\ seqr.pc \notin Keeping /\ sched.pc # "emit"
  BY <1>1, PurgeExcludes
<1>4. Mutexes'
  BY <1>1, <1>2, RequestMutexes DEF RequestTurns
<1>5. CASE FailTerminal("purge")
  <2>1. Aborts
    BY <1>5, FailTerminalAborts DEF IInv, Errors
  <2>2. QED
    BY <1>1, <1>2, <1>3, <2>1, RequestAborts
<1>6. CASE UNCHANGED <<service, coord>>
  <2>1. Typed'
    BY <1>1, <1>2, <1>6 DEF IInv, Typed, RequestTurns
  <2>2. RequestInv'
    BY <1>1, <1>2, <1>6, RequestOther, Zenon DEF IInv, RequestTurns
  <2>3. QED
    BY <1>1, <1>4, <1>6, <2>1, <2>2, PhaseFrame, SequencerFrame, SchedulerFrame DEF IInv
<1>7. CASE /\ coord.phase = "Purging" /\ coord.err = "none" /\ req[r].ok
           /\ service' = AcknowledgeAll
           /\ coord' = [coord EXCEPT !.phase = "Acquiring", !.inFlight = 0]
  <2>1. /\ purged[1] = coord.transition.seq /\ purged[2] = coord.transition.seq
        /\ SchedulerReset(coord.transition.next)
    <3>1. Purging(r)
      BY <1>1, <1>7 DEF IInv, RequestInv
    <3>2. req[r].next = 3
      BY <1>1, <3>1, SMTT(30) DEF Purging
    <3>3. QED
      BY <1>7, <3>1, <3>2 DEF Purging
  <2>2. Moving /\ service.active = coord.transition
    BY <1>7 DEF IInv, PhaseInv
  <2>3. NoPurge \in Purges
    BY DEF NoPurge, Purges
  <2>4. /\ service' \in Services /\ ~service'.permitted /\ ~service'.failed
        /\ service'.poisoned = service.poisoned /\ service'.epoch = service.epoch
        /\ service'.readiness = "Acquiring" /\ service'.active = NoPurge
        /\ service'.completed = coord.transition /\ service'.nextSeq = service.nextSeq
    BY <1>7, <2>2, <2>3, Zenon DEF IInv, Typed, Services, AcknowledgeAll, Moving
  <2>5. /\ coord' \in Coordinators /\ coord'.transition = coord.transition
        /\ coord'.phase = "Acquiring" /\ coord'.err = "none"
        /\ coord'.lastPublished = coord.lastPublished
    BY <1>7, Zenon DEF IInv, Typed, Coordinators, Phases
  <2>6. Typed'
    BY <1>1, <1>2, <2>4, <2>5, Zenon DEF IInv, Typed, RequestTurns
  <2>7. RequestInv'
    BY <1>1, <1>2, Zenon DEF IInv, RequestInv, RequestTurns
  <2>8. Settled(coord.transition.seq)
    BY <2>1 DEF IInv, Typed, Settled
  <2>9. Purged'
    BY <1>1, <2>1, <2>2, <2>4, <2>5, <2>8, Zenon DEF Purged, Moving, Settled, SchedulerReset
  <2>10. PhaseInv'
    <3>1. ~service.poisoned
      BY <1>7 DEF IInv, PhaseInv
    <3>2. QED
      BY <1>3, <2>4, <2>5, <2>9, <3>1, Zenon DEF PhaseInv
  <2>11. SequencerInv'
    BY <1>1, <1>3, Zenon DEF IInv, SequencerInv, Keeping
  <2>12. SchedulerInv'
    BY <1>1, <1>3, <2>4, <2>5, Zenon DEF IInv, SchedulerInv
  <2>13. QED
    BY <1>4, <2>6, <2>7, <2>10, <2>11, <2>12 DEF IInv
<1>8. QED
  BY <1>5, <1>6, <1>7, Zenon DEF RequestAcknowledges

(* One participant is purged, or refuses and the request remembers it. *)
LEMMA RequestPurgesStep ==
    ASSUME IInv, NEW r \in Requesters, RequestPurges(r)
    PROVE  IInv'
<1>1. /\ UNCHANGED <<service, coord, arb, permit, source, clock, gate, startup, releases,
                     seqr, emitted>>
      /\ req[r].pc = "purge" /\ req[r].next \in {1, 2}
  BY DEF RequestPurges, input, Participants
<1>2. /\ coord.phase \in {"Purging", "Aborted"} /\ service.epoch # 0
      /\ seqr.pc \notin Keeping /\ sched.pc # "emit"
  BY <1>1, PurgeExcludes, Zenon
<1>3. PICK ok \in BOOLEAN :
        /\ req' = [req EXCEPT ![r].next = @ + 1, ![r].ok = req[r].ok /\ ok]
        /\ IF ok THEN PurgeParticipant(req[r].next, req[r].purge)
                 ELSE UNCHANGED <<purged, fed, units, sched>>
  BY Zenon DEF RequestPurges, PurgeOutcome
<1>4. /\ req[r] \in Requestings /\ req[r].purge \in Purges /\ req[r].next \in Nat
      /\ req[r].ok \in BOOLEAN
  BY DEF IInv, Typed, Requestings
<1>5. /\ req' \in [Requesters -> Requestings]
      /\ \A s \in Requesters \ {r} : req'[s] = req[s]
      /\ req'[r].pc = "purge" /\ req'[r].purge = req[r].purge
      /\ req'[r].next = req[r].next + 1
      /\ req'[r].ok => req[r].ok /\ ok
  <2>1. req'[r] = [req[r] EXCEPT !.next = req[r].next + 1, !.ok = req[r].ok /\ ok]
    BY <1>3 DEF IInv, Typed
  <2>2. /\ req'[r] \in Requestings /\ req'[r].pc = "purge"
        /\ req'[r].purge = req[r].purge /\ req'[r].next = req[r].next + 1
        /\ (req'[r].ok <=> req[r].ok /\ ok)
    <3> DEFINE both == req[r].ok /\ ok
               next == req[r].next + 1
    <3>1. next \in Nat /\ both \in BOOLEAN /\ (both <=> req[r].ok /\ ok)
      BY <1>4
    <3>2. req'[r] = [req[r] EXCEPT !.next = next, !.ok = both]
      BY <2>1
    <3> HIDE DEF both, next
    <3>3. /\ req'[r] \in Requestings /\ req'[r].pc = req[r].pc
          /\ req'[r].purge = req[r].purge /\ req'[r].next = next /\ req'[r].ok = both
      <4>1. PICK q, p : /\ q \in Requestings /\ q = req[r] /\ p = req'[r]
                        /\ p = [q EXCEPT !.next = next, !.ok = both]
        BY <1>4, <3>2, Zenon
      <4>2. /\ p \in Requestings /\ p.pc = q.pc /\ p.purge = q.purge
            /\ p.next = next /\ p.ok = both
        BY <3>1, <4>1, Zenon DEF Requestings
      <4>3. QED
        BY <4>1, <4>2
    <3>4. QED
      BY <1>1, <3>1, <3>3, Zenon DEF next
  <2>3. \A s \in Requesters \ {r} : req'[s] = req[s]
    BY <1>3 DEF IInv, Typed
  <2>4. req' \in [Requesters -> Requestings]
    BY <1>3, <2>2, <2>3 DEF IInv, Typed
  <2>5. QED
    BY <2>2, <2>3, <2>4, Zenon
<1>6. /\ purged' \in [{1, 2} -> Nat] /\ fed' \in [Gates -> Nat] /\ units' \subseteq Nat
      /\ sched' \in Schedulings /\ sched'.pc = sched.pc
      /\ \A p \in {1, 2} \ {req[r].next} : purged'[p] = purged[p]
      /\ ok => purged'[req[r].next] = req[r].purge.seq
      /\ ok /\ req[r].next = 2 =>
            sched'.permitted = 0 /\ sched'.pending = req[r].purge.next
  <2>1. /\ purged \in [{1, 2} -> Nat] /\ fed \in [Gates -> Nat] /\ units \subseteq Nat
        /\ sched \in Schedulings
    BY DEF IInv, Typed
  <2>2. CASE ~ok
    BY <1>3, <2>1, <2>2
  <2>3. CASE ok /\ req[r].next = 1
    <3>1. PurgeLineage(req[r].purge.old)
          /\ purged' = [purged EXCEPT ![1] = req[r].purge.seq]
      BY <1>3, <2>3 DEF PurgeParticipant, Participants
    <3>2. QED
      BY <1>4, <2>1, <2>3, <3>1, SMTT(30) DEF PurgeLineage, Purges
  <2>4. CASE ok /\ req[r].next = 2
    <3>1. PurgeScheduler(req[r].purge.old, req[r].purge.next)
          /\ purged' = [purged EXCEPT ![2] = req[r].purge.seq]
      BY <1>3, <2>4 DEF PurgeParticipant, Participants
    <3>2. req[r].purge.seq \in Nat /\ req[r].purge.next \in Nat
      BY <1>4 DEF Purges
    <3>3. /\ sched' \in Schedulings /\ sched'.pc = sched.pc
          /\ sched'.permitted = 0 /\ sched'.pending = req[r].purge.next
      BY <2>1, <3>1, <3>2, Zenon DEF PurgeScheduler, Schedulings
    <3>4. fed' = fed /\ units' \subseteq Nat
      BY <2>1, <3>1 DEF PurgeScheduler
    <3>5. QED
      BY <2>1, <2>4, <3>1, <3>2, <3>3, <3>4, Zenon
  <2>5. QED
    BY <1>1, <2>2, <2>3, <2>4, Zenon
<1>7. Typed'
  BY <1>1, <1>5, <1>6, Zenon DEF IInv, Typed
<1>8. Mutexes'
  BY <1>1, <1>5, <1>6, RequestMutexes, Zenon
<1>9. RequestInv'
  <2>1. \A s \in Requesters : req[s].pc = "purge" => s = r
    BY <1>1, Zenon DEF IInv, RequestInv
  <2>2. \A s \in Requesters : req'[s].pc = "purge" => s = r
    BY <1>5, <2>1
  <2>3. ASSUME coord.phase = "Purging" PROVE Purging(r)'
    <3>1. Purging(r)
      BY <1>1, <2>3, Zenon DEF IInv, RequestInv
    <3>2. req'[r].purge = coord'.transition /\ req'[r].next \in 1 .. 3
      BY <1>1, <1>5, <3>1, SMTT(30) DEF Purging
    <3>3. ASSUME req'[r].ok
          PROVE  /\ req'[r].next > 1 => purged'[1] = coord'.transition.seq
                 /\ req'[r].next > 2 => /\ purged'[2] = coord'.transition.seq
                                        /\ sched'.permitted = 0
                                        /\ sched'.pending = coord'.transition.next
      <4>1. /\ req[r].purge = coord.transition /\ coord' = coord
            /\ req[r].ok /\ ok /\ req'[r].next = req[r].next + 1
        BY <1>1, <1>5, <3>1, <3>3, Zenon DEF Purging
      <4>2. CASE req[r].next = 1
        <5>1. req'[r].next = 2 /\ purged'[1] = coord'.transition.seq
          BY <1>6, <4>1, <4>2, SMTT(30)
        <5>2. ~(req'[r].next > 2)
          BY <5>1
        <5>3. QED
          BY <5>1, <5>2, Zenon
      <4>3. CASE req[r].next = 2
        <5>1. /\ purged'[2] = coord'.transition.seq /\ sched'.permitted = 0
              /\ sched'.pending = coord'.transition.next
          BY <1>6, <4>1, <4>3, Zenon
        <5>2. purged'[1] = purged[1]
          BY <1>6, <4>3, SMTT(30)
        <5>3. purged[1] = coord.transition.seq
          BY <3>1, <4>1, <4>3, SMTT(30) DEF Purging
        <5>4. QED
          BY <4>1, <5>1, <5>2, <5>3, Zenon
      <4>4. QED
        BY <1>1, <4>2, <4>3, Zenon
    <3>4. QED
      BY <3>2, <3>3 DEF Purging, SchedulerReset
  <2>4. QED
    BY <1>1, <1>2, <2>2, <2>3, Zenon DEF RequestInv
<1>10. PhaseInv'
  BY <1>1, <1>2, Zenon DEF IInv, PhaseInv, Moving
<1>11. SequencerInv'
  BY <1>1, <1>2, Zenon DEF IInv, SequencerInv, Keeping
<1>12. SchedulerInv'
  BY <1>1, <1>2, <1>6, Zenon DEF IInv, SchedulerInv
<1>13. QED
  BY <1>7, <1>8, <1>9, <1>10, <1>11, <1>12 DEF IInv

(* A release that startup sends does not disturb the one the sequencer holds. *)
LEMMA AppendHead ==
    ASSUME Typed, NEW item \in Releasings, item.kind = "Initial" => item.gen # 0,
           SequencerInv, releases' = Append(releases, item)
    PROVE  /\ releases' \in Seq(Releasings) /\ releases' # << >>
           /\ releases # << >> => Head(releases') = Head(releases)
           /\ \A i \in 1 .. Len(releases') :
                 releases'[i].kind = "Initial" => releases'[i].gen # 0
<1>1. releases \in Seq(Releasings)
  BY DEF Typed
<1>2. releases' \in Seq(Releasings) /\ releases' # << >>
  BY <1>1
<1>3. releases # << >> => Head(releases') = Head(releases)
  BY <1>1
<1>4. \A i \in 1 .. Len(releases') : releases'[i].kind = "Initial" => releases'[i].gen # 0
  BY <1>1 DEF SequencerInv
<1>5. QED
  BY <1>2, <1>3, <1>4

(* A release appended at the tail leaves the head's facts alone. *)
LEMMA AppendKeeps ==
    ASSUME IInv, NEW item \in Releasings, item.kind = "Initial" => item.gen # 0,
           releases' = Append(releases, item),
           UNCHANGED <<service, coord, seqr, purged, sched>>
    PROVE  /\ releases' \in Seq(Releasings) /\ PhaseInv' /\ SequencerInv'
<1>1. /\ releases' \in Seq(Releasings) /\ releases' # << >>
      /\ releases # << >> => Head(releases') = Head(releases)
      /\ \A i \in 1 .. Len(releases') :
            releases'[i].kind = "Initial" => releases'[i].gen # 0
  BY AppendHead DEF IInv
<1>2. seqr.pc \in Holding => Head(releases') = Head(releases)
  BY <1>1 DEF IInv, SequencerInv
<1>3. PhaseInv'
  BY <1>2, Zenon DEF IInv, PhaseInv, Fresh, Moving, Purged, Opened, Opening, NextIs, Settled,
              SchedulerReset, SchedulerFollows, Holding, Keeping
<1>4. SequencerInv'
  BY <1>1, <1>2, Zenon DEF IInv, SequencerInv, Opened, Settled, SchedulerFollows, Holding, Keeping
<1>5. QED
  BY <1>1, <1>3, <1>4

(* The startup's releases preserve the invariant. *)
LEMMA StartupReleaseStep ==
    ASSUME IInv, StartupInitial \/ StartupPasses
    PROVE  IInv'
<1>1. UNCHANGED <<service, coord, arb, permit, purged, req, source, clock, gate, fed, seqr,
                  units, sched, emitted>>
  BY DEF StartupInitial, StartupPasses, input, output
<1>2. startup' \in Startings /\ \E item \in Releasings :
         (item.kind = "Initial" => item.gen # 0) /\ releases' = Append(releases, item)
  <2>1. startup \in Startings
    BY DEF IInv, Typed
  <2>2. CASE StartupInitial
    <3>1. PICK gen \in 1 .. MaxGen : Release("Initial", gen, 0)
                                     /\ startup' = [startup EXCEPT !.last = gen]
      BY <2>2 DEF StartupInitial
    <3>2. gen \in Nat /\ gen # 0
      BY <3>1, BoundsAssumption
    <3>3. [kind |-> "Initial", gen |-> gen, seq |-> 0] \in Releasings
      BY <3>2 DEF Releasings
    <3>4. startup' \in Startings
      BY <2>1, <3>1, <3>2 DEF Startings
    <3>5. QED
      BY <3>1, <3>2, <3>3, <3>4 DEF Release
  <2>3. CASE StartupPasses
    <3>1. [kind |-> "PassThrough", gen |-> startup.last, seq |-> 0] \in Releasings
      BY <2>1 DEF Releasings, Startings
    <3>2. QED
      BY <2>1, <2>3, <3>1 DEF StartupPasses, Release
  <2>4. QED
    BY <2>2, <2>3
<1>3. releases' \in Seq(Releasings) /\ PhaseInv' /\ SequencerInv'
  BY <1>1, <1>2, AppendKeeps
<1>4. Typed'
  BY <1>1, <1>2, <1>3 DEF IInv, Typed
<1>5. QED
  BY <1>1, <1>3, <1>4, SchedulerFrame, RequestFrame, MutexFrame DEF IInv

(* The startup's move to its next release preserves the invariant. *)
LEMMA StartupNextStep == ASSUME IInv, StartupNext PROVE IInv'
<1>1. UNCHANGED <<service, coord, arb, permit, purged, req, source, clock, gate, fed,
                  releases, seqr, units, sched, emitted>>
  BY DEF StartupNext, input, output
<1>2. startup' \in Startings
  <2>1. startup \in Startings /\ coord.transition \in Purges
    BY DEF IInv, Typed, Coordinators
  <2>2. \/ startup' = [startup EXCEPT !.pc = "mark", !.purge = coord.transition]
        \/ startup' = [startup EXCEPT !.pc = "failed"]
    BY DEF StartupNext
  <2>3. QED
    BY <2>1, <2>2, Zenon DEF Startings
<1>3. Typed'
  BY <1>1, <1>2 DEF IInv, Typed
<1>4. QED
  BY <1>1, <1>3, PhaseFrame, SequencerFrame, SchedulerFrame, RequestFrame, MutexFrame DEF IInv

(* Marking the group ready preserves the invariant. *)
LEMMA StartupMarksStep == ASSUME IInv, StartupMarks PROVE IInv'
<1>1. /\ UNCHANGED <<arb, permit, purged, req, source, clock, gate, fed, seqr, units, sched,
                     emitted>>
      /\ ArbFree /\ ServiceFree
  BY DEF StartupMarks, input, output
<1>2. seqr.pc \notin Keeping /\ sched.pc # "emit"
  BY <1>1, FreeMutexes
<1>3. startup \in Startings /\ startup.purge \in Purges
  BY DEF IInv, Typed, Startings
<1>4. Mutexes'
  BY <1>1, MutexFrame DEF IInv, StartupMarks, input
<1>5. CASE /\ startup' = [startup EXCEPT !.pc = "failed"]
           /\ FailTerminal("readiness") /\ UNCHANGED releases
  <2>1. Aborts
    BY <1>5, FailTerminalAborts DEF IInv, Errors
  <2>2. Typed'
    BY <1>1, <1>3, <1>5, <2>1, Zenon DEF IInv, Typed, Aborts, Startings
  <2>3. RequestInv'
    BY <1>1, <2>1, AbortKeepsRequests
  <2>4. QED
    BY <1>1, <1>2, <1>4, <1>5, <2>1, <2>2, <2>3, AbortKeeps DEF IInv
<1>6. CASE /\ coord.err = "none" /\ coord.phase = "Acquiring"
           /\ coord' = [coord EXCEPT !.phase = "ReadyForActivation"]
           /\ startup' = [startup EXCEPT !.pc = "idle", !.last = startup.purge.next]
           /\ ReleasesNext(startup.purge) /\ UNCHANGED service
  <2>1. /\ coord' \in Coordinators /\ coord'.phase = "ReadyForActivation"
        /\ coord'.err = "none" /\ coord'.transition = coord.transition
        /\ coord'.lastPublished = coord.lastPublished
    BY <1>6, Zenon DEF IInv, Typed, Coordinators, Phases
  <2>2. startup' \in Startings
    BY <1>3, <1>6, Zenon DEF Startings, Purges
  <2>3. [kind |-> "Next", gen |-> startup.purge.next, seq |-> startup.purge.seq]
           \in Releasings
    BY <1>3, Zenon DEF Releasings, Purges
  <2>4. releases' = Append(releases, [kind |-> "Next", gen |-> startup.purge.next,
                                      seq |-> startup.purge.seq])
    BY <1>6 DEF ReleasesNext, Release
  <2>5. /\ releases' \in Seq(Releasings) /\ releases' # << >>
        /\ \A i \in 1 .. Len(releases') :
              releases'[i].kind = "Initial" => releases'[i].gen # 0
    BY <2>3, <2>4, AppendHead DEF IInv
  <2>6. Typed'
    BY <1>1, <1>6, <2>1, <2>2, <2>5 DEF IInv, Typed
  <2>7. RequestInv'
    BY <1>1, <1>6 DEF IInv, RequestInv
  <2>8. Purged /\ ~service.poisoned /\ service.epoch # 0
    BY <1>6 DEF IInv, PhaseInv, Purged, Moving
  <2>9. PhaseInv'
    BY <1>1, <1>6, <2>1, <2>8, Zenon DEF PhaseInv, Purged, Moving, Settled, SchedulerReset
  <2>10. SequencerInv'
    BY <1>1, <1>2, <2>5 DEF SequencerInv, Keeping
  <2>11. SchedulerInv'
    BY <1>1, <1>2, <1>6, <2>1 DEF IInv, SchedulerInv
  <2>12. QED
    BY <1>4, <2>6, <2>7, <2>9, <2>10, <2>11 DEF IInv
<1>7. QED
  BY <1>5, <1>6 DEF StartupMarks

(* What is left when the sequencer is done with a release. *)
LEMMA TailReleases ==
    ASSUME Typed, SequencerInv, releases # << >>, releases' = Tail(releases)
    PROVE  /\ releases' \in Seq(Releasings)
           /\ \A i \in 1 .. Len(releases') :
                 releases'[i].kind = "Initial" => releases'[i].gen # 0
<1>1. releases \in Seq(Releasings)
  BY DEF Typed
<1>2. releases' \in Seq(Releasings)
  BY <1>1
<1>3. \A i \in 1 .. Len(releases') : i + 1 \in 1 .. Len(releases)
                                     /\ releases'[i] = releases[i + 1]
  BY <1>1
<1>4. QED
  BY <1>2, <1>3 DEF SequencerInv

(* The sequencer looks at a release without keeping the activation mutex:  *)
(* it goes on with it or drops it.                                         *)
SequencerMoves ==
    /\ seqr' \in Sequencings /\ seqr.pc \notin Keeping /\ seqr'.pc \notin Keeping
    /\ releases # << >>
    /\ \/ releases' = releases
       \/ releases' = Tail(releases) /\ seqr'.pc = "idle"

(* A sequencer step keeps the releases or drops the head. *)
LEMMA SequencerMovesReleases ==
    ASSUME IInv, SequencerMoves
    PROVE  /\ releases' \in Seq(Releasings)
           /\ seqr'.pc \in Holding => releases' # << >>
           /\ \A i \in 1 .. Len(releases') :
                 releases'[i].kind = "Initial" => releases'[i].gen # 0
<1>1. CASE releases' = releases
  BY <1>1 DEF IInv, Typed, SequencerInv, SequencerMoves
<1>2. CASE releases' = Tail(releases) /\ seqr'.pc = "idle"
  BY <1>2, TailReleases DEF IInv, SequencerMoves, Holding, Keeping
<1>3. QED
  BY <1>1, <1>2 DEF SequencerMoves

(* A sequencer step that changes nothing shared preserves the invariant. *)
LEMMA SequencerMovesStep ==
    ASSUME IInv, SequencerMoves,
           UNCHANGED <<service, coord, arb, permit, purged, req, source, clock, gate, fed,
                       startup, units, sched, emitted>>
    PROVE  IInv'
<1>1. /\ releases' \in Seq(Releasings)
      /\ seqr'.pc \in Holding => releases' # << >>
      /\ \A i \in 1 .. Len(releases') :
            releases'[i].kind = "Initial" => releases'[i].gen # 0
  BY SequencerMovesReleases
<1>2. Typed'
  BY <1>1, Zenon DEF IInv, Typed, SequencerMoves
<1>3. Mutexes'
  BY Zenon DEF IInv, Mutexes, SequencerMoves
<1>4. coord.phase \notin {"Activating", "Publishing"}
  BY Zenon DEF IInv, PhaseInv, SequencerMoves, Keeping
<1>5. PhaseInv'
  BY <1>4, Zenon DEF IInv, PhaseInv, Fresh, Moving, Purged, Opened, Settled, SchedulerReset,
              SchedulerFollows
<1>6. SequencerInv'
  BY <1>1, Zenon DEF SequencerInv, SequencerMoves, Keeping
<1>7. QED
  BY <1>2, <1>3, <1>5, <1>6, SchedulerFrame, RequestFrame DEF IInv

(* The sequencer's reading steps preserve the invariant. *)
LEMMA SequencerLooksStep ==
    ASSUME IInv, \/ SequencerClassifies \/ SequencerChecksCoordinator
                 \/ SequencerChecksService
    PROVE  IInv'
<1>1. seqr \in Sequencings
  BY DEF IInv, Typed
<1>2. CASE SequencerClassifies
  <2>1. \/ seqr' = [seqr EXCEPT !.pc = "idle"] /\ releases' = Tail(releases)
        \/ UNCHANGED <<seqr, releases>>
        \/ seqr' = [seqr EXCEPT !.pc = "failed"] /\ UNCHANGED releases
        \/ seqr' = [seqr EXCEPT !.pc = "reserve"] /\ UNCHANGED releases
    <3> DEFINE disposition == ClassifyRelease(Head(releases).gen)
    <3>1. disposition \in {"DropOld", "Withhold", "Reject", "Publish"}
      BY DEF ClassifyRelease
    <3>2. /\ seqr.pc = "idle"
          /\ CASE disposition = "DropOld" -> Discards
               [] disposition = "Withhold" -> UNCHANGED <<seqr, releases>>
               [] disposition = "Reject" -> SequencerGoes("failed")
               [] disposition = "Publish" ->
                    SequencerGoes(IF seqr.active = Head(releases).gen
                                  THEN "reserve" ELSE "failed")
      BY <1>2, Zenon DEF SequencerClassifies, Pending
    <3> HIDE DEF disposition
    <3>3. QED
      BY <3>1, <3>2, Zenon DEF Discards, SequencerGoes
  <2>2. seqr.pc = "idle" /\ releases # << >>
        /\ UNCHANGED <<service, coord, arb, permit, purged, req, source, clock, gate, fed,
                       startup, units, sched, emitted>>
    BY <1>2 DEF SequencerClassifies, Pending, input, output
  <2>3. SequencerMoves
    BY <1>1, <2>1, <2>2 DEF SequencerMoves, Sequencings, Keeping
  <2>4. QED
    BY <2>2, <2>3, SequencerMovesStep
<1>3. CASE SequencerChecksCoordinator
  <2>1. /\ seqr.pc = "idle" /\ releases # << >>
        /\ UNCHANGED <<service, coord, arb, permit, purged, req, source, clock, gate, fed,
                       startup, units, sched, emitted>>
        /\ \/ seqr' = [seqr EXCEPT !.pc = "check"] /\ UNCHANGED releases
           \/ seqr' = [seqr EXCEPT !.pc = "abort"] /\ UNCHANGED releases
    BY <1>3 DEF SequencerChecksCoordinator, Pending, SequencerGoes, input, output
  <2>2. SequencerMoves
    BY <1>1, <2>1 DEF SequencerMoves, Sequencings, Keeping
  <2>3. QED
    BY <2>1, <2>2, SequencerMovesStep
<1>4. CASE SequencerChecksService
  <2>1. /\ seqr.pc = "check" /\ releases # << >>
        /\ UNCHANGED <<service, coord, arb, permit, purged, req, source, clock, gate, fed,
                       startup, units, sched, emitted>>
        /\ \/ seqr' = [seqr EXCEPT !.pc = "activate"] /\ UNCHANGED releases
           \/ seqr' = [seqr EXCEPT !.pc = "abort"] /\ UNCHANGED releases
    BY <1>4 DEF SequencerChecksService, Pending, SequencerGoes, input, output
  <2>2. SequencerMoves
    BY <1>1, <2>1 DEF SequencerMoves, Sequencings, Keeping
  <2>3. QED
    BY <2>1, <2>2, SequencerMovesStep
<1>5. QED
  BY <1>2, <1>3, <1>4

(* A release is classified "Publish" only in its own epoch, with no        *)
(* transition in progress.                                                 *)
LEMMA ClassifiedPublish ==
    ASSUME IInv, NEW gen, ClassifyRelease(gen) = "Publish"
    PROVE  coord.phase = "Inactive" /\ Opened /\ gen = service.epoch
<1>1. coord.phase = "Inactive" /\ LiveEpoch /\ gen = service.epoch
  BY DEF ClassifyRelease
<1>2. Opened
  BY <1>1 DEF IInv, PhaseInv, LiveEpoch
<1>3. QED
  BY <1>1, <1>2

(* The activation mutex is taken to publish a release of the epoch.        *)
LEMMA SequencerTakesStep ==
    ASSUME IInv, seqr.pc \notin Keeping, seqr' \in Sequencings, seqr'.pc = "commit",
           arb' = Sequencer, releases # << >>,
           coord.phase = "Inactive", Opened, Head(releases).gen = service.epoch,
           UNCHANGED <<service, coord, permit, purged, req, source, clock, gate, fed,
                       startup, releases, units, sched, emitted>>
    PROVE  IInv'
<1>1. Typed'
  BY Zenon DEF IInv, Typed
<1>2. Mutexes'
  BY Zenon DEF IInv, Mutexes, Keeping
<1>3. PhaseInv'
  BY Zenon DEF IInv, PhaseInv, Fresh, Opened, Settled, SchedulerReset, SchedulerFollows
<1>4. SequencerInv'
  BY Zenon DEF IInv, SequencerInv, Opened, Settled, SchedulerFollows
<1>5. QED
  BY <1>1, <1>2, <1>3, <1>4, SchedulerFrame, RequestFrame, Zenon DEF IInv

(* Publishing the first epoch's release preserves the invariant. *)
LEMMA SequencerPublishesInitialStep ==
    ASSUME IInv, SequencerPublishesInitial
    PROVE  IInv'
<1> DEFINE gen == Head(releases).gen
<1>1. /\ UNCHANGED <<service, coord, permit, purged, req, source, clock, gate, fed, startup,
                     releases, units, sched, emitted>>
      /\ seqr.pc = "publish" /\ releases # << >>
  BY DEF SequencerPublishesInitial, Pending, input, output
<1>2. seqr \in Sequencings /\ gen \in Nat
  <2>1. Head(releases) \in Releasings
    BY <1>1, HeadTail DEF IInv, Typed
  <2>2. QED
    BY <2>1 DEF Releasings, IInv, Typed
<1>3. CASE /\ ClassifyRelease(gen) = "Publish"
           /\ seqr' = [pc |-> "commit", active |-> gen] /\ arb' = Sequencer
  <2>1. seqr' \in Sequencings /\ seqr'.pc = "commit"
    BY <1>2, <1>3 DEF Sequencings
  <2>2. coord.phase = "Inactive" /\ Opened /\ gen = service.epoch
    BY <1>3, ClassifiedPublish, Zenon
  <2>3. seqr.pc \notin Keeping
    BY <1>1 DEF Keeping
  <2>4. QED
    BY <1>1, <1>3, <2>1, <2>2, <2>3, SequencerTakesStep, Zenon
<1>4. CASE seqr' = [seqr EXCEPT !.pc = "abort"] /\ UNCHANGED arb
  <2>1. SequencerMoves
    BY <1>1, <1>2, <1>4 DEF SequencerMoves, Sequencings, Keeping
  <2>2. QED
    BY <1>1, <1>4, <2>1, SequencerMovesStep
<1>5. QED
  BY <1>3, <1>4 DEF SequencerPublishesInitial

(* Taking the arbiter for a release preserves the invariant. *)
LEMMA SequencerReservesStep == ASSUME IInv, SequencerReserves PROVE IInv'
<1> DEFINE disposition == ClassifyRelease(Head(releases).gen)
<1>1. /\ UNCHANGED <<service, coord, permit, purged, req, source, clock, gate, fed, startup,
                     units, sched, emitted>>
      /\ seqr.pc = "reserve" /\ releases # << >>
  BY DEF SequencerReserves, Pending, input, output
<1>2. seqr \in Sequencings
  BY DEF IInv, Typed
<1>3. disposition \in {"DropOld", "Withhold", "Reject", "Publish"}
  BY DEF ClassifyRelease
<1>4. /\ arb' = KeptBy(disposition)
      /\ CASE disposition = "DropOld" -> Discards
           [] disposition = "Withhold" -> SequencerGoes("idle")
           [] disposition = "Reject" -> SequencerGoes("failed")
           [] disposition = "Publish" -> SequencerGoes("commit")
  BY Zenon DEF SequencerReserves
<1>5. CASE disposition = "Publish"
  <2>1. coord.phase = "Inactive" /\ Opened /\ Head(releases).gen = service.epoch
    BY <1>5, ClassifiedPublish
  <2> HIDE DEF disposition
  <2>2. SequencerGoes("commit") /\ arb' = Sequencer
    BY <1>4, <1>5 DEF KeptBy
  <2>3. seqr' \in Sequencings /\ seqr'.pc = "commit" /\ releases' = releases
    BY <1>2, <2>2 DEF Sequencings, SequencerGoes
  <2>4. seqr.pc \notin Keeping
    BY <1>1 DEF Keeping
  <2>5. QED
    BY <1>1, <2>1, <2>2, <2>3, <2>4, SequencerTakesStep, Zenon
<1>6. CASE disposition # "Publish"
  <2> HIDE DEF disposition
  <2>1. /\ arb' = arb
        /\ Discards \/ SequencerGoes("idle") \/ SequencerGoes("failed")
    BY <1>3, <1>4, <1>6, Zenon DEF KeptBy
  <2>2. SequencerMoves
    BY <1>1, <1>2, <2>1 DEF SequencerMoves, Sequencings, Keeping, Discards, SequencerGoes
  <2>3. QED
    BY <1>1, <2>1, <2>2, SequencerMovesStep
<1>7. QED
  BY <1>5, <1>6

(* commitReserved: the release joins the media in front of the scheduler.  *)
LEMMA SequencerCommitsStep == ASSUME IInv, SequencerCommits PROVE IInv'
<1>1. /\ UNCHANGED <<service, coord, permit, purged, req, source, clock, gate, fed, startup,
                     sched, emitted>>
      /\ seqr.pc = "commit" /\ arb' = Free
      /\ seqr' = [seqr EXCEPT !.pc = "idle"] /\ releases' = Tail(releases)
      /\ units' = units \cup {Head(releases).gen}
  BY DEF SequencerCommits, Discards, input
<1>2. releases # << >> /\ coord.phase = "Inactive" /\ Opened
  BY <1>1 DEF IInv, SequencerInv, Holding, Keeping
<1>3. Head(releases).gen \in Nat
  <2>1. Head(releases) \in Releasings
    BY <1>2, HeadTail DEF IInv, Typed
  <2>2. QED
    BY <2>1 DEF Releasings
<1>4. /\ releases' \in Seq(Releasings)
      /\ \A i \in 1 .. Len(releases') :
            releases'[i].kind = "Initial" => releases'[i].gen # 0
  BY <1>1, <1>2, TailReleases DEF IInv
<1>5. seqr' \in Sequencings /\ seqr'.pc = "idle"
  BY <1>1, Zenon DEF IInv, Typed, Sequencings
<1>6. Typed'
  BY <1>1, <1>3, <1>4, <1>5 DEF IInv, Typed
<1>7. Mutexes'
  BY <1>1, <1>5 DEF IInv, Mutexes, Keeping
<1>8. PhaseInv'
  BY <1>1, <1>2 DEF IInv, PhaseInv, Fresh, Opened, Settled, SchedulerReset, SchedulerFollows
<1>9. SequencerInv'
  BY <1>4, <1>5 DEF SequencerInv, Holding, Keeping
<1>10. QED
  BY <1>1, <1>6, <1>7, <1>8, <1>9, SchedulerFrame, RequestFrame DEF IInv

(* The first epoch. *)
LEMMA SequencerActivatesInitialStep ==
    ASSUME IInv, SequencerActivatesInitial
    PROVE  IInv'
<1>1. /\ UNCHANGED <<coord, arb, permit, purged, req, source, clock, gate, fed, startup,
                     units, sched, emitted, releases>>
      /\ seqr.pc = "idle" /\ releases # << >> /\ Head(releases).kind = "Initial"
      /\ ServiceFree
  BY DEF SequencerActivatesInitial, Pending, SequencerGoes, input, output
<1>2. seqr \in Sequencings /\ service \in Services /\ coord \in Coordinators
  BY DEF IInv, Typed
<1>3. CASE SequencerGoes("failed") /\ UNCHANGED service
  <2>1. SequencerMoves
    BY <1>1, <1>2, <1>3 DEF SequencerMoves, Sequencings, Keeping, SequencerGoes
  <2>2. QED
    BY <1>1, <1>3, <2>1, SequencerMovesStep
<1>4. CASE /\ CanActivateInitial /\ SequencerGoes("publish")
           /\ service' = ActivateInitial(Head(releases).gen)
  <2>1. Head(releases).gen \in Nat \ {0}
    <3>1. Head(releases) \in Releasings
      BY <1>1, HeadTail DEF IInv, Typed
    <3>2. Head(releases).gen # 0
      BY <1>1, SMTT(30) DEF IInv, Typed, SequencerInv
    <3>3. QED
      BY <3>1, <3>2 DEF Releasings
  <2>2. /\ Fresh /\ coord.phase = "Inactive" /\ coord.err = "none"
        /\ service.active = NoPurge /\ service.completed = NoPurge
        /\ ~service.failed /\ ~service.poisoned
    BY <1>4, Zenon DEF CanActivateInitial, IInv, PhaseInv, Opened
  <2>3. /\ service' \in Services /\ service'.epoch = Head(releases).gen
        /\ service'.current = Head(releases).gen /\ service'.permitted
        /\ service'.readiness = "Locked" /\ service'.nextSeq = service.nextSeq
        /\ service'.active = NoPurge /\ service'.completed = NoPurge
        /\ ~service'.failed /\ ~service'.poisoned
    BY <1>2, <1>4, <2>1, <2>2, Zenon DEF ActivateInitial, Services
  <2>4. seqr' \in Sequencings /\ seqr'.pc = "publish"
    BY <1>2, <1>4 DEF SequencerGoes, Sequencings
  <2>5. Typed'
    BY <1>1, <2>3, <2>4, Zenon DEF IInv, Typed
  <2>6. Mutexes'
    BY <1>1, <2>4, Zenon DEF IInv, Mutexes, Keeping
  <2>7. RequestInv'
    BY <1>1, <2>2, Zenon DEF IInv, RequestInv
  <2>8. Opened'
    <3>1. SchedulerFollows'
      BY <1>1, <2>2, <2>3, Zenon DEF Fresh, SchedulerFollows, SchedulerReset
    <3>2. service'.nextSeq - 1 = 0 /\ service'.epoch # 0
      BY <2>1, <2>2, <2>3 DEF Fresh
    <3>3. Settled(service.nextSeq - 1)'
      BY <1>1, <2>2, <3>2, Zenon DEF Fresh, Settled
    <3>4. QED
      BY <2>3, <3>1, <3>2, <3>3, Zenon DEF Opened
  <2>9. PhaseInv'
    BY <1>1, <2>1, <2>2, <2>3, <2>8, Zenon DEF PhaseInv
  <2>10. SequencerInv'
    BY <1>1, <2>4, Zenon DEF IInv, SequencerInv, Keeping
  <2>11. SchedulerInv'
    <3>1. sched.pc # "emit"
      BY <1>1, FreeMutexes
    <3>2. service.epoch = 0
      BY <1>4 DEF CanActivateInitial
    <3>3. emitted = 0
      BY <3>2 DEF IInv, SchedulerInv, Typed
    <3>4. sched'.pc # "emit" /\ emitted' = 0
      BY <1>1, <3>1, <3>3
    <3>5. emitted' <= service'.epoch
      BY <2>1, <2>3, <3>4
    <3>6. coord'.lastPublished < service'.nextSeq
      BY <1>1, <2>3 DEF IInv, SchedulerInv
    <3>7. QED
      BY <3>4, <3>5, <3>6, Zenon DEF SchedulerInv
  <2>12. QED
    BY <2>5, <2>6, <2>7, <2>9, <2>10, <2>11 DEF IInv
<1>5. QED
  BY <1>3, <1>4 DEF SequencerActivatesInitial

(* reserveActivation: from here to the commit the activation mutex is kept. *)
LEMMA SequencerReservesActivationStep ==
    ASSUME IInv, SequencerReservesActivation
    PROVE  IInv'
<1>1. /\ UNCHANGED <<permit, purged, req, source, clock, gate, fed, startup, units, sched,
                     emitted, releases>>
      /\ seqr.pc = "activate" /\ releases # << >> /\ ArbFree /\ ServiceFree
  BY DEF SequencerReservesActivation, Pending, SequencerGoes, input, output
<1>2. seqr \in Sequencings /\ coord \in Coordinators
      /\ seqr.pc \notin Keeping /\ sched.pc # "emit"
  BY <1>1, FreeMutexes, Zenon DEF IInv, Typed
<1>3. CASE FailTerminal("reservation") /\ SequencerGoes("abort") /\ UNCHANGED arb
  <2>1. Aborts
    BY <1>3, FailTerminalAborts DEF IInv, Errors
  <2>2. seqr' \in Sequencings /\ seqr'.pc = "abort"
    BY <1>2, <1>3 DEF SequencerGoes, Sequencings
  <2>3. Typed'
    BY <1>1, <2>1, <2>2, Zenon DEF IInv, Typed, Aborts
  <2>4. Mutexes'
    BY <1>1, <1>2, <1>3, <2>2, Zenon DEF IInv, Mutexes, Keeping
  <2>5. RequestInv'
    BY <1>1, <2>1, AbortKeepsRequests
  <2>6. PhaseInv' /\ SequencerInv' /\ SchedulerInv'
    BY <1>1, <1>2, <2>1, <2>2, AbortKeeps DEF Keeping, Holding
  <2>7. QED
    BY <2>3, <2>4, <2>5, <2>6 DEF IInv
<1>4. CASE /\ coord.err = "none" /\ coord.phase = "ReadyForActivation"
           /\ MatchesTransition(Head(releases).gen, Head(releases).seq)
           /\ coord' = [coord EXCEPT !.phase = "Activating"]
           /\ arb' = Sequencer /\ SequencerGoes("activateNext") /\ UNCHANGED service
  <2>1. /\ coord' \in Coordinators /\ coord'.phase = "Activating" /\ coord'.err = "none"
        /\ coord'.transition = coord.transition
        /\ coord'.lastPublished = coord.lastPublished
    BY <1>2, <1>4 DEF Coordinators, Phases
  <2>2. seqr' \in Sequencings /\ seqr'.pc = "activateNext"
    BY <1>2, <1>4 DEF SequencerGoes, Sequencings
  <2>3. Purged /\ NextIs /\ ~service.poisoned /\ service.epoch # 0
    BY <1>4 DEF IInv, PhaseInv, MatchesTransition, NextIs, Purged, Moving
  <2>4. Typed'
    BY <1>1, <1>4, <2>1, <2>2 DEF IInv, Typed
  <2>5. Mutexes'
    BY <1>1, <1>4, <2>2 DEF IInv, Mutexes, Keeping
  <2>6. RequestInv'
    BY <1>1, <1>4 DEF IInv, RequestInv
  <2>7. PhaseInv'
    BY <1>1, <1>4, <2>1, <2>2, <2>3, Zenon
       DEF PhaseInv, Purged, Moving, Settled, SchedulerReset, NextIs
  <2>8. SequencerInv'
    BY <1>1, <2>1, <2>2, Zenon DEF IInv, SequencerInv
  <2>9. SchedulerInv'
    BY <1>1, <1>2, <1>4, <2>1 DEF IInv, SchedulerInv
  <2>10. QED
    BY <2>4, <2>5, <2>6, <2>7, <2>8, <2>9 DEF IInv
<1>5. QED
  BY <1>3, <1>4 DEF SequencerReservesActivation

(* With the activation reserved every check of the sequencer succeeds. *)
LEMMA ReservedSucceeds ==
    ASSUME IInv
    PROVE  LET next == Head(releases) IN
           /\ seqr.pc = "activateNext" => /\ CanActivateNext(next.gen, next.seq)
                                          /\ coord.phase = "Activating"
                                          /\ Purged /\ NextIs
           /\ seqr.pc = "authorize" =>
                 /\ coord.err = "none" /\ coord.phase = "Activating"
                 /\ MatchesTransition(next.gen, next.seq)
                 /\ LiveEpoch /\ service.epoch = next.gen /\ Opening
           /\ seqr.pc = "finalize" =>
                 /\ coord.phase = "Publishing" /\ MatchesTransition(next.gen, next.seq)
                 /\ Opening
<1>1. CASE seqr.pc = "activateNext"
  <2>1. coord.phase = "Activating" /\ Purged /\ NextIs /\ ~service.poisoned
    BY <1>1, Zenon DEF IInv, SequencerInv, PhaseInv
  <2>2. CanActivateNext(Head(releases).gen, Head(releases).seq)
    <3>1. Head(releases).gen > service.epoch
      <4>1. service.epoch \in Nat
        BY DEF IInv, Typed, Services
      <4>2. Head(releases).gen = service.epoch + 1
        BY <2>1 DEF Purged, Moving, NextIs
      <4>3. QED
        BY <4>1, <4>2
    <3>2. QED
      BY <2>1, <3>1, Zenon DEF Purged, Moving, NextIs, CanActivateNext
  <2>3. QED
    BY <1>1, <2>1, <2>2, Zenon
<1>2. CASE seqr.pc = "authorize"
  <2>1. coord.phase = "Activating" /\ coord.err = "none" /\ Opening
    BY <1>2, Zenon DEF IInv, SequencerInv, PhaseInv
  <2>2. coord.transition # NoPurge
    <3>1. NoPurge.seq = 0
      BY DEF NoPurge
    <3>2. QED
      BY <2>1, <3>1, Zenon DEF Opening
  <2>3. QED
    BY <1>2, <2>1, <2>2, Zenon
       DEF Opening, Opened, NextIs, MatchesTransition, LiveEpoch, OutputPermitted
<1>3. CASE seqr.pc = "finalize"
  <2>1. coord.phase = "Publishing" /\ Opening
    BY <1>3, Zenon DEF IInv, SequencerInv, PhaseInv
  <2>2. coord.transition # NoPurge
    <3>1. NoPurge.seq = 0
      BY DEF NoPurge
    <3>2. QED
      BY <2>1, <3>1, Zenon DEF Opening
  <2>3. QED
    BY <1>3, <2>1, <2>2, Zenon DEF Opening, NextIs, MatchesTransition
<1>4. QED
  BY <1>1, <1>2, <1>3, Zenon

(* Activating the next epoch cannot fail here, and opens it. *)
LEMMA SequencerActivatesNextStep ==
    ASSUME IInv, SequencerActivatesNext
    PROVE  IInv' /\ seqr'.pc = "authorize"
<1> DEFINE gen == Head(releases).gen
<1>1. /\ UNCHANGED <<permit, purged, req, source, clock, gate, fed, startup, units, sched,
                     emitted>>
      /\ seqr.pc = "activateNext" /\ ServiceFree
  BY DEF SequencerActivatesNext, input, output
<1>2. coord.phase = "Activating" /\ Purged /\ NextIs
  BY <1>1, ReservedSucceeds, Zenon
<1>3. /\ service' = ActivateNext(gen) /\ SequencerGoes("authorize")
      /\ UNCHANGED <<coord, arb>>
  BY <1>1, ReservedSucceeds, Zenon DEF SequencerActivatesNext
<1>4. /\ gen = coord.transition.next /\ gen \in Nat
      /\ gen = service.epoch + 1 /\ service.epoch \in Nat
  BY <1>2, Zenon DEF NextIs, Purged, Moving, IInv, Typed, Coordinators, Purges, Services
<1>5. ~service.poisoned /\ ~service.failed /\ coord.err = "none"
  BY <1>2, Zenon DEF IInv, PhaseInv, Purged, Moving
<1>6. NoPurge \in Purges
  BY DEF NoPurge, Purges
<1>7. /\ service' \in Services /\ service'.epoch = gen /\ service'.current = gen
      /\ service'.permitted /\ service'.readiness = "Locked"
      /\ service'.nextSeq = service.nextSeq
      /\ service'.active = NoPurge /\ service'.completed = NoPurge
      /\ ~service'.failed /\ ~service'.poisoned
  <2>1. service \in Services /\ service.active = NoPurge
    BY <1>2, Zenon DEF IInv, Typed, Purged
  <2>2. QED
    BY <1>3, <1>4, <1>5, <1>6, <2>1, Zenon DEF ActivateNext, Services
<1>8. seqr' \in Sequencings /\ seqr'.pc = "authorize" /\ releases' = releases
  BY <1>3, Zenon DEF SequencerGoes, Sequencings, IInv, Typed
<1>9. Typed'
  BY <1>1, <1>3, <1>7, <1>8, Zenon DEF IInv, Typed
<1>10. Mutexes'
  BY <1>1, <1>3, <1>8, Zenon DEF IInv, Mutexes, Keeping
<1>11. RequestInv'
  BY <1>1, <1>2, <1>3, Zenon DEF IInv, RequestInv
<1>12. Opened'
  <2>1. SchedulerFollows'
    BY <1>1, <1>2, <1>4, <1>7, Zenon DEF Purged, SchedulerReset, SchedulerFollows
  <2>2. service.nextSeq - 1 = coord.transition.seq
    BY <1>2, Zenon DEF Purged, Moving, IInv, Typed, Coordinators, Purges, Services
  <2>3. Settled(service.nextSeq - 1)'
    BY <1>1, <1>2, <1>7, <2>2, Zenon DEF Purged, Settled
  <2>4. service'.epoch # 0
    BY <1>4, <1>7, SMTT(30)
  <2>5. QED
    BY <1>7, <2>1, <2>3, <2>4, Zenon DEF Opened
<1>13. Opening'
  BY <1>2, <1>3, <1>4, <1>7, <1>8, <1>12, Zenon DEF Opening, NextIs, Purged, Moving
<1>14. PhaseInv'
  <2>1. service'.epoch # 0 /\ coord' = coord
    BY <1>3, <1>4, <1>7, SMTT(30)
  <2>2. QED
    BY <1>2, <1>5, <1>7, <1>8, <1>13, <2>1, Zenon DEF PhaseInv
<1>15. SequencerInv'
  BY <1>2, <1>3, <1>8, <1>1, Zenon DEF IInv, SequencerInv, Holding, Keeping
<1>16. SchedulerInv'
  <2>1. sched.pc # "emit"
    BY <1>1, FreeMutexes
  <2>2. sched'.pc # "emit" /\ emitted' = emitted /\ coord' = coord
    BY <1>1, <1>3, <2>1
  <2>3. emitted' <= service'.epoch
    BY <1>4, <1>7, <2>2, SMTT(30) DEF IInv, SchedulerInv, Typed
  <2>4. coord'.lastPublished < service'.nextSeq
    BY <1>7, <2>2, Zenon DEF IInv, SchedulerInv
  <2>5. QED
    BY <2>2, <2>3, <2>4 DEF SchedulerInv
<1>17. QED
  BY <1>8, <1>9, <1>10, <1>11, <1>14, <1>15, <1>16 DEF IInv

(* Authorising the publication cannot fail here. *)
LEMMA SequencerAuthorizesStep ==
    ASSUME IInv, SequencerAuthorizes
    PROVE  IInv' /\ seqr'.pc = "finalize"
<1>1. /\ UNCHANGED <<permit, purged, req, source, clock, gate, fed, startup, units, sched,
                     emitted>>
      /\ seqr.pc = "authorize"
  BY DEF SequencerAuthorizes, input, output
<1>2. coord.err = "none" /\ coord.phase = "Activating" /\ Opening
  BY <1>1, ReservedSucceeds, Zenon
<1>3. /\ coord' = [coord EXCEPT !.phase = "Publishing"] /\ SequencerGoes("finalize")
      /\ UNCHANGED <<service, arb>>
  BY <1>1, ReservedSucceeds DEF SequencerAuthorizes
<1>4. /\ coord' \in Coordinators /\ coord'.phase = "Publishing" /\ coord'.err = "none"
      /\ coord'.transition = coord.transition
      /\ coord'.lastPublished = coord.lastPublished
  BY <1>2, <1>3, Zenon DEF IInv, Typed, Coordinators, Phases
<1>5. seqr' \in Sequencings /\ seqr'.pc = "finalize" /\ releases' = releases
  BY <1>3, Zenon DEF SequencerGoes, Sequencings, IInv, Typed
<1>6. Typed'
  BY <1>1, <1>3, <1>4, <1>5 DEF IInv, Typed
<1>7. Mutexes'
  BY <1>1, <1>3, <1>5 DEF IInv, Mutexes, Keeping
<1>8. RequestInv'
  BY <1>1, <1>2, Zenon DEF IInv, RequestInv
<1>9. Opened'
  BY <1>1, <1>2, <1>3 DEF Opening, Opened, Settled, SchedulerFollows
<1>10. Opening'
  BY <1>2, <1>3, <1>4, <1>5, <1>9, Zenon DEF Opening, NextIs
<1>11. PhaseInv'
  BY <1>2, <1>3, <1>4, <1>5, <1>9, <1>10 DEF PhaseInv, Opened
<1>12. SequencerInv'
  BY <1>1, <1>4, <1>5, Zenon DEF IInv, SequencerInv, Holding, Keeping
<1>13. SchedulerInv'
  BY <1>1, <1>3, <1>4, <1>9 DEF IInv, SchedulerInv
<1>14. QED
  BY <1>5, <1>6, <1>7, <1>8, <1>11, <1>12, <1>13 DEF IInv

(* Finalising the publication cannot fail here, and moves it forward. *)
LEMMA SequencerFinalizesStep ==
    ASSUME IInv, SequencerFinalizes
    PROVE  IInv' /\ seqr'.pc = "commit" /\ coord'.lastPublished >= coord.lastPublished
<1> DEFINE next == Head(releases)
<1>1. /\ UNCHANGED <<permit, purged, req, source, clock, gate, fed, startup, units, sched,
                     emitted>>
      /\ seqr.pc = "finalize"
  BY DEF SequencerFinalizes, input, output
<1>2. coord.phase = "Publishing" /\ Opening
  BY <1>1, ReservedSucceeds, Zenon
<1>3. /\ coord' = [coord EXCEPT !.phase = "Inactive", !.lastPublished = next.seq,
                     !.request = NoRequest, !.transition = NoPurge, !.inFlight = 0]
      /\ seqr' = [pc |-> "commit", active |-> next.gen]
      /\ UNCHANGED <<service, arb, releases>>
  BY <1>1, ReservedSucceeds DEF SequencerFinalizes
<1>4. /\ next.gen = service.epoch /\ next.seq = service.nextSeq - 1
      /\ service.epoch \in Nat /\ service.nextSeq \in Nat /\ next.seq \in Nat
  BY <1>2, Zenon DEF Opening, NextIs, IInv, Typed, Services, Coordinators, Purges
<1>5. /\ coord' \in Coordinators /\ coord'.phase = "Inactive" /\ coord'.err = "none"
      /\ coord'.lastPublished = next.seq
  <2>1. NoPurge \in Purges /\ NoRequest \in Wants
    BY DEF NoPurge, Purges, NoRequest, Wants
  <2>2. coord \in Coordinators /\ coord.err = "none"
    BY <1>2, Zenon DEF IInv, Typed, PhaseInv
  <2> HIDE DEF next
  <2>3. QED
    BY <1>3, <1>4, <2>1, <2>2, Zenon DEF Coordinators, Phases
<1>6. seqr' \in Sequencings /\ seqr'.pc = "commit"
  BY <1>3, <1>4 DEF Sequencings
<1>7. Typed'
  BY <1>1, <1>3, <1>5, <1>6 DEF IInv, Typed
<1>8. Mutexes'
  BY <1>1, <1>3, <1>6 DEF IInv, Mutexes, Keeping
<1>9. RequestInv'
  BY <1>1, <1>2, Zenon DEF IInv, RequestInv
<1>10. Opened'
  BY <1>1, <1>2, <1>3 DEF Opening, Opened, Settled, SchedulerFollows
<1>11. PhaseInv'
  BY <1>2, <1>5, <1>10, Zenon DEF PhaseInv, Opened
<1>12. SequencerInv'
  BY <1>1, <1>3, <1>4, <1>5, <1>6, <1>10 DEF IInv, SequencerInv, Holding, Keeping
<1>13. SchedulerInv'
  BY <1>1, <1>3, <1>4, <1>5, <1>10 DEF IInv, SchedulerInv
<1>14. coord'.lastPublished >= coord.lastPublished
  BY <1>4, <1>5, SMTT(30) DEF IInv, SchedulerInv, Typed, Coordinators
<1>15. QED
  BY <1>6, <1>7, <1>8, <1>9, <1>11, <1>12, <1>13, <1>14 DEF IInv

(* The sequencer's abort preserves the invariant. *)
LEMMA SequencerAbortsStep == ASSUME IInv, SequencerAborts PROVE IInv'
<1>1. /\ UNCHANGED <<arb, permit, purged, req, source, clock, gate, fed, startup, units,
                     sched, emitted, releases>>
      /\ seqr.pc = "abort" /\ ServiceFree
      /\ Abort /\ SequencerGoes("failed")
  BY DEF SequencerAborts, SequencerGoes, input, output
<1>2. Aborts
  BY <1>1, AbortAborts DEF IInv
<1>3. seqr' \in Sequencings /\ seqr'.pc = "failed" /\ sched.pc # "emit"
  BY <1>1, FreeMutexes, Zenon DEF SequencerGoes, Sequencings, IInv, Typed
<1>4. Typed'
  BY <1>1, <1>2, <1>3, Zenon DEF IInv, Typed, Aborts
<1>5. Mutexes'
  BY <1>1, <1>3, Zenon DEF IInv, Mutexes, Keeping
<1>6. RequestInv'
  BY <1>1, <1>2, AbortKeepsRequests, Zenon
<1>7. PhaseInv' /\ SequencerInv' /\ SchedulerInv'
  BY <1>1, <1>2, <1>3, AbortKeeps DEF Keeping, Holding
<1>8. QED
  BY <1>4, <1>5, <1>6, <1>7 DEF IInv

(* An open permit belongs to an epoch with no transition before its activation. *)
LEMMA LiveIsOpened ==
    ASSUME IInv, LiveEpoch
    PROVE  Opened /\ coord.phase \in {"Inactive", "Activating", "Publishing"}
<1>1. coord.phase \in Phases
  BY DEF IInv, Typed, Coordinators
<1>2. QED
  BY <1>1, Zenon DEF IInv, PhaseInv, Phases, LiveEpoch, OutputPermitted, Moving, Purged, Opening

(* The scheduler moves on and keeps its output generation state. *)
LEMMA SchedulerKeeps ==
    ASSUME IInv, UNCHANGED <<service, coord, seqr, releases, purged>>,
           sched'.permitted = sched.permitted, sched'.pending = sched.pending
    PROVE  /\ PhaseInv' /\ SequencerInv' /\ (Opened => Opened')
           /\ (UNCHANGED req => RequestInv')
<1>1. Opened => Opened'
  BY Zenon DEF Opened, Settled, SchedulerFollows
<1>2. PhaseInv'
  BY <1>1, Zenon DEF IInv, PhaseInv, Fresh, Moving, Purged, Opening, NextIs, Settled, SchedulerReset
<1>3. SequencerInv'
  BY <1>1, Zenon DEF IInv, SequencerInv
<1>4. UNCHANGED req => RequestInv'
  BY Zenon DEF IInv, RequestInv, Purging, SchedulerReset
<1>5. QED
  BY <1>1, <1>2, <1>3, <1>4, Zenon

(* The scheduler's look at the service preserves the invariant. *)
LEMMA SchedulerRefreshesStep == ASSUME IInv, SchedulerRefreshes PROVE IInv'
<1>1. /\ UNCHANGED <<service, coord, arb, permit, purged, req, source, clock, gate, fed,
                     startup, releases, seqr, units, emitted>>
      /\ sched.pc = "idle"
      /\ sched' = [sched EXCEPT !.pc = "configure", !.fresh = TRUE]
  BY DEF SchedulerRefreshes, input, release
<1>2. /\ sched' \in Schedulings /\ sched'.pc = "configure"
      /\ sched'.permitted = sched.permitted /\ sched'.pending = sched.pending
  BY <1>1, Zenon DEF IInv, Typed, Schedulings
<1>3. Typed'
  BY <1>1, <1>2 DEF IInv, Typed
<1>4. Mutexes'
  BY <1>1, <1>2 DEF IInv, Mutexes
<1>5. PhaseInv' /\ SequencerInv' /\ RequestInv'
  BY <1>1, <1>2, SchedulerKeeps
<1>6. SchedulerInv'
  BY <1>1, <1>2 DEF IInv, SchedulerInv
<1>7. QED
  BY <1>3, <1>4, <1>5, <1>6 DEF IInv

(* permitAuthorityActivation: the scheduler takes up the open epoch.       *)
LEMMA SchedulerConfiguresStep == ASSUME IInv, SchedulerConfigures PROVE IInv'
<1>1. /\ UNCHANGED <<service, coord, arb, permit, purged, req, source, clock, gate, fed,
                     startup, releases, seqr, units, emitted>>
      /\ sched.pc = "configure"
  BY DEF SchedulerConfigures, input, release
<1>2. sched \in Schedulings /\ service.epoch \in Nat
  BY DEF IInv, Typed, Services
<1>3. CASE sched' = [sched EXCEPT !.pc = "failed"]
  <2>1. /\ sched' \in Schedulings /\ sched'.pc = "failed"
        /\ sched'.permitted = sched.permitted /\ sched'.pending = sched.pending
    BY <1>2, <1>3 DEF Schedulings
  <2>2. Typed'
    BY <1>1, <2>1, Zenon DEF IInv, Typed
  <2>3. Mutexes'
    BY <1>1, <2>1, Zenon DEF IInv, Mutexes
  <2>4. PhaseInv' /\ SequencerInv' /\ RequestInv'
    BY <1>1, <2>1, SchedulerKeeps, Zenon
  <2>5. SchedulerInv'
    BY <1>1, <2>1, Zenon DEF IInv, SchedulerInv
  <2>6. QED
    BY <2>2, <2>3, <2>4, <2>5 DEF IInv
<1>4. CASE /\ CanCommit(service.epoch)
           /\ sched' = [sched EXCEPT !.pc = "idle", !.permitted = service.epoch,
                    !.pending = 0, !.gen = IF sched.fresh THEN service.epoch ELSE 0]
  <2>1. Opened /\ coord.phase \in {"Inactive", "Activating", "Publishing"}
    BY <1>4, LiveIsOpened DEF CanCommit, LiveEpoch
  <2>2. /\ sched' \in Schedulings /\ sched'.pc = "idle"
        /\ sched'.permitted = service.epoch /\ sched'.pending = 0
    BY <1>2, <1>4, Zenon DEF Schedulings
  <2>3. Typed'
    BY <1>1, <2>2, Zenon DEF IInv, Typed
  <2>4. Mutexes'
    BY <1>1, <2>2, Zenon DEF IInv, Mutexes
  <2>5. RequestInv'
    BY <1>1, <2>1, Zenon DEF IInv, RequestInv
  <2>6. Opened'
    BY <1>1, <2>1, <2>2, Zenon DEF Opened, Settled, SchedulerFollows
  <2>7. PhaseInv'
    BY <1>1, <2>1, <2>6, Zenon DEF IInv, PhaseInv, Purged, Moving, Opened, Opening, NextIs
  <2>8. SequencerInv'
    BY <1>1, <2>6, Zenon DEF IInv, SequencerInv
  <2>9. SchedulerInv'
    BY <1>1, <2>2 DEF IInv, SchedulerInv
  <2>10. QED
    BY <2>3, <2>4, <2>5, <2>7, <2>8, <2>9 DEF IInv
<1>5. QED
  BY <1>3, <1>4 DEF SchedulerConfigures

(* Taking the output permit preserves the invariant. *)
LEMMA SchedulerReservesStep == ASSUME IInv, SchedulerReserves PROVE IInv'
<1>1. /\ UNCHANGED <<service, coord, arb, purged, req, source, clock, gate, fed, startup,
                     releases, seqr, emitted>>
      /\ sched.pc = "idle"
  BY DEF SchedulerReserves, input, release
<1>2. PICK gen \in units, pc \in {"idle", "failed", "emit"} :
        /\ units' \subseteq units
        /\ sched' = [sched EXCEPT !.pc = pc]
        /\ permit' = IF pc = "emit" THEN Scheduler ELSE permit
        /\ pc = "emit" => gen = sched.gen /\ CanCommit(gen)
  <2>1. PICK gen \in units :
          LET open == CanCommit(gen) /\ sched.permitted = gen
          IN  /\ units' = IF gen < sched.gen \/ (gen = sched.gen /\ open)
                          THEN units \ {gen} ELSE units
              /\ sched' = [sched EXCEPT !.pc =
                     CASE gen > sched.gen -> "failed"
                       [] gen = sched.gen /\ open -> "emit"
                       [] OTHER -> "idle"]
              /\ permit' = IF gen = sched.gen /\ open THEN Scheduler ELSE permit
    BY DEF SchedulerReserves
  <2>2. gen \in Nat /\ sched.gen \in Nat
    BY DEF IInv, Typed, Schedulings
  <2>3. CASE gen > sched.gen
    BY <2>1, <2>2, <2>3
  <2>4. CASE gen = sched.gen /\ CanCommit(gen) /\ sched.permitted = gen
    BY <2>1, <2>2, <2>4
  <2>5. CASE ~(gen > sched.gen) /\ ~(gen = sched.gen /\ CanCommit(gen)
                                      /\ sched.permitted = gen)
    BY <2>1, <2>2, <2>5
  <2>6. QED
    BY <2>3, <2>4, <2>5
<1>3. /\ sched' \in Schedulings /\ sched'.pc = pc /\ sched'.gen = sched.gen
      /\ sched'.permitted = sched.permitted /\ sched'.pending = sched.pending
  BY <1>2, Zenon DEF IInv, Typed, Schedulings
<1>4. Typed'
  BY <1>1, <1>2, <1>3 DEF IInv, Typed
<1>5. Mutexes'
  BY <1>1, <1>2, <1>3 DEF IInv, Mutexes
<1>6. PhaseInv' /\ SequencerInv' /\ RequestInv' /\ (Opened => Opened')
  BY <1>1, <1>3, SchedulerKeeps, Zenon
<1>7. SchedulerInv'
  <2>1. pc = "emit" => Opened /\ service.epoch = sched.gen
    BY <1>2, LiveIsOpened DEF CanCommit, LiveEpoch
  <2>2. QED
    BY <1>1, <1>3, <1>6, <2>1, Zenon DEF IInv, SchedulerInv
<1>8. QED
  BY <1>4, <1>5, <1>6, <1>7 DEF IInv

(* Emitting a unit preserves the invariant. *)
LEMMA SchedulerEmitsStep == ASSUME IInv, SchedulerEmits PROVE IInv'
<1>1. /\ UNCHANGED <<service, coord, arb, purged, req, source, clock, gate, fed, startup,
                     releases, seqr, units>>
      /\ sched.pc = "emit" /\ emitted' = sched.gen /\ permit' = Free
      /\ sched' = [sched EXCEPT !.pc = "idle"]
  BY DEF SchedulerEmits, input, release
<1>2. /\ sched' \in Schedulings /\ sched'.pc = "idle"
      /\ sched'.permitted = sched.permitted /\ sched'.pending = sched.pending
      /\ emitted' \in Nat
  BY <1>1, Zenon DEF IInv, Typed, Schedulings
<1>3. Typed'
  BY <1>1, <1>2 DEF IInv, Typed
<1>4. Mutexes'
  BY <1>1, <1>2 DEF IInv, Mutexes
<1>5. PhaseInv' /\ SequencerInv' /\ RequestInv'
  BY <1>1, <1>2, SchedulerKeeps
<1>6. SchedulerInv'
  BY <1>1, <1>2 DEF IInv, SchedulerInv
<1>7. QED
  BY <1>3, <1>4, <1>5, <1>6 DEF IInv

(* The scheduler's request and its failure preserve the invariant. *)
LEMMA SchedulerCallsStep ==
    ASSUME IInv, SchedulerRequests \/ SchedulerFails
    PROVE  IInv'
<1>1. UNCHANGED <<service, coord, arb, permit, purged, source, clock, gate, fed, startup,
                  releases, seqr, units, emitted>>
  BY DEF SchedulerRequests, SchedulerFails, input, release
<1>2. sched \in Schedulings /\ req \in [Requesters -> Requestings]
      /\ Scheduler \in Requesters /\ Scheduler \notin Gates
  BY ActorsAssumption DEF IInv, Typed, Requesters
<1>3. /\ sched' \in Schedulings /\ sched'.pc \in {"request", "failed"} /\ sched.pc # "emit"
      /\ sched'.permitted = sched.permitted /\ sched'.pending = sched.pending
  BY <1>2 DEF SchedulerRequests, SchedulerFails, Schedulings
<1>4. RequestTurns(Scheduler) /\ (req'[Scheduler].pc # "idle" => sched'.pc = "request")
  <2>1. CASE SchedulerRequests
    <3>1. PICK reason \in {"HardDiscontinuity", "RecoveryBudgetExhausted"} :
            /\ req' = [req EXCEPT ![Scheduler].pc = "check", ![Scheduler].want =
                  [gen |-> sched.gen, reason |-> reason]]
            /\ sched' = [sched EXCEPT !.pc = "request"]
      BY <2>1 DEF SchedulerRequests
    <3>2. [gen |-> sched.gen, reason |-> reason] \in Wants
      BY <1>2 DEF Schedulings, Wants
    <3>3. req'[Scheduler] \in Requestings /\ req'[Scheduler].pc = "check"
      BY <1>2, <3>1, <3>2, Zenon DEF Requestings
    <3>4. QED
      BY <1>2, <3>1, <3>3 DEF RequestTurns, Schedulings
  <2>2. CASE SchedulerFails
    <3>1. req' = [req EXCEPT ![Scheduler].pc = "idle"]
      BY <2>2 DEF SchedulerFails
    <3>2. req'[Scheduler] \in Requestings /\ req'[Scheduler].pc = "idle"
      BY <1>2, <3>1 DEF Requestings
    <3>3. QED
      BY <1>2, <3>1, <3>2 DEF RequestTurns
  <2>3. QED
    BY <2>1, <2>2
<1>5. Typed'
  BY <1>1, <1>3, <1>4, Zenon DEF IInv, Typed, RequestTurns
<1>6. Mutexes'
  BY <1>1, <1>2, <1>3, <1>4, Zenon DEF IInv, Mutexes, RequestTurns, Requesters
<1>7. PhaseInv' /\ SequencerInv'
  BY <1>1, <1>3, SchedulerKeeps, Zenon
<1>8. RequestInv'
  BY <1>1, <1>3, <1>4, ZenonT(30) DEF IInv, RequestInv, RequestTurns, Purging, SchedulerReset
<1>9. SchedulerInv'
  BY <1>1, <1>3, Zenon DEF IInv, SchedulerInv
<1>10. QED
  BY <1>5, <1>6, <1>7, <1>8, <1>9 DEF IInv

(* The scheduler's abort preserves the invariant. *)
LEMMA SchedulerAbortsStep == ASSUME IInv, SchedulerAborts PROVE IInv'
<1>1. /\ UNCHANGED <<arb, permit, purged, req, source, clock, gate, fed, startup, releases,
                     seqr, units, emitted>>
      /\ sched.pc = "idle" /\ ArbFree /\ Abort
      /\ sched' = [sched EXCEPT !.pc = "failed", !.gen = 0]
  BY DEF SchedulerAborts, AbortGranted, input, release
<1>2. Aborts
  BY <1>1, AbortAborts DEF IInv
<1>3. /\ sched' \in Schedulings /\ sched'.pc = "failed"
      /\ sched'.permitted = sched.permitted /\ sched'.pending = sched.pending
  BY <1>1, Zenon DEF IInv, Typed, Schedulings
<1>4. Typed'
  BY <1>1, <1>2, <1>3 DEF IInv, Typed, Aborts
<1>5. Mutexes'
  BY <1>1, <1>3 DEF IInv, Mutexes
<1>6. RequestInv'
  BY <1>1, <1>2, AbortKeepsRequests
<1>7. PhaseInv' /\ SequencerInv' /\ SchedulerInv'
  BY <1>1, <1>2, <1>3, FreeMutexes, AbortKeeps
<1>8. QED
  BY <1>4, <1>5, <1>6, <1>7 DEF IInv

(* The runtime stops a group whose workers are between calls. *)
LEMMA StopStep == ASSUME IInv, Stop PROVE IInv'
<1>1. /\ UNCHANGED <<arb, permit, purged, req, clock, fed, releases, units, emitted>>
      /\ BetweenCalls /\ Abort
      /\ gate' = [g \in Gates |-> [gate[g] EXCEPT !.pc = "stopped"]]
      /\ startup' = [startup EXCEPT !.pc = "stopped"]
      /\ seqr' = [seqr EXCEPT !.pc = "stopped"]
      /\ sched' = [sched EXCEPT !.pc = "stopped"]
      /\ source' = [source EXCEPT !.state = "stopped"]
  BY DEF Stop
<1>2. Aborts
  BY <1>1, AbortAborts DEF IInv
<1>3. /\ sched' \in Schedulings /\ sched'.pc = "stopped"
      /\ sched'.permitted = sched.permitted /\ sched'.pending = sched.pending
  BY <1>1, Zenon DEF IInv, Typed, Schedulings
<1>4. seqr' \in Sequencings /\ seqr'.pc = "stopped"
  BY <1>1, Zenon DEF IInv, Typed, Sequencings
<1>5. startup' \in Startings /\ source' \in Sources
  BY <1>1, Zenon DEF IInv, Typed, Startings, Sources
<1>6. gate' \in [Gates -> Gatings]
  <2>1. \A g \in Gates : [gate[g] EXCEPT !.pc = "stopped"] \in Gatings
    BY Zenon DEF IInv, Typed, Gatings
  <2>2. QED
    BY <1>1, <2>1
<1>7. Typed'
  BY <1>1, <1>2, <1>3, <1>4, <1>5, <1>6 DEF IInv, Typed, Aborts
<1>8. /\ seqr.pc \notin Keeping /\ sched.pc \notin {"emit", "request"}
      /\ \A g \in Gates : gate[g].pc # "request"
  BY <1>1 DEF BetweenCalls, Keeping, Failures
<1>9. Mutexes'
  BY <1>1, <1>3, <1>4, <1>8 DEF IInv, Mutexes, Keeping
<1>10. RequestInv'
  BY <1>1, <1>2, AbortKeepsRequests
<1>11. PhaseInv' /\ SequencerInv' /\ SchedulerInv'
  BY <1>1, <1>2, <1>3, <1>4, AbortKeeps DEF Keeping, Holding
<1>12. QED
  BY <1>7, <1>9, <1>10, <1>11 DEF IInv

(* Every step keeps the invariant. *)
LEMMA IInvStep == IInv /\ [Next]_vars => IInv'
<1> SUFFICES ASSUME IInv, [Next]_vars PROVE IInv'
  OBVIOUS
<1>1. CASE Source
  BY <1>1, SourceStep
<1>2. CASE Startup \/ StartupPasses
  BY <1>2, StartupReleaseStep, StartupNextStep, StartupMarksStep DEF Startup
<1>3. CASE Sequencing
  BY <1>3, SequencerActivatesInitialStep, SequencerPublishesInitialStep, SequencerLooksStep,
     SequencerReservesStep, SequencerCommitsStep, SequencerReservesActivationStep,
     SequencerActivatesNextStep, SequencerAuthorizesStep, SequencerFinalizesStep,
     SequencerAbortsStep DEF Sequencing
<1>4. CASE Scheduling
  BY <1>4, SchedulerRefreshesStep, SchedulerConfiguresStep, SchedulerReservesStep,
     SchedulerEmitsStep, SchedulerCallsStep DEF Scheduling
<1>5. CASE \E r \in Requesters : Request(r)
  BY <1>5, RequestCheckStep, RequestRejectStep, RequestJoinsStep, RequestBeginsStep,
     RequestPurgesStep, RequestAcknowledgesStep DEF Request
<1>6. CASE \E g \in Gates : GateHandler(g) \/ Packet(g)
  BY <1>6, GateReadsStep, GateRequestsStep, PacketStep DEF GateHandler
<1>7. CASE SchedulerRequests \/ SchedulerAborts \/ Stop
  BY <1>7, SchedulerCallsStep, SchedulerAbortsStep, StopStep
<1>8. CASE UNCHANGED vars
  <2>1. UNCHANGED <<service, coord, arb, permit, purged, req, source, clock, gate, fed,
                    startup, releases, seqr, units, sched, emitted>>
    BY <1>8, Zenon DEF vars, input, release, output
  <2>2. Typed'
    BY <2>1, Zenon DEF IInv, Typed
  <2>3. QED
    BY <2>1, <2>2, PhaseFrame, SequencerFrame, SchedulerFrame, RequestFrame, MutexFrame, Zenon
       DEF IInv
<1>9. QED
  BY <1>1, <1>2, <1>3, <1>4, <1>5, <1>6, <1>7, <1>8 DEF Next, Stopped

(* The inductive invariant holds in every state. *)
THEOREM Inductive == Spec => []IInv
<1>1. QED
  BY InitIInv, IInvStep, PTL DEF Spec

(* The coordinator's phase and the service's readiness, kept under two     *)
(* mutexes, describe the same transition, and the scheduler is never left  *)
(* behind an open permit: for every number of gates and generations.       *)
THEOREM LayersAlwaysAgree == Spec => []LayersAgree
<1>1. IInv => LayersAgree
  <2> SUFFICES ASSUME IInv PROVE LayersAgree
    OBVIOUS
  <2>1. /\ coord.phase = "Aborted" <=> service.poisoned
        /\ coord.phase = "Aborted" <=> coord.err # "none"
    BY Zenon DEF IInv, PhaseInv
  <2>2. coord.phase = "Purging" =>
           service.readiness = "Reacquire" /\ service.active = coord.transition
    BY Zenon DEF IInv, PhaseInv
  <2>3. coord.phase \in {"Acquiring", "ReadyForActivation"} =>
           service.readiness = "Acquiring" /\ service.completed = coord.transition
    BY Zenon DEF IInv, PhaseInv, Purged
  <2>4. TransitionActive(coord.phase) =>
           ~service.permitted /\ service.epoch = coord.transition.old
    BY Zenon DEF IInv, PhaseInv, TransitionActive, Purged, Moving
  <2>5. coord.phase \in {"Inactive", "Publishing"} => AwaitingEpoch \/ LiveEpoch
    BY Zenon DEF IInv, PhaseInv, Opened, Opening, AwaitingEpoch, LiveEpoch, OutputPermitted
  <2>6. LiveEpoch => SchedulerFollows
    BY LiveIsOpened DEF Opened
  <2>7. QED
    BY <2>1, <2>2, <2>3, <2>4, <2>5, <2>6, Zenon DEF LayersAgree, SchedulerFollows
<1>2. QED
  BY <1>1, Inductive, PTL

(* An epoch is open only when every participant has been purged for the    *)
(* last transition.                                                        *)
THEOREM EpochsOpenAfterPurge == Spec => []OpensAfterPurge
<1>1. IInv => OpensAfterPurge
  BY LiveIsOpened DEF OpensAfterPurge, Opened, Settled
<1>2. QED
  BY <1>1, Inductive, PTL

(* Only a commit adds to the media before the scheduler, only the scheduler *)
(* emits.                                                                  *)
LEMMA OutputSteps ==
    ASSUME Next
    PROVE  (SequencerCommits \/ units' \subseteq units) /\ (SchedulerEmits \/ emitted' = emitted)
<1>1. CASE Source \/ Startup \/ StartupPasses
  BY <1>1, Zenon DEF Source, SourceLocked, SourceDiscontinuity, SourceRelocked, Broadcast,
              Startup, StartupInitial, StartupNext, StartupMarks, StartupPasses, output
<1>2. CASE Sequencing
  BY <1>2, Zenon DEF Sequencing, SequencerActivatesInitial, SequencerPublishesInitial,
              SequencerClassifies, SequencerReserves, SequencerCommits,
              SequencerChecksCoordinator, SequencerChecksService,
              SequencerReservesActivation, SequencerActivatesNext, SequencerAuthorizes,
              SequencerFinalizes, SequencerAborts, output
<1>3. CASE Scheduling
  BY <1>3 DEF Scheduling, SchedulerRefreshes, SchedulerConfigures, SchedulerReserves,
              SchedulerEmits, SchedulerFails
<1>4. CASE \E r \in Requesters : Request(r)
  <2>1. PICK r \in Requesters : Request(r)
    BY <1>4
  <2>2. CASE RequestPurges(r)
    <3>1. PICK ok \in BOOLEAN : IF ok THEN PurgeParticipant(req[r].next, req[r].purge)
                                      ELSE UNCHANGED <<purged, fed, units, sched>>
      BY <2>2 DEF RequestPurges
    <3>2. units' \subseteq units
      BY <3>1 DEF PurgeParticipant, PurgeLineage, PurgeScheduler
    <3>3. QED
      BY <2>2, <3>2 DEF RequestPurges
  <2>3. CASE RequestCheck(r) \/ RequestReject(r) \/ RequestJoins(r)
             \/ RequestBegins(r) \/ RequestAcknowledges(r)
    BY <2>3, Zenon DEF RequestCheck, RequestReject, RequestJoins, RequestBegins, BeginsFor,
                RequestAcknowledges, output
  <2>4. QED
    BY <2>1, <2>2, <2>3 DEF Request
<1>5. CASE \E g \in Gates : GateHandler(g) \/ Packet(g)
  BY <1>5, Zenon DEF GateHandler, GateReadsLocked, GateReadsDiscontinuity, GateObservesService,
              GateObservesCoordinator, GateVerifies, Packet, GatePacket, output
<1>6. CASE SchedulerRequests \/ SchedulerAborts \/ Stop \/ Stopped
  BY <1>6 DEF SchedulerRequests, SchedulerAborts, Stop, Stopped, vars, output
<1>7. QED
  BY <1>1, <1>2, <1>3, <1>4, <1>5, <1>6 DEF Next

(* Media reach the output path only in a commit, while the permit of their  *)
(* generation is open.                                                     *)
THEOREM ReleasesPublishUnderPermit == Spec => PublishesUnderPermit
<1>1. IInv /\ [Next]_vars =>
         [\A gen \in units' \ units : LiveEpoch /\ service.epoch = gen]_vars
  <2> SUFFICES ASSUME IInv, Next
               PROVE  \A gen \in units' \ units : LiveEpoch /\ service.epoch = gen
    OBVIOUS
  <2>1. CASE SequencerCommits
    <3>1. Opened /\ Head(releases).gen = service.epoch
      BY <2>1, Zenon DEF SequencerCommits, IInv, SequencerInv
    <3>2. units' = units \cup {Head(releases).gen}
      BY <2>1, Zenon DEF SequencerCommits
    <3>3. QED
      BY <3>1, <3>2, Zenon DEF Opened, LiveEpoch, OutputPermitted
  <2>2. QED
    BY <2>1, OutputSteps
<1>2. QED
  BY <1>1, Inductive, PTL DEF Spec, PublishesUnderPermit

(* A unit leaves the scheduler only under the permit of its generation, and *)
(* generations leave in order.                                             *)
THEOREM UnitsEmitUnderPermit == Spec => EmitsUnderPermit
<1>1. IInv /\ [Next]_vars =>
         [emitted' # emitted => /\ LiveEpoch /\ service.epoch = emitted'
                                /\ emitted' > emitted]_vars
  <2> SUFFICES ASSUME IInv, Next, emitted' # emitted
               PROVE  LiveEpoch /\ service.epoch = emitted' /\ emitted' > emitted
    OBVIOUS
  <2>1. SchedulerEmits
    BY OutputSteps
  <2>2. Opened /\ service.epoch = emitted'
    BY <2>1 DEF SchedulerEmits, IInv, SchedulerInv
  <2>3. emitted' > emitted
    BY <2>2, SMTT(30) DEF IInv, SchedulerInv, Typed, Services
  <2>4. QED
    BY <2>2, <2>3, Zenon DEF Opened, LiveEpoch, OutputPermitted
<1>2. QED
  BY <1>1, Inductive, PTL DEF Spec, EmitsUnderPermit

(* Only the sequencer and the end of the group move the sequencer. *)
LEMMA SequencerAlone ==
    ASSUME Next, seqr' # seqr PROVE Sequencing \/ Stop
<1>1. ~(Source \/ Startup \/ StartupPasses)
  BY DEF Source, SourceLocked, SourceDiscontinuity, SourceRelocked, Broadcast, Startup,
         StartupInitial, StartupNext, StartupMarks, StartupPasses, release
<1>2. ~Scheduling
  BY DEF Scheduling, SchedulerRefreshes, SchedulerConfigures, SchedulerReserves,
         SchedulerEmits, SchedulerFails, release
<1>3. ~(\E r \in Requesters : Request(r))
  BY Zenon DEF Request, RequestCheck, RequestReject, RequestJoins, RequestBegins, BeginsFor,
         RequestPurges, RequestAcknowledges, release
<1>4. ~(\E g \in Gates : GateHandler(g) \/ Packet(g))
  BY Zenon DEF GateHandler, GateReadsLocked, GateReadsDiscontinuity, GateObservesService,
         GateObservesCoordinator, GateVerifies, Packet, GatePacket, release
<1>5. ~(SchedulerRequests \/ SchedulerAborts \/ Stopped)
  BY DEF SchedulerRequests, SchedulerAborts, Stopped, vars, release
<1>6. QED
  BY <1>1, <1>2, <1>3, <1>4, <1>5 DEF Next

(* Once reserveActivation has succeeded the epoch is activated, authorized, *)
(* finalized and committed: no abort, stop or failed check comes between.  *)
THEOREM ReservedActivationsPublish == Spec => ReservedActivationPublishes
<1>1. IInv /\ [Next]_vars =>
         [seqr.pc \in {"activateNext", "authorize", "finalize"} /\ seqr' # seqr
            => seqr'.pc \in {"authorize", "finalize", "commit"}]_vars
  <2> SUFFICES ASSUME IInv, Next, seqr' # seqr,
                      seqr.pc \in {"activateNext", "authorize", "finalize"}
               PROVE  seqr'.pc \in {"authorize", "finalize", "commit"}
    OBVIOUS
  <2>1. ~Stop
    BY DEF Stop, BetweenCalls
  <2>2. SequencerActivatesNext \/ SequencerAuthorizes \/ SequencerFinalizes
    BY <2>1, SequencerAlone, Zenon
       DEF Sequencing, SequencerActivatesInitial, SequencerPublishesInitial,
           SequencerClassifies, SequencerReserves, SequencerCommits,
           SequencerChecksCoordinator, SequencerChecksService,
           SequencerReservesActivation, SequencerAborts, Pending
  <2>3. QED
    BY <2>2, SequencerActivatesNextStep, SequencerAuthorizesStep, SequencerFinalizesStep
<1>2. QED
  BY <1>1, Inductive, PTL DEF Spec, ReservedActivationPublishes

(* What FailureIsTerminal says of a step. *)
Terminal ==
    /\ coord.err # "none" => /\ coord'.err = coord.err
                             /\ coord'.phase = "Aborted"
                             /\ ~service'.permitted
    /\ service'.epoch >= service.epoch
    /\ service'.nextSeq >= service.nextSeq
    /\ coord'.lastPublished >= coord.lastPublished

(* Leaving both layers alone, or aborting, is a step FailureIsTerminal allows. *)
LEMMA TerminalCases ==
    ASSUME IInv
    PROVE  /\ UNCHANGED <<service, coord>> => Terminal
           /\ Aborts => Terminal
           /\ Abort => Terminal
           /\ \A error \in Errors : FailTerminal(error) => Terminal
<1>1. /\ service.epoch \in Nat /\ service.nextSeq \in Nat /\ coord.lastPublished \in Nat
  BY Zenon DEF IInv, Typed, Services, Coordinators
<1>2. ASSUME UNCHANGED <<service, coord>> PROVE Terminal
  <2>1. /\ service'.epoch >= service.epoch /\ service'.nextSeq >= service.nextSeq
        /\ coord'.lastPublished >= coord.lastPublished
    BY <1>1, <1>2
  <2>2. QED
    BY <1>2, <2>1, Zenon DEF Terminal, IInv, PhaseInv
<1>3. ASSUME Aborts PROVE Terminal
  <2>1. /\ service'.epoch >= service.epoch /\ service'.nextSeq >= service.nextSeq
        /\ coord'.lastPublished >= coord.lastPublished
    BY <1>1, <1>3, SMTT(30) DEF Aborts
  <2>2. QED
    BY <1>3, <2>1, Zenon DEF Aborts, Terminal
<1>4. Abort => Aborts
  BY AbortAborts DEF IInv
<1>5. \A error \in Errors : FailTerminal(error) => Aborts
  BY FailTerminalAborts DEF IInv
<1>6. QED
  BY <1>2, <1>3, <1>4, <1>5

(* Every step of a request is one FailureIsTerminal allows. *)
LEMMA RequestTerminal ==
    ASSUME IInv, NEW r \in Requesters, Request(r)
    PROVE  Terminal
<1>1. /\ service \in Services /\ coord \in Coordinators
      /\ service.epoch \in Nat /\ service.nextSeq \in Nat /\ coord.lastPublished \in Nat
  BY Zenon DEF IInv, Typed, Services, Coordinators
<1>2. CASE RequestCheck(r) \/ RequestPurges(r)
  BY <1>2, TerminalCases, Zenon DEF RequestCheck, RequestPurges
<1>3. CASE RequestReject(r)
  BY <1>3, TerminalCases DEF RequestReject, Errors
<1>4. CASE RequestJoins(r)
  BY <1>4, TerminalCases, Zenon DEF RequestJoins, Errors
<1>5. CASE RequestBegins(r)
  <2>1. CASE FailTerminal("invalid")
    BY <2>1, TerminalCases DEF Errors
  <2>2. CASE /\ coord.err = "none"
             /\ service' = BeginReacquisition(service.epoch, service.epoch + 1)
             /\ coord'.lastPublished = coord.lastPublished
    <3>1. service'.epoch = service.epoch /\ service'.nextSeq = service.nextSeq + 1
      BY <1>1, <2>2 DEF BeginReacquisition, Services
    <3>2. QED
      BY <1>1, <2>2, <3>1 DEF Terminal
  <2>3. QED
    BY <1>1, <1>5, <2>1, <2>2, Zenon DEF RequestBegins, BeginsFor, Coordinators
<1>6. CASE RequestAcknowledges(r)
  <2>1. CASE FailTerminal("purge") \/ UNCHANGED <<service, coord>>
    BY <2>1, TerminalCases DEF Errors
  <2>2. CASE /\ coord.err = "none" /\ service' = AcknowledgeAll
             /\ coord'.lastPublished = coord.lastPublished
    BY <1>1, <2>2 DEF AcknowledgeAll, Services, Terminal
  <2>3. QED
    BY <1>1, <1>6, <2>1, <2>2, Zenon DEF RequestAcknowledges, Coordinators
<1>7. QED
  BY <1>2, <1>3, <1>4, <1>5, <1>6 DEF Request

(* Every step of the sequencer is one FailureIsTerminal allows. *)
LEMMA SequencingTerminal ==
    ASSUME IInv, Sequencing
    PROVE  Terminal
<1>1. /\ service \in Services /\ coord \in Coordinators
      /\ service.epoch \in Nat /\ service.nextSeq \in Nat /\ coord.lastPublished \in Nat
  BY Zenon DEF IInv, Typed, Services, Coordinators
<1>2. CASE \/ SequencerPublishesInitial \/ SequencerClassifies \/ SequencerReserves
           \/ SequencerCommits \/ SequencerChecksCoordinator \/ SequencerChecksService
  BY <1>2, TerminalCases, Zenon DEF SequencerPublishesInitial, SequencerClassifies,
     SequencerReserves, SequencerCommits, SequencerChecksCoordinator, SequencerChecksService
<1>3. CASE SequencerActivatesInitial
  <2>1. CASE UNCHANGED service
    BY <1>3, <2>1, TerminalCases DEF SequencerActivatesInitial
  <2>2. CASE CanActivateInitial /\ service' = ActivateInitial(Head(releases).gen)
    <3>1. /\ coord' = coord /\ coord.err = "none" /\ service.epoch = 0
      BY <1>3, <2>2, Zenon DEF SequencerActivatesInitial, CanActivateInitial, IInv, PhaseInv
    <3>2. service'.epoch = Head(releases).gen /\ service'.nextSeq = service.nextSeq
      BY <1>1, <2>2 DEF ActivateInitial, Services
    <3>3. Head(releases).gen \in Nat
      <4>1. Head(releases) \in Releasings
        BY <1>3, HeadTail, Zenon DEF SequencerActivatesInitial, Pending, IInv, Typed
      <4>2. QED
        BY <4>1 DEF Releasings
    <3>4. QED
      BY <1>1, <3>1, <3>2, <3>3 DEF Terminal
  <2>3. QED
    BY <1>3, <2>1, <2>2, Zenon DEF SequencerActivatesInitial
<1>4. CASE SequencerReservesActivation
  <2>1. CASE FailTerminal("reservation")
    BY <2>1, TerminalCases DEF Errors
  <2>2. CASE /\ coord.err = "none" /\ UNCHANGED service
             /\ coord'.lastPublished = coord.lastPublished
    BY <1>1, <2>2 DEF Terminal
  <2>3. QED
    BY <1>1, <1>4, <2>1, <2>2 DEF SequencerReservesActivation, Coordinators
<1>5. CASE SequencerActivatesNext
  <2>1. CanActivateNext(Head(releases).gen, Head(releases).seq) /\ coord.phase = "Activating"
    BY <1>5, ReservedSucceeds, Zenon DEF SequencerActivatesNext
  <2>2. service' = ActivateNext(Head(releases).gen) /\ coord' = coord
    BY <1>5, <2>1, Zenon DEF SequencerActivatesNext
  <2>3. service'.epoch = Head(releases).gen /\ service'.nextSeq = service.nextSeq
    BY <1>1, <2>2 DEF ActivateNext, Services
  <2>4. coord.err = "none"
    BY <2>1, Zenon DEF IInv, PhaseInv
  <2>5. Head(releases).gen > service.epoch
    BY <2>1, Zenon DEF CanActivateNext
  <2>6. Head(releases).gen \in Nat
    BY <1>5, ReservedSucceeds, Zenon DEF SequencerActivatesNext, NextIs, Coordinators, Purges,
                                  IInv, Typed
  <2>7. QED
    BY <1>1, <2>2, <2>3, <2>4, <2>5, <2>6 DEF Terminal
<1>6. CASE SequencerAuthorizes
  <2>1. coord.err = "none" /\ coord' = [coord EXCEPT !.phase = "Publishing"]
        /\ service' = service
    BY <1>6, ReservedSucceeds DEF SequencerAuthorizes
  <2>2. QED
    BY <1>1, <2>1 DEF Terminal, Coordinators
<1>7. CASE SequencerFinalizes
  <2>1. coord'.lastPublished >= coord.lastPublished
    BY <1>7, SequencerFinalizesStep
  <2>2. coord.phase = "Publishing" /\ service' = service
    BY <1>7, ReservedSucceeds DEF SequencerFinalizes
  <2>3. coord.err = "none"
    BY <2>2, Zenon DEF IInv, PhaseInv
  <2>4. QED
    BY <1>1, <2>1, <2>2, <2>3 DEF Terminal
<1>8. CASE SequencerAborts
  BY <1>8, TerminalCases DEF SequencerAborts
<1>9. QED
  BY <1>2, <1>3, <1>4, <1>5, <1>6, <1>7, <1>8 DEF Sequencing

(* A failure is final: the first error stays, the permit never opens again, *)
(* and epochs and sequences only grow.                                     *)
THEOREM FailuresAreTerminal == Spec => FailureIsTerminal
<1>1. IInv /\ [Next]_vars => [Terminal]_vars
  <2> SUFFICES ASSUME IInv, Next PROVE Terminal
    OBVIOUS
  <2>1. CASE Source \/ Scheduling \/ SchedulerRequests \/ Stopped
    BY <2>1, TerminalCases, Zenon
       DEF Source, SourceLocked, SourceDiscontinuity, SourceRelocked, Broadcast, Scheduling,
           SchedulerRefreshes, SchedulerConfigures, SchedulerReserves, SchedulerEmits,
           SchedulerFails, SchedulerRequests, Stopped, vars
  <2>2. CASE Startup \/ StartupPasses
    <3>1. CASE StartupInitial \/ StartupNext \/ StartupPasses
      BY <3>1, TerminalCases DEF StartupInitial, StartupNext, StartupPasses
    <3>2. CASE StartupMarks
      <4>1. CASE FailTerminal("readiness")
        BY <4>1, TerminalCases DEF Errors
      <4>2. CASE /\ coord.err = "none" /\ UNCHANGED service
                 /\ coord' = [coord EXCEPT !.phase = "ReadyForActivation"]
        BY <4>2 DEF Terminal, IInv, Typed, Services, Coordinators
      <4>3. QED
        BY <3>2, <4>1, <4>2 DEF StartupMarks
    <3>3. QED
      BY <2>2, <3>1, <3>2 DEF Startup
  <2>3. CASE \E g \in Gates : GateHandler(g) \/ Packet(g)
    BY <2>3, TerminalCases, Zenon
       DEF GateHandler, GateReadsLocked, GateReadsDiscontinuity, GateObservesService,
           GateObservesCoordinator, GateVerifies, Packet, GatePacket
  <2>4. CASE SchedulerAborts \/ Stop
    BY <2>4, TerminalCases DEF SchedulerAborts, Stop
  <2>5. QED
    BY <2>1, <2>2, <2>3, <2>4, RequestTerminal, SequencingTerminal DEF Next
<1>2. QED
  BY <1>1, Inductive, PTL DEF Spec, FailureIsTerminal, Terminal
=============================================================================
