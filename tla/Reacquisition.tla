---------------------------- MODULE Reacquisition ----------------------------
(***************************************************************************)
(* Automatic A/V reacquisition: how a group of audio and video streams     *)
(* moves from one clock generation to the next.  The locked packet gates   *)
(* (one per stream) read the source's clock evidence; the first to read a  *)
(* discontinuity asks the reacquisition coordinator for a transition.  The *)
(* coordinator closes the output permit of the epoch transition service    *)
(* and purges every participant; the startup coordinator finds a common    *)
(* start in the next generation and the release sequencer activates it.    *)
(* Every one of these runs on a thread of its own.                         *)
(*                                                                         *)
(* Three mutexes order them.  arb is the coordinator's activation mutex    *)
(* and permit the service's mutex: the variables name a holder that keeps  *)
(* the mutex from one step to the next.  The coordinator's state mutex is  *)
(* never kept: a section under it is one action.                           *)
(***************************************************************************)
EXTENDS Naturals, Sequences, FiniteSets

CONSTANTS Gates,        \* the locked packet gates, one per stream
          MaxGen,       \* bound: generations the source locks
          MaxClock,     \* bound: capacity of a gate's clock channel
          MaxReleases,  \* bound: capacity of the release channel
          Sequencer, Scheduler, Free

ASSUME ActorsAssumption ==
    /\ Gates # {} /\ IsFiniteSet(Gates)
    /\ Sequencer # Free /\ Scheduler # Free /\ Sequencer # Scheduler
    /\ Gates \cap {Sequencer, Scheduler, Free} = {}
ASSUME BoundsAssumption == {MaxGen, MaxClock, MaxReleases} \subseteq Nat \ {0}

VARIABLES
    service,    \* MediaAvEpochTransitionService with its generation coordinator
    coord,      \* MediaAvReacquisitionCoordinator
    arb,        \* who keeps the activation mutex
    permit,     \* who keeps the service mutex
    purged,     \* participant -> the last transition sequence it was purged for
    source,     \* the demultiplexer's clock: its generation and its state
    clock,      \* gate -> clock evidence not yet read
    gate,       \* gate -> where the gate is in its clock handler
    req,        \* requester -> where its call of request() is
    fed,        \* gate -> generation of the newest packet handed to startup
    startup,    \* MediaAvStartupCoordinatorNode
    releases,   \* releases on their way from startup to the sequencer
    seqr,       \* MediaActivatedStartupReleaseSequencerNode
    units,      \* generations of the media between the sequencer and the scheduler
    sched,      \* MediaAvOutputSchedulerNode
    emitted     \* generation of the last access unit the scheduler emitted

input == <<source, clock, gate>>
release == <<fed, startup, releases, seqr>>
output == <<units, sched, emitted>>
vars == <<service, coord, arb, permit, purged, req, input, release, output>>

Requesters == Gates \cup {Scheduler}

(* The planned purge participants in the order of the plan: the canonical  *)
(* lineage, which holds what startup has buffered, and the scheduler.      *)
Participants == <<"lineage", "scheduler">>
SchedulerPurge == 2

NoPurge == [old |-> 0, next |-> 0, seq |-> 0]
NoRequest == [gen |-> 0, reason |-> "none"]

TransitionActive(phase) ==
    phase \in {"Purging", "Acquiring", "ReadyForActivation"}

(***************************************************************************)
(* The epoch transition service and the generation coordinator inside it.  *)
(* An operator is the service after one call.  A call takes the service    *)
(* mutex, so the action that makes it has ServiceFree as a guard.          *)
(***************************************************************************)
ServiceFree == permit = Free
ArbFree == arb = Free

OutputPermitted(gen) ==
    ~service.poisoned /\ service.permitted /\ service.current = gen

Poison(s) ==
    [s EXCEPT !.permitted = FALSE, !.active = NoPurge, !.completed = NoPurge,
              !.poisoned = TRUE, !.readiness = "Reacquire"]

FailService(s) == [Poison(s) EXCEPT !.failed = TRUE]

CanActivateInitial ==
    /\ ~service.failed /\ ~service.poisoned
    /\ service.epoch = 0 /\ service.current = 0
    /\ service.readiness = "Acquiring"

ActivateInitial(gen) ==
    [service EXCEPT !.current = gen, !.permitted = TRUE, !.epoch = gen,
                    !.readiness = "Locked"]

CanBegin(old, next) ==
    /\ ~service.failed /\ ~service.poisoned
    /\ service.readiness = "Locked" /\ service.permitted
    /\ service.active = NoPurge /\ service.completed = NoPurge
    /\ old = service.current /\ next > old

NewPurge(old, next) == [old |-> old, next |-> next, seq |-> service.nextSeq]

BeginReacquisition(old, next) ==
    [service EXCEPT !.permitted = FALSE, !.readiness = "Reacquire",
                    !.active = NewPurge(old, next), !.nextSeq = @ + 1]

CanAcknowledge(seq) ==
    /\ ~service.failed /\ ~service.poisoned
    /\ service.readiness = "Reacquire" /\ service.active.seq = seq

AcknowledgeAll ==
    [service EXCEPT !.completed = service.active, !.active = NoPurge,
                    !.readiness = "Acquiring"]

CanActivateNext(gen, seq) ==
    /\ ~service.failed /\ ~service.poisoned
    /\ service.readiness = "Acquiring" /\ service.epoch # 0
    /\ gen > service.epoch /\ ~service.permitted
    /\ service.completed.seq = seq /\ service.completed.next = gen
    /\ service.active = NoPurge

ActivateNext(gen) ==
    [service EXCEPT !.current = gen, !.epoch = gen, !.permitted = TRUE,
                    !.completed = NoPurge, !.readiness = "Locked"]

(***************************************************************************)
(* The reacquisition coordinator.  FailTerminal and Abort change the       *)
(* service too.                                                            *)
(***************************************************************************)
\* Mutant: the coordinator fails without failing the service.
FailTerminal_CoordinatorOnly(error) ==
    /\ coord' = [coord EXCEPT !.err = IF @ = "none" THEN error ELSE @,
                              !.phase = "Aborted", !.inFlight = 0]
    /\ UNCHANGED service

FailTerminal(error) ==
    /\ coord' = [coord EXCEPT !.err = IF @ = "none" THEN error ELSE @,
                              !.phase = "Aborted", !.inFlight = 0]
    /\ service' = IF coord.err = "none" THEN FailService(service) ELSE service

\* Mutant: abort() overwrites the first error.
Abort_Overwrites ==
    /\ coord' = [coord EXCEPT !.err = "aborted", !.phase = "Aborted",
                              !.inFlight = 0]
    /\ service' = Poison(service)

Abort ==
    /\ coord' = [coord EXCEPT !.err = IF @ = "none" THEN "aborted" ELSE @,
                              !.phase = "Aborted", !.inFlight = 0]
    /\ service' = Poison(service)

MatchesTransition(gen, seq) ==
    /\ coord.transition # NoPurge
    /\ coord.transition.next = gen /\ coord.transition.seq = seq

LiveEpoch == service.readiness = "Locked" /\ OutputPermitted(service.epoch)
AwaitingEpoch ==
    ~service.poisoned /\ service.readiness = "Acquiring" /\ service.epoch = 0

(* What classifyLockedPacketGateGeneration requires of the service while a *)
(* transition is active.                                                   *)
ConsistentTransition ==
    /\ ~service.poisoned /\ ~service.permitted
    /\ service.epoch = coord.transition.old
    /\ service.readiness = IF coord.phase = "Purging" THEN "Reacquire"
                                                       ELSE "Acquiring"

(* classifyReleaseLocked, for a release that names no transition. *)
ClassifyRelease(gen) ==
    LET changing == coord.err = "none" /\ coord.phase \notin {"Inactive", "Aborted"}
        live == coord.err = "none" /\ coord.phase = "Inactive" /\ LiveEpoch
    IN  CASE changing /\ gen <= coord.transition.old -> "DropOld"
          [] changing /\ gen = coord.transition.next -> "Withhold"
          [] live /\ gen < service.epoch -> "DropOld"
          [] live /\ gen = service.epoch -> "Publish"
          [] OTHER -> "Reject"

(* classifyLockedPacketGateGeneration; 1 is the planned first generation. *)
ClassifyGate(gen) ==
    LET moving == TransitionActive(coord.phase) /\ ConsistentTransition
        still == coord.phase = "Inactive"
    IN  CASE moving /\ gen = coord.transition.old -> "DropOld"
          [] moving /\ gen = coord.transition.next ->
                IF coord.phase = "Purging" THEN "Withhold" ELSE "Pass"
          [] still /\ AwaitingEpoch /\ gen = 1 -> "Pass"
          [] still /\ LiveEpoch /\ gen < service.epoch -> "DropOld"
          [] still /\ LiveEpoch /\ gen = service.epoch -> "Pass"
          [] OTHER -> "Fail"

Init ==
    /\ service = [readiness |-> "Acquiring", epoch |-> 0, current |-> 0,
                  permitted |-> FALSE, poisoned |-> FALSE, failed |-> FALSE,
                  active |-> NoPurge, completed |-> NoPurge, nextSeq |-> 1]
    /\ coord = [phase |-> "Inactive", request |-> NoRequest,
                transition |-> NoPurge, inFlight |-> 0, lastPublished |-> 0,
                err |-> "none"]
    /\ arb = Free /\ permit = Free
    /\ purged = [p \in DOMAIN Participants |-> 0]
    /\ source = [gen |-> 0, state |-> "acquiring"]
    /\ clock = [g \in Gates |-> << >>]
    /\ gate = [g \in Gates |-> [pc |-> "idle", locked |-> 0, gen |-> 0,
                                ready |-> FALSE]]
    /\ req = [r \in Requesters |-> [pc |-> "idle", want |-> NoRequest,
                                    purge |-> NoPurge, next |-> 1, ok |-> TRUE]]
    /\ fed = [g \in Gates |-> 0]
    /\ startup = [pc |-> "idle", last |-> 0, purge |-> NoPurge]
    /\ releases = << >>
    /\ seqr = [pc |-> "idle", active |-> 0]
    /\ units = {}
    /\ sched = [pc |-> "idle", gen |-> 0, permitted |-> 0, pending |-> 0,
                fresh |-> FALSE]
    /\ emitted = 0

(***************************************************************************)
(* The source: an MPEG-TS demultiplexer sends every clock state to all the *)
(* gates, a Locked state with each packet, ReacquireRequired with the old  *)
(* generation once when its clock breaks.                                  *)
(***************************************************************************)
Broadcast(evidence) ==
    /\ \A g \in Gates : Len(clock[g]) < MaxClock
    /\ clock' = [g \in Gates |-> Append(clock[g], evidence)]
    /\ UNCHANGED <<service, coord, arb, permit, purged, gate, req, release, output>>

SourceLocked ==
    /\ source.state = "locked"
    /\ Broadcast([kind |-> "Locked", gen |-> source.gen])
    /\ UNCHANGED source

SourceDiscontinuity ==
    /\ source.state = "locked"
    /\ Broadcast([kind |-> "ReacquireRequired", gen |-> source.gen])
    /\ source' = [source EXCEPT !.state = "reacquiring"]

SourceRelocked ==
    /\ source.state \in {"acquiring", "reacquiring"} /\ source.gen < MaxGen
    /\ Broadcast([kind |-> "Locked", gen |-> source.gen + 1])
    /\ source' = [gen |-> source.gen + 1, state |-> "locked"]

(***************************************************************************)
(* The gate.  A discontinuity is handled in four reads of shared state     *)
(* with no lock kept between them: the coordinator's snapshot, the         *)
(* service's snapshot and the coordinator's again (observeGeneration), the *)
(* request, and the coordinator's snapshot once more.                      *)
(***************************************************************************)
GateGoes(g, pc) == gate' = [gate EXCEPT ![g].pc = pc]

ReadsClock(g, kind) ==
    /\ gate[g].pc = "idle" /\ clock[g] # << >> /\ Head(clock[g]).kind = kind
    /\ clock' = [clock EXCEPT ![g] = Tail(@)]

GateReadsLocked(g) ==
    /\ ReadsClock(g, "Locked") /\ ArbFree /\ ServiceFree
    /\ LET gen == Head(clock[g]).gen
           disposition == ClassifyGate(gen)
       IN  gate' = [gate EXCEPT
                ![g].locked = IF disposition = "Pass" THEN gen ELSE @,
                ![g].pc = IF disposition = "Fail" THEN "failed" ELSE "idle"]
    /\ UNCHANGED <<service, coord, arb, permit, purged, source, req, release, output>>

GateReadsDiscontinuity(g) ==
    /\ ReadsClock(g, "ReacquireRequired")
    /\ LET gen == Head(clock[g]).gen
           withheld == /\ TransitionActive(coord.phase)
                       /\ coord.transition.old = gen
                       /\ coord.request.reason = "HardDiscontinuity"
       IN  gate' = [gate EXCEPT ![g].gen = gen, ![g].pc =
                CASE gate[g].locked = gen /\ withheld -> "idle"
                  [] gate[g].locked = gen /\ coord.phase = "Inactive" -> "observe"
                  [] OTHER -> "refused"]
    /\ UNCHANGED <<service, coord, arb, permit, purged, source, req, release, output>>

GateObservesService(g) ==
    /\ gate[g].pc = "observe" /\ ServiceFree
    /\ gate' = [gate EXCEPT ![g].ready = service.readiness = "Locked",
            ![g].pc = IF service.poisoned \/ gate[g].gen # service.epoch
                      THEN "refused" ELSE "observed"]
    /\ UNCHANGED <<service, coord, arb, permit, purged, source, clock, req, release, output>>

GateObservesCoordinator(g) ==
    /\ gate[g].pc = "observed"
    /\ LET current == /\ gate[g].ready /\ coord.phase = "Inactive"
                      /\ coord.request = NoRequest
       IN  /\ GateGoes(g, IF current THEN "request" ELSE "refused")
           /\ req' = IF current
                     THEN [req EXCEPT ![g].pc = "check", ![g].want =
                             [gen |-> gate[g].gen, reason |-> "HardDiscontinuity"]]
                     ELSE req
    /\ UNCHANGED <<service, coord, arb, permit, purged, source, clock, release, output>>

GateVerifies(g) ==
    /\ gate[g].pc = "request" /\ req[g].pc = "returned"
    /\ GateGoes(g, IF /\ req[g].ok /\ TransitionActive(coord.phase)
                      /\ coord.transition.old = gate[g].gen
                   THEN "idle" ELSE "refused")
    /\ req' = [req EXCEPT ![g].pc = "idle"]
    /\ UNCHANGED <<service, coord, arb, permit, purged, source, clock, release, output>>

(* A packet is classified and handed on under the activation mutex; a      *)
(* withheld one stays the gate's pending input.  Clock evidence that has   *)
(* arrived is read first.                                                  *)
GatePacket(g, gen) ==
    /\ gate[g].pc = "idle" /\ clock[g] = << >> /\ ArbFree /\ ServiceFree
    /\ gate[g].locked # 0 \/ coord.phase # "Inactive"
    /\ gen >= fed[g]
    /\ gate' = IF ClassifyGate(gen) = "Fail"
               THEN [gate EXCEPT ![g].pc = "failed"] ELSE gate
    /\ fed' = IF ClassifyGate(gen) = "Pass" THEN [fed EXCEPT ![g] = gen] ELSE fed
    /\ UNCHANGED <<service, coord, arb, permit, purged, source, clock, req,
                   startup, releases, seqr, output>>

(***************************************************************************)
(* request(): a check under the state mutex, the begin under both          *)
(* mutexes, the purges with no lock, the acknowledgements under the state  *)
(* mutex.                                                                  *)
(***************************************************************************)
RequestGoes(r, pc) == req' = [req EXCEPT ![r].pc = pc]

\* The call's locals are gone; the caller looks at the status.
Returns(r, ok) ==
    req' = [req EXCEPT ![r] = [pc |-> "returned", want |-> NoRequest,
                               purge |-> NoPurge, next |-> 1, ok |-> ok]]

RequestCheck(r) ==
    /\ req[r].pc = "check"
    /\ CASE coord.err # "none" -> Returns(r, FALSE)
         [] coord.err = "none" /\ coord.phase = "Inactive" -> RequestGoes(r, "begin")
         [] coord.err = "none" /\ coord.phase # "Inactive" ->
              IF coord.request = req[r].want THEN Returns(r, TRUE)
                                             ELSE RequestGoes(r, "reject")
    /\ UNCHANGED <<service, coord, arb, permit, purged, input, release, output>>

RequestReject(r) ==
    /\ req[r].pc = "reject" /\ ArbFree /\ ServiceFree
    /\ FailTerminal("incompatible")
    /\ Returns(r, FALSE)
    /\ UNCHANGED <<arb, permit, purged, input, release, output>>

(* The request joins a transition that began since the check, or fails. *)
RequestJoins(r) ==
    /\ req[r].pc = "begin" /\ ArbFree /\ ServiceFree
    /\ coord.err # "none" \/ coord.phase # "Inactive"
    /\ LET joins == coord.err = "none" /\ coord.request = req[r].want
       IN  /\ Returns(r, joins)
           /\ IF joins \/ coord.err # "none" THEN UNCHANGED <<coord, service>>
                                            ELSE FailTerminal("incompatible")
    /\ UNCHANGED <<arb, permit, purged, input, release, output>>

(* beginReacquisition and what request() does around it. *)
BeginsFor(r) ==
    /\ coord.err = "none" /\ coord.phase = "Inactive"
    /\ LET old == service.epoch
           purge == NewPurge(old, old + 1)
       IN  IF LiveEpoch /\ req[r].want.gen = old /\ CanBegin(old, old + 1)
           THEN /\ service' = BeginReacquisition(old, old + 1)
                /\ coord' = [coord EXCEPT !.request = req[r].want,
                                          !.transition = purge,
                                          !.inFlight = purge.seq,
                                          !.phase = "Purging"]
                /\ req' = [req EXCEPT ![r].pc = "purge", ![r].purge = purge,
                                      ![r].next = 1, ![r].ok = TRUE]
           ELSE FailTerminal("invalid") /\ Returns(r, FALSE)
    /\ UNCHANGED <<arb, permit, purged, input, release, output>>

\* Mutant: begin does not wait for a publication in progress.
RequestBegins_NoArbitration(r) ==
    req[r].pc = "begin" /\ ServiceFree /\ BeginsFor(r)

\* Mutant: begin closes the permit under a commit in progress.
RequestBegins_NoServiceMutex(r) ==
    req[r].pc = "begin" /\ ArbFree /\ BeginsFor(r)

RequestBegins(r) ==
    req[r].pc = "begin" /\ ArbFree /\ ServiceFree /\ BeginsFor(r)

\* Mutant: a purge that failed does not fail the request.
PurgeOutcome_Ignored(r, ok) == req[r].ok

PurgeOutcome(r, ok) == req[r].ok /\ ok

PurgeLineage(old) ==
    /\ fed' = [g \in Gates |-> IF fed[g] = old THEN 0 ELSE fed[g]]
    /\ UNCHANGED <<units, sched>>

(* The scheduler's output state must be that of the old generation, taken  *)
(* up or still pending; its session is replaced.  What it held of the old  *)
(* media is lost; the channels in front of it are not emptied.             *)
PurgeScheduler(old, next) ==
    /\ \/ sched.permitted = old /\ sched.pending = 0
       \/ sched.permitted = 0 /\ sched.pending = old
    /\ sched' = [sched EXCEPT !.gen = 0, !.permitted = 0, !.pending = next,
                              !.fresh = FALSE]
    /\ units' \in {units, units \ {old}}
    /\ UNCHANGED fed

PurgeParticipant(p, purge) ==
    /\ IF Participants[p] = "lineage" THEN PurgeLineage(purge.old)
                                      ELSE PurgeScheduler(purge.old, purge.next)
    /\ purged' = [purged EXCEPT ![p] = purge.seq]

(* Every participant is purged, also after one of them has failed; any of  *)
(* them may fail.                                                          *)
RequestPurges(r) ==
    /\ req[r].pc = "purge" /\ req[r].next \in DOMAIN Participants
    /\ \E ok \in BOOLEAN :
          /\ req' = [req EXCEPT ![r].next = @ + 1, ![r].ok = PurgeOutcome(r, ok)]
          /\ IF ok THEN PurgeParticipant(req[r].next, req[r].purge)
                   ELSE UNCHANGED <<purged, fed, units, sched>>
    /\ UNCHANGED <<service, coord, arb, permit, input, startup, releases,
                   seqr, emitted>>

RequestAcknowledges(r) ==
    /\ req[r].pc = "purge" /\ req[r].next \notin DOMAIN Participants
    /\ ServiceFree
    /\ LET seq == req[r].purge.seq
           inFlight == /\ coord.phase = "Purging" /\ coord.inFlight = seq
                       /\ coord.transition.seq = seq
           done == /\ coord.err = "none" /\ inFlight /\ req[r].ok
                   /\ CanAcknowledge(seq)
       IN  /\ Returns(r, done)
           /\ CASE done -> /\ service' = AcknowledgeAll
                           /\ coord' = [coord EXCEPT !.phase = "Acquiring",
                                                     !.inFlight = 0]
                [] ~done /\ coord.err = "none" -> FailTerminal("purge")
                [] ~done /\ coord.err # "none" -> UNCHANGED <<service, coord>>
    /\ UNCHANGED <<arb, permit, purged, input, release, output>>

(***************************************************************************)
(* Startup: once both streams have reached the same new generation it      *)
(* releases them together; later packets pass through one by one.          *)
(***************************************************************************)
Release(kind, gen, seq) ==
    releases' = Append(releases, [kind |-> kind, gen |-> gen, seq |-> seq])

ReleaseRoom == Len(releases) < MaxReleases

CommonStart(gen) == gen # startup.last /\ \A g \in Gates : fed[g] = gen

StartupInitial ==
    /\ startup.pc = "idle" /\ startup.last = 0 /\ ReleaseRoom
    /\ \E gen \in 1 .. MaxGen :
          /\ CommonStart(gen)
          /\ Release("Initial", gen, 0)
          /\ startup' = [startup EXCEPT !.last = gen]
    /\ UNCHANGED <<service, coord, arb, permit, purged, req, input, fed, seqr, output>>

StartupNext ==
    /\ startup.pc = "idle" /\ startup.last # 0 /\ ReleaseRoom
    /\ \E gen \in 1 .. MaxGen :
          /\ CommonStart(gen)
          /\ startup' = IF /\ coord.phase = "Acquiring"
                           /\ coord.transition.old = startup.last
                           /\ coord.transition.next = gen
                        THEN [startup EXCEPT !.pc = "mark",
                                             !.purge = coord.transition]
                        ELSE [startup EXCEPT !.pc = "failed"]
    /\ UNCHANGED <<service, coord, arb, permit, purged, req, input, fed,
                   releases, seqr, output>>

\* Mutant: the transition is marked ready and the release is lost.
ReleasesNext_Lost(purge) == UNCHANGED releases

ReleasesNext(purge) == Release("Next", purge.next, purge.seq)

(* markReadyForActivation, then the release leaves. *)
StartupMarks ==
    /\ startup.pc = "mark" /\ ArbFree /\ ServiceFree
    /\ LET purge == startup.purge
       IN  IF /\ coord.err = "none" /\ coord.phase = "Acquiring"
              /\ MatchesTransition(purge.next, purge.seq)
           THEN /\ coord' = [coord EXCEPT !.phase = "ReadyForActivation"]
                /\ startup' = [startup EXCEPT !.pc = "idle", !.last = purge.next]
                /\ ReleasesNext(purge)
                /\ UNCHANGED service
           ELSE /\ startup' = [startup EXCEPT !.pc = "failed"]
                /\ FailTerminal("readiness")
                /\ UNCHANGED releases
    /\ UNCHANGED <<arb, permit, purged, req, input, fed, seqr, output>>

StartupPasses ==
    /\ startup.pc = "idle" /\ startup.last # 0 /\ ReleaseRoom
    /\ \E g \in Gates : fed[g] = startup.last
    /\ Release("PassThrough", startup.last, 0)
    /\ UNCHANGED <<service, coord, arb, permit, purged, req, input, fed,
                   startup, seqr, output>>

(***************************************************************************)
(* The release sequencer.  seqr.active is the generation of the activation *)
(* event it published last.                                                *)
(***************************************************************************)
Pending(pc, kind) ==
    seqr.pc = pc /\ releases # << >> /\ Head(releases).kind = kind
SequencerGoes(pc) == seqr' = [seqr EXCEPT !.pc = pc] /\ UNCHANGED releases
Discards == /\ seqr' = [seqr EXCEPT !.pc = "idle"]
            /\ releases' = Tail(releases)

SequencerActivatesInitial ==
    /\ Pending("idle", "Initial") /\ ServiceFree
    /\ IF CanActivateInitial
       THEN service' = ActivateInitial(Head(releases).gen) /\ SequencerGoes("publish")
       ELSE SequencerGoes("failed") /\ UNCHANGED service
    /\ UNCHANGED <<coord, arb, permit, purged, req, input, fed, startup, output>>

(* reserveStartupReleasePublication for the first epoch: the activation    *)
(* mutex is kept until the release is committed.                           *)
SequencerPublishesInitial ==
    /\ Pending("publish", "Initial") /\ ArbFree /\ ServiceFree
    /\ LET gen == Head(releases).gen
       IN  IF ClassifyRelease(gen) = "Publish"
           THEN /\ seqr' = [pc |-> "commit", active |-> gen]
                /\ arb' = Sequencer
           ELSE /\ seqr' = [seqr EXCEPT !.pc = "abort"]
                /\ UNCHANGED arb
    /\ UNCHANGED <<service, coord, permit, purged, req, input, fed, startup,
                   releases, output>>

SequencerClassifies ==
    /\ Pending("idle", "PassThrough") /\ ServiceFree
    /\ LET gen == Head(releases).gen
           disposition == ClassifyRelease(gen)
       IN  CASE disposition = "DropOld" -> Discards
             [] disposition = "Withhold" -> UNCHANGED <<seqr, releases>>
             [] disposition = "Reject" -> SequencerGoes("failed")
             [] disposition = "Publish" ->
                  SequencerGoes(IF seqr.active = gen THEN "reserve" ELSE "failed")
    /\ UNCHANGED <<service, coord, arb, permit, purged, req, input, fed, startup, output>>

\* Mutant: the activation mutex is kept for a release that is not published.
KeptBy_Always(disposition) == Sequencer

(* reserveReleasePublication keeps the activation mutex only to publish. *)
KeptBy(disposition) == IF disposition = "Publish" THEN Sequencer ELSE arb

SequencerReserves ==
    /\ Pending("reserve", "PassThrough") /\ ArbFree /\ ServiceFree
    /\ LET disposition == ClassifyRelease(Head(releases).gen)
       IN  /\ arb' = KeptBy(disposition)
           /\ CASE disposition = "DropOld" -> Discards
                [] disposition = "Withhold" -> SequencerGoes("idle")
                [] disposition = "Reject" -> SequencerGoes("failed")
                [] disposition = "Publish" -> SequencerGoes("commit")
    /\ UNCHANGED <<service, coord, permit, purged, req, input, fed, startup, output>>

(* commitReserved and completePublished. *)
SequencerCommits ==
    /\ seqr.pc = "commit"
    /\ units' = units \cup {Head(releases).gen}
    /\ Discards
    /\ arb' = Free
    /\ UNCHANGED <<service, coord, permit, purged, req, input, fed, startup,
                   sched, emitted>>

SequencerChecksCoordinator ==
    /\ Pending("idle", "Next")
    /\ SequencerGoes(IF /\ coord.phase = "ReadyForActivation"
                        /\ MatchesTransition(Head(releases).gen, Head(releases).seq)
                     THEN "check" ELSE "abort")
    /\ UNCHANGED <<service, coord, arb, permit, purged, req, input, fed, startup, output>>

SequencerChecksService ==
    /\ Pending("check", "Next") /\ ServiceFree
    /\ SequencerGoes(IF /\ ~service.poisoned /\ service.readiness = "Acquiring"
                        /\ ~OutputPermitted(service.epoch)
                     THEN "activate" ELSE "abort")
    /\ UNCHANGED <<service, coord, arb, permit, purged, req, input, fed, startup, output>>

SequencerReservesActivation ==
    /\ Pending("activate", "Next") /\ ArbFree /\ ServiceFree
    /\ IF /\ coord.err = "none" /\ coord.phase = "ReadyForActivation"
          /\ MatchesTransition(Head(releases).gen, Head(releases).seq)
       THEN /\ coord' = [coord EXCEPT !.phase = "Activating"]
            /\ arb' = Sequencer
            /\ SequencerGoes("activateNext")
            /\ UNCHANGED service
       ELSE /\ FailTerminal("reservation")
            /\ SequencerGoes("abort")
            /\ UNCHANGED arb
    /\ UNCHANGED <<permit, purged, req, input, fed, startup, output>>

(* abandon gives the activation mutex back; markAborted follows. *)
Abandons ==
    /\ FailTerminal("abandoned")
    /\ arb' = Free
    /\ SequencerGoes("abort")

SequencerActivatesNext ==
    /\ seqr.pc = "activateNext" /\ ServiceFree
    /\ LET next == Head(releases)
       IN  IF CanActivateNext(next.gen, next.seq)
           THEN /\ service' = ActivateNext(next.gen)
                /\ SequencerGoes("authorize")
                /\ UNCHANGED <<coord, arb>>
           ELSE Abandons
    /\ UNCHANGED <<permit, purged, req, input, fed, startup, output>>

SequencerAuthorizes ==
    /\ seqr.pc = "authorize" /\ ServiceFree
    /\ LET next == Head(releases)
       IN  IF /\ coord.err = "none" /\ coord.phase = "Activating"
              /\ MatchesTransition(next.gen, next.seq)
              /\ LiveEpoch /\ service.epoch = next.gen
           THEN /\ coord' = [coord EXCEPT !.phase = "Publishing"]
                /\ SequencerGoes("finalize")
                /\ UNCHANGED <<service, arb>>
           ELSE Abandons
    /\ UNCHANGED <<permit, purged, req, input, fed, startup, output>>

SequencerFinalizes ==
    /\ seqr.pc = "finalize" /\ ServiceFree
    /\ LET next == Head(releases)
       IN  IF coord.phase = "Publishing" /\ MatchesTransition(next.gen, next.seq)
           THEN /\ coord' = [coord EXCEPT !.phase = "Inactive",
                       !.lastPublished = next.seq, !.request = NoRequest,
                       !.transition = NoPurge, !.inFlight = 0]
                /\ seqr' = [pc |-> "commit", active |-> next.gen]
                /\ UNCHANGED <<service, arb, releases>>
           ELSE Abandons
    /\ UNCHANGED <<permit, purged, req, input, fed, startup, output>>

SequencerAborts ==
    /\ seqr.pc = "abort" /\ ArbFree /\ ServiceFree
    /\ Abort
    /\ SequencerGoes("failed")
    /\ UNCHANGED <<arb, permit, purged, req, input, fed, startup, output>>

(***************************************************************************)
(* The output scheduler.  sched.gen is the active generation of its        *)
(* session, which a purge replaces; sched.permitted and sched.pending are  *)
(* its output generation state.  It emits while it keeps the service       *)
(* mutex.                                                                  *)
(***************************************************************************)
SchedulerRefreshes ==
    /\ sched.pc = "idle" /\ sched.gen = 0 /\ ServiceFree
    /\ service.poisoned \/ service.epoch # 0
    /\ coord.phase \in {"Inactive", "Aborted"}
    /\ sched' = [sched EXCEPT !.pc = "configure", !.fresh = TRUE]
    /\ UNCHANGED <<service, coord, arb, permit, purged, req, input, release,
                   units, emitted>>

CanCommit(gen) ==
    /\ ~service.failed /\ service.readiness = "Locked"
    /\ service.epoch = gen /\ OutputPermitted(gen)

(* permitAuthorityActivation.  The generation is written to the session    *)
(* that SchedulerRefreshes found, which a purge may have replaced.         *)
SchedulerConfigures ==
    /\ sched.pc = "configure" /\ ServiceFree
    /\ LET gen == service.epoch
           seq == service.nextSeq - 1
           initial == /\ sched.permitted = 0 /\ sched.pending = 0
                      /\ purged[SchedulerPurge] = 0 /\ seq = 0
           rollover == /\ sched.pending # 0 /\ sched.pending = gen
                       /\ seq # 0 /\ purged[SchedulerPurge] = seq
       IN  sched' = IF (initial \/ rollover) /\ CanCommit(gen)
                    THEN [sched EXCEPT !.pc = "idle", !.permitted = gen,
                            !.pending = 0, !.gen = IF sched.fresh THEN gen ELSE 0]
                    ELSE [sched EXCEPT !.pc = "failed"]
    /\ UNCHANGED <<service, coord, arb, permit, purged, req, input, release,
                   units, emitted>>

(* A head of an older generation is discarded; the output of a head whose  *)
(* permit is closed is dropped and the head tried again.                   *)
SchedulerReserves ==
    /\ sched.pc = "idle" /\ sched.gen # 0 /\ ServiceFree
    /\ \E gen \in units :
          LET open == CanCommit(gen) /\ sched.permitted = gen
          IN  /\ units' = IF gen < sched.gen \/ (gen = sched.gen /\ open)
                          THEN units \ {gen} ELSE units
              /\ sched' = [sched EXCEPT !.pc =
                     CASE gen > sched.gen -> "failed"
                       [] gen = sched.gen /\ open -> "emit"
                       [] OTHER -> "idle"]
              /\ permit' = IF gen = sched.gen /\ open THEN Scheduler ELSE permit
    /\ UNCHANGED <<service, coord, arb, purged, req, input, release, emitted>>

SchedulerEmits ==
    /\ sched.pc = "emit"
    /\ emitted' = sched.gen
    /\ sched' = [sched EXCEPT !.pc = "idle"]
    /\ permit' = Free
    /\ UNCHANGED <<service, coord, arb, purged, req, input, release, units>>

(* A hard phase error, or the video recovery budget is exhausted: a        *)
(* request, then the node fails.  A video unit of a later generation has   *)
(* failed the call before the controller could report a mismatch.          *)
SchedulerRequests ==
    /\ sched.pc = "idle" /\ sched.gen # 0
    /\ sched' = [sched EXCEPT !.pc = "request"]
    /\ \E reason \in {"HardDiscontinuity", "RecoveryBudgetExhausted"} :
          req' = [req EXCEPT ![Scheduler].pc = "check", ![Scheduler].want =
                     [gen |-> sched.gen, reason |-> reason]]
    /\ UNCHANGED <<service, coord, arb, permit, purged, input, release, units, emitted>>

SchedulerFails ==
    /\ sched.pc = "request" /\ req[Scheduler].pc = "returned"
    /\ sched' = [sched EXCEPT !.pc = "failed"]
    /\ req' = [req EXCEPT ![Scheduler].pc = "idle"]
    /\ UNCHANGED <<service, coord, arb, permit, purged, input, release, units, emitted>>

\* Mutant: abort() does not wait for the activation mutex.
AbortGranted_Anytime == ServiceFree

AbortGranted == ArbFree /\ ServiceFree

(* The scheduler finds an input channel aborted, which may happen at the   *)
(* start of any call: it aborts the group, clears its session and fails.   *)
SchedulerAborts ==
    /\ sched.pc = "idle" /\ AbortGranted
    /\ Abort
    /\ sched' = [sched EXCEPT !.pc = "failed", !.gen = 0]
    /\ UNCHANGED <<arb, permit, purged, req, input, release, units, emitted>>

(***************************************************************************)
(* The runtime stops the group when a worker has failed, or when it is     *)
(* told to: workers finish the call they are in, are joined, and the group *)
(* is shut down.                                                           *)
(***************************************************************************)
Failures == {"failed", "refused"}

SomeoneFailed ==
    \/ \E g \in Gates : gate[g].pc \in Failures
    \/ "failed" \in {startup.pc, seqr.pc, sched.pc}

BetweenCalls ==
    /\ \A g \in Gates : gate[g].pc \in Failures \cup {"idle"}
    /\ {startup.pc, seqr.pc, sched.pc} \subseteq {"idle", "failed"}

Stop ==
    /\ BetweenCalls
    /\ Abort
    /\ gate' = [g \in Gates |-> [gate[g] EXCEPT !.pc = "stopped"]]
    /\ startup' = [startup EXCEPT !.pc = "stopped"]
    /\ seqr' = [seqr EXCEPT !.pc = "stopped"]
    /\ sched' = [sched EXCEPT !.pc = "stopped"]
    /\ source' = [source EXCEPT !.state = "stopped"]
    /\ UNCHANGED <<arb, permit, purged, req, clock, fed, releases, units, emitted>>

StopOnFailure == SomeoneFailed /\ Stop

Stopped == source.state = "stopped" /\ UNCHANGED vars

Source == SourceLocked \/ SourceDiscontinuity \/ SourceRelocked

Request(r) ==
    \/ RequestCheck(r) \/ RequestReject(r) \/ RequestJoins(r)
    \/ RequestBegins(r) \/ RequestPurges(r) \/ RequestAcknowledges(r)

GateHandler(g) ==
    \/ GateReadsLocked(g) \/ GateReadsDiscontinuity(g)
    \/ GateObservesService(g) \/ GateObservesCoordinator(g) \/ GateVerifies(g)

Packet(g) ==
    \E gen \in {h \in 1 .. source.gen : h + 1 >= source.gen} :
        source.state # "stopped" /\ GatePacket(g, gen)

Startup == StartupInitial \/ StartupNext \/ StartupMarks

Sequencing ==
    \/ SequencerActivatesInitial \/ SequencerPublishesInitial
    \/ SequencerClassifies \/ SequencerReserves \/ SequencerCommits
    \/ SequencerChecksCoordinator \/ SequencerChecksService
    \/ SequencerReservesActivation \/ SequencerActivatesNext
    \/ SequencerAuthorizes \/ SequencerFinalizes \/ SequencerAborts

Scheduling ==
    \/ SchedulerRefreshes \/ SchedulerConfigures \/ SchedulerReserves
    \/ SchedulerEmits \/ SchedulerFails

Next ==
    \/ Source \/ Startup \/ StartupPasses \/ Sequencing \/ Scheduling
    \/ \E r \in Requesters : Request(r)
    \/ \E g \in Gates : GateHandler(g) \/ Packet(g)
    \/ SchedulerRequests \/ SchedulerAborts
    \/ Stop \/ Stopped

Spec == Init /\ [][Next]_vars

(* Every worker takes its next step when it can: each runs on a thread of  *)
(* its own.  A request is granted a mutex that others take again and again *)
(* in the end.  The source, the scheduler's own requests, an aborted input *)
(* and a stop by the user have no fairness: they need not happen.          *)
Fairness ==
    /\ \A r \in Requesters : SF_vars(Request(r))
    /\ WF_vars(Sequencing) /\ WF_vars(Scheduling) /\ WF_vars(StopOnFailure)

FairSpec == Spec /\ Fairness

-----------------------------------------------------------------------------
(* Properties.                                                             *)

(* The coordinator's phase and the service's readiness, kept under two     *)
(* different mutexes, describe the same transition at every moment: a      *)
(* purge in the coordinator is the service's active one, a purged          *)
(* transition its completed one, the permit is open exactly when no        *)
(* transition is in progress, and the group is aborted in both or neither. *)
(* While output is permitted the scheduler's output state is that of the   *)
(* epoch, taken up or still waiting to be: a transition that opened the    *)
(* permit with the scheduler left behind would strand it for good.         *)
LayersAgree ==
    /\ coord.phase = "Aborted" <=> service.poisoned
    /\ coord.phase = "Aborted" <=> coord.err # "none"
    /\ coord.phase = "Purging" =>
          service.readiness = "Reacquire" /\ service.active = coord.transition
    /\ coord.phase \in {"Acquiring", "ReadyForActivation"} =>
          service.readiness = "Acquiring" /\ service.completed = coord.transition
    /\ TransitionActive(coord.phase) =>
          ~service.permitted /\ service.epoch = coord.transition.old
    /\ coord.phase \in {"Inactive", "Publishing"} => AwaitingEpoch \/ LiveEpoch
    /\ LiveEpoch => \/ sched.permitted = service.epoch /\ sched.pending = 0
                    \/ sched.permitted = 0 /\ sched.pending = service.epoch
                    \/ sched.permitted = 0 /\ sched.pending = 0 /\ service.nextSeq = 1

(* Closing the permit is the linearization point: a release reaches the    *)
(* output path only while the permit of its generation is open, whatever   *)
(* was in flight when the transition began.                                *)
PublishesUnderPermit ==
    [][\A gen \in units' \ units : LiveEpoch /\ service.epoch = gen]_vars

(* The next epoch opens only after every planned participant has been      *)
(* purged for the transition that leads to it.                             *)
OpensAfterPurge ==
    LiveEpoch => \A p \in DOMAIN purged : purged[p] = service.nextSeq - 1

(* A unit leaves the scheduler only while the permit of its generation is  *)
(* open, and generations leave in order: nothing of the old generation     *)
(* follows the closing of its permit.                                      *)
EmitsUnderPermit ==
    [][emitted' # emitted => /\ LiveEpoch /\ service.epoch = emitted'
                             /\ emitted' > emitted]_vars

(* Once reserveActivation has succeeded nothing can intervene: the next    *)
(* epoch is activated, authorized, finalized and committed.                *)
ReservedActivationPublishes ==
    [][seqr.pc \in {"activateNext", "authorize", "finalize"} /\ seqr' # seqr
         => seqr'.pc \in {"authorize", "finalize", "commit"}]_vars

(* A failure is terminal: the first error is kept, the permit never opens  *)
(* again, and sequences and generations only grow.                         *)
FailureIsTerminal ==
    [][/\ coord.err # "none" => /\ coord'.err = coord.err
                                /\ coord'.phase = "Aborted"
                                /\ ~service'.permitted
       /\ service'.epoch >= service.epoch
       /\ service'.nextSeq >= service.nextSeq
       /\ coord'.lastPublished >= coord.lastPublished]_vars

(* A call of request() returns, and a purge it began is acknowledged or    *)
(* fails the group.                                                        *)
RequestReturns ==
    \A r \in Requesters : []<>(req[r].pc \in {"returned", "idle"})

(* A transition that startup has declared ready ends: its epoch is         *)
(* published or the group is aborted.                                      *)
ReadyEnds == coord.phase = "ReadyForActivation"
                ~> coord.phase \in {"Inactive", "Aborted"}

(* A discontinuity of the active generation becomes a group request or is  *)
(* withheld for the transition already in progress: a gate refuses one     *)
(* only if the group has been aborted, has moved to another epoch, or the  *)
(* scheduler has asked for a transition too and fails.                     *)
DiscontinuityRequested ==
    [][\A g \in Gates :
          gate'[g].pc = "refused" /\ gate[g].pc # "refused" =>
            \/ coord.err # "none"
            \/ gate'[g].gen # service.epoch
            \/ sched.pc \in {"request", "failed"}]_vars
=============================================================================
