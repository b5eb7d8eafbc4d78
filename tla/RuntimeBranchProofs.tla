------------------------- MODULE RuntimeBranchProofs -------------------------
(***************************************************************************)
(* Proofs about RuntimeBranch for every set of workers and every capacity:  *)
(* the branch implements BranchLifecycle, its workers are never released    *)
(* under a walk, and a branch that retires without a failure is empty.      *)
(***************************************************************************)
EXTENDS RuntimeBranch, TLAPS

(* Who is where in the mutex: a caller inside start(), poll() or               *)
(* requestFailureStop holds it; only the destructor walks without it.          *)
MutexHeld ==
    /\ op["control"] \in {"idle", "starting", "polled", "silent", "failing",
                           "dropping"}
    /\ op["fanout"] \in {"idle", "publishing", "refused", "failing"}
    /\ (mutex = "control") <=> (op["control"] \in {"starting", "polled", "failing"})
    /\ (mutex = "fanout") <=> (op["fanout"] = "failing")
    /\ dropped <=> op["control"] = "dropping"
    /\ dropped => op["fanout"] = "idle"

(* A walk is the middle of an operation, and of which state that operation is. *)
WalksInside ==
    /\ \A a \in Callers : walk[a] # {} => op[a] \in {"failing", "dropping"}
    /\ \A w \in Workers : walk[w] # {} => pc[w] \in {"notifying", "notifyingExit"}
    /\ \A a \in Callers : op[a] = "failing" => state = "Failed"
    /\ op["control"] = "starting" => state = "Prepared"
    /\ op["control"] \in {"polled", "dropping"} => state \notin Terminating

(* What the owner is given: workers that have exited, and no walk.             *)
OwnerLast ==
    /\ state \in Terminating => WorkersExited /\ owner # "idle"
    /\ owner # "idle" => state \in Terminating \/ (dropped /\ walk["control"] = {})
    /\ owner \in {"joined", "stopped", "released", "completed"} => WorkersExited
    /\ state = "Retired" => owner = "completed"
    /\ cleared => owner \in {"released", "completed"}
    /\ reclaimed => cleared

(* The inductive invariant of the lifetime argument.                           *)
LifetimeInv == TypeOK /\ MutexHeld /\ WalksInside /\ OwnerLast

USE CapacityAssumption, WorkersAssumption
USE DEF States, Ops, WorkerState, OwnerState, Callers, Terminating, Quiet,
        WorkersExited, control, media, reclaim

(* The initial state satisfies the lifetime invariant.                         *)
LEMMA LifetimeInit == Init => LifetimeInv
<1> SUFFICES ASSUME Init PROVE LifetimeInv
  OBVIOUS
<1>1. TypeOK
  <2>1. prerequisite \in BOOLEAN /\ dropped \in BOOLEAN /\ failed \in BOOLEAN
        /\ eos \in BOOLEAN /\ moved \in BOOLEAN /\ reclaimAbort \in BOOLEAN
        /\ reclaimed \in BOOLEAN /\ cleared \in BOOLEAN
    BY Zenon DEF Init
  <2>2. QED
    BY <2>1 DEF Init, TypeOK
<1>2. MutexHeld
  BY DEF Init, MutexHeld
<1>3. WalksInside
  BY DEF Init, WalksInside
<1>4. OwnerLast
  BY DEF Init, OwnerLast
<1>5. QED
  BY <1>1, <1>2, <1>3, <1>4 DEF LifetimeInv

(* Every step of the branch, its callers, its workers and its owner keeps the    *)
(* lifetime invariant.                                                          *)
LEMMA LifetimeStep == LifetimeInv /\ [Next]_vars => LifetimeInv'
<1> SUFFICES ASSUME LifetimeInv, [Next]_vars PROVE LifetimeInv'
  OBVIOUS
<1>1. ASSUME NEW a \in Callers \cup Workers, NEW w \in Workers, Visit(a, w)
       PROVE LifetimeInv'
  BY <1>1 DEF Visit, LifetimeInv, TypeOK, MutexHeld, WalksInside, OwnerLast
<1>2. ASSUME NEW a \in Callers, FailReturns(a)
       PROVE LifetimeInv'
  BY <1>2 DEF FailReturns, LifetimeInv, TypeOK, MutexHeld, WalksInside,
         OwnerLast
<1>3. ASSUME NEW a \in Callers, Fail(a)
       PROVE LifetimeInv'
  BY <1>3 DEF Fail, StopWorkers, LifetimeInv, TypeOK, MutexHeld, WalksInside,
         OwnerLast
<1>4. ASSUME NEW a \in Callers, FailTooLate(a)
       PROVE LifetimeInv'
  BY <1>4 DEF FailTooLate, LifetimeInv, TypeOK, MutexHeld, WalksInside,
         OwnerLast
<1>5. CASE BeginStart
  BY <1>5 DEF BeginStart, LifetimeInv, TypeOK, MutexHeld, WalksInside,
         OwnerLast
<1>6. CASE StartRefused
  BY <1>6 DEF StartRefused, LifetimeInv, TypeOK, MutexHeld, WalksInside,
         OwnerLast
<1>7. CASE Started
  BY <1>7 DEF Started, LifetimeInv, TypeOK, MutexHeld, WalksInside, OwnerLast
<1>8. ASSUME NEW w \in Workers, Launch(w)
       PROVE LifetimeInv'
  BY <1>8 DEF Launch, LifetimeInv, TypeOK, MutexHeld, WalksInside, OwnerLast
<1>9. ASSUME NEW w \in Workers, LaunchFails(w)
       PROVE LifetimeInv'
  BY <1>9 DEF LaunchFails, StopWorkers, LifetimeInv, TypeOK, MutexHeld,
         WalksInside, OwnerLast
<1>10. CASE BeginPublish
  BY <1>10 DEF BeginPublish, LifetimeInv, TypeOK, MutexHeld, WalksInside,
         OwnerLast
<1>11. CASE ReplicaFails
  BY <1>11 DEF ReplicaFails, Publishes, LifetimeInv, TypeOK, MutexHeld,
         WalksInside, OwnerLast
<1>12. CASE TryPublishClosed
  BY <1>12 DEF TryPublishClosed, Publishes, Publishable, LifetimeInv, TypeOK,
         MutexHeld, WalksInside, OwnerLast
<1>13. CASE TryPublishAccepted
  BY <1>13 DEF TryPublishAccepted, Publishes, Publishable, LifetimeInv,
         TypeOK, MutexHeld, WalksInside, OwnerLast
<1>14. CASE TryPublishEof
  BY <1>14 DEF TryPublishEof, Publishes, Publishable, LifetimeInv, TypeOK,
         MutexHeld, WalksInside, OwnerLast
<1>15. CASE TryPublishWouldBlock
  BY <1>15 DEF TryPublishWouldBlock, Publishes, Publishable, LifetimeInv,
         TypeOK, MutexHeld, WalksInside, OwnerLast
<1>16. CASE BeginDrain
  BY <1>16 DEF BeginDrain, LifetimeInv, TypeOK, MutexHeld, WalksInside,
         OwnerLast
<1>17. CASE BeginDrainFails
  BY <1>17 DEF BeginDrainFails, StopWorkers, LifetimeInv, TypeOK, MutexHeld,
         WalksInside, OwnerLast
<1>18. ASSUME NEW w \in Workers, Process(w)
       PROVE LifetimeInv'
  BY <1>18 DEF Process, LifetimeInv, TypeOK, MutexHeld, WalksInside, OwnerLast
<1>19. ASSUME NEW w \in Workers, WorkerFails(w)
       PROVE LifetimeInv'
  BY <1>19 DEF WorkerFails, RecordFailure, LifetimeInv, TypeOK, MutexHeld,
         WalksInside, OwnerLast
<1>20. ASSUME NEW w \in Workers, ExitFails(w)
       PROVE LifetimeInv'
  BY <1>20 DEF ExitFails, RecordFailure, LifetimeInv, TypeOK, MutexHeld,
         WalksInside, OwnerLast
<1>21. ASSUME NEW w \in Workers, Leaves(w)
       PROVE LifetimeInv'
  BY <1>21 DEF Leaves, WorkerMoves, LifetimeInv, TypeOK, MutexHeld,
         WalksInside, OwnerLast
<1>22. ASSUME NEW w \in Workers, Exits(w)
       PROVE LifetimeInv'
  BY <1>22 DEF Exits, WorkerMoves, LifetimeInv, TypeOK, MutexHeld,
         WalksInside, OwnerLast
<1>23. ASSUME NEW w \in Workers, Notified(w)
       PROVE LifetimeInv'
  <2>1. CASE pc[w] = "notifying"
    BY <1>23, <2>1 DEF Notified, WorkerMoves, LifetimeInv, TypeOK, MutexHeld,
           WalksInside, OwnerLast
  <2>2. CASE pc[w] = "notifyingExit"
    BY <1>23, <2>2 DEF Notified, WorkerMoves, LifetimeInv, TypeOK, MutexHeld,
           WalksInside, OwnerLast
  <2>3. QED
    BY <1>23, <2>1, <2>2 DEF Notified, WorkerMoves
<1>24. CASE PollBegins
  BY <1>24 DEF PollBegins, LifetimeInv, TypeOK, MutexHeld, WalksInside,
         OwnerLast
<1>25. CASE PollProgress
  BY <1>25 DEF PollProgress, PollUnlocks, Drains, LifetimeInv, TypeOK,
         MutexHeld, WalksInside, OwnerLast
<1>26. CASE PollWaits
  BY <1>26 DEF PollWaits, PollUnlocks, Drains, LifetimeInv, TypeOK, MutexHeld,
         WalksInside, OwnerLast
<1>27. CASE PollRetires
  BY <1>27 DEF PollRetires, PollUnlocks, RetireReady, LifetimeInv, TypeOK,
         MutexHeld, WalksInside, OwnerLast
<1>28. CASE PollRetired
  BY <1>28 DEF PollRetired, LifetimeInv, TypeOK, MutexHeld, WalksInside,
         OwnerLast
<1>29. CASE PollReleaseSilent
  BY <1>29 DEF PollReleaseSilent, LifetimeInv, TypeOK, MutexHeld, WalksInside,
         OwnerLast
<1>30. CASE PollSilent
  BY <1>30 DEF PollSilent, PollUnlocks, Drains, LifetimeInv, TypeOK,
         MutexHeld, WalksInside, OwnerLast
<1>31. CASE PrerequisiteExits
  BY <1>31 DEF PrerequisiteExits, LifetimeInv, TypeOK, MutexHeld, WalksInside,
         OwnerLast
<1>32. CASE OwnerJoins
  BY <1>32 DEF OwnerJoins, OwnerMoves, LifetimeInv, TypeOK, MutexHeld,
         WalksInside, OwnerLast
<1>33. CASE OwnerStops
  <2>1. CASE UNCHANGED failed
    BY <1>33, <2>1 DEF OwnerStops, OwnerMoves, LifetimeInv, TypeOK, MutexHeld,
     WalksInside, OwnerLast
  <2>2. CASE failed' = TRUE
    BY <1>33, <2>2 DEF OwnerStops, OwnerMoves, LifetimeInv, TypeOK, MutexHeld,
     WalksInside, OwnerLast
  <2>3. QED
    BY <1>33, <2>1, <2>2 DEF OwnerStops
<1>34. CASE OwnerReleases
  BY <1>34 DEF OwnerReleases, OwnerMoves, LifetimeInv, TypeOK, MutexHeld,
         WalksInside, OwnerLast
<1>35. CASE OwnerRaises
  <2>1. CASE UNCHANGED cleared
    BY <1>35, <2>1 DEF OwnerRaises, OwnerMoves, LifetimeInv, TypeOK, MutexHeld,
     WalksInside, OwnerLast
  <2>2. CASE owner = "stopped" /\ cleared' = TRUE
    BY <1>35, <2>2 DEF OwnerRaises, OwnerMoves, LifetimeInv, TypeOK, MutexHeld,
     WalksInside, OwnerLast
  <2>3. QED
    BY <1>35, <2>1, <2>2 DEF OwnerRaises
<1>36. CASE OwnerCompletes
  BY <1>36 DEF OwnerCompletes, OwnerMoves, LifetimeInv, TypeOK, MutexHeld,
         WalksInside, OwnerLast
<1>37. CASE Drop
  BY <1>37 DEF Drop, LifetimeInv, TypeOK, MutexHeld, WalksInside, OwnerLast
<1>38. CASE DropRequests
  BY <1>38 DEF DropRequests, LifetimeInv, TypeOK, MutexHeld, WalksInside,
         OwnerLast
<1>39. CASE UNCHANGED vars
  BY <1>39 DEF vars, LifetimeInv, TypeOK, MutexHeld, WalksInside, OwnerLast
<1>40. QED
  BY <1>1, <1>2, <1>3, <1>4, <1>5, <1>6, <1>7, <1>8, <1>9, <1>10, <1>11,
         <1>12, <1>13, <1>14, <1>15, <1>16, <1>17, <1>18, <1>19, <1>20, <1>21,
         <1>22, <1>23, <1>24, <1>25, <1>26, <1>27, <1>28, <1>29, <1>30, <1>31,
         <1>32, <1>33, <1>34, <1>35, <1>36, <1>37, <1>38, <1>39 DEF Next,
         Starting, Publish, Polling, Work, Owner

(* The lifetime invariant holds throughout.                                    *)
THEOREM LifetimeCorrect == Spec => []LifetimeInv
BY LifetimeInit, LifetimeStep, PTL DEF Spec

(* No worker is destroyed under a requestFailureStop that walks the workers,    *)
(* whatever the number of workers: m_publicationMutex protects the callers'     *)
(* walks, the exit publication the supervisor's, and the order of the           *)
(* destructor its own.                                                         *)
THEOREM ReleaseCorrect == Spec => []NoUseAfterRelease
<1>1. LifetimeInv => NoUseAfterRelease
  BY DEF LifetimeInv, TypeOK, MutexHeld, WalksInside, OwnerLast, NoUseAfterRelease
<1>2. QED
  BY <1>1, LifetimeCorrect, PTL

-----------------------------------------------------------------------------
(* Refinement.                                                             *)

(* The branch's first state is the lifecycle's.                                *)
LEMMA RefinementInit == Init => Lifecycle!Init
BY DEF Init, Lifecycle!Init

(* Every step of the branch is a step of the lifecycle or changes nothing of it. *)
LEMMA RefinementStep ==
    LifetimeInv /\ LifetimeInv' /\ [Next]_vars => [Lifecycle!Next]_(Lifecycle!branch)
<1> SUFFICES ASSUME LifetimeInv, LifetimeInv', [Next]_vars
             PROVE [Lifecycle!Next]_(Lifecycle!branch)
  OBVIOUS
<1>1. ASSUME NEW a \in Callers \cup Workers, NEW w \in Workers, Visit(a, w)
       PROVE [Lifecycle!Next]_(Lifecycle!branch)
  BY <1>1 DEF Visit, LifetimeInv, TypeOK, MutexHeld, WalksInside, OwnerLast,
         Lifecycle!branch, Lifecycle!Next
<1>2. ASSUME NEW a \in Callers, FailReturns(a)
       PROVE [Lifecycle!Next]_(Lifecycle!branch)
  BY <1>2 DEF FailReturns, LifetimeInv, TypeOK, MutexHeld, WalksInside,
         OwnerLast, Lifecycle!branch, Lifecycle!Next
<1>3. ASSUME NEW a \in Callers, Fail(a)
       PROVE [Lifecycle!Next]_(Lifecycle!branch)
  BY <1>3 DEF Fail, StopWorkers, LifetimeInv, TypeOK, MutexHeld, WalksInside,
         OwnerLast, Lifecycle!branch, Lifecycle!Next, Lifecycle!Fail
<1>4. ASSUME NEW a \in Callers, FailTooLate(a)
       PROVE [Lifecycle!Next]_(Lifecycle!branch)
  BY <1>4 DEF FailTooLate, LifetimeInv, TypeOK, MutexHeld, WalksInside,
         OwnerLast, Lifecycle!branch, Lifecycle!Next
<1>5. CASE BeginStart
  BY <1>5 DEF BeginStart, LifetimeInv, TypeOK, MutexHeld, WalksInside,
         OwnerLast, Lifecycle!branch, Lifecycle!Next
<1>6. CASE StartRefused
  BY <1>6 DEF StartRefused, LifetimeInv, TypeOK, MutexHeld, WalksInside,
         OwnerLast, Lifecycle!branch, Lifecycle!Next, Lifecycle!Fail
<1>7. CASE Started
  BY <1>7 DEF Started, LifetimeInv, TypeOK, MutexHeld, WalksInside, OwnerLast,
         Lifecycle!branch, Lifecycle!Next, Lifecycle!Start
<1>8. ASSUME NEW w \in Workers, Launch(w)
       PROVE [Lifecycle!Next]_(Lifecycle!branch)
  BY <1>8 DEF Launch, LifetimeInv, TypeOK, MutexHeld, WalksInside, OwnerLast,
         Lifecycle!branch, Lifecycle!Next, Lifecycle!Launch
<1>9. ASSUME NEW w \in Workers, LaunchFails(w)
       PROVE [Lifecycle!Next]_(Lifecycle!branch)
  BY <1>9 DEF LaunchFails, StopWorkers, LifetimeInv, TypeOK, MutexHeld,
         WalksInside, OwnerLast, Lifecycle!branch, Lifecycle!Next,
         Lifecycle!Fail
<1>10. CASE BeginPublish
  BY <1>10 DEF BeginPublish, LifetimeInv, TypeOK, MutexHeld, WalksInside,
         OwnerLast, Lifecycle!branch, Lifecycle!Next
<1>11. CASE ReplicaFails
  BY <1>11 DEF ReplicaFails, Publishes, LifetimeInv, TypeOK, MutexHeld,
         WalksInside, OwnerLast, Lifecycle!branch, Lifecycle!Next
<1>12. CASE TryPublishClosed
  BY <1>12 DEF TryPublishClosed, Publishes, Publishable, LifetimeInv, TypeOK,
         MutexHeld, WalksInside, OwnerLast, Lifecycle!branch, Lifecycle!Next
<1>13. CASE TryPublishAccepted
  BY <1>13 DEF TryPublishAccepted, Publishes, Publishable, LifetimeInv,
         TypeOK, MutexHeld, WalksInside, OwnerLast, Lifecycle!branch,
         Lifecycle!Next
<1>14. CASE TryPublishEof
  BY <1>14 DEF TryPublishEof, Publishes, Publishable, LifetimeInv, TypeOK,
         MutexHeld, WalksInside, OwnerLast, Lifecycle!branch, Lifecycle!Next
<1>15. CASE TryPublishWouldBlock
  BY <1>15 DEF TryPublishWouldBlock, Publishes, Publishable, LifetimeInv,
         TypeOK, MutexHeld, WalksInside, OwnerLast, Lifecycle!branch,
         Lifecycle!Next
<1>16. CASE BeginDrain
  BY <1>16 DEF BeginDrain, LifetimeInv, TypeOK, MutexHeld, WalksInside,
         OwnerLast, Lifecycle!branch, Lifecycle!Next, Lifecycle!Drain
<1>17. CASE BeginDrainFails
  BY <1>17 DEF BeginDrainFails, StopWorkers, LifetimeInv, TypeOK, MutexHeld,
         WalksInside, OwnerLast, Lifecycle!branch, Lifecycle!Next,
         Lifecycle!Fail
<1>18. ASSUME NEW w \in Workers, Process(w)
       PROVE [Lifecycle!Next]_(Lifecycle!branch)
  BY <1>18 DEF Process, LifetimeInv, TypeOK, MutexHeld, WalksInside,
         OwnerLast, Lifecycle!branch, Lifecycle!Next
<1>19. ASSUME NEW w \in Workers, WorkerFails(w)
       PROVE [Lifecycle!Next]_(Lifecycle!branch)
  BY <1>19 DEF WorkerFails, RecordFailure, LifetimeInv, TypeOK, MutexHeld,
         WalksInside, OwnerLast, Lifecycle!branch, Lifecycle!Next
<1>20. ASSUME NEW w \in Workers, ExitFails(w)
       PROVE [Lifecycle!Next]_(Lifecycle!branch)
  BY <1>20 DEF ExitFails, RecordFailure, LifetimeInv, TypeOK, MutexHeld,
         WalksInside, OwnerLast, Lifecycle!branch, Lifecycle!Next,
         Lifecycle!Exit
<1>21. ASSUME NEW w \in Workers, Leaves(w)
       PROVE [Lifecycle!Next]_(Lifecycle!branch)
  BY <1>21 DEF Leaves, WorkerMoves, LifetimeInv, TypeOK, MutexHeld,
         WalksInside, OwnerLast, Lifecycle!branch, Lifecycle!Next
<1>22. ASSUME NEW w \in Workers, Exits(w)
       PROVE [Lifecycle!Next]_(Lifecycle!branch)
  BY <1>22 DEF Exits, WorkerMoves, LifetimeInv, TypeOK, MutexHeld,
         WalksInside, OwnerLast, Lifecycle!branch, Lifecycle!Next,
         Lifecycle!Exit
<1>23. ASSUME NEW w \in Workers, Notified(w)
       PROVE [Lifecycle!Next]_(Lifecycle!branch)
  BY <1>23 DEF Notified, WorkerMoves, LifetimeInv, TypeOK, MutexHeld,
         WalksInside, OwnerLast, Lifecycle!branch, Lifecycle!Next,
         Lifecycle!Exit
<1>24. CASE PollBegins
  BY <1>24 DEF PollBegins, LifetimeInv, TypeOK, MutexHeld, WalksInside,
         OwnerLast, Lifecycle!branch, Lifecycle!Next, Lifecycle!Fail
<1>25. CASE PollProgress
  BY <1>25 DEF PollProgress, PollUnlocks, Drains, LifetimeInv, TypeOK,
         MutexHeld, WalksInside, OwnerLast, Lifecycle!branch, Lifecycle!Next
<1>26. CASE PollWaits
  BY <1>26 DEF PollWaits, PollUnlocks, Drains, LifetimeInv, TypeOK, MutexHeld,
         WalksInside, OwnerLast, Lifecycle!branch, Lifecycle!Next
<1>27. CASE PollRetires
  BY <1>27 DEF PollRetires, PollUnlocks, RetireReady, LifetimeInv, TypeOK,
         MutexHeld, WalksInside, OwnerLast, Lifecycle!branch, Lifecycle!Next,
         Lifecycle!Retire
<1>28. CASE PollRetired
  BY <1>28 DEF PollRetired, LifetimeInv, TypeOK, MutexHeld, WalksInside,
         OwnerLast, Lifecycle!branch, Lifecycle!Next, Lifecycle!Finish
<1>29. CASE PollReleaseSilent
  BY <1>29 DEF PollReleaseSilent, LifetimeInv, TypeOK, MutexHeld, WalksInside,
         OwnerLast, Lifecycle!branch, Lifecycle!Next
<1>30. CASE PollSilent
  BY <1>30 DEF PollSilent, PollUnlocks, Drains, LifetimeInv, TypeOK,
         MutexHeld, WalksInside, OwnerLast, Lifecycle!branch, Lifecycle!Next
<1>31. CASE PrerequisiteExits
  BY <1>31 DEF PrerequisiteExits, LifetimeInv, TypeOK, MutexHeld, WalksInside,
         OwnerLast, Lifecycle!branch, Lifecycle!Next
<1>32. CASE OwnerJoins
  BY <1>32 DEF OwnerJoins, OwnerMoves, LifetimeInv, TypeOK, MutexHeld,
         WalksInside, OwnerLast, Lifecycle!branch, Lifecycle!Next
<1>33. CASE OwnerStops
  BY <1>33 DEF OwnerStops, OwnerMoves, LifetimeInv, TypeOK, MutexHeld,
         WalksInside, OwnerLast, Lifecycle!branch, Lifecycle!Next
<1>34. CASE OwnerReleases
  BY <1>34 DEF OwnerReleases, OwnerMoves, LifetimeInv, TypeOK, MutexHeld,
         WalksInside, OwnerLast, Lifecycle!branch, Lifecycle!Next,
         Lifecycle!Release
<1>35. CASE OwnerRaises
  BY <1>35 DEF OwnerRaises, OwnerMoves, LifetimeInv, TypeOK, MutexHeld,
         WalksInside, OwnerLast, Lifecycle!branch, Lifecycle!Next,
         Lifecycle!Release
<1>36. CASE OwnerCompletes
  BY <1>36 DEF OwnerCompletes, OwnerMoves, LifetimeInv, TypeOK, MutexHeld,
         WalksInside, OwnerLast, Lifecycle!branch, Lifecycle!Next
<1>37. CASE Drop
  BY <1>37 DEF Drop, LifetimeInv, TypeOK, MutexHeld, WalksInside, OwnerLast,
         Lifecycle!branch, Lifecycle!Next, Lifecycle!Drop
<1>38. CASE DropRequests
  BY <1>38 DEF DropRequests, LifetimeInv, TypeOK, MutexHeld, WalksInside,
         OwnerLast, Lifecycle!branch, Lifecycle!Next
<1>39. CASE UNCHANGED vars
  BY <1>39 DEF vars, Lifecycle!branch
<1>40. QED
  BY <1>1, <1>2, <1>3, <1>4, <1>5, <1>6, <1>7, <1>8, <1>9, <1>10, <1>11,
         <1>12, <1>13, <1>14, <1>15, <1>16, <1>17, <1>18, <1>19, <1>20, <1>21,
         <1>22, <1>23, <1>24, <1>25, <1>26, <1>27, <1>28, <1>29, <1>30, <1>31,
         <1>32, <1>33, <1>34, <1>35, <1>36, <1>37, <1>38, <1>39 DEF Next,
         Starting, Publish, Polling, Work, Owner

(* MediaRuntimeBranch with its callers, workers and owner implements the         *)
(* lifecycle, for every number of workers.                                      *)
THEOREM LifecycleCorrect == Spec => ImplementsLifecycle
<1>1. Spec => Lifecycle!Init
  BY RefinementInit DEF Spec
<1>2. QED
  BY <1>1, RefinementStep, LifetimeCorrect, PTL
     DEF Spec, ImplementsLifecycle, Lifecycle!Spec

-----------------------------------------------------------------------------
(* A retirement without a failure.                                         *)

(* As long as no failure is recorded nobody is told to stop, so a worker that    *)
(* has left its loop has seen the end of stream behind the last buffer; and       *)
(* nothing is accepted behind the end of stream.                                 *)
CleanInv ==
    /\ ~failed =>
          /\ state # "Failed"
          /\ \A a \in Callers : op[a] # "failing"
          /\ \A w \in Workers : pc[w] \notin {"notifying", "notifyingExit"}
          /\ state \in {"Running", "Draining", "Retiring", "Retired"} =>
                \A w \in Workers : pc[w] # "new"
          /\ ~dropped => stop = {}
          /\ ~dropped => \A w \in Workers :
                             pc[w] \in {"finishing", "exited"} => eos /\ queued = 0
    /\ state = "Prepared" => op["fanout"] = "idle"
    /\ op["fanout"] = "publishing" /\ state = "Running" => ~eos

(* Every step keeps it.                                                         *)
LEMMA CleanStep == LifetimeInv /\ CleanInv /\ [Next]_vars => CleanInv'
<1> SUFFICES ASSUME LifetimeInv, CleanInv, [Next]_vars PROVE CleanInv'
  OBVIOUS
<1>1. ASSUME NEW a \in Callers \cup Workers, NEW w \in Workers, Visit(a, w)
       PROVE CleanInv'
  BY <1>1 DEF Visit, LifetimeInv, TypeOK, MutexHeld, WalksInside, OwnerLast,
         CleanInv
<1>2. ASSUME NEW a \in Callers, FailReturns(a)
       PROVE CleanInv'
  BY <1>2 DEF FailReturns, LifetimeInv, TypeOK, MutexHeld, WalksInside,
         OwnerLast, CleanInv
<1>3. ASSUME NEW a \in Callers, Fail(a)
       PROVE CleanInv'
  BY <1>3 DEF Fail, StopWorkers, LifetimeInv, TypeOK, MutexHeld, WalksInside,
         OwnerLast, CleanInv
<1>4. ASSUME NEW a \in Callers, FailTooLate(a)
       PROVE CleanInv'
  BY <1>4 DEF FailTooLate, LifetimeInv, TypeOK, MutexHeld, WalksInside,
         OwnerLast, CleanInv
<1>5. CASE BeginStart
  BY <1>5 DEF BeginStart, LifetimeInv, TypeOK, MutexHeld, WalksInside,
         OwnerLast, CleanInv
<1>6. CASE StartRefused
  BY <1>6 DEF StartRefused, LifetimeInv, TypeOK, MutexHeld, WalksInside,
         OwnerLast, CleanInv
<1>7. CASE Started
  BY <1>7 DEF Started, LifetimeInv, TypeOK, MutexHeld, WalksInside, OwnerLast,
         CleanInv
<1>8. ASSUME NEW w \in Workers, Launch(w)
       PROVE CleanInv'
  BY <1>8 DEF Launch, LifetimeInv, TypeOK, MutexHeld, WalksInside, OwnerLast,
         CleanInv
<1>9. ASSUME NEW w \in Workers, LaunchFails(w)
       PROVE CleanInv'
  BY <1>9 DEF LaunchFails, StopWorkers, LifetimeInv, TypeOK, MutexHeld,
         WalksInside, OwnerLast, CleanInv
<1>10. CASE BeginPublish
  BY <1>10 DEF BeginPublish, LifetimeInv, TypeOK, MutexHeld, WalksInside,
         OwnerLast, CleanInv
<1>11. CASE ReplicaFails
  BY <1>11 DEF ReplicaFails, Publishes, LifetimeInv, TypeOK, MutexHeld,
         WalksInside, OwnerLast, CleanInv
<1>12. CASE TryPublishClosed
  BY <1>12 DEF TryPublishClosed, Publishes, Publishable, LifetimeInv, TypeOK,
         MutexHeld, WalksInside, OwnerLast, CleanInv
<1>13. CASE TryPublishAccepted
  BY <1>13 DEF TryPublishAccepted, Publishes, Publishable, LifetimeInv,
         TypeOK, MutexHeld, WalksInside, OwnerLast, CleanInv
<1>14. CASE TryPublishEof
  BY <1>14 DEF TryPublishEof, Publishes, Publishable, LifetimeInv, TypeOK,
         MutexHeld, WalksInside, OwnerLast, CleanInv
<1>15. CASE TryPublishWouldBlock
  BY <1>15 DEF TryPublishWouldBlock, Publishes, Publishable, LifetimeInv,
         TypeOK, MutexHeld, WalksInside, OwnerLast, CleanInv
<1>16. CASE BeginDrain
  BY <1>16 DEF BeginDrain, LifetimeInv, TypeOK, MutexHeld, WalksInside,
         OwnerLast, CleanInv
<1>17. CASE BeginDrainFails
  BY <1>17 DEF BeginDrainFails, StopWorkers, LifetimeInv, TypeOK, MutexHeld,
         WalksInside, OwnerLast, CleanInv
<1>18. ASSUME NEW w \in Workers, Process(w)
       PROVE CleanInv'
  BY <1>18 DEF Process, LifetimeInv, TypeOK, MutexHeld, WalksInside,
         OwnerLast, CleanInv
<1>19. ASSUME NEW w \in Workers, WorkerFails(w)
       PROVE CleanInv'
  BY <1>19 DEF WorkerFails, RecordFailure, LifetimeInv, TypeOK, MutexHeld,
         WalksInside, OwnerLast, CleanInv
<1>20. ASSUME NEW w \in Workers, ExitFails(w)
       PROVE CleanInv'
  BY <1>20 DEF ExitFails, RecordFailure, LifetimeInv, TypeOK, MutexHeld,
         WalksInside, OwnerLast, CleanInv
<1>21. ASSUME NEW w \in Workers, Leaves(w)
       PROVE CleanInv'
  BY <1>21 DEF Leaves, WorkerMoves, LifetimeInv, TypeOK, MutexHeld,
         WalksInside, OwnerLast, CleanInv
<1>22. ASSUME NEW w \in Workers, Exits(w)
       PROVE CleanInv'
  BY <1>22 DEF Exits, WorkerMoves, LifetimeInv, TypeOK, MutexHeld,
         WalksInside, OwnerLast, CleanInv
<1>23. ASSUME NEW w \in Workers, Notified(w)
       PROVE CleanInv'
  BY <1>23 DEF Notified, WorkerMoves, LifetimeInv, TypeOK, MutexHeld,
         WalksInside, OwnerLast, CleanInv
<1>24. CASE PollBegins
  BY <1>24 DEF PollBegins, LifetimeInv, TypeOK, MutexHeld, WalksInside,
         OwnerLast, CleanInv
<1>25. CASE PollProgress
  BY <1>25 DEF PollProgress, PollUnlocks, Drains, LifetimeInv, TypeOK,
         MutexHeld, WalksInside, OwnerLast, CleanInv
<1>26. CASE PollWaits
  BY <1>26 DEF PollWaits, PollUnlocks, Drains, LifetimeInv, TypeOK, MutexHeld,
         WalksInside, OwnerLast, CleanInv
<1>27. CASE PollRetires
  BY <1>27 DEF PollRetires, PollUnlocks, RetireReady, LifetimeInv, TypeOK,
         MutexHeld, WalksInside, OwnerLast, CleanInv
<1>28. CASE PollRetired
  BY <1>28 DEF PollRetired, LifetimeInv, TypeOK, MutexHeld, WalksInside,
         OwnerLast, CleanInv
<1>29. CASE PollReleaseSilent
  BY <1>29 DEF PollReleaseSilent, LifetimeInv, TypeOK, MutexHeld, WalksInside,
         OwnerLast, CleanInv
<1>30. CASE PollSilent
  BY <1>30 DEF PollSilent, PollUnlocks, Drains, LifetimeInv, TypeOK,
         MutexHeld, WalksInside, OwnerLast, CleanInv
<1>31. CASE PrerequisiteExits
  BY <1>31 DEF PrerequisiteExits, LifetimeInv, TypeOK, MutexHeld, WalksInside,
         OwnerLast, CleanInv
<1>32. CASE OwnerJoins
  BY <1>32 DEF OwnerJoins, OwnerMoves, LifetimeInv, TypeOK, MutexHeld,
         WalksInside, OwnerLast, CleanInv
<1>33. CASE OwnerStops
  BY <1>33 DEF OwnerStops, OwnerMoves, LifetimeInv, TypeOK, MutexHeld,
         WalksInside, OwnerLast, CleanInv
<1>34. CASE OwnerReleases
  BY <1>34 DEF OwnerReleases, OwnerMoves, LifetimeInv, TypeOK, MutexHeld,
         WalksInside, OwnerLast, CleanInv
<1>35. CASE OwnerRaises
  BY <1>35 DEF OwnerRaises, OwnerMoves, LifetimeInv, TypeOK, MutexHeld,
         WalksInside, OwnerLast, CleanInv
<1>36. CASE OwnerCompletes
  BY <1>36 DEF OwnerCompletes, OwnerMoves, LifetimeInv, TypeOK, MutexHeld,
         WalksInside, OwnerLast, CleanInv
<1>37. CASE Drop
  BY <1>37 DEF Drop, LifetimeInv, TypeOK, MutexHeld, WalksInside, OwnerLast,
         CleanInv
<1>38. CASE DropRequests
  BY <1>38 DEF DropRequests, LifetimeInv, TypeOK, MutexHeld, WalksInside,
         OwnerLast, CleanInv
<1>39. CASE UNCHANGED vars
  BY <1>39 DEF vars, CleanInv
<1>40. QED
  BY <1>1, <1>2, <1>3, <1>4, <1>5, <1>6, <1>7, <1>8, <1>9, <1>10, <1>11,
         <1>12, <1>13, <1>14, <1>15, <1>16, <1>17, <1>18, <1>19, <1>20, <1>21,
         <1>22, <1>23, <1>24, <1>25, <1>26, <1>27, <1>28, <1>29, <1>30, <1>31,
         <1>32, <1>33, <1>34, <1>35, <1>36, <1>37, <1>38, <1>39 DEF Next,
         Starting, Publish, Polling, Work, Owner

(* A branch that retires without a recorded failure has passed on every buffer   *)
(* tryPublish accepted, for every capacity and every number of workers.          *)
THEOREM RetirementCorrect == Spec => []CleanRetirement
<1>1. Init => CleanInv
  BY DEF Init, CleanInv
<1>2. LifetimeInv /\ CleanInv => CleanRetirement
  BY DEF LifetimeInv, TypeOK, MutexHeld, WalksInside, OwnerLast, CleanInv,
         CleanRetirement
<1>3. QED
  BY <1>1, <1>2, CleanStep, LifetimeCorrect, PTL DEF Spec
=============================================================================
