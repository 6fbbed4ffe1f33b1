------------------------- MODULE EnforcementProofs -------------------------
(***************************************************************************)
(* Proofs about WorkerHealth, for every quiet period, every bound on the   *)
(* clock and on the faults, and every set of settings; and about           *)
(* ClientAuthHook, for every set of settings and any number of logins.     *)
(*                                                                         *)
(* The two specifications have EnforcementState in common and are proved   *)
(* about one after the other: what is proved of the hook rests on HookSpec *)
(* only, whose environment may change that state at any moment, and not on *)
(* the steps of WorkerHealth.                                              *)
(***************************************************************************)
EXTENDS WorkerHealth, ClientAuthHook, TLAPS

----------------------------------------------------------------------------
(* The health of the worker. *)

\* Every time that is read is read by one process: what a backend is about to
\* store is not what the marker has, nor what the hydration under way observed.
StampsDiffer ==
    /\ marker < clock /\ observed < clock /\ waiting < clock
    /\ waiting # Healthy => waiting # marker /\ waiting # observed

\* A cache is usable, or will be when the event that degraded it commits.
Usable(c) == state[c] = "Ready" \/ (c \in degraded /\ state[c] = "WorkerFailed")

\* The caches the hydration under way has already replaced or given up.
Passed ==
    CASE wpc = "decide" -> Cache
      [] wpc # "decide" /\ at = "lock" -> {}
      [] wpc # "decide" /\ at = "expiry" -> {"lock"}
      [] OTHER -> Feature

Hydrating == wpc \in {"read", "apply", "decide"}

\* While the marker is what the hydration observed, no failure was recorded
\* since it began, and what it has installed is younger than the last one.
HydrationIsFresh ==
    Hydrating =>
        /\ degraded = {}
        /\ marker = observed =>
              /\ wpc = "apply" => clean
              /\ \A c \in Passed : state[c] = "Ready" => c \in fresh

\* What is read while no failure is marked is young when it is installed.
RefreshIsFresh == wpc \in {"apply", "refresh"} /\ marker = Healthy => clean

\* While no failure is marked, every usable cache is younger than the last one.
UsableIsFresh == marker = Healthy => \A c \in Cache : Usable(c) => c \in fresh

IndInv == TypeOK /\ StampsDiffer /\ HydrationIsFresh /\ RefreshIsFresh /\ UsableIsFresh

----------------------------------------------------------------------------
(* Types: the flags, and the rest. *)

Flags ==
    /\ running \in BOOLEAN /\ corrupt \in BOOLEAN /\ clean \in BOOLEAN
    /\ exempt \in BOOLEAN /\ listed \in BOOLEAN /\ snapshot \in BOOLEAN

Values ==
    /\ clock \in Time /\ marker \in Time \cup {Healthy}
    /\ waiting \in Time \cup {Healthy} /\ observed \in Time \cup {Healthy}
    /\ conf \in Conf /\ state \in [Cache -> CacheState]
    /\ wpc \in WorkerPC /\ at \in Cache
    /\ need \subseteq Cache /\ done \subseteq Cache
    /\ degraded \subseteq Feature /\ fresh \subseteq Cache
    /\ failures \in 0 .. MaxFailures /\ faults \in 0 .. MaxFaults

\* Installing a cache leaves states and history in their sets.
LEMMA InstallTypes ==
    ASSUME Values, NEW c \in Cache, NEW full \in BOOLEAN, Install(c, full)
    PROVE  state' \in [Cache -> CacheState] /\ fresh' \subseteq Cache
<1>1. state' \in [Cache -> CacheState]
  BY DEF Install, Values, CacheState
<1>2. fresh' \subseteq Cache
  BY DEF Install, Values
<1> QED
  BY <1>1, <1>2

\* Every step keeps the flags Boolean.
LEMMA FlagsStep ==
    ASSUME Flags, [Next]_vars
    PROVE  Flags'
<1> USE DEF Flags, health, bypass, worker, history, bounds
<1>1. CASE Tick
  BY Zenon, <1>1 DEF Tick
<1>2. CASE Reload
  BY Zenon, <1>2 DEF Reload
<1>3. CASE AlterRole
  BY Zenon, <1>3 DEF AlterRole
<1>4. CASE BackendReadsClock
  BY Zenon, <1>4 DEF BackendReadsClock, ClockRead
<1>5. CASE BackendAppendFails
  BY Zenon, <1>5 DEF BackendAppendFails, Failure, MarkFailure
<1>6. CASE BackendAppends
  BY Zenon, <1>6 DEF BackendAppends
<1>7. CASE CommitOverflows
  BY Zenon, <1>7 DEF CommitOverflows, Fault
<1>8. CASE QueueCorrupts
  BY Zenon, <1>8 DEF QueueCorrupts, Fault
<1>9. CASE RecoverQueue
  BY Zenon, <1>9 DEF RecoverQueue
<1>10. CASE ServerRestart
  BY Zenon, <1>10 DEF ServerRestart, Fault, NoCache
<1>11. CASE MarkRunning
  BY Zenon, <1>11 DEF MarkRunning, Goto
<1>12. CASE BeginHydration
  BY Zenon, <1>12 DEF BeginHydration, Needed
<1>13. CASE ReadTable
  BY Zenon, <1>13 DEF ReadTable, Goto
<1>14. CASE ApplyTable
  BY Zenon, <1>14 DEF ApplyTable, Install, NextCache, Fault
<1>15. CASE FinishHydration
  BY Zenon, <1>15 DEF FinishHydration, ClearDurableDegradation, Forget
<1>16. CASE HydrationFails
  BY Zenon, <1>16 DEF HydrationFails, Fault, NextCache
<1>17. CASE CheckLoop
  BY Zenon, <1>17 DEF CheckLoop, Needed
<1>18. CASE RefreshExemptions
  BY Zenon, <1>18 DEF RefreshExemptions, Install, Fault, Goto
<1>19. CASE EventCommits
  BY Zenon, <1>19 DEF EventCommits
<1>20. CASE BackoffEnds
  BY Zenon, <1>20 DEF BackoffEnds, ClockRead, MarkFailure, Goto
<1>21. CASE Resume
  BY Zenon, <1>21 DEF Resume, Goto
<1>22. CASE ReadExemptions
  BY Zenon, <1>22 DEF ReadExemptions, Goto
<1>23. CASE RefreshFails
  BY Zenon, <1>23 DEF RefreshFails, Fault, Goto
<1>24. CASE JournalFails
  BY Zenon, <1>24 DEF JournalFails, Failure, ClockRead, MarkFailure, Goto
<1>25. CASE EventFails
  BY Zenon, <1>25 DEF EventFails, Fault
<1>26. CASE MarkStopped
  BY Zenon, <1>26 DEF MarkStopped, Fault, Forget
<1>27. CASE StopCache
  BY Zenon, <1>27 DEF StopCache
<1>28. CASE WorkerDies
  BY Zenon, <1>28 DEF WorkerDies, Fault, Forget
<1>29. CASE UNCHANGED vars
  BY Zenon, <1>29 DEF vars
<1> QED
  BY Zenon, <1>1, <1>2, <1>3, <1>4, <1>5, <1>6, <1>7, <1>8, <1>9, <1>10, <1>11, <1>12, <1>13,
     <1>14, <1>15, <1>16, <1>17, <1>18, <1>19, <1>20, <1>21, <1>22, <1>23, <1>24, <1>25, <1>26,
     <1>27, <1>28, <1>29 DEF Next, HydrationStep, LoopStep

\* Every step keeps the other variables in their sets.
LEMMA ValuesStep ==
    ASSUME Values, [Next]_vars
    PROVE  Values'
<1> USE HealthAssumption DEF Values, Time, Healthy, Cache, Feature, CacheState, WorkerPC, health,
   bypass, worker, history, bounds
<1>1. CASE Tick
  BY <1>1 DEF Tick
<1>2. CASE Reload
  BY <1>2 DEF Reload
<1>3. CASE AlterRole
  BY <1>3 DEF AlterRole
<1>4. CASE BackendReadsClock
  BY <1>4 DEF BackendReadsClock, ClockRead
<1>5. CASE BackendAppendFails
  BY <1>5 DEF BackendAppendFails, Failure, MarkFailure
<1>6. CASE BackendAppends
  BY <1>6 DEF BackendAppends
<1>7. CASE CommitOverflows
  BY <1>7 DEF CommitOverflows, Fault
<1>8. CASE QueueCorrupts
  BY <1>8 DEF QueueCorrupts, Fault
<1>9. CASE RecoverQueue
  BY <1>9 DEF RecoverQueue
<1>10. CASE ServerRestart
  BY <1>10 DEF ServerRestart, Fault, NoCache
<1>11. CASE MarkRunning
  BY <1>11 DEF MarkRunning, Goto
<1>12. CASE BeginHydration
  BY <1>12, ConfAssumption DEF BeginHydration, Needed
<1>13. CASE ReadTable
  BY <1>13 DEF ReadTable, Goto
<1>14. CASE ApplyTable
  <2>1. PICK full \in BOOLEAN : Install(at, full)
    BY <1>14 DEF ApplyTable
  <2>2. state' \in [Cache -> CacheState] /\ fresh' \subseteq Cache
    BY <2>1, InstallTypes
  <2>3. faults' \in 0 .. MaxFaults
    <3>1. UNCHANGED faults \/ Fault
      BY Zenon, <1>14 DEF ApplyTable
    <3> QED
      BY <3>1 DEF Fault
  <2>4. /\ UNCHANGED <<clock, marker, waiting, conf, failures, need, observed, degraded>>
        /\ wpc' \in WorkerPC /\ at' \in Cache /\ done' \subseteq Cache
    BY <1>14 DEF ApplyTable, NextCache
  <2> QED
    BY <2>2, <2>3, <2>4
<1>15. CASE FinishHydration
  BY <1>15 DEF FinishHydration, ClearDurableDegradation, Forget
<1>16. CASE HydrationFails
  BY <1>16 DEF HydrationFails, Fault, NextCache
<1>17. CASE CheckLoop
  BY <1>17, ConfAssumption DEF CheckLoop, Needed
<1>18. CASE RefreshExemptions
  <2>1. PICK full \in BOOLEAN : Install("bypass", full)
    BY <1>18 DEF RefreshExemptions
  <2>2. state' \in [Cache -> CacheState] /\ fresh' \subseteq Cache
    BY <2>1, InstallTypes
  <2>3. faults' \in 0 .. MaxFaults
    <3>1. UNCHANGED faults \/ Fault
      BY Zenon, <1>18 DEF RefreshExemptions
    <3> QED
      BY <3>1 DEF Fault
  <2>4. /\ UNCHANGED <<clock, marker, waiting, conf, failures, at, need, observed, done, degraded>>
        /\ wpc' = "event"
    BY <1>18 DEF RefreshExemptions, Goto
  <2> QED
    BY <2>2, <2>3, <2>4
<1>19. CASE EventCommits
  BY <1>19 DEF EventCommits
<1>20. CASE BackoffEnds
  BY <1>20 DEF BackoffEnds, ClockRead, MarkFailure, Goto
<1>21. CASE Resume
  BY <1>21 DEF Resume, Goto
<1>22. CASE ReadExemptions
  BY <1>22 DEF ReadExemptions, Goto
<1>23. CASE RefreshFails
  BY <1>23 DEF RefreshFails, Fault, Goto
<1>24. CASE JournalFails
  BY <1>24 DEF JournalFails, Failure, ClockRead, MarkFailure, Goto
<1>25. CASE EventFails
  <2>1. PICK affects \in SUBSET Feature \ {{}} :
           LET hit == {c \in affects : state[c] = "Ready"}
           IN  /\ state' = [c \in Cache |-> IF c \in hit THEN "WorkerFailed" ELSE state[c]]
               /\ degraded' = degraded \cup hit
    BY <1>25 DEF EventFails
  <2>2. state' \in [Cache -> CacheState]
    BY <2>1
  <2>3. degraded' \subseteq Feature
    BY <2>1
  <2> QED
    BY <1>25, <2>2, <2>3 DEF EventFails, Fault
<1>26. CASE MarkStopped
  BY <1>26 DEF MarkStopped, Fault, Forget
<1>27. CASE StopCache
  BY <1>27 DEF StopCache
<1>28. CASE WorkerDies
  BY <1>28 DEF WorkerDies, Fault, Forget
<1>29. CASE UNCHANGED vars
  BY <1>29 DEF vars
<1> QED
  BY <1>1, <1>2, <1>3, <1>4, <1>5, <1>6, <1>7, <1>8, <1>9, <1>10, <1>11, <1>12, <1>13, <1>14,
     <1>15, <1>16, <1>17, <1>18, <1>19, <1>20, <1>21, <1>22, <1>23, <1>24, <1>25, <1>26, <1>27,
     <1>28, <1>29 DEF Next, HydrationStep, LoopStep

\* The two halves are the type invariant.
LEMMA TypeOKHalves == TypeOK <=> Flags /\ Values
BY DEF TypeOK, Flags, Values

LEMMA TypeOKStep ==
    ASSUME TypeOK, [Next]_vars
    PROVE  TypeOK'
<1>1. Flags /\ Values
  BY TypeOKHalves
<1>2. Flags' /\ Values'
  BY <1>1, FlagsStep, ValuesStep
<1> QED
  BY <1>2 DEF TypeOK, Flags, Values

----------------------------------------------------------------------------
(* The parts of the inductive invariant. *)

\* A stamp is the value of the clock, which then moves on.
LEMMA StampsDifferStep ==
    ASSUME TypeOK, StampsDiffer, [Next]_vars
    PROVE  StampsDiffer'
<1> USE HealthAssumption DEF StampsDiffer, TypeOK, Time, Healthy, health, bypass, worker, history,
   bounds
<1>1. CASE Tick
  BY <1>1 DEF Tick
<1>2. CASE Reload
  BY <1>2 DEF Reload
<1>3. CASE AlterRole
  BY <1>3 DEF AlterRole
<1>4. CASE BackendReadsClock
  BY <1>4 DEF BackendReadsClock, ClockRead
<1>5. CASE BackendAppendFails
  BY <1>5 DEF BackendAppendFails, Failure, MarkFailure
<1>6. CASE BackendAppends
  BY <1>6 DEF BackendAppends
<1>7. CASE CommitOverflows
  BY <1>7 DEF CommitOverflows, Fault
<1>8. CASE QueueCorrupts
  BY <1>8 DEF QueueCorrupts, Fault
<1>9. CASE RecoverQueue
  BY <1>9 DEF RecoverQueue
<1>10. CASE ServerRestart
  BY <1>10 DEF ServerRestart, Fault, NoCache
<1>11. CASE MarkRunning
  BY <1>11 DEF MarkRunning, Goto
<1>12. CASE BeginHydration
  BY <1>12 DEF BeginHydration, Needed
<1>13. CASE ReadTable
  BY <1>13 DEF ReadTable, Goto
<1>14. CASE ApplyTable
  BY <1>14 DEF ApplyTable, Install, NextCache, Fault
<1>15. CASE FinishHydration
  BY <1>15 DEF FinishHydration, ClearDurableDegradation, Forget
<1>16. CASE HydrationFails
  BY <1>16 DEF HydrationFails, Fault, NextCache
<1>17. CASE CheckLoop
  BY <1>17 DEF CheckLoop, Needed
<1>18. CASE RefreshExemptions
  BY <1>18 DEF RefreshExemptions, Install, Fault, Goto
<1>19. CASE EventCommits
  BY <1>19 DEF EventCommits
<1>20. CASE BackoffEnds
  BY <1>20 DEF BackoffEnds, ClockRead, MarkFailure, Goto
<1>21. CASE Resume
  BY <1>21 DEF Resume, Goto
<1>22. CASE ReadExemptions
  BY <1>22 DEF ReadExemptions, Goto
<1>23. CASE RefreshFails
  BY <1>23 DEF RefreshFails, Fault, Goto
<1>24. CASE JournalFails
  BY <1>24 DEF JournalFails, Failure, ClockRead, MarkFailure, Goto
<1>25. CASE EventFails
  BY <1>25 DEF EventFails, Fault
<1>26. CASE MarkStopped
  BY <1>26 DEF MarkStopped, Fault, Forget
<1>27. CASE StopCache
  BY <1>27 DEF StopCache
<1>28. CASE WorkerDies
  BY <1>28 DEF WorkerDies, Fault, Forget
<1>29. CASE UNCHANGED vars
  BY <1>29 DEF vars
<1> QED
  BY <1>1, <1>2, <1>3, <1>4, <1>5, <1>6, <1>7, <1>8, <1>9, <1>10, <1>11, <1>12, <1>13, <1>14,
     <1>15, <1>16, <1>17, <1>18, <1>19, <1>20, <1>21, <1>22, <1>23, <1>24, <1>25, <1>26, <1>27,
     <1>28, <1>29 DEF Next, HydrationStep, LoopStep

\* A failure during a hydration changes the marker to what was not observed.
LEMMA HydrationIsFreshStep ==
    ASSUME IndInv, [Next]_vars
    PROVE  HydrationIsFresh'
<1> USE HealthAssumption DEF IndInv, StampsDiffer, HydrationIsFresh, Passed, Hydrating, TypeOK,
   Time, Healthy, Cache, Feature, health, bypass, worker, history, bounds
<1>1. CASE Tick
  BY <1>1 DEF Tick
<1>2. CASE Reload
  BY <1>2 DEF Reload
<1>3. CASE AlterRole
  BY <1>3 DEF AlterRole
<1>4. CASE BackendReadsClock
  BY <1>4 DEF BackendReadsClock, ClockRead
<1>5. CASE BackendAppendFails
  BY <1>5 DEF BackendAppendFails, Failure, MarkFailure
<1>6. CASE BackendAppends
  BY <1>6 DEF BackendAppends
<1>7. CASE CommitOverflows
  BY <1>7 DEF CommitOverflows, Fault
<1>8. CASE QueueCorrupts
  BY <1>8 DEF QueueCorrupts, Fault
<1>9. CASE RecoverQueue
  BY <1>9 DEF RecoverQueue
<1>10. CASE ServerRestart
  BY <1>10 DEF ServerRestart, Fault, NoCache
<1>11. CASE MarkRunning
  BY <1>11 DEF MarkRunning, Goto
<1>12. CASE BeginHydration
  BY <1>12 DEF BeginHydration, Needed
<1>13. CASE ReadTable
  BY <1>13 DEF ReadTable, Goto
<1>14. CASE ApplyTable
  BY <1>14 DEF ApplyTable, Install, NextCache, Fault
<1>15. CASE FinishHydration
  BY <1>15 DEF FinishHydration, ClearDurableDegradation, Forget
<1>16. CASE HydrationFails
  BY <1>16 DEF HydrationFails, Fault, NextCache
<1>17. CASE CheckLoop
  BY <1>17 DEF CheckLoop, Needed
<1>18. CASE RefreshExemptions
  BY <1>18 DEF RefreshExemptions, Install, Fault, Goto
<1>19. CASE EventCommits
  BY <1>19 DEF EventCommits
<1>20. CASE BackoffEnds
  BY <1>20 DEF BackoffEnds, ClockRead, MarkFailure, Goto
<1>21. CASE Resume
  BY <1>21 DEF Resume, Goto
<1>22. CASE ReadExemptions
  BY <1>22 DEF ReadExemptions, Goto
<1>23. CASE RefreshFails
  BY <1>23 DEF RefreshFails, Fault, Goto
<1>24. CASE JournalFails
  BY <1>24 DEF JournalFails, Failure, ClockRead, MarkFailure, Goto
<1>25. CASE EventFails
  BY <1>25 DEF EventFails, Fault
<1>26. CASE MarkStopped
  BY <1>26 DEF MarkStopped, Fault, Forget
<1>27. CASE StopCache
  BY <1>27 DEF StopCache
<1>28. CASE WorkerDies
  BY <1>28 DEF WorkerDies, Fault, Forget
<1>29. CASE UNCHANGED vars
  BY <1>29 DEF vars
<1> QED
  BY <1>1, <1>2, <1>3, <1>4, <1>5, <1>6, <1>7, <1>8, <1>9, <1>10, <1>11, <1>12, <1>13, <1>14,
     <1>15, <1>16, <1>17, <1>18, <1>19, <1>20, <1>21, <1>22, <1>23, <1>24, <1>25, <1>26, <1>27,
     <1>28, <1>29 DEF Next, HydrationStep, LoopStep

\* No failure is marked when a read begins, or it is still marked when it is used.
LEMMA RefreshIsFreshStep ==
    ASSUME IndInv, [Next]_vars
    PROVE  RefreshIsFresh'
<1> USE HealthAssumption DEF IndInv, RefreshIsFresh, HydrationIsFresh, Hydrating, TypeOK, Time,
   Healthy, health, bypass, worker, history, bounds
<1>1. CASE Tick
  BY <1>1 DEF Tick
<1>2. CASE Reload
  BY <1>2 DEF Reload
<1>3. CASE AlterRole
  BY <1>3 DEF AlterRole
<1>4. CASE BackendReadsClock
  BY <1>4 DEF BackendReadsClock, ClockRead
<1>5. CASE BackendAppendFails
  BY <1>5 DEF BackendAppendFails, Failure, MarkFailure
<1>6. CASE BackendAppends
  BY <1>6 DEF BackendAppends
<1>7. CASE CommitOverflows
  BY <1>7 DEF CommitOverflows, Fault
<1>8. CASE QueueCorrupts
  BY <1>8 DEF QueueCorrupts, Fault
<1>9. CASE RecoverQueue
  BY <1>9 DEF RecoverQueue
<1>10. CASE ServerRestart
  BY <1>10 DEF ServerRestart, Fault, NoCache
<1>11. CASE MarkRunning
  BY <1>11 DEF MarkRunning, Goto
<1>12. CASE BeginHydration
  BY <1>12 DEF BeginHydration, Needed
<1>13. CASE ReadTable
  BY <1>13 DEF ReadTable, Goto
<1>14. CASE ApplyTable
  BY <1>14 DEF ApplyTable, Install, NextCache, Fault
<1>15. CASE FinishHydration
  BY <1>15 DEF FinishHydration, ClearDurableDegradation, Forget
<1>16. CASE HydrationFails
  BY <1>16 DEF HydrationFails, Fault, NextCache
<1>17. CASE CheckLoop
  BY <1>17 DEF CheckLoop, Needed
<1>18. CASE RefreshExemptions
  BY <1>18 DEF RefreshExemptions, Install, Fault, Goto
<1>19. CASE EventCommits
  BY <1>19 DEF EventCommits
<1>20. CASE BackoffEnds
  BY <1>20 DEF BackoffEnds, ClockRead, MarkFailure, Goto
<1>21. CASE Resume
  BY <1>21 DEF Resume, Goto
<1>22. CASE ReadExemptions
  BY <1>22 DEF ReadExemptions, Goto
<1>23. CASE RefreshFails
  BY <1>23 DEF RefreshFails, Fault, Goto
<1>24. CASE JournalFails
  BY <1>24 DEF JournalFails, Failure, ClockRead, MarkFailure, Goto
<1>25. CASE EventFails
  BY <1>25 DEF EventFails, Fault
<1>26. CASE MarkStopped
  BY <1>26 DEF MarkStopped, Fault, Forget
<1>27. CASE StopCache
  BY <1>27 DEF StopCache
<1>28. CASE WorkerDies
  BY <1>28 DEF WorkerDies, Fault, Forget
<1>29. CASE UNCHANGED vars
  BY <1>29 DEF vars
<1> QED
  BY <1>1, <1>2, <1>3, <1>4, <1>5, <1>6, <1>7, <1>8, <1>9, <1>10, <1>11, <1>12, <1>13, <1>14,
     <1>15, <1>16, <1>17, <1>18, <1>19, <1>20, <1>21, <1>22, <1>23, <1>24, <1>25, <1>26, <1>27,
     <1>28, <1>29 DEF Next, HydrationStep, LoopStep

\* What is installed while no failure is marked was read since the last one.
LEMMA InstallKeepsFresh ==
    ASSUME TypeOK, UsableIsFresh, NEW c \in Cache, NEW full \in BOOLEAN,
           Install(c, full), marker = Healthy => clean,
           marker' = marker, degraded' = degraded
    PROVE  UsableIsFresh'
<1> SUFFICES ASSUME marker = Healthy, NEW k \in Cache, Usable(k)'
             PROVE  k \in fresh'
  BY DEF UsableIsFresh
<1>1. fresh' = fresh \cup {c}
  BY DEF Install
<1>2. CASE k = c
  BY <1>1, <1>2
<1>3. CASE k # c
  <2>1. state'[k] = state[k]
    BY <1>3 DEF Install, TypeOK
  <2> QED
    BY <1>1, <2>1 DEF UsableIsFresh, Usable
<1> QED
  BY <1>2, <1>3

\* The marker is cleared only over a hydration that no failure has overtaken.
LEMMA UsableIsFreshStep ==
    ASSUME IndInv, [Next]_vars
    PROVE  UsableIsFresh'
<1> USE HealthAssumption DEF IndInv, HydrationIsFresh, UsableIsFresh, RefreshIsFresh, Usable,
   Passed, Hydrating, TypeOK, Time, Healthy, Cache, Feature, health, bypass, worker, history,
   bounds
<1>1. CASE Tick
  BY <1>1 DEF Tick
<1>2. CASE Reload
  BY <1>2 DEF Reload
<1>3. CASE AlterRole
  BY <1>3 DEF AlterRole
<1>4. CASE BackendReadsClock
  BY <1>4 DEF BackendReadsClock, ClockRead
<1>5. CASE BackendAppendFails
  BY <1>5 DEF BackendAppendFails, Failure, MarkFailure
<1>6. CASE BackendAppends
  BY <1>6 DEF BackendAppends
<1>7. CASE CommitOverflows
  BY <1>7 DEF CommitOverflows, Fault
<1>8. CASE QueueCorrupts
  BY <1>8 DEF QueueCorrupts, Fault
<1>9. CASE RecoverQueue
  BY <1>9 DEF RecoverQueue
<1>10. CASE ServerRestart
  BY <1>10 DEF ServerRestart, Fault, NoCache
<1>11. CASE MarkRunning
  BY <1>11 DEF MarkRunning, Goto
<1>12. CASE BeginHydration
  BY <1>12 DEF BeginHydration, Needed
<1>13. CASE ReadTable
  BY <1>13 DEF ReadTable, Goto
<1>14. CASE ApplyTable
  <2>1. PICK full \in BOOLEAN : Install(at, full)
    BY <1>14 DEF ApplyTable
  <2>2. marker' = marker /\ degraded' = degraded
    BY <1>14 DEF ApplyTable, NextCache
  <2> QED
    BY <1>14, <2>1, <2>2, InstallKeepsFresh DEF ApplyTable
<1>15. CASE FinishHydration
  BY <1>15 DEF FinishHydration, ClearDurableDegradation, Forget
<1>16. CASE HydrationFails
  BY <1>16 DEF HydrationFails, Fault, NextCache
<1>17. CASE CheckLoop
  BY <1>17 DEF CheckLoop, Needed
<1>18. CASE RefreshExemptions
  <2>1. PICK full \in BOOLEAN : Install("bypass", full)
    BY <1>18 DEF RefreshExemptions
  <2>2. marker' = marker /\ degraded' = degraded
    BY <1>18 DEF RefreshExemptions, Goto
  <2> QED
    BY <1>18, <2>1, <2>2, InstallKeepsFresh DEF RefreshExemptions
<1>19. CASE EventCommits
  BY <1>19 DEF EventCommits
<1>20. CASE BackoffEnds
  BY <1>20 DEF BackoffEnds, ClockRead, MarkFailure, Goto
<1>21. CASE Resume
  BY <1>21 DEF Resume, Goto
<1>22. CASE ReadExemptions
  BY <1>22 DEF ReadExemptions, Goto
<1>23. CASE RefreshFails
  BY <1>23 DEF RefreshFails, Fault, Goto
<1>24. CASE JournalFails
  BY <1>24 DEF JournalFails, Failure, ClockRead, MarkFailure, Goto
<1>25. CASE EventFails
  BY <1>25 DEF EventFails, Fault
<1>26. CASE MarkStopped
  BY <1>26 DEF MarkStopped, Fault, Forget
<1>27. CASE StopCache
  BY <1>27 DEF StopCache
<1>28. CASE WorkerDies
  BY <1>28 DEF WorkerDies, Fault, Forget
<1>29. CASE UNCHANGED vars
  BY <1>29 DEF vars
<1> QED
  BY <1>1, <1>2, <1>3, <1>4, <1>5, <1>6, <1>7, <1>8, <1>9, <1>10, <1>11, <1>12, <1>13, <1>14,
     <1>15, <1>16, <1>17, <1>18, <1>19, <1>20, <1>21, <1>22, <1>23, <1>24, <1>25, <1>26, <1>27,
     <1>28, <1>29 DEF Next, HydrationStep, LoopStep

----------------------------------------------------------------------------
(* The theorems. *)

LEMMA InitInv == Init => IndInv
<1> SUFFICES ASSUME Init PROVE IndInv
  OBVIOUS
<1>1. Flags
  BY Zenon DEF Init, Flags
<1>2. Values
  BY HealthAssumption
     DEF Init, Values, Cache, Feature, Time, Healthy, NoCache, CacheState, WorkerPC
<1>3. TypeOK
  BY <1>1, <1>2, TypeOKHalves
<1>4. StampsDiffer /\ HydrationIsFresh /\ RefreshIsFresh /\ UsableIsFresh
  BY DEF Init, StampsDiffer, HydrationIsFresh, RefreshIsFresh, UsableIsFresh,
         Usable, Hydrating, Healthy, NoCache, Cache, Feature
<1> QED
  BY <1>3, <1>4 DEF IndInv

LEMMA NextInv == IndInv /\ [Next]_vars => IndInv'
<1> SUFFICES ASSUME IndInv, [Next]_vars PROVE IndInv'
  OBVIOUS
<1>1. TypeOK' /\ StampsDiffer'
  BY TypeOKStep, StampsDifferStep DEF IndInv
<1>2. HydrationIsFresh' /\ RefreshIsFresh' /\ UsableIsFresh'
  BY HydrationIsFreshStep, RefreshIsFreshStep, UsableIsFreshStep
<1> QED
  BY <1>1, <1>2 DEF IndInv

\* The inductive invariant holds of the worker, its caches and the marker.
THEOREM Inductive == Spec => []IndInv
BY InitInv, NextInv, PTL DEF Spec

\* Flags, marker, caches and the worker's position keep their types.
THEOREM TypeCorrect == Spec => []TypeOK
BY Inductive, PTL DEF IndInv

\* Enforcement is announced healthy only by caches that were read after the last
\* recorded failure: the compare and exchange of clear_durable_degradation_if_quiet
\* erases no failure that was recorded while the caches were rebuilt.
THEOREM HealthyIsEarnedThm == Spec => []HealthyIsEarned
<1>1. IndInv => HealthyIsEarned
  BY DEF IndInv, UsableIsFresh, Usable, HealthyIsEarned, EnforcementOn
<1> QED
  BY <1>1, Inductive, PTL

----------------------------------------------------------------------------
(* The hook: what a login has been through. *)

\* Where a login can be: a wrong password is only counted and a right one only
\* judged; nothing is recorded before the end, and then one event of its kind.
Course ==
    /\ login.pc # "idle" => login.active \subseteq conf
    /\ login.pc \in {"expiry", "grace"} => "expiry" \in login.active
    /\ login.pc = "failure" => login.status = "wrong"
    /\ login.again \/ login.pc \in {"lockout", "expiry", "grace", "success"} =>
          login.status = "right"
    /\ login.pc = "done" \/ login.events = <<>>
    /\ \/ login.events = <<>>
       \/ \E e \in Event : /\ login.events = <<e>> /\ login.outcome = Native
                           /\ e = "failure" => login.status = "wrong"

\* A role with an entry in the lock cache all along never gets past the lookup.
LockedOutPath ==
    "lockedOut" \in steady =>
        /\ ~login.bypassed /\ "lock" \in login.active /\ ~login.again
        /\ login.pc \notin {"expiry", "grace", "success"}
        /\ login.outcome # "admitted"

\* One whose password is spent never gets past the expiry lookup.
SpentPath ==
    "spent" \in steady =>
        /\ ~login.bypassed /\ "expiry" \in login.active
        /\ login.pc \notin {"grace", "success"}
        /\ login.outcome # "admitted"

\* A reason to pause stops the login at the read that finds it.
PausePath ==
    /\ "stopped" \in steady => login.pc \in {"prev", "running", "done"}
    /\ "corrupt" \in steady => login.pc \in {"prev", "running", "corrupt", "done"}
    /\ "marked" \in steady => login.pc \in {"prev", "running", "corrupt", "marker", "done"}
    /\ "exempt" \in steady => login.bypassed /\ login.pc \in {"prev", "done"}
    /\ steady \cap {"stopped", "corrupt", "marked", "exempt"} # {} =>
          login.outcome # "refused" /\ login.events = <<>>
    /\ "innocent" \in steady => login.outcome # "refused"

\* Where lockouts are enforced all along, no way to the end avoids the event.
CountedPath ==
    "counted" \in steady =>
        /\ ~login.bypassed /\ "lock" \in login.active
        /\ login.outcome \in {"admitted", "rejected"} /\ login.status # "other" =>
              login.events # <<>>

HookInv ==
    /\ HookTypeOK /\ Course
    /\ LockedOutPath /\ SpentPath /\ PausePath /\ CountedPath

----------------------------------------------------------------------------
(* The moves of a login, field by field. *)

Login == [pc : HookPC, status : Status, active : SUBSET Feature, bypassed : BOOLEAN,
          again : BOOLEAN, outcome : Outcome, events : Seq(Event)]

LoginOK == login \in Login /\ (login.pc = "done" <=> login.outcome # "pending")

EnvironmentOK ==
    /\ running \in BOOLEAN /\ corrupt \in BOOLEAN /\ marked \in BOOLEAN
    /\ state \in [Cache -> {"Ready", "Unusable"}] /\ conf \in Conf
    /\ locked \in BOOLEAN /\ password \in Password /\ listed \in BOOLEAN
    /\ steady \subseteq Condition

LEMMA LoginTypes == HookTypeOK <=> LoginOK /\ EnvironmentOK
BY DEF HookTypeOK, LoginOK, EnvironmentOK, Login

\* What no step of the hook changes once the login has begun.
SameLogin ==
    /\ login'.status = login.status /\ login'.bypassed = login.bypassed
    /\ login'.again = login.again /\ login'.active = login.active

LEMMA GotoFields ==
    ASSUME LoginOK, NEW pc \in HookPC, pc # "done", login.pc # "done", Proceed(pc)
    PROVE  /\ LoginOK' /\ SameLogin /\ login'.pc = pc
           /\ login'.outcome = "pending" /\ login'.events = login.events
BY DEF LoginOK, Login, SameLogin, Proceed

LEMMA EndFields ==
    ASSUME LoginOK, NEW o \in Outcome, o # "pending", End(o)
    PROVE  /\ LoginOK' /\ SameLogin /\ login'.pc = "done"
           /\ login'.outcome = o /\ login'.events = login.events
<1>1. login' = [login EXCEPT !.pc = "done", !.outcome = o]
  BY DEF End
<1>2. login' \in Login
  BY <1>1 DEF LoginOK, Login, HookPC
<1> QED
  BY <1>1, <1>2 DEF LoginOK, Login, SameLogin

LEMMA NativeOutcome ==
    /\ Native \in Outcome /\ Native \notin {"pending", "refused", "vetoed"}
    /\ Native = "admitted" <=> login.status = "right"
BY DEF Native, Outcome

LEMMA RecordedFields ==
    ASSUME LoginOK, login.events = <<>>, NEW e \in Event, Recorded(e)
    PROVE  /\ LoginOK' /\ SameLogin /\ login'.pc = "done"
           /\ login'.outcome = Native /\ login'.events = <<e>>
           /\ UNCHANGED marked
<1>1. login' = [login EXCEPT !.events = Append(@, e), !.pc = "done", !.outcome = Native]
  BY DEF Recorded
<1>2. Append(login.events, e) = <<e>> /\ <<e>> \in Seq(Event)
  OBVIOUS
<1>3. login' = [login EXCEPT !.events = <<e>>, !.pc = "done", !.outcome = Native]
  BY <1>1, <1>2
<1>4. login' \in Login
  BY <1>3, <1>2, NativeOutcome DEF LoginOK, Login, HookPC
<1>5. UNCHANGED marked
  BY DEF Recorded
<1> QED
  BY <1>3, <1>4, <1>5, NativeOutcome DEF LoginOK, Login, SameLogin

LEMMA NotRecordedFields ==
    ASSUME LoginOK, NotRecorded
    PROVE  /\ LoginOK' /\ SameLogin /\ login'.pc = "done"
           /\ login'.outcome = Native /\ login'.events = login.events
           /\ marked'
BY EndFields, NativeOutcome DEF NotRecorded

\* The three moves that change more than the position.
LEMMA ConnectFields ==
    ASSUME Connect, conf \in SUBSET Feature
    PROVE  /\ LoginOK' /\ login'.pc = "prev" /\ login'.active = conf
           /\ login'.bypassed <=> Exempt
           /\ ~login'.again /\ login'.outcome = "pending" /\ login'.events = <<>>
<1>1. PICK s \in Status :
         login' = [NoLogin EXCEPT !.status = s, !.active = conf, !.bypassed = Exempt,
                                  !.pc = "prev"]
  BY DEF Connect
<1>2. login' = [pc |-> "prev", status |-> s, active |-> conf, bypassed |-> Exempt,
                again |-> FALSE, outcome |-> "pending", events |-> <<>>]
  BY <1>1 DEF NoLogin
<1>3. Exempt \in BOOLEAN
  BY Zenon DEF Exempt
<1>4. login' \in Login
  BY <1>2, <1>3 DEF Login, HookPC, Outcome
<1> QED
  BY <1>2, <1>4 DEF LoginOK

LEMMA ReadLockStateFields ==
    ASSUME LoginOK, ReadLockState
    PROVE  /\ LoginOK' /\ login'.pc = "expirystate" /\ login'.active = ActiveAfter("lock")
           /\ login'.status = login.status /\ login'.bypassed = login.bypassed
           /\ login'.again = login.again
           /\ login'.outcome = "pending" /\ login'.events = login.events
<1>1. login' = [login EXCEPT !.active = ActiveAfter("lock"), !.pc = "expirystate"]
  BY DEF ReadLockState
<1>2. ActiveAfter("lock") \in SUBSET Feature
  BY DEF ActiveAfter, LoginOK, Login
<1>3. login' \in Login
  BY <1>1, <1>2 DEF LoginOK, Login, HookPC
<1> QED
  BY <1>1, <1>3 DEF LoginOK, Login, ReadLockState, At

LEMMA ReadExpiryStateFields ==
    ASSUME LoginOK, ReadExpiryState
    PROVE  /\ LoginOK' /\ login'.active = ActiveAfter("expiry")
           /\ login'.status = login.status /\ login'.bypassed = login.bypassed
           /\ login'.events = login.events
           /\ \/ /\ \/ login.status = "other"
                    \/ login.status = "wrong" /\ "lock" \notin login'.active
                 /\ login'.pc = "done" /\ login'.outcome = "rejected"
                 /\ login'.again = login.again
              \/ /\ login.status = "wrong" /\ "lock" \in login'.active
                 /\ login'.pc = "failure" /\ ~login'.again /\ login'.outcome = "pending"
              \/ /\ login.status = "right" /\ "lock" \in login'.active
                 /\ login'.pc = "lockout" /\ ~login'.again /\ login'.outcome = "pending"
              \/ /\ login.status = "right" /\ "lock" \notin login'.active
                 /\ login'.pc = "running" /\ login'.again /\ login'.outcome = "pending"
<1> DEFINE active == ActiveAfter("expiry")
<1>1. active \in SUBSET Feature
  BY DEF ActiveAfter, LoginOK, Login
<1> HIDE DEF active
<1>2. CASE login.status = "other" \/ (login.status = "wrong" /\ "lock" \notin active)
  <2>1. login' = [login EXCEPT !.active = active, !.pc = "done", !.outcome = "rejected"]
    BY <1>2 DEF ReadExpiryState, active
  <2>2. login' \in Login
    BY <1>1, <2>1 DEF LoginOK, Login, HookPC, Outcome
  <2> QED
    BY <1>2, <2>1, <2>2 DEF LoginOK, Login, active
<1>3. CASE login.status = "wrong" /\ "lock" \in active
  <2>1. login' = [login EXCEPT !.active = active, !.again = FALSE, !.pc = "failure"]
    BY <1>3 DEF ReadExpiryState, active
  <2>2. login' \in Login
    BY <1>1, <2>1 DEF LoginOK, Login, HookPC
  <2> QED
    BY <1>3, <2>1, <2>2 DEF LoginOK, Login, active, ReadExpiryState, At
<1>4. CASE login.status = "right" /\ "lock" \in active
  <2>1. login' = [login EXCEPT !.active = active, !.again = FALSE, !.pc = "lockout"]
    BY <1>4 DEF ReadExpiryState, active
  <2>2. login' \in Login
    BY <1>1, <2>1 DEF LoginOK, Login, HookPC
  <2> QED
    BY <1>4, <2>1, <2>2 DEF LoginOK, Login, active, ReadExpiryState, At
<1>5. CASE login.status = "right" /\ "lock" \notin active
  <2>1. login' = [login EXCEPT !.active = active, !.again = TRUE, !.pc = "running"]
    BY <1>5 DEF ReadExpiryState, active
  <2>2. login' \in Login
    BY <1>1, <2>1 DEF LoginOK, Login, HookPC
  <2> QED
    BY <1>5, <2>1, <2>2 DEF LoginOK, Login, active, ReadExpiryState, At
<1> QED
  BY <1>2, <1>3, <1>4, <1>5 DEF LoginOK, Login, Status

LEMMA LookupLockoutFields ==
    ASSUME LoginOK, LookupLockout
    PROVE  /\ LoginOK' /\ login'.active = login.active
           /\ login'.status = login.status /\ login'.bypassed = login.bypassed
           /\ login'.events = login.events
           /\ \/ /\ locked /\ login'.pc = "done" /\ login'.outcome = "refused"
                 /\ login'.again = login.again
              \/ /\ ~locked
                 /\ login'.pc = "running" /\ login'.again /\ login'.outcome = "pending"
<1>1. CASE locked /\ End("refused")
  BY <1>1, EndFields DEF Outcome, SameLogin
<1>2. CASE /\ ~locked
           /\ login' = [login EXCEPT !.again = TRUE, !.pc = "running"]
  <2>1. login' \in Login
    BY <1>2 DEF LoginOK, Login, HookPC
  <2> QED
    BY <1>2, <2>1 DEF LoginOK, Login, LookupLockout, At
<1> QED
  BY <1>1, <1>2 DEF LookupLockout

LEMMA NextLoginFields ==
    ASSUME NextLogin
    PROVE  /\ LoginOK' /\ login'.pc = "idle" /\ ~login'.again
           /\ login'.outcome = "pending" /\ login'.events = <<>>
BY DEF NextLogin, NoLogin, LoginOK, Login, HookPC, Status, Outcome

\* What is steady held before the step and holds after it.
LEMMA WatchFacts ==
    ASSUME Watch, NEW k \in steady'
    PROVE  /\ login.pc = "idle" \/ k \in steady
           /\ Holds(k) /\ Holds(k)'
BY Zenon DEF Watch

\* A login that is counted all along does not end without its event.
LEMMA CountedNeedsEvent ==
    ASSUME Watch, marked', "counted" \in steady'
    PROVE  FALSE
BY WatchFacts DEF Holds, Enforced, HealthOK

----------------------------------------------------------------------------
(* Steps. *)

\* Every step of the hook leaves a login of its type.
LEMMA LoginOKStep ==
    ASSUME HookTypeOK, Course, [HookNext]_(hookVars)
    PROVE  LoginOK'
<1>0. LoginOK /\ EnvironmentOK
  BY LoginTypes
<1> USE <1>0, ConfAssumption DEF Course, SameLogin, HookPC, Outcome, Event, EnvironmentOK
<1>1. CASE Connect /\ Watch
  BY <1>1, ConnectFields DEF Connect, At
<1>2. CASE PreviousHook /\ Watch
  BY <1>2, GotoFields, EndFields, NativeOutcome DEF PreviousHook, At
<1>3. CASE CheckRunning /\ Watch
  BY <1>3, GotoFields, EndFields, NativeOutcome DEF CheckRunning, At
<1>4. CASE CheckQueue /\ Watch
  BY <1>4, GotoFields, EndFields, NativeOutcome DEF CheckQueue, At
<1>5. CASE CheckMarker /\ Watch
  BY <1>5, GotoFields, EndFields, NativeOutcome DEF CheckMarker, At
<1>6. CASE ReadLockState /\ Watch
  BY <1>6, ReadLockStateFields DEF ReadLockState, At, ActiveAfter
<1>7. CASE ReadExpiryState /\ Watch
  BY <1>7, ReadExpiryStateFields DEF ReadExpiryState, At, ActiveAfter
<1>8. CASE LookupLockout /\ Watch
  BY <1>8, LookupLockoutFields DEF LookupLockout, At
<1>9. CASE LookupExpiry /\ Watch
  BY <1>9, GotoFields, EndFields, NativeOutcome DEF LookupExpiry, At
<1>10. CASE ConsumeGrace /\ Watch
  BY <1>10, GotoFields, EndFields, NativeOutcome, RecordedFields, NotRecordedFields DEF
     ConsumeGrace, At, TakeGrace
<1>11. CASE RecordSuccess /\ Watch
  BY <1>11, GotoFields, EndFields, NativeOutcome, RecordedFields, NotRecordedFields DEF
     RecordSuccess, At
<1>12. CASE RecordFailure /\ Watch
  BY <1>12, NativeOutcome, RecordedFields, NotRecordedFields DEF RecordFailure, At
<1>13. CASE NextLogin /\ Watch
  BY <1>13, NextLoginFields DEF NextLogin, At
<1>14. CASE EnvironmentStep /\ Watch
  BY <1>14 DEF LoginOK, EnvironmentStep, WorkerStartsOrStops, QueueChanges,
     MarkerChanges, CacheChanges, ReloadSwitches, FactsChange
<1>15. CASE UNCHANGED hookVars
  BY <1>15 DEF hookVars, LoginOK
<1> QED
  BY <1>1, <1>2, <1>3, <1>4, <1>5, <1>6, <1>7, <1>8, <1>9, <1>10, <1>11, <1>12, <1>13, <1>14,
     <1>15 DEF HookNext, HookStep

\* Every step keeps to the course.
LEMMA CourseStep ==
    ASSUME HookTypeOK, Course, [HookNext]_(hookVars)
    PROVE  Course'
<1>0. LoginOK /\ EnvironmentOK
  BY LoginTypes
<1> USE <1>0, ConfAssumption DEF EnvironmentOK, environment, doubts, facts, Course,
   Native, SameLogin, HookPC, Outcome, Event
<1>1. CASE Connect /\ Watch
  BY <1>1, ConnectFields DEF Connect, At
<1>2. CASE PreviousHook /\ Watch
  BY <1>2, GotoFields, EndFields, NativeOutcome DEF PreviousHook, At
<1>3. CASE CheckRunning /\ Watch
  BY <1>3, GotoFields, EndFields, NativeOutcome DEF CheckRunning, At
<1>4. CASE CheckQueue /\ Watch
  BY <1>4, GotoFields, EndFields, NativeOutcome DEF CheckQueue, At
<1>5. CASE CheckMarker /\ Watch
  BY <1>5, GotoFields, EndFields, NativeOutcome DEF CheckMarker, At
<1>6. CASE ReadLockState /\ Watch
  BY <1>6, ReadLockStateFields DEF ReadLockState, At, ActiveAfter
<1>7. CASE ReadExpiryState /\ Watch
  BY <1>7, ReadExpiryStateFields DEF ReadExpiryState, At, ActiveAfter
<1>8. CASE LookupLockout /\ Watch
  BY <1>8, LookupLockoutFields DEF LookupLockout, At
<1>9. CASE LookupExpiry /\ Watch
  BY <1>9, GotoFields, EndFields, NativeOutcome DEF LookupExpiry, At
<1>10. CASE ConsumeGrace /\ Watch
  BY <1>10, GotoFields, EndFields, NativeOutcome, RecordedFields, NotRecordedFields DEF
     ConsumeGrace, At, TakeGrace
<1>11. CASE RecordSuccess /\ Watch
  BY <1>11, GotoFields, EndFields, NativeOutcome, RecordedFields, NotRecordedFields DEF
     RecordSuccess, At
<1>12. CASE RecordFailure /\ Watch
  BY <1>12, NativeOutcome, RecordedFields, NotRecordedFields DEF RecordFailure, At
<1>13. CASE NextLogin /\ Watch
  BY <1>13, NextLoginFields DEF NextLogin, At
<1>14. CASE EnvironmentStep /\ Watch
  BY <1>14 DEF EnvironmentStep, WorkerStartsOrStops, QueueChanges,
     MarkerChanges, CacheChanges, ReloadSwitches, FactsChange
<1>15. CASE UNCHANGED hookVars
  BY <1>15 DEF hookVars
<1> QED
  BY <1>1, <1>2, <1>3, <1>4, <1>5, <1>6, <1>7, <1>8, <1>9, <1>10, <1>11, <1>12, <1>13, <1>14,
     <1>15 DEF HookNext, HookStep

\* The reads of a locked-out login, in turn.
LEMMA LockedOutStep ==
    ASSUME HookTypeOK, Course, LockedOutPath, [HookNext]_(hookVars)
    PROVE  LockedOutPath'
<1>0. LoginOK /\ EnvironmentOK
  BY LoginTypes
<1> USE <1>0, ConfAssumption DEF EnvironmentOK, environment, doubts, facts, Course,
   LockedOutPath, Watch, Holds, Enforced, HealthOK, Exempt,
   Condition, SameLogin, HookPC, Outcome, Event
<1>1. CASE Connect /\ Watch
  BY <1>1, ConnectFields DEF Connect, At
<1>2. CASE PreviousHook /\ Watch
  BY <1>2, GotoFields, EndFields, NativeOutcome DEF PreviousHook, At
<1>3. CASE CheckRunning /\ Watch
  BY <1>3, GotoFields, EndFields, NativeOutcome DEF CheckRunning, At
<1>4. CASE CheckQueue /\ Watch
  BY <1>4, GotoFields, EndFields, NativeOutcome DEF CheckQueue, At
<1>5. CASE CheckMarker /\ Watch
  BY <1>5, GotoFields, EndFields, NativeOutcome DEF CheckMarker, At
<1>6. CASE ReadLockState /\ Watch
  BY <1>6, ReadLockStateFields DEF ReadLockState, At, ActiveAfter
<1>7. CASE ReadExpiryState /\ Watch
  BY <1>7, ReadExpiryStateFields DEF ReadExpiryState, At, ActiveAfter
<1>8. CASE LookupLockout /\ Watch
  BY <1>8, LookupLockoutFields DEF LookupLockout, At
<1>9. CASE LookupExpiry /\ Watch
  BY <1>9, GotoFields, EndFields, NativeOutcome DEF LookupExpiry, At
<1>10. CASE ConsumeGrace /\ Watch
  BY <1>10, GotoFields, EndFields, NativeOutcome, RecordedFields, NotRecordedFields DEF
     ConsumeGrace, At, TakeGrace
<1>11. CASE RecordSuccess /\ Watch
  BY <1>11, GotoFields, EndFields, NativeOutcome, RecordedFields, NotRecordedFields DEF
     RecordSuccess, At
<1>12. CASE RecordFailure /\ Watch
  BY <1>12, NativeOutcome, RecordedFields, NotRecordedFields DEF RecordFailure, At
<1>13. CASE NextLogin /\ Watch
  BY <1>13, NextLoginFields DEF NextLogin, At
<1>14. CASE EnvironmentStep /\ Watch
  BY <1>14 DEF EnvironmentStep, WorkerStartsOrStops, QueueChanges,
     MarkerChanges, CacheChanges, ReloadSwitches, FactsChange
<1>15. CASE UNCHANGED hookVars
  BY <1>15 DEF hookVars
<1> QED
  BY <1>1, <1>2, <1>3, <1>4, <1>5, <1>6, <1>7, <1>8, <1>9, <1>10, <1>11, <1>12, <1>13, <1>14,
     <1>15 DEF HookNext, HookStep

\* Those of a login whose password is spent.
LEMMA SpentStep ==
    ASSUME HookTypeOK, Course, SpentPath, [HookNext]_(hookVars)
    PROVE  SpentPath'
<1>0. LoginOK /\ EnvironmentOK
  BY LoginTypes
<1> USE <1>0, ConfAssumption DEF EnvironmentOK, environment, doubts, facts, Course,
   SpentPath, Watch, Holds, Enforced, HealthOK, Exempt, Condition,
   SameLogin, HookPC, Outcome, Event
<1>1. CASE Connect /\ Watch
  BY <1>1, ConnectFields DEF Connect, At
<1>2. CASE PreviousHook /\ Watch
  BY <1>2, GotoFields, EndFields, NativeOutcome DEF PreviousHook, At
<1>3. CASE CheckRunning /\ Watch
  BY <1>3, GotoFields, EndFields, NativeOutcome DEF CheckRunning, At
<1>4. CASE CheckQueue /\ Watch
  BY <1>4, GotoFields, EndFields, NativeOutcome DEF CheckQueue, At
<1>5. CASE CheckMarker /\ Watch
  BY <1>5, GotoFields, EndFields, NativeOutcome DEF CheckMarker, At
<1>6. CASE ReadLockState /\ Watch
  BY <1>6, ReadLockStateFields DEF ReadLockState, At, ActiveAfter
<1>7. CASE ReadExpiryState /\ Watch
  BY <1>7, ReadExpiryStateFields DEF ReadExpiryState, At, ActiveAfter
<1>8. CASE LookupLockout /\ Watch
  BY <1>8, LookupLockoutFields DEF LookupLockout, At
<1>9. CASE LookupExpiry /\ Watch
  BY <1>9, GotoFields, EndFields, NativeOutcome DEF LookupExpiry, At
<1>10. CASE ConsumeGrace /\ Watch
  BY <1>10, GotoFields, EndFields, NativeOutcome, RecordedFields, NotRecordedFields DEF
     ConsumeGrace, At, TakeGrace
<1>11. CASE RecordSuccess /\ Watch
  BY <1>11, GotoFields, EndFields, NativeOutcome, RecordedFields, NotRecordedFields DEF
     RecordSuccess, At
<1>12. CASE RecordFailure /\ Watch
  BY <1>12, NativeOutcome, RecordedFields, NotRecordedFields DEF RecordFailure, At
<1>13. CASE NextLogin /\ Watch
  BY <1>13, NextLoginFields DEF NextLogin, At
<1>14. CASE EnvironmentStep /\ Watch
  BY <1>14 DEF EnvironmentStep, WorkerStartsOrStops, QueueChanges,
     MarkerChanges, CacheChanges, ReloadSwitches, FactsChange
<1>15. CASE UNCHANGED hookVars
  BY <1>15 DEF hookVars
<1> QED
  BY <1>1, <1>2, <1>3, <1>4, <1>5, <1>6, <1>7, <1>8, <1>9, <1>10, <1>11, <1>12, <1>13, <1>14,
     <1>15 DEF HookNext, HookStep

\* Past the health checks no reason to pause has held all along.
LEMMA LatePause ==
    ASSUME PausePath, Watch, login.pc \in {"lockout", "expiry", "grace", "success", "failure"},
           "innocent" \in steady' => login'.outcome # "refused"
    PROVE  PausePath'
<1>1. steady \cap {"stopped", "corrupt", "marked", "exempt"} = {}
  BY DEF PausePath
<1>2. steady' \cap {"stopped", "corrupt", "marked", "exempt"} = {}
  BY <1>1, WatchFacts
<1> QED
  BY <1>2 DEF PausePath

\* Those of a login during a pause, by an exempt role, or by an innocent one.
LEMMA PauseStep ==
    ASSUME HookTypeOK, Course, PausePath, [HookNext]_(hookVars)
    PROVE  PausePath'
<1>0. LoginOK /\ EnvironmentOK
  BY LoginTypes
<1> USE <1>0, ConfAssumption DEF EnvironmentOK, environment, doubts, facts, Course,
   PausePath, Watch, Holds, Enforced, HealthOK, Exempt, Condition,
   SameLogin, HookPC, Outcome, Event
<1>1. CASE Connect /\ Watch
  BY <1>1, ConnectFields DEF Connect, At
<1>2. CASE PreviousHook /\ Watch
  BY <1>2, GotoFields, EndFields, NativeOutcome DEF PreviousHook, At
<1>3. CASE CheckRunning /\ Watch
  BY <1>3, GotoFields, EndFields, NativeOutcome DEF CheckRunning, At
<1>4. CASE CheckQueue /\ Watch
  BY <1>4, GotoFields, EndFields, NativeOutcome DEF CheckQueue, At
<1>5. CASE CheckMarker /\ Watch
  BY <1>5, GotoFields, EndFields, NativeOutcome DEF CheckMarker, At
<1>6. CASE ReadLockState /\ Watch
  BY <1>6, ReadLockStateFields DEF ReadLockState, At, ActiveAfter
<1>7. CASE ReadExpiryState /\ Watch
  BY <1>7, ReadExpiryStateFields DEF ReadExpiryState, At, ActiveAfter
<1>8. CASE LookupLockout /\ Watch
  <2>1. "innocent" \in steady' => ~locked
    BY <1>8, WatchFacts DEF Holds
  <2>2. "innocent" \in steady' => login'.outcome # "refused"
    BY <1>8, <2>1, LookupLockoutFields
  <2> QED
    BY <1>8, <2>2, LatePause DEF LookupLockout, At
<1>9. CASE LookupExpiry /\ Watch
  <2>1. "innocent" \in steady' => password # "spent"
    BY <1>9, WatchFacts DEF Holds
  <2>2. "innocent" \in steady' => login'.outcome # "refused"
    BY <1>9, <2>1, GotoFields DEF LookupExpiry, At
  <2> QED
    BY <1>9, <2>2, LatePause DEF LookupExpiry, At
<1>10. CASE ConsumeGrace /\ Watch
  <2>1. "innocent" \in steady' => password # "spent"
    BY <1>10, WatchFacts DEF Holds
  <2>2. login.events = <<>>
    BY <1>10 DEF ConsumeGrace, At
  <2>3. "innocent" \in steady' => login'.outcome # "refused"
    BY <1>10, <2>1, <2>2, GotoFields, EndFields, NativeOutcome, RecordedFields, NotRecordedFields
       DEF ConsumeGrace, TakeGrace, At
  <2> QED
    BY <1>10, <2>3, LatePause DEF ConsumeGrace, At
<1>11. CASE RecordSuccess /\ Watch
  <2>1. login.events = <<>>
    BY <1>11 DEF RecordSuccess, At
  <2>2. login'.outcome = Native
    BY <1>11, <2>1, EndFields, NativeOutcome, RecordedFields, NotRecordedFields DEF
       RecordSuccess
  <2> QED
    BY <1>11, <2>2, NativeOutcome, LatePause DEF RecordSuccess, At
<1>12. CASE RecordFailure /\ Watch
  <2>1. login.events = <<>>
    BY <1>12 DEF RecordFailure, At
  <2>2. login'.outcome = Native
    BY <1>12, <2>1, NativeOutcome, RecordedFields, NotRecordedFields DEF RecordFailure
  <2> QED
    BY <1>12, <2>2, NativeOutcome, LatePause DEF RecordFailure, At
<1>13. CASE NextLogin /\ Watch
  BY <1>13, NextLoginFields DEF NextLogin, At
<1>14. CASE EnvironmentStep /\ Watch
  BY <1>14 DEF EnvironmentStep, WorkerStartsOrStops, QueueChanges,
     MarkerChanges, CacheChanges, ReloadSwitches, FactsChange
<1>15. CASE UNCHANGED hookVars
  BY <1>15 DEF hookVars
<1> QED
  BY <1>1, <1>2, <1>3, <1>4, <1>5, <1>6, <1>7, <1>8, <1>9, <1>10, <1>11, <1>12, <1>13, <1>14,
     <1>15 DEF HookNext, HookStep

\* An event that is recorded counts, and one that is not marks a failure.
LEMMA EventCounts ==
    ASSUME LoginOK, CountedPath, Watch, login.events = <<>>, login.pc # "idle",
           NEW e \in Event, Recorded(e) \/ NotRecorded
    PROVE  CountedPath'
<1>1. CASE Recorded(e)
  <2>1. SameLogin /\ login'.events = <<e>>
    BY <1>1, RecordedFields
  <2> QED
    BY <2>1, WatchFacts DEF CountedPath, SameLogin
<1>2. CASE NotRecorded
  <2>1. marked'
    BY <1>2, NotRecordedFields
  <2> QED
    BY <2>1, CountedNeedsEvent DEF CountedPath
<1> QED
  BY <1>1, <1>2

\* Those of a login that is to be counted.
LEMMA CountedStep ==
    ASSUME HookTypeOK, Course, CountedPath, [HookNext]_(hookVars)
    PROVE  CountedPath'
<1>0. LoginOK /\ EnvironmentOK
  BY LoginTypes
<1> USE <1>0, ConfAssumption DEF EnvironmentOK, environment, doubts, facts, Course,
   CountedPath, Watch, Holds, Enforced, HealthOK, Exempt, Condition,
   SameLogin, HookPC, Outcome, Event
<1>1. CASE Connect /\ Watch
  BY <1>1, ConnectFields DEF Connect, At
<1>2. CASE PreviousHook /\ Watch
  BY <1>2, GotoFields, EndFields, NativeOutcome DEF PreviousHook, At
<1>3. CASE CheckRunning /\ Watch
  BY <1>3, GotoFields, EndFields, NativeOutcome DEF CheckRunning, At
<1>4. CASE CheckQueue /\ Watch
  BY <1>4, GotoFields, EndFields, NativeOutcome DEF CheckQueue, At
<1>5. CASE CheckMarker /\ Watch
  BY <1>5, GotoFields, EndFields, NativeOutcome DEF CheckMarker, At
<1>6. CASE ReadLockState /\ Watch
  BY <1>6, ReadLockStateFields DEF ReadLockState, At, ActiveAfter
<1>7. CASE ReadExpiryState /\ Watch
  BY <1>7, ReadExpiryStateFields DEF ReadExpiryState, At, ActiveAfter
<1>8. CASE LookupLockout /\ Watch
  BY <1>8, LookupLockoutFields DEF LookupLockout, At
<1>9. CASE LookupExpiry /\ Watch
  BY <1>9, GotoFields, EndFields, NativeOutcome DEF LookupExpiry, At
<1>10. CASE ConsumeGrace /\ Watch
  <2>1. CASE state["expiry"] # "Ready"
    <3>1. "counted" \notin steady'
      BY <1>10, <2>1, WatchFacts DEF ConsumeGrace, At
    <3> QED
      BY <3>1
  <2>2. CASE Proceed("success") \/ End("refused")
    BY <1>10, <2>2, GotoFields, EndFields DEF ConsumeGrace, At
  <2>3. CASE TakeGrace
    <3>1. Recorded("grace") \/ NotRecorded
      BY Zenon, <2>3 DEF TakeGrace
    <3> QED
      BY <1>10, <3>1, EventCounts DEF ConsumeGrace, At
  <2> QED
    BY <1>10, <2>1, <2>2, <2>3 DEF ConsumeGrace
<1>11. CASE RecordSuccess /\ Watch
  <2>1. CASE "lock" \in login.active
    <3>1. Recorded("success") \/ NotRecorded
      BY Zenon, <1>11, <2>1 DEF RecordSuccess
    <3> QED
      BY <1>11, <3>1, EventCounts DEF RecordSuccess, At
  <2>2. CASE "lock" \notin login.active
    <3>1. "counted" \notin steady'
      BY <1>11, <2>2, WatchFacts DEF RecordSuccess, At
    <3> QED
      BY <3>1
  <2> QED
    BY <2>1, <2>2
<1>12. CASE RecordFailure /\ Watch
  <2>1. Recorded("failure") \/ NotRecorded
    BY Zenon, <1>12 DEF RecordFailure
  <2> QED
    BY <1>12, <2>1, EventCounts DEF RecordFailure, At
<1>13. CASE NextLogin /\ Watch
  BY <1>13, NextLoginFields DEF NextLogin, At
<1>14. CASE EnvironmentStep /\ Watch
  BY <1>14 DEF EnvironmentStep, WorkerStartsOrStops, QueueChanges,
     MarkerChanges, CacheChanges, ReloadSwitches, FactsChange
<1>15. CASE UNCHANGED hookVars
  BY <1>15 DEF hookVars
<1> QED
  BY <1>1, <1>2, <1>3, <1>4, <1>5, <1>6, <1>7, <1>8, <1>9, <1>10, <1>11, <1>12, <1>13, <1>14,
     <1>15 DEF HookNext, HookStep

\* Everything around the hook keeps its type.
LEMMA EnvironmentOKStep ==
    ASSUME EnvironmentOK, [HookNext]_(hookVars)
    PROVE  EnvironmentOK'
<1> USE DEF EnvironmentOK, environment, doubts, facts
<1>1. CASE HookStep /\ Watch
  <2>1. steady' \subseteq Condition
    BY <1>1 DEF Watch
  <2>2. CASE UNCHANGED environment
    BY <2>1, <2>2
  <2>3. CASE ConsumeGrace \/ RecordSuccess \/ RecordFailure
    <3>1. marked' \in BOOLEAN
      BY Zenon, <2>3 DEF ConsumeGrace, TakeGrace, RecordSuccess,
         RecordFailure, Recorded, NotRecorded
    <3>2. password' \in Password
      BY <2>3 DEF ConsumeGrace, TakeGrace, RecordSuccess, RecordFailure,
         Password
    <3>3. UNCHANGED <<running, corrupt, state, conf, locked, listed>>
      BY <2>3 DEF ConsumeGrace, TakeGrace, RecordSuccess, RecordFailure
    <3> QED
      BY <2>1, <3>1, <3>2, <3>3
  <2> QED
    BY <1>1, <2>2, <2>3
       DEF HookStep, Connect, PreviousHook, CheckRunning,
           CheckQueue, CheckMarker, ReadLockState, ReadExpiryState,
           LookupLockout, LookupExpiry, NextLogin
<1>2. CASE EnvironmentStep /\ Watch
  <2>1. steady' \subseteq Condition
    BY <1>2 DEF Watch
  <2>2. /\ running' \in BOOLEAN /\ corrupt' \in BOOLEAN /\ marked' \in BOOLEAN
        /\ locked' \in BOOLEAN /\ listed' \in BOOLEAN
    BY Zenon, <1>2
       DEF EnvironmentStep, WorkerStartsOrStops, QueueChanges, MarkerChanges,
           CacheChanges, ReloadSwitches, FactsChange
  <2>3. /\ state' \in [Cache -> {"Ready", "Unusable"}] /\ conf' \in Conf
        /\ password' \in Password
    BY <1>2
       DEF EnvironmentStep, WorkerStartsOrStops, QueueChanges, MarkerChanges,
           CacheChanges, ReloadSwitches, FactsChange
  <2> QED
    BY <2>1, <2>2, <2>3
<1>3. CASE UNCHANGED hookVars
  BY <1>3 DEF hookVars
<1> QED
  BY <1>1, <1>2, <1>3 DEF HookNext

----------------------------------------------------------------------------
(* The theorems. *)

LEMMA HookInitInv == HookInit => HookInv
<1> SUFFICES ASSUME HookInit PROVE HookInv
  OBVIOUS
<1>1. LoginOK
  BY DEF HookInit, NoLogin, LoginOK, Login, HookPC, Status, Outcome
<1>2. EnvironmentOK
  <2>1. /\ running \in BOOLEAN /\ corrupt \in BOOLEAN /\ marked \in BOOLEAN
        /\ locked \in BOOLEAN /\ listed \in BOOLEAN
    BY Zenon DEF HookInit
  <2> QED
    BY <2>1 DEF HookInit, EnvironmentOK, Password
<1>3. Course /\ LockedOutPath /\ SpentPath /\ PausePath /\ CountedPath
  BY DEF HookInit, NoLogin, Course, LockedOutPath, SpentPath, PausePath, CountedPath
<1> QED
  BY <1>1, <1>2, <1>3, LoginTypes DEF HookInv

LEMMA HookNextInv == HookInv /\ [HookNext]_(hookVars) => HookInv'
<1> SUFFICES ASSUME HookInv, [HookNext]_(hookVars) PROVE HookInv'
  OBVIOUS
<1>1. LoginOK' /\ EnvironmentOK'
  BY LoginOKStep, EnvironmentOKStep, LoginTypes DEF HookInv
<1>2. HookTypeOK'
  BY <1>1 DEF HookTypeOK, LoginOK, EnvironmentOK, Login
<1>3. Course' /\ LockedOutPath' /\ SpentPath' /\ PausePath' /\ CountedPath'
  BY CourseStep, LockedOutStep, SpentStep, PauseStep, CountedStep DEF HookInv
<1> QED
  BY <1>2, <1>3 DEF HookInv

\* The inductive invariant holds of every login.
THEOREM HookInductive == HookSpec => []HookInv
BY HookInitInv, HookNextInv, PTL DEF HookSpec

\* What the hook reads and where a login is keep their types.
THEOREM HookTypeCorrect == HookSpec => []HookTypeOK
BY HookInductive, PTL DEF HookInv

\* client_auth_hook does not admit a role that has an entry in the lock cache, or
\* whose grace logins are spent, from its first read to its last while enforcement
\* is sound.
THEOREM EnforcementIsFirmThm == HookSpec => []EnforcementIsFirm
<1>1. HookInv => EnforcementIsFirm
  BY DEF HookInv, LockedOutPath, SpentPath, EnforcementIsFirm
<1> QED
  BY <1>1, HookInductive, PTL

\* client_auth_hook refuses nobody while one reason to pause lasts, nor an exempt
\* role, nor one that has no entry in the lock cache and is not expired.
THEOREM PauseNeverRefusesThm == HookSpec => []PauseNeverRefuses
<1>1. HookInv => PauseNeverRefuses
  BY DEF HookInv, PausePath, PauseNeverRefuses
<1> QED
  BY <1>1, HookInductive, PTL

\* A login leaves at most one event, of its own kind, and leaves it wherever
\* lockouts are enforced throughout.
THEOREM OneEventPerLoginThm == HookSpec => []OneEventPerLogin
<1>1. HookInv => OneEventPerLogin
  <2> SUFFICES ASSUME HookInv, At("done") PROVE OneEventPerLogin
    BY DEF OneEventPerLogin
  <2>1. CASE login.events = <<>>
    BY <2>1 DEF HookInv, CountedPath, OneEventPerLogin
  <2>2. CASE \E e \in Event : /\ login.events = <<e>> /\ login.outcome = Native
                              /\ e = "failure" => login.status = "wrong"
    <3>1. PICK e \in Event : /\ login.events = <<e>> /\ login.outcome = Native
                             /\ e = "failure" => login.status = "wrong"
      BY <2>2
    <3>2. /\ Len(login.events) = 1 /\ DOMAIN login.events = {1} /\ login.events[1] = e
          /\ login.events # <<>>
      BY <3>1
    <3>3. {login.events[i] : i \in DOMAIN login.events} = {e}
      BY <3>2
    <3> QED
      BY <3>1, <3>2, <3>3 DEF Native, OneEventPerLogin
  <2> QED
    BY <2>1, <2>2 DEF HookInv, Course
<1> QED
  BY <1>1, HookInductive, PTL
=============================================================================
