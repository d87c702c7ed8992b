----------------------- MODULE DumpPersistenceProofs -----------------------
(***************************************************************************)
(* Theorems about DumpPersistence, for every set of writes and slots, every *)
(* debounce window and every combination of faults unless one is named.    *)
(***************************************************************************)
EXTENDS DumpPersistence, TLAPS

LEMMA CoreInit == Init => CoreInv
  BY NoneAssumption, WindowAssumption, TornAssumption
  DEF Init, CoreInv, TypeOK, Phases, Steps, Outcomes, Contents, Holding,
      NoPartialDumpVisible

\* What the boot and the requests do leaves the scripts alone.
LEMMA CoreStepApi ==
  ASSUME CoreInv,
         \/ StartContainer \/ RestoreLatest \/ LatestUnusable
         \/ RestorePrevious \/ StartWithoutRestore
         \/ \E w \in Writes : Commit(w) \/ CommitUnscheduled(w) \/ Respond(w)
         \/ RespondIdle \/ Tick \/ Elapse \/ SigTerm \/ StopPostgres
  PROVE  CoreInv'
<1> USE NoneAssumption, FinalAssumption, TornAssumption, WindowAssumption
    DEF CoreInv, TypeOK, debounce, scripts, disk, NoPartialDumpVisible
<1> USE DEF Phases, Contents, Holding, Steps, Scripts
<1>1. CASE StartContainer
  BY <1>1 DEF StartContainer, Outcomes
<1>2. CASE RestoreLatest
  BY <1>2 DEF RestoreLatest
<1>3. CASE LatestUnusable
  BY <1>3 DEF LatestUnusable
<1>4. CASE RestorePrevious
  BY <1>4 DEF RestorePrevious
<1>5. CASE StartWithoutRestore
  BY <1>5 DEF StartWithoutRestore
<1>6. ASSUME NEW w \in Writes, Commit(w) PROVE CoreInv'
  BY <1>6 DEF Commit
<1>7. ASSUME NEW w \in Writes, CommitUnscheduled(w) PROVE CoreInv'
  BY <1>7 DEF CommitUnscheduled
<1>8. ASSUME Schedule, UNCHANGED disk,
             phase' \in Phases, db' \in SUBSET Writes,
             inflight' \in SUBSET Writes, finalDump' \in Outcomes
      PROVE  CoreInv'
  BY <1>8 DEF Schedule
<1>9. ASSUME NEW w \in Writes, Respond(w) PROVE CoreInv'
  BY <1>8, <1>9 DEF Respond
<1>10. CASE RespondIdle
  BY <1>8, <1>10 DEF RespondIdle
<1>11. CASE Tick
  BY <1>11 DEF Tick
<1>12. CASE Elapse
  BY <1>12 DEF Elapse
<1>13. CASE SigTerm
  BY <1>13 DEF SigTerm
<1>14. CASE StopPostgres
  BY <1>14 DEF StopPostgres
<1> QED
  BY <1>1, <1>2, <1>3, <1>4, <1>5, <1>6, <1>7, <1>9, <1>10, <1>11, <1>12,
     <1>13, <1>14

\* A script exits: the lock it may have held is free, the others' is theirs.
LEMMA CoreExits ==
  ASSUME CoreInv, NEW p \in Scripts, NEW o \in Outcomes, ScriptExits(p, o),
         UNCHANGED <<db, inflight, debounce>>,
         tmp' \in Contents, file' \in Contents, prev' \in Contents,
         file' # Torn, prev' # Torn,
         \/ UNCHANGED <<tmp, file>>
         \/ lock = p
  PROVE  CoreInv'
<1> USE NoneAssumption DEF CoreInv, TypeOK, debounce, NoPartialDumpVisible,
        Holding, Steps
<1>1. /\ pc' = [pc EXCEPT ![p] = "off"]
      /\ snap' = [snap EXCEPT ![p] = {}]
      /\ lock' = IF lock = p THEN None ELSE lock
  BY DEF ScriptExits
<1>2. phase' \in Phases /\ finalDump' \in Outcomes
  BY DEF ScriptExits, Phases
<1>3. TypeOK'
  BY <1>1, <1>2
<1>4. \A q \in Scripts : pc'[q] \in Holding => q # p /\ pc[q] \in Holding
  BY <1>1
<1>5. \A q \in Scripts : pc'[q] \in Holding => lock' = q
  BY <1>1, <1>4
<1>6. \A q \in Scripts : pc'[q] \in Holding =>
         /\ pc'[q] = pc[q]
         /\ snap'[q] = snap[q]
         /\ UNCHANGED <<tmp, file>>
  BY <1>1, <1>4
<1> QED
  BY <1>3, <1>5, <1>6

LEMMA CoreStepScript ==
  ASSUME CoreInv, NEW p \in Scripts, ScriptStep(p)
  PROVE  CoreInv'
<1> USE NoneAssumption, TornAssumption
    DEF CoreInv, TypeOK, debounce, disk, NoPartialDumpVisible
<1> USE DEF Contents, Holding, Steps
<1>1. CASE TakeLock(p)
  BY <1>1 DEF TakeLock, Scripts
<1>2. CASE Skip(p)
  BY <1>2, CoreExits DEF Skip, Outcomes
<1>3. CASE Snapshot(p)
  BY <1>3 DEF Snapshot
<1>4. CASE Verified(p)
  BY <1>4 DEF Verified
<1>5. CASE CopyBegins(p)
  BY <1>5 DEF CopyBegins
<1>6. CASE CopyEnds(p)
  BY <1>6 DEF CopyEnds
<1>7. CASE RotateOld(p)
  BY <1>7 DEF RotateOld
<1>8. CASE Promote(p)
  <2>1. lock = p /\ tmp \in SUBSET Writes
    BY <1>8 DEF Promote
  <2> QED
    BY <1>8, <2>1, CoreExits DEF Promote, Outcomes
<1>9. CASE ScriptFails(p)
  BY <1>9, CoreExits DEF ScriptFails, Outcomes
<1>10. CASE OrphanEnds(p)
  BY <1>10 DEF OrphanEnds
<1> QED
  BY <1>1, <1>2, <1>3, <1>4, <1>5, <1>6, <1>7, <1>8, <1>9, <1>10
  DEF ScriptStep

LEMMA CoreStepEnd ==
  ASSUME CoreInv, ApiExits \/ Exit \/ Crash
  PROVE  CoreInv'
<1> USE NoneAssumption, FinalAssumption
    DEF CoreInv, TypeOK, debounce, disk, NoPartialDumpVisible
<1>1. CASE ApiExits
  <2> USE DEF Holding, Steps
  <2>1. PICK K \in SUBSET {p \in Slots : pc[p] \notin {"off", "orphan"}} :
         /\ pc' = [p \in Scripts |->
                     IF p = Final THEN "start"
                     ELSE IF p \in K THEN Killed(pc[p]) ELSE pc[p]]
         /\ lock' = IF \E p \in K : lock = p /\ Killed(pc[p]) = "off"
                    THEN None ELSE lock
         /\ snap' = [p \in Scripts |-> IF p \in K THEN {} ELSE snap[p]]
    BY <1>1 DEF ApiExits
  <2>2. \A q \in Scripts : pc'[q] \in Holding =>
          /\ pc[q] \in Holding
          /\ q \in K => pc'[q] = "orphan" /\ Killed(pc[q]) # "off"
          /\ q \notin K => pc'[q] = pc[q] /\ snap'[q] = snap[q]
    BY <2>1 DEF Killed
  <2>3. \A q \in Scripts : pc'[q] \in Holding => lock' = q
    BY <2>1, <2>2
  <2>4. \A q \in Scripts : pc'[q] \in {"copied", "rotated"} =>
          pc'[q] = pc[q] /\ snap'[q] = snap[q]
    BY <2>2
  <2>5. TypeOK'
    <3>1. pc' \in [Scripts -> Steps]
      BY <2>1 DEF Killed
    <3>2. lock' \in Scripts \union {None}
      BY <2>1
    <3>3. snap' \in [Scripts -> SUBSET Writes]
      BY <2>1
    <3> QED
      BY <1>1, <3>1, <3>2, <3>3, WindowAssumption DEF ApiExits, Phases
  <2> QED
    BY <1>1, <2>3, <2>4, <2>5 DEF ApiExits
<1>2. CASE ContainerGone
  <2>1. db' \in SUBSET Writes
    BY <1>2 DEF ContainerGone
  <2> QED
    BY <1>2, <2>1, WindowAssumption DEF ContainerGone, Phases, Steps, Holding
<1> QED
  BY <1>1, <1>2 DEF Exit, Crash

LEMMA CoreStep == CoreInv /\ [Next]_vars => CoreInv'
<1> SUFFICES ASSUME CoreInv, [Next]_vars PROVE CoreInv'
  OBVIOUS
<1>1. CASE UNCHANGED vars
  BY <1>1 DEF vars, debounce, scripts, disk, CoreInv, TypeOK,
              NoPartialDumpVisible
<1>2. CASE Next
  BY <1>2, CoreStepApi, CoreStepScript, CoreStepEnd DEF Next
<1> QED
  BY <1>1, <1>2

LEMMA CoreAlways == Spec => []CoreInv
  BY CoreInit, CoreStep, PTL DEF Spec

\* Every variable keeps its type, whatever fails.
THEOREM TypeCorrect == Spec => []TypeOK
<1>1. CoreInv => TypeOK
  BY DEF CoreInv
<1> QED
  BY <1>1, CoreAlways, PTL

\* flock serialises the dumps of the API, of cleanup() and the children of
\* killed scripts: at no instant do two of them work.
THEOREM DumpsExclusive == Spec => []OneDumpAtATime
<1>1. CoreInv => OneDumpAtATime
  BY DEF CoreInv, OneDumpAtATime
<1> QED
  BY <1>1, CoreAlways, PTL

\* No crash leaves a half-copied dump under a name a restore looks at.
THEOREM VisibleDumpsComplete == Spec => []NoPartialDumpVisible
<1>1. CoreInv => NoPartialDumpVisible
  BY DEF CoreInv
<1> QED
  BY <1>1, CoreAlways, PTL

-----------------------------------------------------------------------------
(* Once there is a dump there is always one.                               *)

LEMMA DumpKept == CoreInv /\ HasDump /\ [Next]_vars => HasDump'
<1> SUFFICES ASSUME CoreInv, HasDump, [Next]_vars PROVE HasDump'
  OBVIOUS
<1> USE DEF HasDump, disk
<1>1. CASE UNCHANGED disk
  BY <1>1
<1>2. ASSUME NEW p \in Scripts, ScriptStep(p) PROVE HasDump'
  <2>1. CASE RotateOld(p)
    BY <2>1 DEF RotateOld
  <2>2. CASE Promote(p)
    <3>1. tmp = snap[p] /\ snap[p] \in SUBSET Writes
      BY <2>2 DEF Promote, CoreInv, TypeOK
    <3>2. file' # None
      BY <2>2, <3>1, NoneAssumption DEF Promote
    <3> QED
      BY <3>2
  <2>3. CASE CopyBegins(p) \/ CopyEnds(p)
    BY <2>3 DEF CopyBegins, CopyEnds
  <2> QED
    BY <1>2, <2>1, <2>2, <2>3
    DEF ScriptStep, TakeLock, Skip, Snapshot, Verified, ScriptFails, OrphanEnds
<1>3. ASSUME NEW w \in Writes, Commit(w) \/ CommitUnscheduled(w) \/ Respond(w)
      PROVE  UNCHANGED disk
  BY <1>3 DEF Commit, CommitUnscheduled, Respond
<1>4. CASE \/ StartContainer \/ RestoreLatest \/ LatestUnusable
           \/ RestorePrevious \/ StartWithoutRestore \/ RespondIdle \/ Tick
           \/ Elapse \/ SigTerm \/ ApiExits \/ StopPostgres \/ Exit \/ Crash
  <2>1. UNCHANGED disk
    BY <1>4 DEF StartContainer, RestoreLatest, LatestUnusable,
      RestorePrevious, StartWithoutRestore, RespondIdle, Tick, Elapse,
      SigTerm, ApiExits, StopPostgres, Exit, Crash, ContainerGone
  <2> QED
    BY <1>1, <2>1
<1> QED
  BY <1>1, <1>2, <1>3, <1>4 DEF Next, vars

\* Whatever fails and wherever the container dies, a restore finds a complete
\* dump from the moment the first one was promoted.
THEOREM DumpSurvives == Spec => DumpNeverVanishes
<1>1. CoreInv /\ [Next]_vars => [HasDump => HasDump']_vars
  BY DumpKept
<1> QED
  BY <1>1, CoreAlways, PTL DEF Spec, DumpNeverVanishes

-----------------------------------------------------------------------------
(* The final dump.                                                         *)

LEMMA FinalInit == Init => FinalInv
  BY DEF Init, FinalInv, Scripts

LEMMA FinalStep == CoreInv /\ FinalInv /\ [Next]_vars => FinalInv'
<1> SUFFICES ASSUME CoreInv, FinalInv, [Next]_vars PROVE FinalInv'
  OBVIOUS
<1> USE NoneAssumption, FinalAssumption
    DEF FinalInv, Snapped, Restorable, debounce, scripts, disk
<1>1. CASE UNCHANGED vars
  BY <1>1 DEF vars
<1>2. ASSUME NEW w \in Writes, Commit(w) \/ CommitUnscheduled(w)
      PROVE  FinalInv'
  BY <1>2 DEF Commit, CommitUnscheduled, ApiUp
<1>3. ASSUME Schedule, UNCHANGED <<phase, db, disk, finalDump>>
      PROVE  FinalInv'
  BY <1>3 DEF Schedule, Scripts, CoreInv, TypeOK
<1>4. ASSUME NEW w \in Writes, Respond(w) PROVE FinalInv'
  BY <1>3, <1>4 DEF Respond
<1>5. CASE RespondIdle
  BY <1>3, <1>5 DEF RespondIdle
<1>6. CASE \/ StartContainer \/ RestoreLatest \/ LatestUnusable
           \/ RestorePrevious \/ StartWithoutRestore
  BY <1>6 DEF StartContainer, RestoreLatest, LatestUnusable,
      RestorePrevious, StartWithoutRestore
<1>7. CASE Tick
  BY <1>7 DEF Tick
<1>8. CASE Elapse
  BY <1>8 DEF Elapse, CoreInv, TypeOK, Scripts, ApiUp
<1>9. CASE SigTerm \/ StopPostgres
  BY <1>9 DEF SigTerm, StopPostgres
<1>10. CASE ApiExits
  <2>1. pc'[Final] = "start" /\ phase' = "final_dump"
    BY <1>10 DEF ApiExits, Scripts
  <2> QED
    BY <2>1
<1>11. CASE ContainerGone
  BY <1>11 DEF ContainerGone, Scripts
<1>12. ASSUME NEW p \in Scripts, ScriptStep(p) PROVE FinalInv'
  <2> USE DEF CoreInv, TypeOK
  <2> Final \in Scripts
    BY DEF Scripts
  <2>1. CASE TakeLock(p)
    BY <2>1 DEF TakeLock
  <2>2. ASSUME NEW o \in Outcomes, ScriptExits(p, o), o # "promoted",
               UNCHANGED <<db, disk>>
        PROVE  FinalInv'
    BY <2>2 DEF ScriptExits
  <2>3. CASE Skip(p) \/ ScriptFails(p)
    BY <2>2, <2>3 DEF Skip, ScriptFails, Outcomes
  <2>4. CASE Snapshot(p)
    BY <2>4 DEF Snapshot
  <2>5. CASE Verified(p)
    BY <2>5 DEF Verified
  <2>6. CASE CopyBegins(p)
    BY <2>6 DEF CopyBegins
  <2>7. CASE CopyEnds(p)
    BY <2>7 DEF CopyEnds
  <2>8. CASE RotateOld(p)
    BY <2>8 DEF RotateOld
  <2>9. CASE Promote(p)
    <3>1. file' = snap[p] /\ file' # None
      BY <2>9 DEF Promote
    <3>2. \A q \in Scripts \ {p} : pc[q] \notin Snapped
      BY <2>9 DEF Promote, Holding, Steps
    <3>3. /\ pc' = [pc EXCEPT ![p] = "off"]
          /\ UNCHANGED db
      BY <2>9 DEF Promote, ScriptExits
    <3>4. \A q \in Scripts : pc'[q] \notin Snapped
      BY <3>2, <3>3
    <3>5. CASE p = Final
      BY <2>9, <3>1, <3>3, <3>4, <3>5 DEF Promote, ScriptExits
    <3>6. CASE p # Final
      BY <2>9, <3>1, <3>3, <3>4, <3>6 DEF Promote, ScriptExits
    <3> QED
      BY <3>5, <3>6
  <2>10. CASE OrphanEnds(p)
    BY <2>10 DEF OrphanEnds
  <2> QED
    BY <1>12, <2>1, <2>3, <2>4, <2>5, <2>6, <2>7, <2>8, <2>9, <2>10
    DEF ScriptStep
<1> QED
  BY <1>1, <1>2, <1>4, <1>5, <1>6, <1>7, <1>8, <1>9, <1>10, <1>11, <1>12
  DEF Next, Exit, Crash

\* A shutdown whose final dump was promoted loses nothing, even when other
\* dumps preceded, overlapped or followed it.
THEOREM FinalDumpComplete == Spec => []FinalDumpCapturesAll
<1>1. FinalInv => FinalDumpCapturesAll
  BY DEF FinalInv, FinalDumpCapturesAll
<1> QED
  BY <1>1, CoreAlways, FinalInit, FinalStep, PTL DEF Spec

-----------------------------------------------------------------------------
(* Dumps only grow, when a complete dump always restores.                  *)

LEMMA OrderInit == Init => OrderInv
  BY DEF Init, OrderInv, DumpsOrdered, NoDumpedWriteLost, Restorable,
         Serving, Scripts, Snapped

\* Steps of the requests and of cleanup() that move no file and no snapshot,
\* start or stop scripts and let the database grow.
LEMMA OrderQuiet ==
  ASSUME OrderInv, CoreInv, UNCHANGED disk,
         phase \in Serving, phase' \in Serving, db \subseteq db',
         \A p \in Scripts : pc'[p] \in Snapped =>
             pc[p] \in Snapped /\ snap'[p] = snap[p]
  PROVE  OrderInv'
  BY DEF OrderInv, DumpsOrdered, NoDumpedWriteLost, Restorable, disk, Serving

\* Steps of the boot: no script exists yet.
LEMMA OrderBoot ==
  ASSUME "restore_fails" \notin Faults, OrderInv, CoreInv,
         \/ StartContainer \/ RestoreLatest \/ LatestUnusable
         \/ RestorePrevious \/ StartWithoutRestore
  PROVE  OrderInv'
<1> USE DEF OrderInv, DumpsOrdered, NoDumpedWriteLost, Restorable, scripts,
            disk, Serving, Snapped
<1>1. CASE StartContainer
  BY <1>1 DEF StartContainer
<1>2. CASE RestoreLatest
  BY <1>2 DEF RestoreLatest
<1>3. CASE LatestUnusable
  BY <1>3 DEF LatestUnusable
<1>4. CASE RestorePrevious
  BY <1>4 DEF RestorePrevious
<1>5. CASE StartWithoutRestore
  BY <1>5 DEF StartWithoutRestore
<1> QED
  BY <1>1, <1>2, <1>3, <1>4, <1>5

LEMMA OrderScript ==
  ASSUME OrderInv, CoreInv, NEW p \in Scripts, ScriptStep(p)
  PROVE  OrderInv'
<1>1. phase \in Serving /\ phase' \in Serving
  BY DEF OrderInv, ScriptStep, TakeLock, Skip, Snapshot, Verified, CopyBegins,
         CopyEnds, RotateOld, Promote, ScriptFails, OrphanEnds, ScriptExits,
         Serving, Holding
<1>2. UNCHANGED db
  BY DEF ScriptStep, TakeLock, Skip, Snapshot, Verified, CopyBegins,
         CopyEnds, RotateOld, Promote, ScriptFails, OrphanEnds
<1> USE <1>1, <1>2 DEF CoreInv, TypeOK, Snapped, disk
<1>3. CASE TakeLock(p) \/ Verified(p) \/ OrphanEnds(p)
  BY <1>3, OrderQuiet DEF TakeLock, Verified, OrphanEnds
<1>4. CASE Skip(p) \/ ScriptFails(p)
  BY <1>4, OrderQuiet DEF Skip, ScriptFails, ScriptExits
<1>5. CASE Snapshot(p)
  BY <1>5 DEF Snapshot, OrderInv, DumpsOrdered, NoDumpedWriteLost, Restorable
<1>6. CASE CopyBegins(p) \/ CopyEnds(p)
  BY <1>6 DEF CopyBegins, CopyEnds, OrderInv, DumpsOrdered,
      NoDumpedWriteLost, Restorable
<1>7. CASE RotateOld(p)
  <2>1. Restorable' = Restorable
    BY <1>7 DEF RotateOld, Restorable
  <2>2. file' = None
    BY <1>7, NoneAssumption DEF RotateOld
  <2> QED
    BY <1>7, <2>1, <2>2 DEF RotateOld, OrderInv, DumpsOrdered,
       NoDumpedWriteLost
<1>8. CASE Promote(p)
  <2>1. /\ file' = snap[p] /\ file = None
        /\ snap[p] \subseteq db
        /\ prev # None => prev \subseteq snap[p]
        /\ UNCHANGED prev
    BY <1>8 DEF Promote, OrderInv, Restorable
  <2>2. \A q \in Scripts : pc'[q] \notin Snapped
    BY <1>8 DEF Promote, ScriptExits, Holding, Steps
  <2>3. file' # None
    BY <2>1, NoneAssumption
  <2>4. Restorable' = snap[p]
    BY <2>1, <2>3 DEF Restorable
  <2>5. \A q \in Scripts : pc'[q] # "off" => phase' \in Serving
    BY <1>1
  <2>6. phase' # "boot_prev"
    BY <1>1 DEF Serving
  <2> QED
    BY <2>1, <2>2, <2>4, <2>5, <2>6 DEF OrderInv, DumpsOrdered,
       NoDumpedWriteLost
<1> QED
  BY <1>3, <1>4, <1>5, <1>6, <1>7, <1>8 DEF ScriptStep

LEMMA OrderStep ==
  ASSUME "restore_fails" \notin Faults
  PROVE  CoreInv /\ OrderInv /\ [Next]_vars => OrderInv'
<1> SUFFICES ASSUME CoreInv, OrderInv, [Next]_vars PROVE OrderInv'
  OBVIOUS
<1> USE DEF debounce, scripts, disk
<1>1. CASE UNCHANGED vars
  BY <1>1 DEF vars, OrderInv, DumpsOrdered, NoDumpedWriteLost, Restorable
<1>2. ASSUME NEW w \in Writes, Commit(w) \/ CommitUnscheduled(w)
      PROVE  OrderInv'
  BY <1>2, OrderQuiet DEF Commit, CommitUnscheduled, ApiUp, Serving
<1>3. ASSUME Schedule, UNCHANGED <<phase, db, disk>>, phase \in ApiUp
      PROVE  OrderInv'
  <2>1. \A p \in Scripts : pc'[p] \in Snapped => pc[p] \in Snapped
    BY <1>3 DEF Schedule, Snapped
  <2> QED
    BY <1>3, <2>1, OrderQuiet DEF Schedule, ApiUp, Serving
<1>4. ASSUME NEW w \in Writes, Respond(w) PROVE OrderInv'
  BY <1>3, <1>4 DEF Respond
<1>5. CASE RespondIdle
  BY <1>3, <1>5 DEF RespondIdle, ApiUp
<1>6. CASE Tick \/ SigTerm \/ StopPostgres
  BY <1>6, OrderQuiet DEF Tick, SigTerm, StopPostgres, ApiUp, Serving
<1>7. CASE Elapse
  <2>1. \A p \in Scripts : pc'[p] \in Snapped => pc[p] \in Snapped
    BY <1>7 DEF Elapse, Snapped, CoreInv, TypeOK
  <2> QED
    BY <1>7, <2>1, OrderQuiet DEF Elapse, ApiUp, Serving
<1>8. CASE ApiExits
  <2>1. \A p \in Scripts : pc'[p] \in Snapped =>
          pc[p] \in Snapped /\ snap'[p] = snap[p]
    BY <1>8 DEF ApiExits, Snapped, Killed
  <2> QED
    BY <1>8, <2>1, OrderQuiet DEF ApiExits, Serving
<1>9. CASE ContainerGone
  BY <1>9 DEF ContainerGone, OrderInv, DumpsOrdered, NoDumpedWriteLost,
      Restorable, Serving, Snapped
<1> QED
  BY <1>1, <1>2, <1>4, <1>5, <1>6, <1>7, <1>8, <1>9, OrderBoot, OrderScript
  DEF Next, Exit, Crash

LEMMA OrderAlways ==
  ASSUME "restore_fails" \notin Faults
  PROVE  Spec => []OrderInv
  BY OrderInit, OrderStep, CoreAlways, PTL DEF Spec

\* No write that once reached a dump is missing from a running database.
THEOREM DumpedWritesDurable ==
  ASSUME "restore_fails" \notin Faults
  PROVE  Spec => []NoDumpedWriteLost
<1>1. OrderInv => NoDumpedWriteLost
  BY DEF OrderInv
<1> QED
  BY <1>1, OrderAlways, PTL

\* The fallback dump never holds a write the latest dump lacks.
THEOREM PreviousDumpOlder ==
  ASSUME "restore_fails" \notin Faults
  PROVE  Spec => []DumpsOrdered
<1>1. OrderInv => DumpsOrdered
  BY DEF OrderInv
<1> QED
  BY <1>1, OrderAlways, PTL

-----------------------------------------------------------------------------
(* The machinery implements DurableStore.                                  *)

LEMMA StoreInit == Init => Store!Init
  BY DEF Init, Store!Init, Restorable, Serving

\* Every step maps to a step of the abstract store or to a stutter.
LEMMA StoreStep ==
  ASSUME "restore_fails" \notin Faults
  PROVE  CoreInv /\ OrderInv /\ [Next]_vars => [Store!Next]_(Store!storeVars)
<1> SUFFICES ASSUME CoreInv, OrderInv, [Next]_vars
             PROVE  [Store!Next]_(Store!storeVars)
  OBVIOUS
<1> DEFINE Stutter == /\ UNCHANGED <<db, Restorable>>
                      /\ (phase' \in Serving) = (phase \in Serving)
<1> USE DEF debounce, scripts, disk
<1>0. Stutter => UNCHANGED Store!storeVars
  BY DEF Store!storeVars
<1>1. CASE UNCHANGED vars
  BY <1>1, <1>0 DEF vars, Restorable
<1>2. ASSUME NEW w \in Writes, Commit(w) \/ CommitUnscheduled(w)
      PROVE  Store!Next
  <2>1. Store!Accept(w)
    BY <1>2 DEF Commit, CommitUnscheduled, Store!Accept, Restorable, ApiUp,
                Serving
  <2> QED
    BY <2>1 DEF Store!Next
<1>3. ASSUME NEW w \in Writes, Respond(w) PROVE Stutter
  BY <1>3 DEF Respond, Restorable
<1>4. CASE RespondIdle \/ Tick \/ Elapse
  <2>1. Stutter
    BY <1>4 DEF RespondIdle, Tick, Elapse, Restorable
  <2> QED
    BY <1>0, <2>1
<1>5. CASE StartContainer \/ LatestUnusable \/ SigTerm \/ ApiExits
           \/ StopPostgres
  <2>1. Stutter
    BY <1>5 DEF StartContainer, LatestUnusable, SigTerm, ApiExits,
                StopPostgres, Restorable, Serving
  <2> QED
    BY <1>0, <2>1
<1>6. CASE RestoreLatest \/ RestorePrevious \/ StartWithoutRestore
  <2>1. Store!Recover
    BY <1>6 DEF RestoreLatest, RestorePrevious, StartWithoutRestore,
       Store!Recover, Restorable, Serving, OrderInv, CoreInv, TypeOK
  <2> QED
    BY <2>1 DEF Store!Next
<1>7. CASE ContainerGone
  <2>1. Store!Stop
    BY <1>7 DEF ContainerGone, Store!Stop, Restorable, Serving
  <2> QED
    BY <2>1 DEF Store!Next
<1>8. ASSUME NEW p \in Scripts, ScriptStep(p)
      PROVE  [Store!Next]_(Store!storeVars)
  <2>1. phase \in Serving /\ phase' \in Serving
    BY <1>8 DEF OrderInv, ScriptStep, TakeLock, Skip, Snapshot, Verified,
       CopyBegins, CopyEnds, RotateOld, Promote, ScriptFails, OrphanEnds,
       ScriptExits, Serving, Holding
  <2>2. UNCHANGED db
    BY <1>8 DEF ScriptStep, TakeLock, Skip, Snapshot, Verified, CopyBegins,
       CopyEnds, RotateOld, Promote, ScriptFails, OrphanEnds
  <2>3. CASE Promote(p)
    <3>1. /\ Restorable' = snap[p]
          /\ Restorable \subseteq snap[p]
          /\ snap[p] \subseteq db
      BY <2>3, NoneAssumption DEF Promote, CoreInv, TypeOK, OrderInv,
         Restorable, Snapped
    <3>2. Store!Checkpoint
      BY <2>1, <2>2, <3>1 DEF Store!Checkpoint
    <3> QED
      BY <3>2 DEF Store!Next
  <2>4. CASE ~Promote(p)
    <3>1. UNCHANGED Restorable
      BY <1>8, <2>4 DEF ScriptStep, TakeLock, Skip, Snapshot, Verified,
         CopyBegins, CopyEnds, RotateOld, ScriptFails, OrphanEnds, Restorable
    <3> QED
      BY <1>0, <2>1, <2>2, <3>1
  <2> QED
    BY <2>3, <2>4
<1> QED
  BY <1>0, <1>1, <1>2, <1>3, <1>4, <1>5, <1>6, <1>7, <1>8
  DEF Next, Exit, Crash

\* Debouncer, script and entrypoint together are a durable store: checkpoints
\* never shrink, and every container start serves the last one.
THEOREM PersistenceImplementsStore ==
  ASSUME "restore_fails" \notin Faults
  PROVE  Spec => ImplementsStore
  BY StoreInit, StoreStep, CoreAlways, OrderAlways, PTL
  DEF Spec, ImplementsStore, Store!Spec

=============================================================================
