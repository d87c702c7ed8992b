--------------------------- MODULE DumpPersistence ---------------------------
(***************************************************************************)
(* The persistence of the embedded PostgreSQL of the API container:        *)
(*                                                                         *)
(*   - dump_debouncer.py: every successful mutating response cancels the   *)
(*     pending dump task and starts a fresh quiet period;                  *)
(*   - pg-dump-rotate.sh: flock, pg_dump, verify, copy, two renames;       *)
(*   - docker-entrypoint.sh: restore chain on boot, cleanup() on SIGTERM.  *)
(*                                                                         *)
(* The database and a dump are the sets of committed writes they contain.  *)
(* A deletion is a write like any other.                                   *)
(***************************************************************************)
EXTENDS Naturals, FiniteSets

CONSTANTS
    Writes,     \* identities of committed writes
    Slots,      \* bound: dump scripts the API may have running at once
    Final,      \* the dump script cleanup() runs
    None,       \* no such file, or nobody holds the lock
    Torn,       \* a file copied in part
    Window,     \* bound: ticks of quiet time in the debounce window
    Faults      \* which of AllFaults the environment may produce

AllFaults == {"dump_fails",    \* pg_dump, verification, cp or mv fails
              "dump_slow",     \* a dump outlasts the debounce window
              "restore_fails", \* pg_restore rejects a complete dump
              "pgdata_kept",   \* PG_DATA survives the container
              "unscheduled",   \* commits with no successful response after
              "chatter"}       \* mutating requests that commit nothing new

ASSUME FinalAssumption == Final \notin Slots
ASSUME NoneAssumption == /\ None \notin Slots \union {Final}
                         /\ \A S \in SUBSET Writes : None # S
                         /\ None # Torn
ASSUME TornAssumption == \A S \in SUBSET Writes : Torn # S
ASSUME WindowAssumption == Window \in Nat
ASSUME FaultsAssumption == Faults \subseteq AllFaults

Scripts == Slots \union {Final}

VARIABLES
    phase,      \* what the container is doing
    db,         \* committed content of the embedded database
    inflight,   \* committed writes whose response is not yet out
    pending,    \* the debounce task: "none" or "asleep"
    quiet,      \* ticks it has slept
    pc,         \* where each dump script is
    snap,       \* what its pg_dump saw
    lock,       \* holder of the flock on $DUMP_FILE.lock
    file,       \* $DUMP_FILE
    prev,       \* $DUMP_PREV
    tmp,        \* $DUMP_TMP
    finalDump   \* how the final dump ended (its exit status is ignored)

debounce == <<pending, quiet>>
scripts  == <<pc, snap, lock>>
disk     == <<file, prev, tmp>>
vars == <<phase, db, inflight, debounce, scripts, disk, finalDump>>

Phases == {"down", "boot_latest", "boot_prev", "running",
           "stopping", "final_dump", "pg_stop", "exiting"}
Serving == {"running", "stopping", "final_dump", "pg_stop", "exiting"}
\* Mutant: cleanup() does not wait for the API before the final dump.
ApiUpUnawaited == {"running", "stopping", "final_dump"}

ApiUp == {"running", "stopping"}
PgUp == Serving \ {"exiting"}

Steps == {"off", "start", "locked", "dumping", "staged",
          "copying", "copied", "rotated", "orphan"}
Outcomes == {"none", "skipped", "failed", "promoted"}

\* Steps at which a process holds file descriptor 9, hence the flock.
Holding == Steps \ {"off", "start"}

\* The dump the next boot would restore, {} when there is none.
Restorable == IF file # None THEN file
              ELSE IF prev # None THEN prev ELSE {}

HasDump == file # None \/ prev # None

Init ==
    /\ phase = "down"
    /\ db = {}
    /\ inflight = {}
    /\ pending = "none"
    /\ quiet = 0
    /\ pc = [p \in Scripts |-> "off"]
    /\ snap = [p \in Scripts |-> {}]
    /\ lock = None
    /\ file = None
    /\ prev = None
    /\ tmp = None
    /\ finalDump = "none"

-----------------------------------------------------------------------------
(* Boot: docker-entrypoint.sh up to the start of uvicorn.                   *)

StartContainer ==
    /\ phase = "down"
    /\ phase' = "boot_latest"
    /\ finalDump' = "none"
    /\ UNCHANGED <<db, inflight, debounce, scripts, disk>>

\* pg_restore --clean --single-transaction replaces the whole content.
RestoreLatest ==
    /\ phase = "boot_latest"
    /\ file # None
    /\ db' = file
    /\ phase' = "running"
    /\ UNCHANGED <<inflight, debounce, scripts, disk, finalDump>>

\* Mutant: .prev is tried first.
LatestPassedOver ==
    /\ phase = "boot_latest"
    /\ phase' = "boot_prev"
    /\ UNCHANGED <<db, inflight, debounce, scripts, disk, finalDump>>

LatestUnusable ==
    /\ phase = "boot_latest"
    /\ file = None \/ "restore_fails" \in Faults
    /\ phase' = "boot_prev"
    /\ UNCHANGED <<db, inflight, debounce, scripts, disk, finalDump>>

RestorePrevious ==
    /\ phase = "boot_prev"
    /\ prev # None
    /\ db' = prev
    /\ phase' = "running"
    /\ UNCHANGED <<inflight, debounce, scripts, disk, finalDump>>

\* No dump restored: start on whatever PG_DATA holds.
StartWithoutRestore ==
    /\ phase = "boot_prev"
    /\ prev = None \/ "restore_fails" \in Faults
    /\ phase' = "running"
    /\ UNCHANGED <<db, inflight, debounce, scripts, disk, finalDump>>

-----------------------------------------------------------------------------
(* Requests and the debouncer.                                             *)

\* A handler commits; its response has not reached the middleware yet.
Commit(w) ==
    /\ phase \in ApiUp
    /\ w \notin db
    /\ db' = db \union {w}
    /\ inflight' = inflight \union {w}
    /\ UNCHANGED <<phase, debounce, scripts, disk, finalDump>>

\* A commit no successful response follows: a background assessment job, or
\* a crawl that fails with 500 after its repository committed.
CommitUnscheduled(w) ==
    /\ "unscheduled" \in Faults
    /\ phase \in ApiUp
    /\ w \notin db
    /\ db' = db \union {w}
    /\ UNCHANGED <<phase, inflight, debounce, scripts, disk, finalDump>>

\* Mutant: a write that finds a dump under way leaves it to that dump.
ScheduleUnlessDumping ==
    /\ pending' = IF \A p \in Slots : pc[p] = "off" THEN "asleep" ELSE "none"
    /\ quiet' = 0
    /\ UNCHANGED <<pc, snap, lock>>

\* DumpDebouncer.schedule: cancel the pending task, start another.  The task
\* that is past its sleep is cancelled too, which kills its script only while
\* the script is being launched; a script under way runs on, unattended.
Schedule ==
    /\ pending' = "asleep"
    /\ quiet' = 0
    /\ \E K \in SUBSET {p \in Slots : pc[p] = "start"} :
         pc' = [p \in Scripts |-> IF p \in K THEN "off" ELSE pc[p]]
    /\ UNCHANGED <<snap, lock>>

\* DumpDebouncerMiddleware.dispatch after a 2xx/3xx to a mutating method.
Respond(w) ==
    /\ phase \in ApiUp
    /\ w \in inflight
    /\ inflight' = inflight \ {w}
    /\ Schedule
    /\ UNCHANGED <<phase, db, disk, finalDump>>

\* A successful mutating request that adds nothing (a login, a repeated PUT).
RespondIdle ==
    /\ "chatter" \in Faults
    /\ phase = "running"
    /\ Schedule
    /\ UNCHANGED <<phase, db, inflight, disk, finalDump>>

\* Mutant: nothing ends the sleep.
TickOn ==
    /\ phase \in ApiUp
    /\ pending = "asleep"
    /\ quiet' = quiet + 1
    /\ UNCHANGED <<phase, db, inflight, pending, scripts, disk, finalDump>>

Tick ==
    /\ phase \in ApiUp
    /\ pending = "asleep"
    /\ quiet < Window
    /\ quiet' = quiet + 1
    /\ UNCHANGED <<phase, db, inflight, pending, scripts, disk, finalDump>>

\* The sleep ends undisturbed and the task launches DB_DUMP_SCRIPT.
Elapse ==
    /\ phase \in ApiUp
    /\ pending = "asleep"
    /\ quiet = Window
    /\ "dump_slow" \in Faults \/ \A p \in Slots : pc[p] = "off"
    /\ \E p \in Slots : /\ pc[p] = "off"
                        /\ pc' = [pc EXCEPT ![p] = "start"]
    /\ pending' = "none"
    /\ quiet' = 0
    /\ UNCHANGED <<phase, db, inflight, snap, lock, disk, finalDump>>

-----------------------------------------------------------------------------
(* pg-dump-rotate.sh                                                       *)

\* Mutant: under set -e, cleanup() gets past its dump only when it succeeds.
ScriptExitsStrict(p, outcome) ==
    /\ pc' = [pc EXCEPT ![p] = "off"]
    /\ snap' = [snap EXCEPT ![p] = {}]
    /\ lock' = IF lock = p THEN None ELSE lock
    /\ \/ /\ p = Final
          /\ finalDump' = outcome
          /\ phase' = IF outcome = "promoted" THEN "pg_stop" ELSE phase
       \/ /\ p # Final
          /\ UNCHANGED <<finalDump, phase>>

\* The script exits: fd 9 is closed.  cleanup() waits for its own script and
\* goes on whatever the exit status.
ScriptExits(p, outcome) ==
    /\ pc' = [pc EXCEPT ![p] = "off"]
    /\ snap' = [snap EXCEPT ![p] = {}]
    /\ lock' = IF lock = p THEN None ELSE lock
    /\ \/ /\ p = Final
          /\ finalDump' = outcome
          /\ phase' = "pg_stop"
       \/ /\ p # Final
          /\ UNCHANGED <<finalDump, phase>>

\* Mutant: no flock.
TakeNoLock(p) ==
    /\ pc[p] = "start"
    /\ lock' = p
    /\ pc' = [pc EXCEPT ![p] = "locked"]
    /\ UNCHANGED <<phase, db, inflight, debounce, snap, disk, finalDump>>

\* flock -n 9 succeeds.
TakeLock(p) ==
    /\ pc[p] = "start"
    /\ lock = None
    /\ lock' = p
    /\ pc' = [pc EXCEPT ![p] = "locked"]
    /\ UNCHANGED <<phase, db, inflight, debounce, snap, disk, finalDump>>

\* flock -n 9 fails: "Another dump is in progress, skipping", exit 0.
Skip(p) ==
    /\ pc[p] = "start"
    /\ lock # None
    /\ ScriptExits(p, "skipped")
    /\ UNCHANGED <<db, inflight, debounce, disk>>

\* pg_dump opens the one transaction whose snapshot it writes out.
Snapshot(p) ==
    /\ pc[p] = "locked"
    /\ phase \in PgUp
    /\ snap' = [snap EXCEPT ![p] = db]
    /\ pc' = [pc EXCEPT ![p] = "dumping"]
    /\ UNCHANGED <<phase, db, inflight, debounce, lock, disk, finalDump>>

\* pg_dump ends, pg_restore --list accepts its output.
Verified(p) ==
    /\ pc[p] = "dumping"
    /\ phase \in PgUp
    /\ pc' = [pc EXCEPT ![p] = "staged"]
    /\ UNCHANGED <<phase, db, inflight, debounce, snap, lock, disk, finalDump>>

\* Mutant: the copy goes straight to DUMP_FILE.
CopyInPlace(p) ==
    /\ pc[p] = "staged"
    /\ file' = Torn
    /\ pc' = [pc EXCEPT ![p] = "copying"]
    /\ UNCHANGED <<phase, db, inflight, debounce, snap, lock, tmp, prev,
                   finalDump>>

\* cp STAGING DUMP_TMP begins ...
CopyBegins(p) ==
    /\ pc[p] = "staged"
    /\ tmp' = Torn
    /\ pc' = [pc EXCEPT ![p] = "copying"]
    /\ UNCHANGED <<phase, db, inflight, debounce, snap, lock, file, prev,
                   finalDump>>

\* ... and is complete.
CopyEnds(p) ==
    /\ pc[p] = "copying"
    /\ tmp' = snap[p]
    /\ pc' = [pc EXCEPT ![p] = "copied"]
    /\ UNCHANGED <<phase, db, inflight, debounce, snap, lock, file, prev,
                   finalDump>>

\* Mutant: the old dump is removed instead of renamed.
RemoveOld(p) ==
    /\ pc[p] = "copied"
    /\ file' = None
    /\ pc' = [pc EXCEPT ![p] = "rotated"]
    /\ UNCHANGED <<phase, db, inflight, debounce, snap, lock, tmp, prev,
                   finalDump>>

\* if [ -f DUMP_FILE ]; then mv DUMP_FILE DUMP_PREV
RotateOld(p) ==
    /\ pc[p] = "copied"
    /\ \/ /\ file # None
          /\ prev' = file
          /\ file' = None
       \/ /\ file = None
          /\ UNCHANGED <<file, prev>>
    /\ pc' = [pc EXCEPT ![p] = "rotated"]
    /\ UNCHANGED <<phase, db, inflight, debounce, snap, lock, tmp, finalDump>>

\* mv DUMP_TMP DUMP_FILE, and the script ends.
Promote(p) ==
    /\ pc[p] = "rotated"
    /\ file' = tmp
    /\ tmp' = None
    /\ ScriptExits(p, "promoted")
    /\ UNCHANGED <<db, inflight, debounce, prev>>

\* Any failing command ends the script (set -e); nothing retries it.  With
\* PostgreSQL stopped under it, pg_dump has no other way to end.
ScriptFails(p) ==
    /\ \/ /\ "dump_fails" \in Faults
          /\ pc[p] \in Holding \ {"staged", "orphan"}
       \/ /\ phase \notin PgUp
          /\ pc[p] \in {"locked", "dumping"}
    /\ ScriptExits(p, "failed")
    /\ UNCHANGED <<db, inflight, debounce, disk>>

\* The pg_dump or cp that outlived its killed script ends and frees fd 9.
OrphanEnds(p) ==
    /\ pc[p] = "orphan"
    /\ pc' = [pc EXCEPT ![p] = "off"]
    /\ snap' = [snap EXCEPT ![p] = {}]
    /\ lock' = None
    /\ UNCHANGED <<phase, db, inflight, debounce, disk, finalDump>>

ScriptStep(p) ==
    \/ TakeLock(p)
    \/ Skip(p)
    \/ Snapshot(p)
    \/ Verified(p)
    \/ CopyBegins(p)
    \/ CopyEnds(p)
    \/ RotateOld(p)
    \/ Promote(p)
    \/ ScriptFails(p)
    \/ OrphanEnds(p)

-----------------------------------------------------------------------------
(* cleanup() and the end of the container.                                 *)

SigTerm ==
    /\ phase = "running"
    /\ phase' = "stopping"
    /\ UNCHANGED <<db, inflight, debounce, scripts, disk, finalDump>>

\* A dead script leaves a child that still holds fd 9 when one was running.
Killed(step) == IF step \in {"dumping", "copying"} THEN "orphan" ELSE "off"

\* wait $API_PID returns: requests are drained, the debounce task is gone,
\* and any of the API's scripts may have died with it.  cleanup() goes on to
\* the final dump.
ApiExits ==
    /\ phase = "stopping"
    /\ inflight = {}
    /\ \E K \in SUBSET {p \in Slots : pc[p] \notin {"off", "orphan"}} :
         /\ pc' = [p \in Scripts |->
                     IF p = Final THEN "start"
                     ELSE IF p \in K THEN Killed(pc[p]) ELSE pc[p]]
         /\ lock' = IF \E p \in K : lock = p /\ Killed(pc[p]) = "off"
                    THEN None ELSE lock
         /\ snap' = [p \in Scripts |-> IF p \in K THEN {} ELSE snap[p]]
    /\ pending' = "none"
    /\ quiet' = 0
    /\ phase' = "final_dump"
    /\ UNCHANGED <<db, inflight, disk, finalDump>>

\* pg_ctl stop -m fast -w: every open connection is cut.
StopPostgres ==
    /\ phase = "pg_stop"
    /\ phase' = "exiting"
    /\ UNCHANGED <<db, inflight, debounce, scripts, disk, finalDump>>

\* Mutant: PERSIST_DIR is on the container's own disk.
AllGone ==
    /\ phase' = "down"
    /\ db' = {}
    /\ inflight' = {}
    /\ pending' = "none"
    /\ quiet' = 0
    /\ pc' = [p \in Scripts |-> "off"]
    /\ snap' = [p \in Scripts |-> {}]
    /\ lock' = None
    /\ file' = None
    /\ prev' = None
    /\ UNCHANGED <<tmp, finalDump>>

\* The container is gone with all its processes; its own disk may stay.
ContainerGone ==
    /\ phase' = "down"
    /\ db' \in {{}} \union (IF "pgdata_kept" \in Faults THEN {db} ELSE {})
    /\ inflight' = {}
    /\ pending' = "none"
    /\ quiet' = 0
    /\ pc' = [p \in Scripts |-> "off"]
    /\ snap' = [p \in Scripts |-> {}]
    /\ lock' = None
    /\ UNCHANGED <<disk, finalDump>>

Exit ==
    /\ phase = "exiting"
    /\ ContainerGone

\* SIGKILL, a host failure, a failing boot step, or uvicorn ending by itself:
\* the trap covers signals only, so no final dump runs.
Crash ==
    /\ phase # "down"
    /\ ContainerGone

Next ==
    \/ StartContainer
    \/ RestoreLatest
    \/ LatestUnusable
    \/ RestorePrevious
    \/ StartWithoutRestore
    \/ \E w \in Writes : Commit(w) \/ CommitUnscheduled(w) \/ Respond(w)
    \/ RespondIdle
    \/ Tick
    \/ Elapse
    \/ \E p \in Scripts : ScriptStep(p)
    \/ SigTerm
    \/ ApiExits
    \/ StopPostgres
    \/ Exit
    \/ Crash

Spec == Init /\ [][Next]_vars

\* What runs by itself once it can: the event loop's timers, a request being
\* answered, the scripts, and cleanup().  Nothing obliges clients, operators
\* or failures to act.
Fairness ==
    /\ \A w \in Writes : WF_vars(Respond(w))
    /\ WF_vars(Tick)
    /\ WF_vars(Elapse)
    /\ \A p \in Scripts : WF_vars(ScriptStep(p))
    /\ WF_vars(ApiExits)
    /\ WF_vars(StopPostgres)
    /\ WF_vars(Exit)

FairSpec == Spec /\ Fairness

-----------------------------------------------------------------------------
(* Properties                                                              *)

Contents == {None, Torn} \union SUBSET Writes

\* Type correctness of the whole state.
TypeOK ==
    /\ phase \in Phases
    /\ db \in SUBSET Writes
    /\ inflight \in SUBSET Writes
    /\ pending \in {"none", "asleep"}
    /\ quiet \in 0..Window
    /\ pc \in [Scripts -> Steps]
    /\ snap \in [Scripts -> SUBSET Writes]
    /\ lock \in Scripts \union {None}
    /\ file \in Contents
    /\ prev \in Contents
    /\ tmp \in Contents
    /\ finalDump \in Outcomes

\* At most one process dumps, copies or renames at a time, the children of
\* killed scripts included: the "file lock prevents overlapping dumps".
OneDumpAtATime ==
    \A p, q \in Scripts : pc[p] \in Holding /\ pc[q] \in Holding => p = q

\* Neither name a restore looks at ever holds a partial copy: a crash in the
\* middle of cp touches only the .tmp file.
NoPartialDumpVisible == file # Torn /\ prev # Torn

\* Overlapping scripts, crashes between the two renames and restores from
\* .prev never leave .prev with a write the latest dump lacks.
DumpsOrdered ==
    file # None /\ prev # None => prev \subseteq file

\* A running database contains every write of the dump it would be restored
\* from: a write that once reached a dump is not lost by any later crash.
NoDumpedWriteLost == phase \in Serving => Restorable \subseteq db

\* When the final dump was promoted, the database's whole content is what the
\* next boot restores, whatever other scripts did around it.
FinalDumpCapturesAll ==
    /\ finalDump = "promoted"
    /\ phase \in {"pg_stop", "exiting"}
    => Restorable = db

\* Steps at which the script holds the snapshot it will promote.
Snapped == {"dumping", "staged", "copying", "copied", "rotated"}

\* Under every fault: whoever works holds the lock, what is about to be
\* promoted is that script's whole snapshot, and its target name is free.
CoreInv ==
    /\ TypeOK
    /\ \A p \in Scripts : pc[p] \in Holding => lock = p
    /\ \A p \in Scripts : pc[p] \in {"copied", "rotated"} => tmp = snap[p]
    /\ \A p \in Scripts : pc[p] = "rotated" => file = None
    /\ NoPartialDumpVisible

\* Under every fault: the final dump runs after the last commit, and a script
\* that gets the lock after it dumps the same content.
FinalInv ==
    /\ pc[Final] # "off" => phase = "final_dump"
    /\ phase = "final_dump" /\ pc[Final] \in Snapped => snap[Final] = db
    /\ phase \in {"pg_stop", "exiting"} /\ finalDump = "promoted" =>
         /\ Restorable = db
         /\ \A p \in Scripts : pc[p] \in Snapped => snap[p] = db

\* When restores succeed: dumps only grow, and each script's snapshot lies
\* between the dump it replaces and the database.
OrderInv ==
    /\ DumpsOrdered
    /\ NoDumpedWriteLost
    /\ phase = "boot_prev" => file = None
    /\ \A p \in Scripts : pc[p] # "off" => phase \in Serving
    /\ \A p \in Scripts :
         pc[p] \in Snapped => Restorable \subseteq snap[p] /\ snap[p] \subseteq db

\* Once some dump exists, every later instant has one: no step of the
\* rotation, and no crash inside it, leaves nothing to restore.
DumpNeverVanishes == [][HasDump => HasDump']_vars

\* The machinery implements the abstract store.
Store == INSTANCE DurableStore
         WITH live <- db, stored <- Restorable, serving <- phase \in Serving
ImplementsStore == Store!Spec

\* A shutdown that is not killed ends: no script, lock or request holds
\* cleanup() for ever.
ShutdownEnds == phase = "stopping" ~> phase = "down"

-----------------------------------------------------------------------------
(* What the sources say and the code does not do.                          *)

\* pg-dump-rotate.sh:20-21: "concurrent invocations exit immediately (the
\* in-flight dump covers them)".
InFlightDumpCovers ==
    [][\A p \in Slots :
         Skip(p) => pc[lock] = "locked" \/ db \subseteq snap[lock]]_vars

=============================================================================
