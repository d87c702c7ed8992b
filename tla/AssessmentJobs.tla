--------------------------- MODULE AssessmentJobs ---------------------------
(***************************************************************************)
(* The assessment of topics for one department:                            *)
(*                                                                         *)
(*   - routes/assessment.py: POST /assess inserts an assessment_jobs row   *)
(*     and starts _run_job, POST /assess/{topic_id} runs in the request;   *)
(*   - pipeline.py: assess_topic, called by both;                          *)
(*   - postgres_rag.py: which topics a job picks.                          *)
(*                                                                         *)
(* A worker is one run of either route.  Every database call is a          *)
(* transaction of its own, so jobs, single requests, new topics, topic     *)
(* deletions and configuration changes interleave between them.            *)
(***************************************************************************)
EXTENDS Naturals, FiniteSets

CONSTANTS
    Topics,      \* topics of the department's enabled sources
    Jobs,        \* bound: jobs posted
    Singles,     \* bound: single assessments requested
    Frameworks,  \* a framework with its prompt version
    Lenient,     \* those whose parse_output never raises (verdict)
    Models,      \* models the department's ai_config may name
    MaxLimit,    \* bound: largest limit of a request
    Faults       \* which of AllFaults may happen

AllFaults == {"crash",      \* the API process ends
              "db_fails",   \* a database call raises
              "db_down",    \* so does the one that would mark the job failed
              "deletes"}    \* topics are deleted

ASSUME WorkersAssumption == Jobs \intersect Singles = {}
ASSUME TopicsAssumption == IsFiniteSet(Topics)
ASSUME LenientAssumption == Lenient \subseteq Frameworks
ASSUME MaxLimitAssumption == MaxLimit \in Nat \ {0}
ASSUME AssessFaultsAssumption == Faults \subseteq AllFaults

Workers == Jobs \union Singles

VARIABLES
    topic,      \* what became of each topic: unseen, present, deleted
    cases,      \* business_cases rows of the department
    model,      \* the model in its ai_config
    row,        \* the assessment_jobs row of each job
    errors,     \* topics with an "error" entry in the row's results
    pc,         \* where each worker is
    task        \* a worker's local variables

vars == <<topic, cases, model, row, errors, pc, task>>

Present == {t \in Topics : topic[t] = "present"}

HasCase(t) == \E c \in cases : c.topic = t

NoRow == [state |-> "none", total |-> 0, completed |-> 0, failed |-> 0]

\* `todo' holds the current topic until assess_topic is done with it.
NoTask(m) == [framework |-> "none", model |-> m, picked |-> {}, todo |-> {},
              topic |-> "none", calls |-> 0, reply |-> "none",
              completed |-> 0, failed |-> 0, errors |-> {}]

Init ==
    /\ topic = [t \in Topics |-> "unseen"]
    /\ cases = {}
    /\ model \in Models
    /\ row = [j \in Jobs |-> NoRow]
    /\ errors = [j \in Jobs |-> {}]
    /\ pc = [w \in Workers |-> "none"]
    /\ task = [w \in Workers |-> NoTask("none")]

-----------------------------------------------------------------------------
(* POST /assess                                                            *)

\* The row is committed ...
PostJob(j, f, limit) ==
    /\ pc[j] = "none"
    /\ row' = [row EXCEPT ![j].state = "pending", ![j].total = limit]
    /\ task' = [task EXCEPT ![j].framework = f]
    /\ pc' = [pc EXCEPT ![j] = "posted"]
    /\ UNCHANGED <<topic, cases, model, errors>>

\* ... and then asyncio.create_task: nothing else remembers the job.
Launch(j) ==
    /\ pc[j] = "posted"
    /\ pc' = [pc EXCEPT ![j] = "queued"]
    /\ UNCHANGED <<topic, cases, model, row, errors, task>>

-----------------------------------------------------------------------------
(* _run_job                                                                *)

MarkRunning(j) ==
    /\ pc[j] = "queued"
    /\ row' = [row EXCEPT ![j].state = "running"]
    /\ pc' = [pc EXCEPT ![j] = "marked"]
    /\ UNCHANGED <<topic, cases, model, errors, task>>

\* _build_pipeline reads the department's ai_config once for the whole job.
BuildPipeline(j) ==
    /\ pc[j] = "marked"
    /\ task' = [task EXCEPT ![j].model = model]
    /\ pc' = [pc EXCEPT ![j] = "built"]
    /\ UNCHANGED <<topic, cases, model, row, errors>>

\* get_unassessed_topic_ids: up to `total' topics without any case of this
\* department, whatever framework or model wrote it.
Select(j) ==
    /\ pc[j] = "built"
    /\ LET unassessed == {t \in Present : ~HasCase(t)}
       IN \E T \in SUBSET unassessed :
            /\ Cardinality(T) <= row[j].total
            /\ Cardinality(T) < row[j].total => T = unassessed
            /\ task' = [task EXCEPT ![j].picked = T, ![j].todo = T]
    /\ pc' = [pc EXCEPT ![j] = "picked"]
    /\ UNCHANGED <<topic, cases, model, row, errors>>

\* Mutant: total_topics stays the requested limit.
TotalKept(j) ==
    /\ pc[j] = "picked"
    /\ pc' = [pc EXCEPT ![j] = "loop"]
    /\ UNCHANGED <<topic, cases, model, row, errors, task>>

SetTotal(j) ==
    /\ pc[j] = "picked"
    /\ row' = [row EXCEPT ![j].total = Cardinality(task[j].todo)]
    /\ pc' = [pc EXCEPT ![j] = "loop"]
    /\ UNCHANGED <<topic, cases, model, errors, task>>

\* completed_topics and failed_topics are written after each topic.
Report(j) ==
    /\ pc[j] = "report"
    /\ row' = [row EXCEPT ![j].completed = task[j].completed,
                          ![j].failed = task[j].failed]
    /\ pc' = [pc EXCEPT ![j] = "loop"]
    /\ UNCHANGED <<topic, cases, model, errors, task>>

\* The loop ended, or there was nothing to assess.
Finish(j) ==
    /\ pc[j] = "loop"
    /\ task[j].todo = {}
    /\ row' = [row EXCEPT ![j].state = "completed"]
    /\ errors' = [errors EXCEPT ![j] = task[j].errors]
    /\ pc' = [pc EXCEPT ![j] = "done"]
    /\ UNCHANGED <<topic, cases, model, task>>

\* A database call of _run_job itself raises, outside the per-topic handler.
Raise(j) ==
    /\ "db_fails" \in Faults
    /\ \/ pc[j] \in {"queued", "marked", "built", "picked", "report"}
       \/ pc[j] = "loop" /\ task[j].todo = {}
    /\ pc' = [pc EXCEPT ![j] = "raised"]
    /\ UNCHANGED <<topic, cases, model, row, errors, task>>

\* Mutant: the exception is logged only.
MarkFailedForgets(j) ==
    /\ pc[j] = "raised"
    /\ pc' = [pc EXCEPT ![j] = "done"]
    /\ UNCHANGED <<topic, cases, model, row, errors, task>>

\* except Exception: the row is marked failed.
MarkFailed(j) ==
    /\ pc[j] = "raised"
    /\ row' = [row EXCEPT ![j].state = "failed"]
    /\ pc' = [pc EXCEPT ![j] = "done"]
    /\ UNCHANGED <<topic, cases, model, errors, task>>

\* That update raises as well, and nobody awaits the task.
MarkFailedRaises(j) ==
    /\ "db_down" \in Faults
    /\ pc[j] = "raised"
    /\ pc' = [pc EXCEPT ![j] = "dead"]
    /\ UNCHANGED <<topic, cases, model, row, errors, task>>

-----------------------------------------------------------------------------
(* POST /assess/{topic_id}                                                 *)

\* The request for a topic that exists when it is made.
RequestSingle(s, t, f) ==
    /\ pc[s] = "none"
    /\ t \in Present
    /\ task' = [task EXCEPT ![s].framework = f, ![s].model = model,
                            ![s].picked = {t}, ![s].todo = {t}]
    /\ pc' = [pc EXCEPT ![s] = "loop"]
    /\ UNCHANGED <<topic, cases, model, row, errors>>

-----------------------------------------------------------------------------
(* assess_topic                                                            *)

\* Mutant: an exception is counted and not listed in the results.
SettleUnlisted(w, raised) ==
    /\ task' = [task EXCEPT ![w].todo = @ \ {task[w].topic},
                            ![w].completed = @ + 1,
                            ![w].failed = @ + raised]
    /\ pc' = [pc EXCEPT ![w] = IF w \in Jobs THEN "report" ELSE "done"]

\* assess_topic returned or raised: the job's loop counts the topic and goes
\* on, a single request is answered.
Settle(w, raised) ==
    /\ task' = [task EXCEPT ![w].todo = @ \ {task[w].topic},
                            ![w].completed = @ + 1,
                            ![w].failed = @ + raised,
                            ![w].errors = IF raised = 1
                                          THEN @ \union {task[w].topic} ELSE @]
    /\ pc' = [pc EXCEPT ![w] = IF w \in Jobs THEN "report" ELSE "done"]

\* get_topic_context for the next topic: it exists ...
GetContext(w) ==
    /\ pc[w] = "loop"
    /\ \E t \in task[w].todo \intersect Present :
         task' = [task EXCEPT ![w].topic = t, ![w].calls = 0,
                              ![w].reply = "none"]
    /\ pc' = [pc EXCEPT ![w] = "call"]
    /\ UNCHANGED <<topic, cases, model, row, errors>>

\* ... or not: assess_topic returns None.
TopicGone(w) ==
    /\ pc[w] = "loop"
    /\ \E t \in task[w].todo \ Present :
         task' = [task EXCEPT ![w].topic = t, ![w].todo = @ \ {t},
                              ![w].completed = @ + 1]
    /\ pc' = [pc EXCEPT ![w] = IF w \in Jobs THEN "report" ELSE "done"]
    /\ UNCHANGED <<topic, cases, model, row, errors>>

\* What a model call can end in: an answer that satisfies the framework's
\* schema, one that parses to an object and does not, one that parses to
\* something else, one that does not parse, or none.
Replies == {"valid", "offschema", "nonobject", "garbage", "nothing"}

\* Does _call_and_parse return a structured answer?  parse_output of a lenient
\* framework turns garbage into a stub, which the schema accepts.
Accepted(w, reply) ==
    reply = "valid" \/ (reply = "garbage" /\ task[w].framework \in Lenient)

\* _call_and_parse succeeds, on the first or the second call.
CallSucceeds(w, reply) ==
    /\ pc[w] = "call"
    /\ Accepted(w, reply)
    /\ task' = [task EXCEPT ![w].calls = @ + 1, ![w].reply = reply]
    /\ pc' = [pc EXCEPT ![w] = "insert"]
    /\ UNCHANGED <<topic, cases, model, row, errors>>

\* The first call fails: one retry.
CallFails(w, reply) ==
    /\ pc[w] = "call"
    /\ ~Accepted(w, reply)
    /\ task[w].calls = 0
    /\ task' = [task EXCEPT ![w].calls = 1, ![w].reply = reply]
    /\ UNCHANGED <<topic, cases, model, row, errors, pc>>

\* Mutant: without an answer the topic is passed over, unrecorded.
FallbackDrops(w, reply) ==
    /\ pc[w] = "call"
    /\ ~Accepted(w, reply)
    /\ task[w].calls = 1
    /\ task' = [task EXCEPT ![w].todo = @ \ {task[w].topic},
                            ![w].completed = @ + 1]
    /\ pc' = [pc EXCEPT ![w] = IF w \in Jobs THEN "report" ELSE "done"]
    /\ UNCHANGED <<topic, cases, model, row, errors>>

\* After two calls parse_output has the last reply again: it raises when the
\* framework is strict and there is nothing to parse, and what it returns has to
\* be an object.
Storable(w, reply) ==
    reply = "offschema" \/ (reply # "nonobject" /\ task[w].framework \in Lenient)

\* The second call fails: what can be stored is, or the topic is an error.
Fallback(w, reply) ==
    /\ pc[w] = "call"
    /\ ~Accepted(w, reply)
    /\ task[w].calls = 1
    /\ \/ /\ Storable(w, reply)
          /\ task' = [task EXCEPT ![w].calls = 2, ![w].reply = reply]
          /\ pc' = [pc EXCEPT ![w] = "insert"]
       \/ /\ ~Storable(w, reply)
          /\ Settle(w, 1)
    /\ UNCHANGED <<topic, cases, model, row, errors>>

SameKey(w) ==
    {c \in cases : /\ c.topic = task[w].topic
                   /\ c.framework = task[w].framework
                   /\ c.model = task[w].model}

\* Mutant: topic_id is no foreign key.
InsertUnchecked(w) ==
    /\ pc[w] = "insert"
    /\ SameKey(w) = {}
    /\ cases' = cases \union
         {[topic |-> task[w].topic, framework |-> task[w].framework,
           model |-> task[w].model]}
    /\ Settle(w, 0)
    /\ UNCHANGED <<topic, model, row, errors>>

\* The INSERT into business_cases.
Insert(w) ==
    /\ pc[w] = "insert"
    /\ task[w].topic \in Present
    /\ SameKey(w) = {}
    /\ cases' = cases \union
         {[topic |-> task[w].topic, framework |-> task[w].framework,
           model |-> task[w].model]}
    /\ Settle(w, 0)
    /\ UNCHANGED <<topic, model, row, errors>>

\* The foreign key or the unique key refuses it.
InsertRefused(w) ==
    /\ pc[w] = "insert"
    /\ task[w].topic \notin Present \/ SameKey(w) # {}
    /\ Settle(w, 1)
    /\ UNCHANGED <<topic, cases, model, row, errors>>

\* A database call inside assess_topic raises.
AssessRaises(w) ==
    /\ "db_fails" \in Faults
    /\ \/ pc[w] = "insert" /\ Settle(w, 1)
       \/ /\ pc[w] = "loop"
          /\ \E t \in task[w].todo :
               task' = [task EXCEPT ![w].topic = t, ![w].todo = @ \ {t},
                                    ![w].completed = @ + 1,
                                    ![w].failed = @ + 1,
                                    ![w].errors = @ \union {t}]
          /\ pc' = [pc EXCEPT ![w] = IF w \in Jobs THEN "report" ELSE "done"]
    /\ UNCHANGED <<topic, cases, model, row, errors>>

-----------------------------------------------------------------------------
(* The rest of the system.                                                 *)

\* A crawl inserts a topic.
Arrive(t) ==
    /\ topic[t] = "unseen"
    /\ topic' = [topic EXCEPT ![t] = "present"]
    /\ UNCHANGED <<cases, model, row, errors, pc, task>>

\* A clean-up deletes a topic; its cases go with it.
Delete(t) ==
    /\ "deletes" \in Faults
    /\ topic[t] = "present"
    /\ topic' = [topic EXCEPT ![t] = "deleted"]
    /\ cases' = {c \in cases : c.topic # t}
    /\ UNCHANGED <<model, row, errors, pc, task>>

\* PUT /ai-config.
Configure(m) ==
    /\ model' = m
    /\ UNCHANGED <<topic, cases, row, errors, pc, task>>

\* The API process ends, or shuts down: a background task is not awaited, and
\* CancelledError is no Exception.  The next process knows of no job.
Crash ==
    /\ "crash" \in Faults
    /\ pc' = [w \in Workers |->
                IF pc[w] \in {"none", "done"} THEN pc[w] ELSE "dead"]
    /\ UNCHANGED <<topic, cases, model, row, errors, task>>

-----------------------------------------------------------------------------

JobStep(j) ==
    \/ Launch(j)
    \/ MarkRunning(j)
    \/ BuildPipeline(j)
    \/ Select(j)
    \/ SetTotal(j)
    \/ Report(j)
    \/ Finish(j)
    \/ Raise(j)
    \/ MarkFailed(j)
    \/ MarkFailedRaises(j)

AssessStep(w) ==
    \/ GetContext(w)
    \/ TopicGone(w)
    \/ \E reply \in Replies : \/ CallSucceeds(w, reply)
                              \/ CallFails(w, reply)
                              \/ Fallback(w, reply)
    \/ Insert(w)
    \/ InsertRefused(w)
    \/ AssessRaises(w)

Next ==
    \/ \E j \in Jobs : \/ \E f \in Frameworks, limit \in 1..MaxLimit :
                            PostJob(j, f, limit)
                       \/ JobStep(j)
    \/ \E s \in Singles, t \in Topics, f \in Frameworks : RequestSingle(s, t, f)
    \/ \E w \in Workers : AssessStep(w)
    \/ \E t \in Topics : Arrive(t) \/ Delete(t)
    \/ \E m \in Models : Configure(m)
    \/ Crash

Spec == Init /\ [][Next]_vars

\* The event loop runs every task that is ready and every model call ends,
\* the HTTP clients having a timeout.  Nobody has to post a job, and nothing
\* has to fail.
Fairness ==
    /\ \A j \in Jobs : WF_vars(JobStep(j))
    /\ \A w \in Workers : WF_vars(AssessStep(w))

FairSpec == Spec /\ Fairness

-----------------------------------------------------------------------------
(* Properties                                                              *)

Pcs == {"none", "posted", "queued", "marked", "built", "picked", "loop",
        "call", "insert", "report", "raised", "done", "dead"}

RowType ==
    [state : {"none", "pending", "running", "completed", "failed"},
     total : Nat, completed : Nat, failed : Nat]

TaskType ==
    [framework : Frameworks \union {"none"}, model : Models \union {"none"},
     picked : SUBSET Topics, todo : SUBSET Topics,
     topic : Topics \union {"none"}, calls : 0..2,
     reply : Replies \union {"none"},
     completed : Nat, failed : Nat, errors : SUBSET Topics]

\* Type correctness, with the foreign key of business_cases.
TypeOK ==
    /\ topic \in [Topics -> {"unseen", "present", "deleted"}]
    /\ \A c \in cases : c.topic \in Present
    /\ model \in Models
    /\ row \in [Jobs -> RowType]
    /\ errors \in [Jobs -> SUBSET Topics]
    /\ pc \in [Workers -> Pcs]
    /\ task \in [Workers -> TaskType]

\* A completed job accounts for every topic it picked: the topic has a case of
\* the department, or an "error" entry in the job's results, or it was
\* deleted, whatever other jobs, requests and deletions did meanwhile.
CompletedCovers ==
    \A j \in Jobs : row[j].state = "completed" =>
        \A t \in task[j].picked :
            t \in Present => HasCase(t) \/ t \in errors[j]

\* The counters of a completed job agree with its results: they add up to the
\* topics it picked and to its "error" entries.
CountersMatchResults ==
    \A j \in Jobs : row[j].state = "completed" =>
        /\ row[j].completed = Cardinality(task[j].picked)
        /\ row[j].failed = Cardinality(errors[j])

\* Where a worker is past its selection.
Assessing == {"loop", "call", "insert", "report"}

\* Of a worker: the topics it is done with are covered, by a case that only the
\* topic's deletion can remove or by an entry in its own results.
WorkerOK(w) ==
    /\ task[w].todo \subseteq task[w].picked
    /\ task[w].errors \subseteq task[w].picked \ task[w].todo
    /\ \A t \in task[w].picked : topic[t] # "unseen"
    /\ \A t \in task[w].picked \ task[w].todo :
         topic[t] = "present" => HasCase(t) \/ t \in task[w].errors
    /\ pc[w] \in {"call", "insert"} => task[w].topic \in task[w].todo
    /\ pc[w] = "call" => task[w].calls \in {0, 1}
    /\ pc[w] = "none" => task[w].picked = {}

\* Of a job: its row's state follows the worker ...
StateOK(j) ==
    /\ pc[j] = "none" => row[j] = NoRow
    /\ pc[j] \in {"posted", "queued"} => row[j].state = "pending"
    /\ pc[j] \in {"marked", "built", "picked"} \union Assessing =>
         row[j].state = "running"
    /\ pc[j] = "raised" => row[j].state \in {"pending", "running"}
    /\ row[j].state = "completed" => pc[j] = "done"

\* ... and its counters lag the worker's by at most the topic about to be
\* reported.
CountersOK(j) ==
    /\ pc[j] \in {"none", "posted", "queued", "marked", "built"} =>
         task[j].picked = {}
    /\ pc[j] \notin Assessing \union {"raised", "done", "dead"} =>
         /\ row[j].completed = 0 /\ row[j].failed = 0
         /\ task[j].completed = 0 /\ task[j].failed = 0
         /\ task[j].todo = task[j].picked
    /\ pc[j] = "picked" => Cardinality(task[j].todo) <= row[j].total
    /\ pc[j] \in Assessing =>
         /\ row[j].total = Cardinality(task[j].picked)
         /\ task[j].completed + Cardinality(task[j].todo) = row[j].total
         /\ task[j].failed = Cardinality(task[j].errors)
    /\ pc[j] \in Assessing \ {"report"} =>
         /\ row[j].completed = task[j].completed
         /\ row[j].failed = task[j].failed
    /\ pc[j] = "report" =>
         /\ task[j].completed = row[j].completed + 1
         /\ task[j].failed \in {row[j].failed, row[j].failed + 1}

\* A job completes with nothing left to do and its results written.
ResultsOK(j) ==
    row[j].state = "completed" =>
        /\ task[j].todo = {}
        /\ errors[j] = task[j].errors
        /\ row[j].completed = Cardinality(task[j].picked)
        /\ row[j].failed = Cardinality(errors[j])

\* The inductive invariant behind the invariants above.
IndInv ==
    /\ TypeOK
    /\ \A w \in Workers : WorkerOK(w)
    /\ \A j \in Jobs : StateOK(j) /\ CountersOK(j) /\ ResultsOK(j)

\* The rows behave as a polling client expects.
Board == INSTANCE JobBoard WITH board <- row
ImplementsBoard == Board!Spec

\* A posted job ends, so that a client that "polls (...) until state ==
\* completed" (ARCHITECTURE.md:222) or failed (Assessment.vue:60) stops.
JobsEnd ==
    \A j \in Jobs :
        row[j].state = "pending" ~> row[j].state \in {"completed", "failed"}

-----------------------------------------------------------------------------
(* What the sources say and the code does not do.                          *)

\* README.md:164: POST /api/assess/{topic_id} will "(Re-)assess a single
\* topic": a valid answer about an existing topic is stored.
ReassessStores ==
    [][\A s \in Singles :
         InsertRefused(s) /\ task[s].reply = "valid"
             => task[s].topic \notin Present]_vars

=============================================================================
