------------------------ MODULE AssessmentJobsProofs ------------------------
(***************************************************************************)
(* Theorems about AssessmentJobs, for every finite set of topics, any      *)
(* number of jobs and single requests, every limit, framework and model,   *)
(* and every combination of faults.                                        *)
(***************************************************************************)
EXTENDS AssessmentJobs, FiniteSetTheorems, TLAPS

\* What the counters need of cardinalities.
LEMMA TopicSets ==
  ASSUME NEW S \in SUBSET Topics
  PROVE  /\ Cardinality(S) \in Nat
         /\ \A t \in S : Cardinality(S \ {t}) = Cardinality(S) - 1
         /\ \A t \in Topics \ S : Cardinality(S \union {t}) = Cardinality(S) + 1
         /\ S = {} <=> Cardinality(S) = 0
<1>1. IsFiniteSet(S)
  BY TopicsAssumption, FS_Subset
<1> QED
  BY <1>1, FS_CardinalityType, FS_RemoveElement, FS_AddElement, FS_EmptySet

LEMMA IndInit == Init => IndInv
<1> SUFFICES ASSUME Init PROVE IndInv
  OBVIOUS
<1>1. TypeOK
  BY DEF Init, TypeOK, RowType, NoRow, Pcs, TaskType, NoTask
<1>2. ASSUME NEW w \in Workers PROVE WorkerOK(w)
  BY DEF Init, WorkerOK, NoTask
<1>3. ASSUME NEW j \in Jobs PROVE StateOK(j) /\ CountersOK(j) /\ ResultsOK(j)
  BY DEF Init, StateOK, CountersOK, ResultsOK, NoTask, NoRow, Workers, Assessing
<1> QED
  BY <1>1, <1>2, <1>3 DEF IndInv

-----------------------------------------------------------------------------
(* Types                                                                   *)

\* A worker is done with topic t: it leaves `todo', is counted, and is listed
\* when it raised.
Settles(w, t, raised) ==
    /\ task' = [task EXCEPT ![w].topic = t,
                            ![w].todo = @ \ {t},
                            ![w].completed = @ + 1,
                            ![w].failed = @ + raised,
                            ![w].errors = IF raised = 1
                                          THEN @ \union {t} ELSE @]
    /\ pc' = [pc EXCEPT ![w] = IF w \in Jobs THEN "report" ELSE "done"]
    /\ UNCHANGED <<topic, model, row, errors>>

LEMMA SettleSettles ==
  ASSUME TypeOK, NEW w \in Workers, NEW raised \in {0, 1},
         Settle(w, raised), UNCHANGED <<topic, model, row, errors>>
  PROVE  Settles(w, task[w].topic, raised)
  BY DEF TypeOK, TaskType, Settle, Settles

LEMMA SettlesType ==
  ASSUME TypeOK, NEW w \in Workers, NEW t \in Topics, NEW raised \in {0, 1},
         Settles(w, t, raised),
         \A c \in cases' : c.topic \in Present
  PROVE  TypeOK'
  BY DEF TypeOK, TaskType, Settles, Pcs, Present

-----------------------------------------------------------------------------
(* The step that ends a topic, whoever takes it.                           *)

LEMMA SettlesWorker ==
  ASSUME TypeOK, \A v \in Workers : WorkerOK(v),
         NEW w \in Workers, NEW t \in task[w].todo, NEW raised \in {0, 1},
         Settles(w, t, raised),
         cases \subseteq cases',
         raised = 1 \/ topic[t] # "present" \/ HasCase(t)'
  PROVE  \A v \in Workers : WorkerOK(v)'
<1> SUFFICES ASSUME NEW v \in Workers PROVE WorkerOK(v)'
  OBVIOUS
<1>1. \A u \in Topics : HasCase(u) => HasCase(u)'
  BY DEF HasCase
<1>2. t \in Topics
  BY DEF TypeOK, TaskType
<1>3. CASE v = w
  BY <1>1, <1>2, <1>3 DEF WorkerOK, Settles, TypeOK, TaskType
<1>4. CASE v # w
  BY <1>1, <1>4 DEF WorkerOK, Settles, TypeOK, TaskType
<1> QED
  BY <1>3, <1>4

LEMMA SettlesJob ==
  ASSUME TypeOK, \A v \in Workers : WorkerOK(v),
         NEW w \in Workers, NEW t \in task[w].todo, NEW raised \in {0, 1},
         pc[w] \in {"loop", "call", "insert"},
         Settles(w, t, raised),
         NEW j \in Jobs, StateOK(j), CountersOK(j), ResultsOK(j)
  PROVE  StateOK(j)' /\ CountersOK(j)' /\ ResultsOK(j)'
<1>1. t \in Topics /\ j \in Workers
  BY DEF TypeOK, TaskType, Workers
<1>2. CASE j = w
  <2>1. /\ row[j].state = "running"
        /\ row[j].total = Cardinality(task[j].picked)
        /\ task[j].completed + Cardinality(task[j].todo) = row[j].total
        /\ task[j].failed = Cardinality(task[j].errors)
        /\ row[j].completed = task[j].completed
        /\ row[j].failed = task[j].failed
    BY <1>2 DEF StateOK, CountersOK, Assessing
  <2>2. /\ pc'[j] = "report"
        /\ row' = row
        /\ task'[j].picked = task[j].picked
        /\ task'[j].todo = task[j].todo \ {t}
        /\ task'[j].completed = task[j].completed + 1
        /\ task'[j].failed = task[j].failed + raised
        /\ task'[j].errors = IF raised = 1 THEN task[j].errors \union {t}
                             ELSE task[j].errors
    BY <1>1, <1>2 DEF Settles, TypeOK, TaskType
  <2>3. t \notin task[j].errors
    BY <1>1, <1>2 DEF WorkerOK
  <2>4. /\ task[j].todo \in SUBSET Topics
        /\ task[j].errors \in SUBSET Topics
        /\ task[j].completed \in Nat
        /\ task[j].failed \in Nat
    BY <1>1 DEF TypeOK, TaskType
  <2>5. /\ Cardinality(task[j].todo) \in Nat
        /\ Cardinality(task[j].todo \ {t}) = Cardinality(task[j].todo) - 1
    BY <1>2, <2>4, TopicSets
  <2>6. Cardinality(task[j].errors \union {t}) = Cardinality(task[j].errors) + 1
    BY <1>1, <2>3, <2>4, TopicSets
  <2>7. /\ row'[j].total = Cardinality(task'[j].picked)
        /\ task'[j].completed + Cardinality(task'[j].todo) = row'[j].total
        /\ task'[j].failed = Cardinality(task'[j].errors)
        /\ task'[j].completed = row'[j].completed + 1
        /\ task'[j].failed \in {row'[j].failed, row'[j].failed + 1}
    BY <2>1, <2>2, <2>4, <2>5, <2>6
  <2> QED
    BY <2>1, <2>2, <2>7 DEF StateOK, CountersOK, ResultsOK, Assessing
<1>3. CASE j # w
  BY <1>1, <1>3
  DEF Settles, TypeOK, TaskType, StateOK, CountersOK, ResultsOK, Assessing
<1> QED
  BY <1>2, <1>3

LEMMA SettlesInd ==
  ASSUME IndInv,
         NEW w \in Workers, NEW t \in task[w].todo, NEW raised \in {0, 1},
         pc[w] \in {"loop", "call", "insert"},
         Settles(w, t, raised),
         cases \subseteq cases',
         \A c \in cases' : c.topic \in Present,
         raised = 1 \/ topic[t] # "present" \/ HasCase(t)'
  PROVE  IndInv'
<1>1. t \in Topics
  BY DEF IndInv, TypeOK, TaskType
<1>2. TypeOK'
  BY <1>1, SettlesType DEF IndInv
<1>3. \A v \in Workers : WorkerOK(v)'
  BY SettlesWorker DEF IndInv
<1>4. ASSUME NEW j \in Jobs PROVE StateOK(j)' /\ CountersOK(j)' /\ ResultsOK(j)'
  BY SettlesJob DEF IndInv
<1>5. Workers' = Workers /\ Jobs' = Jobs
  OBVIOUS
<1> QED
  BY <1>2, <1>3, <1>4 DEF IndInv

-----------------------------------------------------------------------------
(* The steps of assess_topic.                                              *)

\* A step that changes workers only: their new values decide TypeOK'.
LEMMA WorkerType ==
  ASSUME TypeOK, UNCHANGED <<topic, cases, model, row, errors>>,
         pc' \in [Workers -> Pcs], task' \in [Workers -> TaskType]
  PROVE  TypeOK'
  BY DEF TypeOK, Present

LEMMA ReplyType ==
  ASSUME TypeOK, NEW w \in Workers,
         NEW calls \in 0..2, NEW reply \in Replies \union {"none"}
  PROVE  [task EXCEPT ![w].calls = calls, ![w].reply = reply]
             \in [Workers -> TaskType]
<1>1. [[task[w] EXCEPT !.calls = calls] EXCEPT !.reply = reply] \in TaskType
  BY DEF TypeOK, TaskType
<1> QED
  BY <1>1 DEF TypeOK

LEMMA ContextType ==
  ASSUME TypeOK, NEW w \in Workers, NEW t \in Topics
  PROVE  [task EXCEPT ![w].topic = t, ![w].calls = 0, ![w].reply = "none"]
             \in [Workers -> TaskType]
<1>1. [task[w] EXCEPT !.topic = t] \in TaskType
  BY DEF TypeOK, TaskType
<1>2. ASSUME NEW r \in TaskType PROVE [r EXCEPT !.calls = 0] \in TaskType
  BY DEF TaskType
<1>3. ASSUME NEW r \in TaskType PROVE [r EXCEPT !.reply = "none"] \in TaskType
  BY DEF TaskType
<1>4. [[[task[w] EXCEPT !.topic = t] EXCEPT !.calls = 0] EXCEPT !.reply = "none"]
          \in TaskType
  BY <1>1, <1>2, <1>3
<1> QED
  BY <1>4 DEF TypeOK

LEMMA AssessInd ==
  ASSUME IndInv, NEW w \in Workers, AssessStep(w)
  PROVE  IndInv'
<1> USE DEF IndInv
<1>0. /\ WorkerOK(w)
      /\ task[w].todo \in SUBSET Topics
      /\ task[w].calls \in 0..2
      /\ pc[w] \in Pcs
  BY DEF TypeOK, TaskType
<1>1. CASE GetContext(w)
  <2>0. /\ pc' \in [Workers -> Pcs]
        /\ task' \in [Workers -> TaskType]
    <3>1. pc' \in [Workers -> Pcs]
      BY <1>1 DEF GetContext, TypeOK, Pcs
    <3>2. PICK t \in Topics :
              task' = [task EXCEPT ![w].topic = t, ![w].calls = 0,
                                   ![w].reply = "none"]
      BY <1>0, <1>1 DEF GetContext
    <3> QED
      BY <3>1, <3>2, ContextType
  <2>1. TypeOK'
    BY <1>1, <2>0, WorkerType DEF GetContext
  <2>2. ASSUME NEW v \in Workers PROVE WorkerOK(v)'
    BY <1>1 DEF GetContext, WorkerOK, HasCase, TypeOK, TaskType
  <2>3. ASSUME NEW j \in Jobs PROVE StateOK(j)' /\ CountersOK(j)' /\ ResultsOK(j)'
    BY <1>1 DEF GetContext, StateOK, CountersOK, ResultsOK, Assessing, TypeOK,
                TaskType, Workers
  <2> QED
    BY <2>1, <2>2, <2>3
<1>2. CASE TopicGone(w)
  <2>1. PICK t \in task[w].todo \ Present :
            task' = [task EXCEPT ![w].topic = t, ![w].todo = @ \ {t},
                                 ![w].completed = @ + 1]
    BY <1>2 DEF TopicGone
  <2>2. Settles(w, t, 0)
    BY <1>2, <2>1 DEF TopicGone, Settles, TypeOK, TaskType
  <2>3. /\ topic[t] # "present"
        /\ cases' = cases
        /\ pc[w] = "loop"
    BY <1>0, <1>2, <2>1 DEF TopicGone, Present
  <2> QED
    BY <2>2, <2>3, SettlesInd DEF TypeOK
<1>3. ASSUME NEW reply \in Replies, CallSucceeds(w, reply) \/ CallFails(w, reply)
      PROVE  IndInv'
  <2>0. /\ pc' \in [Workers -> Pcs]
        /\ task' \in [Workers -> TaskType]
    BY <1>0, <1>3 DEF CallSucceeds, CallFails, TypeOK, TaskType, Pcs, WorkerOK
  <2>1. TypeOK'
    BY <1>3, <2>0, WorkerType DEF CallSucceeds, CallFails
  <2>2. ASSUME NEW v \in Workers PROVE WorkerOK(v)'
    BY <1>3 DEF CallSucceeds, CallFails, WorkerOK, HasCase, TypeOK, TaskType
  <2>3. ASSUME NEW j \in Jobs PROVE StateOK(j)' /\ CountersOK(j)' /\ ResultsOK(j)'
    BY <1>3 DEF CallSucceeds, CallFails, StateOK, CountersOK, ResultsOK,
                Assessing, TypeOK, TaskType, Workers
  <2> QED
    BY <2>1, <2>2, <2>3
<1>4. ASSUME NEW reply \in Replies, Fallback(w, reply)
      PROVE  IndInv'
  <2>1. CASE Settle(w, 1)
    <3>1. Settles(w, task[w].topic, 1)
      BY <1>4, <2>1, SettleSettles DEF Fallback
    <3>2. /\ task[w].topic \in task[w].todo
          /\ cases' = cases
          /\ pc[w] = "call"
      BY <1>0, <1>4 DEF Fallback, WorkerOK
    <3> QED
      BY <3>1, <3>2, SettlesInd DEF TypeOK
  <2>2. CASE /\ task' = [task EXCEPT ![w].calls = 2, ![w].reply = reply]
             /\ pc' = [pc EXCEPT ![w] = "insert"]
    <3>0. /\ pc' \in [Workers -> Pcs]
          /\ task' \in [Workers -> TaskType]
      <4>1. pc' \in [Workers -> Pcs]
        BY <2>2 DEF TypeOK, Pcs
      <4>2. 2 \in 0..2 /\ reply \in Replies \union {"none"}
        BY <1>4
      <4> QED
        BY <2>2, <4>1, <4>2, ReplyType
    <3>1. TypeOK'
      BY <1>4, <3>0, WorkerType DEF Fallback
    <3>2. ASSUME NEW v \in Workers PROVE WorkerOK(v)'
      BY <1>4, <2>2 DEF Fallback, WorkerOK, HasCase, TypeOK, TaskType
    <3>3. ASSUME NEW j \in Jobs
          PROVE  StateOK(j)' /\ CountersOK(j)' /\ ResultsOK(j)'
      BY <1>4, <2>2 DEF Fallback, StateOK, CountersOK, ResultsOK, Assessing,
                        TypeOK, TaskType, Workers
    <3> QED
      BY <3>1, <3>2, <3>3
  <2> QED
    BY <1>4, <2>1, <2>2 DEF Fallback
<1>5. CASE Insert(w)
  <2>1. Settles(w, task[w].topic, 0)
    BY <1>5, SettleSettles DEF Insert
  <2>2. task[w].topic \in task[w].todo /\ pc[w] = "insert"
    BY <1>0, <1>5 DEF Insert, WorkerOK
  <2>3. PICK case : case.topic = task[w].topic /\ cases' = cases \union {case}
    BY <1>5 DEF Insert
  <2>4. /\ cases \subseteq cases'
        /\ \A c \in cases' : c.topic \in Present
    BY <1>5, <2>3 DEF Insert, TypeOK
  <2>5. \E c \in cases' : c.topic = task[w].topic
    BY <2>3
  <2> QED
    BY <2>1, <2>2, <2>4, <2>5, SettlesInd DEF HasCase
<1>6. CASE InsertRefused(w)
  <2>1. Settles(w, task[w].topic, 1)
    BY <1>6, SettleSettles DEF InsertRefused
  <2>2. /\ task[w].topic \in task[w].todo
        /\ cases' = cases
        /\ pc[w] = "insert"
    BY <1>0, <1>6 DEF InsertRefused, WorkerOK
  <2> QED
    BY <2>1, <2>2, SettlesInd DEF TypeOK
<1>7. CASE AssessRaises(w)
  <2>1. CASE pc[w] = "insert" /\ Settle(w, 1)
    <3>1. Settles(w, task[w].topic, 1)
      BY <1>7, <2>1, SettleSettles DEF AssessRaises
    <3>2. task[w].topic \in task[w].todo /\ cases' = cases
      BY <1>0, <1>7, <2>1 DEF AssessRaises, WorkerOK
    <3> QED
      BY <2>1, <3>1, <3>2, SettlesInd DEF TypeOK
  <2>2. CASE ~(pc[w] = "insert" /\ Settle(w, 1))
    <3>1. PICK t \in task[w].todo :
              task' = [task EXCEPT ![w].topic = t, ![w].todo = @ \ {t},
                                   ![w].completed = @ + 1,
                                   ![w].failed = @ + 1,
                                   ![w].errors = @ \union {t}]
      BY <1>7, <2>2 DEF AssessRaises
    <3>2. Settles(w, t, 1)
      BY <1>7, <2>2, <3>1 DEF AssessRaises, Settles, TypeOK, TaskType
    <3>3. pc[w] = "loop" /\ cases' = cases
      BY <1>7, <2>2 DEF AssessRaises
    <3> QED
      BY <3>2, <3>3, SettlesInd DEF TypeOK
  <2> QED
    BY <2>1, <2>2
<1> QED
  BY <1>1, <1>2, <1>3, <1>4, <1>5, <1>6, <1>7 DEF AssessStep

-----------------------------------------------------------------------------
(* The steps of _run_job around it.                                        *)

\* A step that leaves every worker's task, the topics and the cases alone and
\* enters no call keeps the workers covered.
LEMMA WorkerQuiet ==
  ASSUME \A v \in Workers : WorkerOK(v),
         UNCHANGED <<topic, cases, task>>,
         \A v \in Workers :
             pc'[v] \in {"none", "call", "insert"} => pc'[v] = pc[v]
  PROVE  \A v \in Workers : WorkerOK(v)'
  BY DEF WorkerOK, HasCase

LEMMA JobType ==
  ASSUME IndInv, NEW j \in Jobs, JobStep(j)
  PROVE  TypeOK'
<1> USE DEF IndInv
<1>1. j \in Workers
  BY DEF Workers
<1>2. /\ task[j].todo \in SUBSET Topics
      /\ Cardinality(task[j].todo) \in Nat
  BY <1>1, TopicSets DEF TypeOK, TaskType
<1>3. CASE Launch(j)
  BY <1>1, <1>3 DEF Launch, TypeOK, Pcs, Present
<1>4. CASE MarkRunning(j)
  BY <1>1, <1>4 DEF MarkRunning, TypeOK, Pcs, Present, RowType
<1>5. CASE BuildPipeline(j)
  <2>1. [task[j] EXCEPT !.model = model] \in TaskType
    BY <1>1 DEF TypeOK, TaskType
  <2> QED
    BY <1>1, <1>5, <2>1 DEF BuildPipeline, TypeOK, Pcs, Present
<1>6. CASE Select(j)
  <2>1. PICK T \in SUBSET Topics :
            task' = [task EXCEPT ![j].picked = T, ![j].todo = T]
    BY <1>6 DEF Select, Present
  <2>2. [[task[j] EXCEPT !.picked = T] EXCEPT !.todo = T] \in TaskType
    BY <1>1 DEF TypeOK, TaskType
  <2>3. task' \in [Workers -> TaskType]
    BY <1>1, <2>1, <2>2 DEF TypeOK
  <2> QED
    BY <1>1, <1>6, <2>3 DEF Select, TypeOK, Pcs, Present
<1>7. CASE SetTotal(j)
  BY <1>1, <1>2, <1>7 DEF SetTotal, TypeOK, Pcs, Present, RowType
<1>8. CASE Report(j)
  <2>1. task[j].completed \in Nat /\ task[j].failed \in Nat
    BY <1>1 DEF TypeOK, TaskType
  <2> QED
    BY <1>1, <1>8, <2>1 DEF Report, TypeOK, Pcs, Present, RowType
<1>9. CASE Finish(j)
  <2>1. task[j].errors \in SUBSET Topics
    BY <1>1 DEF TypeOK, TaskType
  <2> QED
    BY <1>1, <1>9, <2>1 DEF Finish, TypeOK, Pcs, Present, RowType
<1>10. CASE Raise(j) \/ MarkFailedRaises(j)
  BY <1>1, <1>10 DEF Raise, MarkFailedRaises, TypeOK, Pcs, Present
<1>11. CASE MarkFailed(j)
  BY <1>1, <1>11 DEF MarkFailed, TypeOK, Pcs, Present, RowType
<1> QED
  BY <1>3, <1>4, <1>5, <1>6, <1>7, <1>8, <1>9, <1>10, <1>11 DEF JobStep

LEMMA JobWorkers ==
  ASSUME IndInv, NEW j \in Jobs, JobStep(j)
  PROVE  \A v \in Workers : WorkerOK(v)'
<1> USE DEF IndInv
<1>1. CASE ~Select(j) /\ ~BuildPipeline(j)
  <2>1. UNCHANGED <<topic, cases, task>>
    BY <1>1 DEF JobStep, Launch, MarkRunning, SetTotal, Report, Finish, Raise,
                MarkFailed, MarkFailedRaises
  <2>2. \A v \in Workers :
            pc'[v] \in {"none", "call", "insert"} => pc'[v] = pc[v]
    BY <1>1 DEF JobStep, Launch, MarkRunning, SetTotal, Report, Finish, Raise,
                MarkFailed, MarkFailedRaises, TypeOK
  <2> QED
    BY <2>1, <2>2, WorkerQuiet
<1>2. CASE BuildPipeline(j)
  BY <1>2 DEF BuildPipeline, WorkerOK, HasCase, TypeOK, TaskType
<1>3. CASE Select(j)
  <2>1. PICK T \in SUBSET Present :
            task' = [task EXCEPT ![j].picked = T, ![j].todo = T]
    BY <1>3 DEF Select
  <2>2. task[j].errors = {}
    BY <1>3 DEF Select, WorkerOK, CountersOK, Workers
  <2> QED
    BY <1>3, <2>1, <2>2
    DEF Select, WorkerOK, HasCase, Present, TypeOK, TaskType, Workers
<1> QED
  BY <1>1, <1>2, <1>3

\* The other jobs' rows and workers are not touched.
LEMMA OtherJobs ==
  ASSUME IndInv, NEW j \in Jobs, JobStep(j), NEW k \in Jobs, k # j
  PROVE  StateOK(k)' /\ CountersOK(k)' /\ ResultsOK(k)'
<1>1. /\ row'[k] = row[k]
      /\ errors'[k] = errors[k]
      /\ pc'[k] = pc[k]
      /\ task'[k] = task[k]
  BY DEF JobStep, Launch, MarkRunning, BuildPipeline, Select, SetTotal, Report,
         Finish, Raise, MarkFailed, MarkFailedRaises, IndInv, TypeOK, Workers
<1> QED
  BY <1>1 DEF IndInv, StateOK, CountersOK, ResultsOK

LEMMA ThisJob ==
  ASSUME IndInv, NEW j \in Jobs, JobStep(j)
  PROVE  StateOK(j)' /\ CountersOK(j)' /\ ResultsOK(j)'
<1> USE DEF IndInv, StateOK, CountersOK, ResultsOK, Assessing
<1>1. j \in Workers /\ WorkerOK(j)
  BY DEF Workers
<1>2. /\ task[j] \in TaskType
      /\ row[j] \in RowType
      /\ pc[j] \in Pcs
  BY <1>1 DEF TypeOK
<1>3. /\ task[j].todo \in SUBSET Topics
      /\ task[j].errors \in SUBSET Topics
      /\ task[j].completed \in Nat
      /\ task[j].failed \in Nat
      /\ Cardinality(task[j].todo) \in Nat
      /\ Cardinality({}) = 0
  BY <1>2, TopicSets DEF TaskType
<1>4. CASE Launch(j)
  BY <1>1, <1>4 DEF Launch, TypeOK
<1>5. CASE MarkRunning(j)
  BY <1>1, <1>5 DEF MarkRunning, TypeOK, RowType
<1>6. CASE BuildPipeline(j)
  BY <1>1, <1>6 DEF BuildPipeline, TypeOK, TaskType
<1>7. CASE Select(j)
  <2>1. PICK T \in SUBSET Present :
            /\ Cardinality(T) <= row[j].total
            /\ task' = [task EXCEPT ![j].picked = T, ![j].todo = T]
    BY <1>7 DEF Select
  <2> QED
    BY <1>1, <1>7, <2>1 DEF Select, TypeOK, TaskType
<1>8. CASE SetTotal(j)
  <2>1. task[j].errors = {} /\ task[j].todo = task[j].picked
    BY <1>1, <1>8 DEF SetTotal, WorkerOK
  <2> QED
    BY <1>1, <1>3, <1>8, <2>1 DEF SetTotal, TypeOK, RowType
<1>9. CASE Report(j)
  BY <1>1, <1>3, <1>9 DEF Report, TypeOK, RowType
<1>10. CASE Finish(j)
  <2>1. /\ row'[j].state = "completed"
        /\ row'[j].completed = row[j].completed
        /\ row'[j].failed = row[j].failed
        /\ errors'[j] = task[j].errors
        /\ pc'[j] = "done"
        /\ task' = task
    BY <1>1, <1>10 DEF Finish, TypeOK, RowType
  <2>2. pc[j] = "loop" /\ task[j].todo = {}
    BY <1>10 DEF Finish
  <2>3. /\ row[j].total = Cardinality(task[j].picked)
        /\ task[j].completed + Cardinality(task[j].todo) = row[j].total
        /\ row[j].completed = task[j].completed
        /\ row[j].failed = Cardinality(task[j].errors)
    BY <2>2
  <2>4. row[j].completed = Cardinality(task[j].picked)
    BY <1>3, <2>2, <2>3
  <2> QED
    BY <2>1, <2>2, <2>3, <2>4
<1>11. CASE Raise(j) \/ MarkFailedRaises(j)
  BY <1>1, <1>11 DEF Raise, MarkFailedRaises, TypeOK
<1>12. CASE MarkFailed(j)
  BY <1>1, <1>12 DEF MarkFailed, TypeOK, RowType
<1> QED
  BY <1>4, <1>5, <1>6, <1>7, <1>8, <1>9, <1>10, <1>11, <1>12 DEF JobStep

LEMMA JobInd ==
  ASSUME IndInv, NEW j \in Jobs, JobStep(j)
  PROVE  IndInv'
<1>1. ASSUME NEW k \in Jobs PROVE StateOK(k)' /\ CountersOK(k)' /\ ResultsOK(k)'
  BY OtherJobs, ThisJob
<1> QED
  BY <1>1, JobType, JobWorkers DEF IndInv

-----------------------------------------------------------------------------
(* Requests and the rest of the system.                                    *)

LEMMA RequestInd ==
  ASSUME IndInv,
         \/ \E j \in Jobs, f \in Frameworks, limit \in 1..MaxLimit : PostJob(j, f, limit)
         \/ \E s \in Singles, t \in Topics, f \in Frameworks : RequestSingle(s, t, f)
  PROVE  IndInv'
<1> USE DEF IndInv
<1>1. ASSUME NEW j \in Jobs, NEW f \in Frameworks, NEW limit \in 1..MaxLimit,
             PostJob(j, f, limit)
      PROVE  IndInv'
  <2>1. [task[j] EXCEPT !.framework = f] \in TaskType
    BY DEF TypeOK, TaskType, Workers
  <2>2. TypeOK'
    BY <1>1, <2>1 DEF PostJob, TypeOK, Pcs, RowType, Present, Workers
  <2>3. ASSUME NEW v \in Workers PROVE WorkerOK(v)'
    BY <1>1 DEF PostJob, WorkerOK, HasCase, TypeOK, TaskType
  <2>4. ASSUME NEW k \in Jobs PROVE StateOK(k)' /\ CountersOK(k)' /\ ResultsOK(k)'
    BY <1>1 DEF PostJob, StateOK, CountersOK, ResultsOK, Assessing, TypeOK,
                TaskType, RowType, Workers
  <2> QED
    BY <2>2, <2>3, <2>4
<1>2. ASSUME NEW s \in Singles, NEW t \in Topics, NEW f \in Frameworks,
             RequestSingle(s, t, f)
      PROVE  IndInv'
  <2>1. ASSUME NEW r \in TaskType
        PROVE  [[[[r EXCEPT !.framework = f] EXCEPT !.model = model]
                 EXCEPT !.picked = {t}] EXCEPT !.todo = {t}] \in TaskType
    <3>1. ASSUME NEW q \in TaskType
          PROVE  [[q EXCEPT !.framework = f] EXCEPT !.model = model] \in TaskType
      BY DEF TypeOK, TaskType
    <3>2. ASSUME NEW q \in TaskType
          PROVE  [[q EXCEPT !.picked = {t}] EXCEPT !.todo = {t}] \in TaskType
      BY DEF TaskType
    <3> QED
      BY <3>1, <3>2
  <2>2. TypeOK'
    BY <1>2, <2>1 DEF RequestSingle, TypeOK, Pcs, Present, Workers
  <2>3. ASSUME NEW v \in Workers PROVE WorkerOK(v)'
    <3>1. s \in Workers
      BY DEF Workers
    <3>2. CASE v = s
      <4>1. /\ task'[s].picked = {t}
            /\ task'[s].todo = {t}
            /\ task'[s].errors = task[s].errors
            /\ pc'[s] = "loop"
        <5>1. ASSUME NEW r \in TaskType
              PROVE  LET q == [[[[r EXCEPT !.framework = f] EXCEPT !.model = model]
                                EXCEPT !.picked = {t}] EXCEPT !.todo = {t}]
                     IN  /\ q.picked = {t}
                         /\ q.todo = {t}
                         /\ q.errors = r.errors
          BY DEF TaskType
        <5>2. task'[s] = [[[[task[s] EXCEPT !.framework = f]
                               EXCEPT !.model = model]
                               EXCEPT !.picked = {t}] EXCEPT !.todo = {t}]
          BY <1>2, <3>1 DEF RequestSingle, TypeOK
        <5>3. task[s] \in TaskType
          BY <3>1 DEF TypeOK
        <5>4. pc'[s] = "loop"
          BY <1>2, <3>1 DEF RequestSingle, TypeOK
        <5> QED
          BY <5>1, <5>2, <5>3, <5>4
      <4>2. task[s].errors = {}
        BY <1>2, <3>1 DEF RequestSingle, WorkerOK
      <4>3. topic'[t] = "present"
        BY <1>2 DEF RequestSingle, Present
      <4> QED
        BY <3>2, <4>1, <4>2, <4>3 DEF WorkerOK
    <3>3. CASE v # s
      BY <1>2, <3>3 DEF RequestSingle, WorkerOK, HasCase, TypeOK
    <3> QED
      BY <3>2, <3>3
  <2>4. ASSUME NEW k \in Jobs PROVE StateOK(k)' /\ CountersOK(k)' /\ ResultsOK(k)'
    <3>0. k # s /\ k \in Workers
      BY WorkersAssumption DEF Workers
    <3>1. /\ row' = row
          /\ errors' = errors
          /\ pc'[k] = pc[k]
          /\ task'[k] = task[k]
      BY <1>2, <3>0 DEF RequestSingle, TypeOK
    <3> QED
      BY <3>1 DEF StateOK, CountersOK, ResultsOK
  <2> QED
    BY <2>2, <2>3, <2>4
<1> QED
  BY <1>1, <1>2

LEMMA RestInd ==
  ASSUME IndInv,
         \/ \E t \in Topics : Arrive(t) \/ Delete(t)
         \/ \E m \in Models : Configure(m)
         \/ Crash
         \/ UNCHANGED vars
  PROVE  IndInv'
<1> USE DEF IndInv
<1>1. ASSUME NEW t \in Topics, Arrive(t) PROVE IndInv'
  <2>1. TypeOK'
    BY <1>1 DEF Arrive, TypeOK, Present
  <2>2. ASSUME NEW v \in Workers PROVE WorkerOK(v)'
    BY <1>1 DEF Arrive, WorkerOK, HasCase, TypeOK, TaskType
  <2>3. ASSUME NEW k \in Jobs PROVE StateOK(k)' /\ CountersOK(k)' /\ ResultsOK(k)'
    BY <1>1 DEF Arrive, StateOK, CountersOK, ResultsOK
  <2> QED
    BY <2>1, <2>2, <2>3
<1>2. ASSUME NEW t \in Topics, Delete(t) PROVE IndInv'
  <2>1. TypeOK'
    BY <1>2 DEF Delete, TypeOK, Present
  <2>2. ASSUME NEW v \in Workers PROVE WorkerOK(v)'
    BY <1>2 DEF Delete, WorkerOK, HasCase, TypeOK, TaskType
  <2>3. ASSUME NEW k \in Jobs PROVE StateOK(k)' /\ CountersOK(k)' /\ ResultsOK(k)'
    BY <1>2 DEF Delete, StateOK, CountersOK, ResultsOK
  <2> QED
    BY <2>1, <2>2, <2>3
<1>3. ASSUME NEW m \in Models, Configure(m) PROVE IndInv'
  BY <1>3 DEF Configure, TypeOK, Present, WorkerOK, HasCase, StateOK,
              CountersOK, ResultsOK
<1>4. CASE Crash
  <2>1. TypeOK'
    BY <1>4 DEF Crash, TypeOK, Present, Pcs
  <2>2. ASSUME NEW v \in Workers PROVE WorkerOK(v)'
    BY <1>4 DEF Crash, WorkerOK, HasCase, TypeOK
  <2>3. ASSUME NEW k \in Jobs PROVE StateOK(k)' /\ CountersOK(k)' /\ ResultsOK(k)'
    BY <1>4 DEF Crash, StateOK, CountersOK, ResultsOK, Assessing, TypeOK, Workers
  <2> QED
    BY <2>1, <2>2, <2>3
<1>5. CASE UNCHANGED vars
  BY <1>5 DEF vars, TypeOK, Present, WorkerOK, HasCase, StateOK, CountersOK,
              ResultsOK
<1> QED
  BY <1>1, <1>2, <1>3, <1>4, <1>5

LEMMA IndStep == IndInv /\ [Next]_vars => IndInv'
  BY AssessInd, JobInd, RequestInd, RestInd DEF Next

LEMMA IndAlways == Spec => []IndInv
  BY IndInit, IndStep, PTL DEF Spec

-----------------------------------------------------------------------------
(* The theorems.                                                           *)

\* Every reachable state is well typed: in particular no case survives its
\* topic.
THEOREM TypeCorrect == Spec => []TypeOK
  BY IndAlways, PTL DEF IndInv

\* A completed job accounts for every topic it picked that still exists: it
\* has a case, or the job's results list it as an error.
THEOREM CompletedJobsCover == Spec => []CompletedCovers
<1>1. IndInv => CompletedCovers
  <2> SUFFICES ASSUME IndInv, NEW j \in Jobs, row[j].state = "completed",
                      NEW t \in task[j].picked, t \in Present
               PROVE  HasCase(t) \/ t \in errors[j]
    BY DEF CompletedCovers
  <2>1. task[j].todo = {} /\ errors[j] = task[j].errors
    BY DEF IndInv, ResultsOK
  <2> QED
    BY <2>1 DEF IndInv, WorkerOK, Workers, Present
<1> QED
  BY <1>1, IndAlways, PTL

\* completed_topics and failed_topics of a completed job are the numbers of
\* topics it picked and of its error results.
THEOREM CompletedJobsCount == Spec => []CountersMatchResults
<1>1. IndInv => CountersMatchResults
  BY DEF IndInv, ResultsOK, CountersMatchResults
<1> QED
  BY <1>1, IndAlways, PTL

-----------------------------------------------------------------------------
(* The rows implement JobBoard.                                            *)

\* Every step maps to a step of the board or leaves it alone.
LEMMA BoardStep == IndInv /\ [Next]_vars => [Board!Next]_row
<1> SUFFICES ASSUME IndInv, [Next]_vars PROVE [Board!Next]_row
  OBVIOUS
<1>1. CASE UNCHANGED row
  BY <1>1
<1>2. ASSUME NEW j \in Jobs, NEW f \in Frameworks, NEW limit \in 1..MaxLimit,
             PostJob(j, f, limit)
      PROVE  Board!Next
  <2>1. row[j].state = "none"
    BY <1>2 DEF PostJob, IndInv, StateOK, NoRow
  <2> QED
    BY <1>2, <2>1 DEF PostJob, Board!Next, Board!Post
<1>3. ASSUME NEW j \in Jobs, JobStep(j)
      PROVE  UNCHANGED row \/ Board!Next
  <2>1. /\ j \in Workers
        /\ task[j] \in TaskType
        /\ row[j] \in RowType
        /\ StateOK(j) /\ CountersOK(j)
    BY DEF IndInv, TypeOK, Workers
  <2>2. CASE MarkRunning(j)
    BY <2>1, <2>2 DEF MarkRunning, StateOK, Board!Next, Board!Begin
  <2>3. CASE SetTotal(j)
    <3>1. /\ row[j].state = "running"
          /\ row[j].completed = 0
          /\ Cardinality(task[j].todo) \in 0..row[j].total
      BY <2>1, <2>3, TopicSets
      DEF SetTotal, StateOK, CountersOK, Assessing, TaskType, RowType
    <3> QED
      BY <2>3, <3>1 DEF SetTotal, Board!Next, Board!Resize
  <2>4. CASE Report(j)
    <3>1. /\ row[j].state = "running"
          /\ task[j].completed = row[j].completed + 1
          /\ task[j].completed + Cardinality(task[j].todo) = row[j].total
          /\ task[j].failed \in {row[j].failed, row[j].failed + 1}
      BY <2>1, <2>4 DEF Report, StateOK, CountersOK, Assessing
    <3>2. row[j].completed < row[j].total
      BY <2>1, <3>1, TopicSets DEF TaskType, RowType
    <3>3. PICK failure \in {0, 1} : task[j].failed = row[j].failed + failure
      BY <2>1, <3>1 DEF RowType
    <3>4. row' = [row EXCEPT ![j].completed = @ + 1, ![j].failed = @ + failure]
      BY <2>1, <2>4, <3>1, <3>3 DEF Report, RowType
    <3> QED
      BY <3>1, <3>2, <3>4 DEF Board!Next, Board!Advance
  <2>5. CASE Finish(j)
    <3>1. row[j].state = "running"
      BY <2>1, <2>5 DEF Finish, StateOK, Assessing
    <3>2. /\ task[j].completed + Cardinality({}) = row[j].total
          /\ row[j].completed = task[j].completed
      BY <2>1, <2>5 DEF Finish, CountersOK, Assessing
    <3>3. row[j].completed = row[j].total
      BY <2>1, <3>2, TopicSets DEF TaskType
    <3> QED
      BY <2>5, <3>1, <3>3 DEF Finish, Board!Next, Board!Complete
  <2>6. CASE MarkFailed(j)
    BY <2>1, <2>6 DEF MarkFailed, StateOK, Board!Next, Board!Fail
  <2>7. CASE \/ Launch(j) \/ BuildPipeline(j) \/ Select(j) \/ Raise(j)
             \/ MarkFailedRaises(j)
    BY <2>7 DEF Launch, BuildPipeline, Select, Raise, MarkFailedRaises
  <2> QED
    BY <1>3, <2>2, <2>3, <2>4, <2>5, <2>6, <2>7 DEF JobStep
<1>4. ASSUME NEW w \in Workers, AssessStep(w)
      PROVE  UNCHANGED row
  BY <1>4 DEF AssessStep, GetContext, TopicGone, CallSucceeds, CallFails,
              Fallback, Insert, InsertRefused, AssessRaises
<1>5. ASSUME \/ \E s \in Singles, t \in Topics, f \in Frameworks :
                  RequestSingle(s, t, f)
             \/ \E t \in Topics : Arrive(t) \/ Delete(t)
             \/ \E m \in Models : Configure(m)
             \/ Crash
      PROVE  UNCHANGED row
  BY <1>5 DEF RequestSingle, Arrive, Delete, Configure, Crash
<1> QED
  BY <1>1, <1>2, <1>3, <1>4, <1>5 DEF Next, vars

\* What a polling client reads behaves as JobBoard says: a job begins once,
\* advances one topic at a time and is completed only when all its topics are
\* accounted for.
THEOREM JobsImplementBoard == Spec => ImplementsBoard
<1>1. Init => Board!Init
  BY DEF Init, Board!Init, NoRow, Board!NoRow
<1> QED
  BY <1>1, IndAlways, BoardStep, PTL DEF Spec, ImplementsBoard, Board!Spec

-----------------------------------------------------------------------------
(* Why jobs end: the part of JobsEnd that holds without fairness           *)

\* The topics a worker may still take up.
Ahead(w) ==
    IF pc[w] \in {"posted", "queued", "marked", "built"} THEN row[w].total
    ELSE Cardinality(task[w].todo)

\* How far from its end a worker is: six steps for each topic, and where it is.
Left(w) ==
    CASE pc[w] \in {"none", "done", "dead"} -> 0
      [] pc[w] = "raised" -> 1
      [] pc[w] = "insert" -> 6 * Ahead(w) + 1
      [] pc[w] = "call" -> 6 * Ahead(w) + 3 - task[w].calls
      [] pc[w] = "loop" -> 6 * Ahead(w) + 4
      [] pc[w] \in {"picked", "report"} -> 6 * Ahead(w) + 5
      [] pc[w] = "built" -> 6 * Ahead(w) + 6
      [] pc[w] = "marked" -> 6 * Ahead(w) + 7
      [] pc[w] = "queued" -> 6 * Ahead(w) + 8
      [] pc[w] = "posted" -> 6 * Ahead(w) + 9

\* A worker that does not move keeps what it has left, one that moves has less.
Lessens(w) ==
    pc[w] # "none" =>
        IF pc'[w] = pc[w] /\ task'[w] = task[w] THEN Left(w)' = Left(w)
        ELSE Left(w)' < Left(w)

WorkLessens == [][\A w \in Workers : Left(w) \in Nat /\ Lessens(w)]_vars

\* Only jobs have a row and a task in the background.
SinglesAsk ==
    \A s \in Singles : pc[s] \in {"none", "loop", "call", "insert", "done", "dead"}

\* Who a step is one of, and what it leaves to the others.
OthersStay(w) ==
    \A v \in Workers : v # w => /\ pc'[v] = pc[v] /\ task'[v] = task[v]
                                /\ v \in Jobs => row'[v] = row[v]

LEMMA JobOthers ==
  ASSUME TypeOK, NEW j \in Jobs, JobStep(j)
  PROVE  OthersStay(j)
<1>1. CASE Launch(j) \/ MarkRunning(j) \/ BuildPipeline(j) \/ SetTotal(j) \/ Report(j)
  BY <1>1 DEF Launch, MarkRunning, BuildPipeline, SetTotal, Report, OthersStay, TypeOK, Workers
<1>2. CASE Finish(j) \/ Raise(j) \/ MarkFailed(j) \/ MarkFailedRaises(j)
  BY <1>2 DEF Finish, Raise, MarkFailed, MarkFailedRaises, OthersStay, TypeOK, Workers
<1>3. CASE Select(j)
  BY <1>3 DEF Select, OthersStay, TypeOK, Workers
<1> QED
  BY <1>1, <1>2, <1>3 DEF JobStep

LEMMA AssessOthers ==
  ASSUME TypeOK, NEW w \in Workers, AssessStep(w)
  PROVE  OthersStay(w)
<1>1. CASE GetContext(w) \/ TopicGone(w) \/ AssessRaises(w)
  BY <1>1 DEF GetContext, TopicGone, AssessRaises, Settle, OthersStay, TypeOK
<1>2. CASE Insert(w) \/ InsertRefused(w)
  BY <1>2 DEF Insert, InsertRefused, Settle, OthersStay, TypeOK
<1>3. ASSUME NEW reply, CallSucceeds(w, reply) \/ CallFails(w, reply) \/ Fallback(w, reply)
      PROVE  OthersStay(w)
  BY <1>3 DEF CallSucceeds, CallFails, Fallback, Settle, OthersStay, TypeOK
<1> QED
  BY <1>1, <1>2, <1>3 DEF AssessStep

\* A worker nobody touches has what it had left.
LEMMA SameLeft ==
  ASSUME IndInv, SinglesAsk, NEW w \in Workers, pc'[w] = pc[w], task'[w] = task[w],
         w \in Jobs => row'[w] = row[w]
  PROVE  Left(w)' = Left(w)
<1>1. Ahead(w)' = Ahead(w)
  BY DEF Ahead, SinglesAsk, Workers
<1> QED
  BY <1>1 DEF Left

\* What a job's own steps take off.
LEMMA JobLessens ==
  ASSUME IndInv, NEW j \in Jobs, JobStep(j)
  PROVE  pc[j] # "none" /\ Left(j)' < Left(j)
<1> DEFINE n == Cardinality(task[j].todo)
           l == row[j].total
<1>1. /\ j \in Workers /\ task[j].todo \in SUBSET Topics /\ n \in Nat /\ l \in Nat
      /\ pc \in [Workers -> Pcs] /\ row \in [Jobs -> RowType] /\ task \in [Workers -> TaskType]
      /\ task[j].todo = {} => n = 0
  BY TopicSets DEF IndInv, TypeOK, TaskType, RowType, Workers
<1>2. CASE Launch(j)
  BY <1>1, <1>2 DEF Launch, Left, Ahead
<1>3. CASE MarkRunning(j)
  BY <1>1, <1>3 DEF MarkRunning, Left, Ahead, RowType
<1>4. CASE BuildPipeline(j)
  BY <1>1, <1>4 DEF BuildPipeline, Left, Ahead
<1>5. CASE Select(j)
  <2>1. PICK T \in SUBSET Topics : /\ Cardinality(T) <= l
                                   /\ task' = [task EXCEPT ![j].picked = T, ![j].todo = T]
    BY <1>5 DEF Select, Present
  <2>2. task'[j].todo = T
    BY <1>1, <2>1 DEF TaskType
  <2>3. Cardinality(T) \in Nat
    BY TopicSets
  <2>4. pc[j] = "built" /\ pc'[j] = "picked" /\ row' = row
    BY <1>1, <1>5 DEF Select
  <2> HIDE DEF l
  <2>5. Left(j) = 6 * l + 6
    BY <2>4 DEF Left, Ahead, l
  <2>6. Left(j)' = 6 * Cardinality(T) + 5
    BY <2>2, <2>4 DEF Left, Ahead
  <2> QED
    BY <1>1, <2>1, <2>3, <2>4, <2>5, <2>6
<1>6. CASE SetTotal(j)
  BY <1>1, <1>6 DEF SetTotal, Left, Ahead
<1>7. CASE Report(j)
  BY <1>1, <1>7 DEF Report, Left, Ahead
<1>8. CASE Finish(j)
  BY <1>1, <1>8 DEF Finish, Left, Ahead
<1>9. CASE Raise(j)
  BY <1>1, <1>9 DEF Raise, Left, Ahead
<1>10. CASE MarkFailed(j)
  BY <1>1, <1>10 DEF MarkFailed, Left, Ahead
<1>11. CASE MarkFailedRaises(j)
  BY <1>1, <1>11 DEF MarkFailedRaises, Left, Ahead
<1> QED
  BY <1>2, <1>3, <1>4, <1>5, <1>6, <1>7, <1>8, <1>9, <1>10, <1>11 DEF JobStep

\* A worker done with a topic has six steps less ahead, and answers or reports.
LEMMA SettlesLessens ==
  ASSUME IndInv, NEW w \in Workers, NEW t \in task[w].todo,
         pc[w] \in {"loop", "call", "insert"},
         task'[w].todo = task[w].todo \ {t}, pc'[w] \in {"report", "done"}
  PROVE  Left(w)' < Left(w)
<1> DEFINE n == Cardinality(task[w].todo)
<1>1. task[w].todo \in SUBSET Topics /\ task[w].calls \in 0..2
  BY DEF IndInv, TypeOK, TaskType
<1>2. n \in Nat /\ Cardinality(task'[w].todo) = n - 1 /\ Cardinality(task'[w].todo) \in Nat
  BY <1>1, TopicSets
<1>3. Left(w) \in {6 * n + 1, 6 * n + 3 - task[w].calls, 6 * n + 4}
  BY DEF Left, Ahead
<1>4. Left(w)' \in {0, 6 * Cardinality(task'[w].todo) + 5}
  BY DEF Left, Ahead
<1> HIDE DEF n
<1> QED
  BY <1>1, <1>2, <1>3, <1>4

LEMMA AssessLessens ==
  ASSUME IndInv, NEW w \in Workers, AssessStep(w)
  PROVE  pc[w] # "none" /\ Left(w)' < Left(w)
<1> DEFINE n == Cardinality(task[w].todo)
<1>1. /\ task[w].todo \in SUBSET Topics /\ n \in Nat /\ task[w].calls \in 0..2
      /\ pc \in [Workers -> Pcs] /\ task \in [Workers -> TaskType]
      /\ pc[w] \in {"call", "insert"} => task[w].topic \in task[w].todo
  BY TopicSets DEF IndInv, TypeOK, TaskType, WorkerOK
<1>2. CASE GetContext(w)
  <2>1. pc[w] = "loop" /\ pc'[w] = "call"
    BY <1>1, <1>2 DEF GetContext
  <2>2. task'[w].todo = task[w].todo /\ task'[w].calls = 0
    BY <1>1, <1>2 DEF GetContext, TaskType
  <2> QED
    BY <1>1, <2>1, <2>2 DEF Left, Ahead
<1>3. CASE TopicGone(w)
  <2>1. PICK t \in task[w].todo : task'[w].todo = task[w].todo \ {t}
    BY <1>1, <1>3 DEF TopicGone, TaskType
  <2>2. pc[w] = "loop" /\ pc'[w] \in {"report", "done"}
    BY <1>1, <1>3 DEF TopicGone
  <2> QED
    BY <2>1, <2>2, SettlesLessens
<1>4. CASE AssessRaises(w)
  <2>2. pc[w] \in {"loop", "insert"} /\ pc'[w] \in {"report", "done"}
    BY <1>1, <1>4 DEF AssessRaises, Settle
  <2>1. CASE pc[w] = "insert"
    <3>1. task'[w].todo = task[w].todo \ {task[w].topic}
      BY <1>1, <1>4, <2>1 DEF AssessRaises, Settle, TaskType
    <3> QED
      BY <1>1, <2>1, <2>2, <3>1, SettlesLessens
  <2>3. CASE pc[w] = "loop"
    <3>1. PICK t \in task[w].todo :
             task' = [task EXCEPT ![w].topic = t, ![w].todo = @ \ {t},
                                  ![w].completed = @ + 1, ![w].failed = @ + 1,
                                  ![w].errors = @ \union {t}]
      BY <1>4, <2>3 DEF AssessRaises
    <3>2. task'[w].todo = task[w].todo \ {t}
      BY <1>1, <3>1 DEF TaskType
    <3> QED
      BY <2>2, <2>3, <3>2, SettlesLessens
  <2> QED
    BY <2>1, <2>2, <2>3
<1>5. CASE Insert(w) \/ InsertRefused(w)
  <2>1. task'[w].todo = task[w].todo \ {task[w].topic}
    BY <1>1, <1>5 DEF Insert, InsertRefused, Settle, TaskType
  <2>2. pc[w] = "insert" /\ pc'[w] \in {"report", "done"}
    BY <1>1, <1>5 DEF Insert, InsertRefused, Settle
  <2> QED
    BY <1>1, <2>1, <2>2, SettlesLessens
<1>6. ASSUME NEW reply, CallSucceeds(w, reply) PROVE pc[w] # "none" /\ Left(w)' < Left(w)
  <2>1. pc[w] = "call" /\ pc'[w] = "insert" /\ task[w].calls \in {0, 1}
    BY <1>1, <1>6 DEF CallSucceeds, IndInv, WorkerOK
  <2>2. task'[w].todo = task[w].todo
    BY <1>1, <1>6 DEF CallSucceeds, TaskType
  <2> QED
    BY <1>1, <2>1, <2>2 DEF Left, Ahead
<1>7. ASSUME NEW reply, CallFails(w, reply) PROVE pc[w] # "none" /\ Left(w)' < Left(w)
  <2>1. pc[w] = "call" /\ pc'[w] = "call" /\ task[w].calls = 0
    BY <1>1, <1>7 DEF CallFails
  <2>2. task'[w].todo = task[w].todo /\ task'[w].calls = 1
    BY <1>1, <1>7 DEF CallFails, TaskType
  <2> QED
    BY <1>1, <2>1, <2>2 DEF Left, Ahead
<1>8. ASSUME NEW reply, Fallback(w, reply) PROVE pc[w] # "none" /\ Left(w)' < Left(w)
  <2>1. pc[w] = "call" /\ task[w].calls = 1
    BY <1>8 DEF Fallback
  <2>2. CASE Settle(w, 1)
    <3>1. task'[w].todo = task[w].todo \ {task[w].topic} /\ pc'[w] \in {"report", "done"}
      BY <1>1, <2>2 DEF Settle, TaskType
    <3> QED
      BY <1>1, <2>1, <3>1, SettlesLessens
  <2>3. CASE ~Settle(w, 1)
    <3>1. task'[w].todo = task[w].todo /\ pc'[w] = "insert"
      BY <1>1, <1>8, <2>3 DEF Fallback, TaskType
    <3> QED
      BY <1>1, <2>1, <3>1 DEF Left, Ahead
  <2> QED
    BY <2>2, <2>3
<1> QED
  BY <1>2, <1>3, <1>4, <1>5, <1>6, <1>7, <1>8 DEF AssessStep

LEMMA LeftNat ==
  ASSUME IndInv, SinglesAsk, NEW w \in Workers
  PROVE  Left(w) \in Nat
<1>1. /\ task[w].todo \in SUBSET Topics /\ Cardinality(task[w].todo) \in Nat
      /\ task[w].calls \in 0..2 /\ pc[w] \in Pcs
  BY TopicSets DEF IndInv, TypeOK, TaskType
<1>2. w \in Jobs => row[w].total \in Nat
  BY DEF IndInv, TypeOK, RowType
<1>3. Ahead(w) \in Nat
  BY <1>1, <1>2 DEF Ahead, SinglesAsk, Workers
<1> QED
  BY <1>1, <1>3 DEF Left, Pcs

LEMMA SinglesAskStep ==
  ASSUME IndInv, SinglesAsk, [Next]_vars
  PROVE  SinglesAsk'
<1>0. /\ pc \in [Workers -> Pcs] /\ \A s \in Singles : s \in Workers /\ s \notin Jobs
  BY WorkersAssumption DEF IndInv, TypeOK, Workers
<1>1. ASSUME NEW j \in Jobs, JobStep(j) PROVE SinglesAsk'
  BY <1>0, <1>1, JobOthers DEF OthersStay, SinglesAsk, IndInv
<1>2. ASSUME NEW w \in Workers, AssessStep(w) PROVE SinglesAsk'
  <2>1. w \notin Jobs => pc'[w] \in {"call", "insert", "done"}
    BY <1>0, <1>2 DEF AssessStep, GetContext, TopicGone, CallSucceeds, CallFails, Fallback,
                      Insert, InsertRefused, AssessRaises, Settle
  <2> QED
    BY <1>0, <1>2, <2>1, AssessOthers DEF OthersStay, SinglesAsk, IndInv
<1>3. ASSUME NEW j \in Jobs, NEW f, NEW limit, PostJob(j, f, limit) PROVE SinglesAsk'
  BY <1>0, <1>3 DEF PostJob, SinglesAsk
<1>4. ASSUME NEW s \in Singles, NEW t, NEW f, RequestSingle(s, t, f) PROVE SinglesAsk'
  BY <1>0, <1>4 DEF RequestSingle, SinglesAsk
<1>5. CASE Crash
  BY <1>0, <1>5 DEF Crash, SinglesAsk
<1>6. ASSUME UNCHANGED pc PROVE SinglesAsk'
  BY <1>6 DEF SinglesAsk
<1>7. ASSUME NEW t, Arrive(t) \/ Delete(t) PROVE UNCHANGED pc
  BY <1>7 DEF Arrive, Delete
<1>8. ASSUME NEW m, Configure(m) PROVE UNCHANGED pc
  BY <1>8 DEF Configure
<1>9. CASE UNCHANGED vars
  BY <1>6, <1>9 DEF vars
<1> QED
  BY <1>1, <1>2, <1>3, <1>4, <1>5, <1>6, <1>7, <1>8, <1>9 DEF Next

\* A worker that is not at its end has something left.
LEMMA LeftSome ==
  ASSUME IndInv, SinglesAsk, NEW w \in Workers, pc[w] \notin {"none", "done", "dead"}
  PROVE  Left(w) >= 1
<1>1. /\ task[w].todo \in SUBSET Topics /\ Cardinality(task[w].todo) \in Nat
      /\ task[w].calls \in 0..2 /\ pc[w] \in Pcs
  BY TopicSets DEF IndInv, TypeOK, TaskType
<1>2. w \in Jobs => row[w].total \in Nat
  BY DEF IndInv, TypeOK, RowType
<1>3. Ahead(w) \in Nat
  BY <1>1, <1>2 DEF Ahead, SinglesAsk, Workers
<1> QED
  BY <1>1, <1>3 DEF Left, Pcs

LEMMA CrashLessens ==
  ASSUME IndInv, SinglesAsk, Crash, NEW w \in Workers
  PROVE  Lessens(w)
<1>1. /\ pc'[w] = IF pc[w] \in {"none", "done"} THEN pc[w] ELSE "dead"
      /\ task' = task /\ row' = row
  BY DEF Crash
<1>2. CASE pc'[w] = pc[w]
  BY <1>1, <1>2, SameLeft DEF Lessens
<1>3. CASE pc'[w] # pc[w]
  <2>1. pc'[w] = "dead" /\ pc[w] \notin {"none", "done", "dead"}
    BY <1>1, <1>3
  <2>2. Left(w) >= 1 /\ Left(w)' = 0 /\ Left(w) \in Nat
    BY <2>1, LeftSome, LeftNat DEF Left
  <2> QED
    BY <1>3, <2>2 DEF Lessens
<1> QED
  BY <1>2, <1>3

LEMMA LessensStep ==
  ASSUME IndInv, SinglesAsk, [Next]_vars, NEW w \in Workers
  PROVE  Lessens(w)
<1>1. ASSUME NEW v \in Workers, OthersStay(v), v # w PROVE Lessens(w)
  BY <1>1, SameLeft DEF OthersStay, Lessens
<1>2. TypeOK /\ pc \in [Workers -> Pcs] /\ task \in [Workers -> TaskType] /\ w \in Workers
  BY DEF IndInv, TypeOK
<1>3. ASSUME NEW j \in Jobs, JobStep(j) PROVE Lessens(w)
  <2>1. OthersStay(j) /\ j \in Workers
    BY <1>2, <1>3, JobOthers DEF Workers
  <2>2. Left(j)' < Left(j)
    BY <1>3, JobLessens
  <2>3. pc'[j] # pc[j]
    BY <1>2, <1>3, <2>1 DEF JobStep, Launch, MarkRunning, BuildPipeline, Select, SetTotal,
                            Report, Finish, Raise, MarkFailed, MarkFailedRaises
  <2>4. CASE j = w
    BY <2>2, <2>3, <2>4 DEF Lessens
  <2> QED
    BY <1>1, <2>1, <2>4
<1>4. ASSUME NEW v \in Workers, AssessStep(v) PROVE Lessens(w)
  <2>1. OthersStay(v) /\ Left(v)' < Left(v)
    BY <1>2, <1>4, AssessOthers, AssessLessens
  <2>2. row' = row
    BY <1>4 DEF AssessStep, GetContext, TopicGone, CallSucceeds, CallFails, Fallback,
                Insert, InsertRefused, AssessRaises
  <2>3. CASE v = w
    <3>1. Left(w) \in Nat
      BY LeftNat
    <3>2. ~(pc'[w] = pc[w] /\ task'[w] = task[w])
      BY <2>1, <2>2, <2>3, <3>1, SameLeft
    <3> QED
      BY <2>1, <2>3, <3>2 DEF Lessens
  <2> QED
    BY <1>1, <2>1, <2>3
<1>5. ASSUME NEW j \in Jobs, NEW f, NEW limit, PostJob(j, f, limit) PROVE Lessens(w)
  <2>1. OthersStay(j) /\ pc[j] = "none" /\ j \in Workers
    BY <1>2, <1>5 DEF PostJob, OthersStay, TypeOK, Workers
  <2> QED
    BY <1>1, <2>1 DEF Lessens
<1>6. ASSUME NEW s \in Singles, NEW t, NEW f, RequestSingle(s, t, f) PROVE Lessens(w)
  <2>1. OthersStay(s) /\ pc[s] = "none" /\ s \in Workers
    BY <1>2, <1>6 DEF RequestSingle, OthersStay, Workers
  <2> QED
    BY <1>1, <2>1 DEF Lessens
<1>7. ASSUME UNCHANGED <<pc, task, row>> PROVE Lessens(w)
  BY <1>7, SameLeft DEF Lessens
<1>8. ASSUME NEW t, Arrive(t) \/ Delete(t) PROVE Lessens(w)
  BY <1>7, <1>8 DEF Arrive, Delete
<1>9. ASSUME NEW m, Configure(m) PROVE Lessens(w)
  BY <1>7, <1>9 DEF Configure
<1>10. CASE UNCHANGED vars
  BY <1>7, <1>10 DEF vars
<1> QED
  BY <1>3, <1>4, <1>5, <1>6, <1>8, <1>9, <1>10, CrashLessens DEF Next

\* What a job does is bounded, whatever model calls, failures and other jobs do:
\* every step of a worker takes it nearer to its end, nothing takes it back, and
\* a job posted with a limit makes at most 6 * limit + 9 steps.  So a job that
\* never ends is one whose task nothing runs any more.
THEOREM WorkersLessen == Spec => WorkLessens
<1>1. Init => SinglesAsk
  BY DEF Init, SinglesAsk, Workers
<1>2. IndInv /\ SinglesAsk /\ [Next]_vars =>
        SinglesAsk' /\ \A w \in Workers : Left(w) \in Nat /\ Lessens(w)
  BY SinglesAskStep, LeftNat, LessensStep
<1>3. (\A w \in Workers : Left(w) \in Nat /\ Lessens(w)) =>
        [\A w \in Workers : Left(w) \in Nat /\ Lessens(w)]_vars
  OBVIOUS
<1> QED
  BY <1>1, <1>2, <1>3, IndAlways, PTL DEF Spec, WorkLessens

=============================================================================
