-------------------------- MODULE CrawlIngestProofs --------------------------
(***************************************************************************)
(* Theorems about CrawlIngest, for any number of runs, sources and titles, *)
(* every similarity and every combination of faults.                       *)
(***************************************************************************)
EXTENDS CrawlIngest, FiniteSetTheorems, TLAPS

RunShape == [pc : {"idle", "loop", "apply", "done", "failed"},
             todo : SUBSET Sources, source : SUBSET Sources,
             items : Seq(Titles), at : Nat, match : Nat, touched : SUBSET Nat,
             fetched : Nat, inserted : Nat, updated : Nat, skipped : Nat,
             errors : Nat]

TopicShape == [title : Titles, count : Nat \ {0}, last : Nat]

\* What a run holds lies in the past, and it looks at an item while it applies
\* one.
RunOK(R, now) ==
    /\ R.match \in 0..now
    /\ R.touched \subseteq 1..now
    /\ R.pc = "apply" => R.items # <<>>
    /\ R.items # <<>> => R.at \in 1..now

TypeInv ==
    /\ clock \in Nat
    /\ topics \in [DOMAIN topics -> TopicShape]
    /\ \A t \in DOMAIN topics : t \in 1..clock /\ topics[t].last \in 1..clock
    /\ \A o \in obs : o.topic \in DOMAIN topics /\ o.at \in 1..clock
    /\ run \in [Runs -> RunShape]
    /\ \A r \in Runs : RunOK(run[r], clock)
    /\ sweep \in [pc : {"idle", "swept", "scanned"}, doomed : SUBSET Nat]

\* What may happen stays what it was.
SettingOK == setting.sources \subseteq Sources /\ setting.feeds \subseteq Feeds

LEMMA SettingAlways == Spec => []SettingOK
<1>1. Init => SettingOK
  BY SettingsAssumption DEF Init, SettingOK
<1>2. SettingOK /\ [Next]_vars => SettingOK'
  BY DEF SettingOK, Next, vars
<1> QED
  BY <1>1, <1>2, PTL DEF Spec

LEMMA TypeInvTypes == TypeInv => TypeOK
  BY DEF TypeInv, TypeOK, RunShape, TopicShape, RunOK

LEMMA TypeInit == Init => TypeInv
<1> SUFFICES ASSUME Init PROVE TypeInv
  OBVIOUS
<1>1. DOMAIN topics = {}
  BY DEF Init
<1>2. topics \in [DOMAIN topics -> TopicShape]
  BY <1>1 DEF Init
<1>3. Idle \in RunShape
  BY DEF Idle, RunShape, NoTopic
<1>4. run \in [Runs -> RunShape]
  BY <1>3 DEF Init
<1>5. \A r \in Runs : run[r] = Idle
  BY DEF Init
<1>6. \A r \in Runs : RunOK(run[r], clock)
  BY <1>5 DEF RunOK, Idle, Init, NoTopic
<1> QED
  BY <1>1, <1>2, <1>4, <1>6 DEF Init, TypeInv

\* A step of one run, as far as the runs' state is concerned.
LEMMA RunMoves ==
  ASSUME TypeInv, NEW r \in Runs, NEW R \in RunShape,
         run' = [run EXCEPT ![r] = R],
         clock' \in Nat, clock <= clock', RunOK(R, clock')
  PROVE  /\ run' \in [Runs -> RunShape]
         /\ \A q \in Runs : RunOK(run'[q], clock')
<1>1. run \in [Runs -> RunShape] /\ \A q \in Runs : RunOK(run[q], clock)
  BY DEF TypeInv
<1>2. run' \in [Runs -> RunShape]
  BY <1>1
<1>3. run'[r] = R
  BY <1>1
<1>4. ASSUME NEW q \in Runs, q # r PROVE RunOK(run'[q], clock')
  <2>1. run'[q] = run[q] /\ RunOK(run[q], clock) /\ clock \in Nat
    BY <1>1, <1>4 DEF TypeInv
  <2>2. 0..clock \subseteq 0..clock' /\ 1..clock \subseteq 1..clock'
    BY <2>1
  <2> QED
    BY <2>1, <2>2 DEF RunOK
<1> QED
  BY <1>2, <1>3, <1>4

\* What the steps make of a run's fields.
LEMMA RunFields ==
  ASSUME NEW R \in RunShape
  PROVE  /\ R.fetched + 1 \in Nat /\ R.inserted + 1 \in Nat
         /\ R.updated + 1 \in Nat /\ R.skipped + 1 \in Nat
         /\ R.errors + 1 \in Nat
         /\ \A n \in Nat : R.fetched + n \in Nat
         /\ \A s : R.todo \ {s} \in SUBSET Sources
         /\ \A n \in Nat : R.touched \union {n} \in SUBSET Nat
         /\ R.items \in Seq(Titles)
         /\ R.items # <<>> => Tail(R.items) \in Seq(Titles) /\ Head(R.items) \in Titles
         /\ R.pc \in {"idle", "loop", "apply", "done", "failed"}
  BY DEF RunShape

LEMMA TypeRead ==
  ASSUME TypeInv, SettingOK, NEW r \in Runs,
         Start(r) \/ Fetch(r) \/ FetchFails(r) \/ Find(r)
         \/ SkipWithinRun(r) \/ Persist(r) \/ RepoFails(r)
  PROVE  TypeInv'
<1> DEFINE R == run[r]
<1>0. R \in RunShape /\ clock \in Nat /\ RunOK(R, clock)
  BY DEF TypeInv
<1>a. clock' \in Nat /\ clock <= clock' /\ UNCHANGED <<topics, obs, sweep>>
  <2>1. CASE Fetch(r)
    <3>1. clock' = clock + 1 /\ UNCHANGED <<topics, obs, sweep>>
      BY <2>1 DEF Fetch
    <3> QED
      BY <1>0, <3>1
  <2>2. CASE ~Fetch(r)
    <3>1. UNCHANGED <<clock, topics, obs, sweep>>
      BY <2>2 DEF Start, FetchFails, Find, SkipWithinRun, Persist, RepoFails
    <3> QED
      BY <1>0, <3>1
  <2> QED
    BY <2>1, <2>2
<1>b. SUFFICES \E X \in RunShape :
                  run' = [run EXCEPT ![r] = X] /\ RunOK(X, clock')
  <2>1. ASSUME NEW X \in RunShape, run' = [run EXCEPT ![r] = X], RunOK(X, clock')
        PROVE  TypeInv'
    <3>1. /\ run' \in [Runs -> RunShape]
          /\ \A q \in Runs : RunOK(run'[q], clock')
      BY <1>a, <2>1, RunMoves
    <3> QED
      BY <1>a, <3>1 DEF TypeInv
  <2> QED
    BY <2>1
<1>1. CASE Start(r)
  <2> DEFINE X == [R EXCEPT !.pc = "loop", !.todo = setting.sources]
  <2>1. X \in RunShape
    BY <1>0 DEF RunShape, SettingOK
  <2>2. R.pc = "idle" /\ clock' = clock /\ run' = [run EXCEPT ![r] = X]
    BY <1>1 DEF Start
  <2>3. RunOK(X, clock')
    BY <1>0, <2>2 DEF RunOK, RunShape
  <2> QED
    BY <2>1, <2>2, <2>3
<1>2. CASE Fetch(r)
  <2>1. PICK s \in R.todo, feed \in setting.feeds :
          run' = [run EXCEPT ![r] =
                    [R EXCEPT !.todo = @ \ {s}, !.source = {s}, !.items = feed,
                              !.at = clock', !.fetched = @ + Len(feed)]]
    BY <1>2 DEF Fetch
  <2> DEFINE X == [R EXCEPT !.todo = @ \ {s}, !.source = {s}, !.items = feed,
                            !.at = clock', !.fetched = @ + Len(feed)]
  <2>2. feed \in Seq(Titles) /\ Len(feed) \in Nat
    BY FeedsAssumption DEF SettingOK
  <2>a. clock' = clock + 1 /\ R.pc = "loop"
    BY <1>2 DEF Fetch
  <2>3. clock' = clock + 1 /\ clock' \in Nat /\ R.pc = "loop"
    BY <1>0, <2>a
  <2>4. s \in Sources /\ R.todo \ {s} \in SUBSET Sources /\ R.fetched + Len(feed) \in Nat
    BY <1>0, <2>2, RunFields DEF RunShape
  <2>5. X \in RunShape
    BY <1>0, <2>2, <2>3, <2>4 DEF RunShape
  <2>6. X.pc = "loop" /\ X.match = R.match /\ X.touched = R.touched /\ X.at = clock'
    BY <1>0, <2>3 DEF RunShape
  <2>7. 0..clock \subseteq 0..clock' /\ 1..clock \subseteq 1..clock' /\ clock' \in 1..clock'
    BY <1>0, <2>3
  <2>8. RunOK(X, clock')
    BY <1>0, <2>6, <2>7 DEF RunOK
  <2> QED
    BY <2>1, <2>5, <2>8
<1>3. CASE FetchFails(r)
  <2>1. PICK s \in R.todo :
          run' = [run EXCEPT ![r] = [R EXCEPT !.todo = @ \ {s}, !.errors = @ + 1]]
    BY <1>3 DEF FetchFails
  <2> DEFINE X == [R EXCEPT !.todo = @ \ {s}, !.errors = @ + 1]
  <2>2. R.todo \ {s} \in SUBSET Sources /\ R.errors + 1 \in Nat
    BY <1>0, RunFields
  <2>3. X \in RunShape
    BY <1>0, <2>2 DEF RunShape
  <2>4. clock' = clock
    BY <1>3 DEF FetchFails
  <2>5. RunOK(X, clock')
    BY <1>0, <2>4 DEF RunOK, RunShape
  <2> QED
    BY <2>1, <2>3, <2>5
<1>4. CASE Find(r)
  <2>1. PICK W \in Windows : \E m \in Matches(Head(R.items), W) :
          run' = [run EXCEPT ![r] = [R EXCEPT !.match = m, !.pc = "apply"]]
    BY <1>4 DEF Find
  <2>2. PICK m \in Matches(Head(R.items), W) :
          run' = [run EXCEPT ![r] = [R EXCEPT !.match = m, !.pc = "apply"]]
    BY <2>1
  <2> DEFINE X == [R EXCEPT !.match = m, !.pc = "apply"]
  <2>3. m \in {NoTopic} \union DOMAIN topics
    BY <2>1, <2>2 DEF Matches, Windows
  <2>4. m \in 0..clock /\ m \in Nat
    BY <2>3 DEF NoTopic, TypeInv
  <2>5. X \in RunShape
    BY <1>0, <2>4 DEF RunShape
  <2>6. clock' = clock /\ R.items # <<>>
    BY <1>4 DEF Find
  <2>7. RunOK(X, clock')
    BY <1>0, <2>4, <2>6 DEF RunOK, RunShape
  <2> QED
    BY <2>2, <2>5, <2>7
<1>5. CASE SkipWithinRun(r)
  <2> DEFINE X == [R EXCEPT !.pc = "loop", !.items = Tail(@), !.skipped = @ + 1]
  <2>1. R.pc = "apply" /\ clock' = clock /\ run' = [run EXCEPT ![r] = X]
    BY <1>5 DEF SkipWithinRun
  <2>2. R.items # <<>> /\ R.at \in 1..clock
    BY <1>0, <2>1 DEF RunOK
  <2>3. Tail(R.items) \in Seq(Titles) /\ R.skipped + 1 \in Nat
    BY <1>0, <2>2, RunFields
  <2>4. X \in RunShape
    BY <1>0, <2>3 DEF RunShape
  <2>5. X.pc = "loop" /\ X.match = R.match /\ X.touched = R.touched /\ X.at = R.at
    BY <1>0 DEF RunShape
  <2>6. RunOK(X, clock')
    BY <1>0, <2>1, <2>2, <2>5 DEF RunOK
  <2> QED
    BY <2>1, <2>4, <2>6
<1>6. CASE Persist(r)
  <2> DEFINE X == [R EXCEPT !.pc = "done"]
  <2>1. X \in RunShape
    BY <1>0 DEF RunShape
  <2>2. clock' = clock /\ run' = [run EXCEPT ![r] = X]
    BY <1>6 DEF Persist
  <2>3. RunOK(X, clock')
    BY <1>0, <2>2 DEF RunOK, RunShape
  <2> QED
    BY <2>1, <2>2, <2>3
<1>7. CASE RepoFails(r)
  <2> DEFINE X == [R EXCEPT !.pc = "failed"]
  <2>1. X \in RunShape
    BY <1>0 DEF RunShape
  <2>2. clock' = clock /\ run' = [run EXCEPT ![r] = X]
    BY <1>7 DEF RepoFails
  <2>3. RunOK(X, clock')
    BY <1>0, <2>2 DEF RunOK, RunShape
  <2> QED
    BY <2>1, <2>2, <2>3
<1> QED
  BY <1>1, <1>2, <1>3, <1>4, <1>5, <1>6, <1>7

LEMMA TypeUpdate ==
  ASSUME TypeInv, NEW r \in Runs, Update(r)
  PROVE  TypeInv'
<1> DEFINE R == run[r]
           X == [R EXCEPT !.pc = "loop", !.items = Tail(@),
                          !.touched = @ \union {R.match}, !.updated = @ + 1]
<1>0. R \in RunShape /\ clock \in Nat /\ RunOK(R, clock)
  BY DEF TypeInv
<1>1. /\ R.pc = "apply" /\ R.match # 0 /\ clock' = clock
      /\ run' = [run EXCEPT ![r] = X]
  BY DEF Update, NoTopic
<1>2. R.items # <<>> /\ R.at \in 1..clock /\ R.match \in 1..clock
  BY <1>0, <1>1 DEF RunOK
<1>3. R.match \in Nat /\ R.touched \union {R.match} \subseteq 1..clock
  BY <1>0, <1>2 DEF RunOK
<1>4. /\ Tail(R.items) \in Seq(Titles) /\ R.updated + 1 \in Nat
      /\ R.touched \union {R.match} \in SUBSET Nat
  BY <1>0, <1>2, <1>3, RunFields
<1>5. X \in RunShape
  BY <1>0, <1>4 DEF RunShape
<1>6. /\ X.pc = "loop" /\ X.match = R.match /\ X.at = R.at
      /\ X.touched = R.touched \union {R.match}
  BY <1>0 DEF RunShape
<1>7. RunOK(X, clock')
  BY <1>0, <1>1, <1>2, <1>3, <1>6 DEF RunOK
<1>8. /\ run' \in [Runs -> RunShape]
      /\ \A q \in Runs : RunOK(run'[q], clock')
  <2>1. clock' \in Nat /\ clock <= clock'
    BY <1>0, <1>1
  <2> QED
    BY <1>1, <1>5, <1>7, <2>1, RunMoves
<1>9. CASE R.match \in DOMAIN topics
  <2> DEFINE t == topics[R.match]
             u == [t EXCEPT !.count = @ + 1, !.last = R.at]
  <2>1. topics' = [topics EXCEPT ![R.match] = u]
    BY <1>9 DEF Update
  <2>a. t \in TopicShape /\ R.at \in Nat
    BY <1>0, <1>9 DEF TypeInv, RunShape
  <2>b. t.count + 1 \in Nat \ {0} /\ t.last \in Nat /\ t.title \in Titles
    BY <2>a DEF TopicShape
  <2>2. u \in TopicShape /\ u.last \in 1..clock
    BY <1>2, <2>a, <2>b DEF TopicShape
  <2>3. topics' \in [DOMAIN topics' -> TopicShape] /\ DOMAIN topics' = DOMAIN topics
    BY <2>1, <2>2 DEF TypeInv
  <2>4. \A i \in DOMAIN topics' : i \in 1..clock /\ topics'[i].last \in 1..clock
    BY <2>1, <2>2, <2>3 DEF TypeInv
  <2>5. \A o \in obs' : o.topic \in DOMAIN topics' /\ o.at \in 1..clock
    BY <1>2, <1>9, <2>3 DEF Update, Observation, TypeInv
  <2>6. UNCHANGED sweep
    BY DEF Update
  <2> QED
    BY <1>0, <1>1, <1>8, <2>3, <2>4, <2>5, <2>6 DEF TypeInv
<1>10. CASE R.match \notin DOMAIN topics
  <2>1. UNCHANGED <<topics, obs, sweep>>
    BY <1>10 DEF Update
  <2> QED
    BY <1>1, <1>8, <2>1 DEF TypeInv
<1> QED
  BY <1>9, <1>10

LEMMA TypeInsert ==
  ASSUME TypeInv, NEW r \in Runs, Insert(r)
  PROVE  TypeInv'
<1> DEFINE R == run[r]
           X == [R EXCEPT !.pc = "loop", !.items = Tail(@),
                          !.touched = @ \union {clock'}, !.inserted = @ + 1]
<1>0. R \in RunShape /\ clock \in Nat /\ RunOK(R, clock)
  BY DEF TypeInv
<1>1. /\ R.pc = "apply" /\ clock' = clock + 1
      /\ run' = [run EXCEPT ![r] = X]
  BY DEF Insert
<1>2. R.items # <<>> /\ R.at \in 1..clock'
  BY <1>0, <1>1 DEF RunOK
<1>3. clock' \in Nat /\ clock' \in 1..clock' /\ 1..clock \subseteq 1..clock'
      /\ 0..clock \subseteq 0..clock' /\ clock <= clock'
  BY <1>0, <1>1
<1>4. /\ Tail(R.items) \in Seq(Titles) /\ R.inserted + 1 \in Nat
      /\ R.touched \union {clock'} \in SUBSET Nat
      /\ Head(R.items) \in Titles
  BY <1>0, <1>2, <1>3, RunFields
<1>5. X \in RunShape
  BY <1>0, <1>4 DEF RunShape
<1>6. /\ X.pc = "loop" /\ X.match = R.match /\ X.at = R.at
      /\ X.touched = R.touched \union {clock'}
  BY <1>0 DEF RunShape
<1>7. RunOK(X, clock')
  BY <1>0, <1>2, <1>3, <1>6 DEF RunOK
<1>8. /\ run' \in [Runs -> RunShape]
      /\ \A q \in Runs : RunOK(run'[q], clock')
  BY <1>1, <1>3, <1>5, <1>7, RunMoves
<1> DEFINE u == [title |-> Head(R.items), count |-> 1, last |-> clock']
<1>9. topics' = [t \in DOMAIN topics \union {clock'} |->
                    IF t = clock' THEN u ELSE topics[t]]
  BY DEF Insert
<1>10. DOMAIN topics' = DOMAIN topics \union {clock'}
  BY <1>9
<1>11. u \in TopicShape
  BY <1>3, <1>4 DEF TopicShape
<1>12. topics' \in [DOMAIN topics' -> TopicShape]
  BY <1>9, <1>10, <1>11 DEF TypeInv
<1>s. \A t \in DOMAIN topics' : t \in 1..clock' /\ topics'[t].last \in 1..clock'
  BY <1>3, <1>9, <1>10 DEF TypeInv
<1>14. obs' = obs \union {[topic |-> clock', source |-> R.source, at |-> R.at]}
       /\ UNCHANGED sweep
  BY DEF Insert, Observation
<1>15. \A o \in obs' : o.topic \in DOMAIN topics' /\ o.at \in 1..clock'
  BY <1>2, <1>3, <1>10, <1>14 DEF TypeInv
<1> QED
  BY <1>3, <1>8, <1>12, <1>s, <1>14, <1>15 DEF TypeInv

LEMMA TypeDelete ==
  ASSUME TypeInv, NEW D \in SUBSET Nat, DeleteTopics(D)
  PROVE  /\ DOMAIN topics' = DOMAIN topics \ D
         /\ \A t \in DOMAIN topics' : topics'[t] = topics[t]
         /\ topics' \in [DOMAIN topics' -> TopicShape]
         /\ obs' \subseteq obs
         /\ \A o \in obs' : o.topic \in DOMAIN topics'
  BY DEF TypeInv, DeleteTopics

LEMMA TypeCleanUp ==
  ASSUME TypeInv, CleanUp
  PROVE  TypeInv'
<1> USE DEF TypeInv
<1>1. ASSUME NEW s \in Sources, NEW cutoff \in 1..clock + 1, SweepSource(s, cutoff)
      PROVE TypeInv'
  BY <1>1 DEF SweepSource
<1>2. CASE SweepOrphans
  BY <1>2 DEF SweepOrphans
<1>3. CASE ScanOrphans
  <2>1. DOMAIN topics \subseteq Nat
    OBVIOUS
  <2> QED
    BY <1>3, <2>1 DEF ScanOrphans
<1>4. CASE DeleteOrphans
  BY <1>4, TypeDelete DEF DeleteOrphans
<1>5. ASSUME NEW cutoff \in 1..clock + 1, PurgeOld(cutoff) PROVE TypeInv'
  <2>1. {t \in DOMAIN topics : topics[t].last < cutoff} \subseteq Nat
    OBVIOUS
  <2> QED
    BY <1>5, <2>1, TypeDelete DEF PurgeOld
<1> QED
  BY <1>1, <1>2, <1>3, <1>4, <1>5 DEF CleanUp

LEMMA TypeStep == TypeInv /\ SettingOK /\ [Next]_vars => TypeInv'
<1> SUFFICES ASSUME TypeInv, SettingOK, [Next]_vars PROVE TypeInv'
  OBVIOUS
<1>1. CASE UNCHANGED vars
  BY <1>1 DEF vars, TypeInv
<1> QED
  BY <1>1, TypeRead, TypeUpdate, TypeInsert, TypeCleanUp DEF Next, Step

LEMMA TypeAlways == Spec => []TypeInv
  BY TypeInit, TypeStep, SettingAlways, PTL DEF Spec

\* Every observation has its topic and nothing is dated in the future,
\* whatever runs, failures and clean-ups interleave.
THEOREM TypeCorrect == Spec => []TypeOK
  BY TypeAlways, TypeInvTypes, PTL

-----------------------------------------------------------------------------
(* observation_count                                                       *)

SeenBy(f, t) == {r \in Runs : t \in f[r].touched}

\* A step that changes no touched set.
TouchedKept == \A r \in Runs : run'[r].touched = run[r].touched

LEMMA ReadsTouchNothing ==
  ASSUME TypeInv, NEW r \in Runs,
         Start(r) \/ Fetch(r) \/ FetchFails(r) \/ Find(r)
         \/ SkipWithinRun(r) \/ Persist(r) \/ RepoFails(r)
  PROVE  TouchedKept /\ UNCHANGED topics
<1>0. run \in [Runs -> RunShape]
  BY DEF TypeInv
<1>1. CASE Start(r)
  BY <1>0, <1>1 DEF Start, TouchedKept, RunShape
<1>2. CASE Fetch(r)
  <2>1. PICK s \in run[r].todo, feed \in setting.feeds :
          run' = [run EXCEPT ![r] =
                    [run[r] EXCEPT !.todo = @ \ {s}, !.source = {s}, !.items = feed,
                                   !.at = clock', !.fetched = @ + Len(feed)]]
    BY <1>2 DEF Fetch
  <2>2. TouchedKept
    BY <1>0, <2>1 DEF TouchedKept, RunShape
  <2> QED
    BY <1>2, <2>2 DEF Fetch
<1>3. CASE FetchFails(r)
  <2>1. PICK s \in run[r].todo :
          run' = [run EXCEPT ![r] = [run[r] EXCEPT !.todo = @ \ {s}, !.errors = @ + 1]]
    BY <1>3 DEF FetchFails
  <2>2. TouchedKept
    BY <1>0, <2>1 DEF TouchedKept, RunShape
  <2> QED
    BY <1>3, <2>2 DEF FetchFails
<1>4. CASE Find(r)
  <2>1. PICK W \in Windows : \E m \in Matches(Head(run[r].items), W) :
          run' = [run EXCEPT ![r] = [run[r] EXCEPT !.match = m, !.pc = "apply"]]
    BY <1>4 DEF Find
  <2>2. PICK m : run' = [run EXCEPT ![r] = [run[r] EXCEPT !.match = m, !.pc = "apply"]]
    BY <2>1
  <2>3. TouchedKept
    BY <1>0, <2>2 DEF TouchedKept, RunShape
  <2> QED
    BY <1>4, <2>3 DEF Find
<1>5. CASE SkipWithinRun(r)
  BY <1>0, <1>5 DEF SkipWithinRun, TouchedKept, RunShape
<1>6. CASE Persist(r)
  BY <1>0, <1>6 DEF Persist, TouchedKept, RunShape
<1>7. CASE RepoFails(r)
  BY <1>0, <1>7 DEF RepoFails, TouchedKept, RunShape
<1> QED
  BY <1>1, <1>2, <1>3, <1>4, <1>5, <1>6, <1>7

\* A clean-up changes no topic it leaves.
LEMMA CleanUpKeeps ==
  ASSUME TypeInv, CleanUp
  PROVE  /\ UNCHANGED <<run, crawlRuns>>
         /\ DOMAIN topics' \subseteq DOMAIN topics
         /\ \A t \in DOMAIN topics' : topics'[t] = topics[t]
<1>1. CASE \/ \E s \in Sources, cutoff \in 1..clock + 1 : SweepSource(s, cutoff)
           \/ SweepOrphans \/ ScanOrphans
  BY <1>1 DEF SweepSource, SweepOrphans, ScanOrphans
<1>2. CASE DeleteOrphans
  BY <1>2 DEF DeleteOrphans, DeleteTopics
<1>3. CASE \E cutoff \in 1..clock + 1 : PurgeOld(cutoff)
  BY <1>3 DEF PurgeOld, DeleteTopics
<1> QED
  BY <1>1, <1>2, <1>3 DEF CleanUp

\* Marking a topic as touched by one run more.
LEMMA Marked ==
  ASSUME run \in [Runs -> RunShape], NEW r \in Runs, NEW t, r \notin SeenBy(run, t),
         \A q \in Runs : run'[q].touched =
                           IF q = r THEN run[r].touched \union {t}
                                    ELSE run[q].touched
  PROVE  /\ Cardinality(SeenBy(run, t)) \in Nat
         /\ Cardinality(SeenBy(run', t)) = Cardinality(SeenBy(run, t)) + 1
         /\ \A u : u # t => SeenBy(run', u) = SeenBy(run, u)
<1>1. SeenBy(run', t) = SeenBy(run, t) \union {r}
  BY DEF SeenBy
<1>2. IsFiniteSet(SeenBy(run, t))
  BY RunsAssumption, FS_Subset DEF SeenBy
<1>3. \A u : u # t => SeenBy(run', u) = SeenBy(run, u)
  BY DEF SeenBy
<1> QED
  BY <1>1, <1>2, <1>3, FS_CardinalityType, FS_AddElement

LEMMA CountInit == Init => CountIsRuns
  BY DEF Init, CountIsRuns

LEMMA CountUpdate ==
  ASSUME TypeInv, CountIsRuns, NEW r \in Runs, Update(r)
  PROVE  CountIsRuns'
<1> DEFINE m == run[r].match
<1>0. run \in [Runs -> RunShape]
  BY DEF TypeInv
<1>1. /\ run' = [run EXCEPT ![r] =
                   [run[r] EXCEPT !.pc = "loop", !.items = Tail(@),
                                  !.touched = @ \union {run[r].match},
                                  !.updated = @ + 1]]
      /\ m \notin run[r].touched
  BY DEF Update
<1>2. \A q \in Runs : run'[q].touched =
                        IF q = r THEN run[r].touched \union {m} ELSE run[q].touched
  BY <1>0, <1>1 DEF RunShape
<1>3. r \notin SeenBy(run, m)
  BY <1>1 DEF SeenBy
<1>4. /\ Cardinality(SeenBy(run', m)) = Cardinality(SeenBy(run, m)) + 1
      /\ \A u : u # m => SeenBy(run', u) = SeenBy(run, u)
  BY <1>0, <1>2, <1>3, Marked
<1>5. ASSUME NEW t \in DOMAIN topics'
      PROVE  topics'[t].count = Cardinality(SeenBy(run', t))
  <2>1. t \in DOMAIN topics /\ topics[t].count = Cardinality(SeenBy(run, t))
    BY <1>5 DEF Update, CountIsRuns, SeenBy
  <2>2. topics \in [DOMAIN topics -> TopicShape]
    BY DEF TypeInv
  <2>3. CASE t = m
    <3>1. topics'[t].count = topics[t].count + 1
      BY <2>1, <2>2, <2>3 DEF Update, TopicShape
    <3> QED
      BY <1>4, <2>1, <2>3, <3>1
  <2>4. CASE t # m
    <3>1. topics'[t] = topics[t]
      BY <2>1, <2>2, <2>4 DEF Update
    <3> QED
      BY <1>4, <2>1, <2>4, <3>1
  <2> QED
    BY <2>3, <2>4
<1> QED
  BY <1>5 DEF CountIsRuns, SeenBy

LEMMA CountInsert ==
  ASSUME TypeInv, CountIsRuns, NEW r \in Runs, Insert(r)
  PROVE  CountIsRuns'
<1> DEFINE n == clock'
<1>0. run \in [Runs -> RunShape]
  BY DEF TypeInv
<1>1. run' = [run EXCEPT ![r] =
                [run[r] EXCEPT !.pc = "loop", !.items = Tail(@),
                               !.touched = @ \union {clock'}, !.inserted = @ + 1]]
  BY DEF Insert
<1>2. \A q \in Runs : run'[q].touched =
                        IF q = r THEN run[r].touched \union {n} ELSE run[q].touched
  BY <1>0, <1>1 DEF RunShape
<1>3. n \notin 1..clock /\ n = clock + 1
  BY DEF Insert, TypeInv
<1>4. SeenBy(run, n) = {}
  BY <1>3 DEF SeenBy, TypeInv, RunOK
<1>5. /\ Cardinality(SeenBy(run', n)) = Cardinality(SeenBy(run, n)) + 1
      /\ \A u : u # n => SeenBy(run', u) = SeenBy(run, u)
  BY <1>0, <1>2, <1>4, Marked
<1>6. Cardinality(SeenBy(run', n)) = 1
  BY <1>4, <1>5, FS_EmptySet
<1>7. topics' = [t \in DOMAIN topics \union {n} |->
                   IF t = n
                   THEN [title |-> Head(run[r].items), count |-> 1, last |-> t]
                   ELSE topics[t]]
  BY DEF Insert
<1>8. ASSUME NEW t \in DOMAIN topics'
      PROVE  topics'[t].count = Cardinality(SeenBy(run', t))
  <2>1. CASE t = n
    BY <1>6, <1>7, <2>1
  <2>2. CASE t # n
    <3>1. t \in DOMAIN topics /\ topics'[t] = topics[t]
      BY <1>7, <1>8, <2>2
    <3>2. topics[t].count = Cardinality(SeenBy(run, t))
      BY <3>1 DEF CountIsRuns, SeenBy
    <3> QED
      BY <1>5, <2>2, <3>1, <3>2
  <2> QED
    BY <2>1, <2>2
<1> QED
  BY <1>8 DEF CountIsRuns, SeenBy

LEMMA CountKept ==
  ASSUME CountIsRuns, TouchedKept,
         DOMAIN topics' \subseteq DOMAIN topics,
         \A t \in DOMAIN topics' : topics'[t] = topics[t]
  PROVE  CountIsRuns'
<1>1. \A t : SeenBy(run', t) = SeenBy(run, t)
  BY DEF SeenBy, TouchedKept
<1>2. \A t \in DOMAIN topics : topics[t].count = Cardinality(SeenBy(run, t))
  BY DEF CountIsRuns, SeenBy
<1>3. \A t \in DOMAIN topics' : topics'[t].count = Cardinality(SeenBy(run', t))
  BY <1>1, <1>2
<1> QED
  BY <1>3 DEF CountIsRuns, SeenBy

LEMMA CountStep == TypeInv /\ CountIsRuns /\ [Next]_vars => CountIsRuns'
<1> SUFFICES ASSUME TypeInv, CountIsRuns, [Next]_vars PROVE CountIsRuns'
  OBVIOUS
<1>1. CASE UNCHANGED vars
  BY <1>1, CountKept DEF vars, TouchedKept
<1>2. ASSUME NEW r \in Runs,
             Start(r) \/ Fetch(r) \/ FetchFails(r) \/ Find(r)
             \/ SkipWithinRun(r) \/ Persist(r) \/ RepoFails(r)
      PROVE  CountIsRuns'
  <2>1. TouchedKept /\ UNCHANGED topics
    BY <1>2, ReadsTouchNothing
  <2> QED
    BY <2>1, CountKept
<1>3. CASE CleanUp
  <2>1. /\ UNCHANGED run
        /\ DOMAIN topics' \subseteq DOMAIN topics
        /\ \A t \in DOMAIN topics' : topics'[t] = topics[t]
    BY <1>3, CleanUpKeeps
  <2> QED
    BY <2>1, CountKept DEF TouchedKept
<1> QED
  BY <1>1, <1>2, <1>3, CountUpdate, CountInsert DEF Next, Step

\* observation_count is the number of runs that saw the topic, for any number
\* of overlapping runs, abandoned runs and clean-ups: update_existing's
\* increment is never lost and never repeated within a run.
THEOREM CountsRuns == Spec => []CountIsRuns
  BY TypeAlways, CountInit, CountStep, PTL DEF Spec

-----------------------------------------------------------------------------
(* crawl_runs                                                              *)

\* Every fetched item is counted or still to come.
Balanced(R) == R.fetched = R.inserted + R.updated + R.skipped + Len(R.items)

Balance ==
    /\ \A r \in Runs : Balanced(run[r])
    /\ RunRowsBalance

LEMMA BalanceInit == Init => Balance
  BY DEF Init, Idle, Balance, Balanced, RunRowsBalance

LEMMA OneBalances ==
  ASSUME TypeInv, Balance, NEW r \in Runs, NEW X,
         run' = [run EXCEPT ![r] = X], Balanced(X), UNCHANGED crawlRuns
  PROVE  Balance'
<1>1. run \in [Runs -> RunShape]
  BY DEF TypeInv
<1>2. \A q \in Runs : run'[q] = IF q = r THEN X ELSE run[q]
  BY <1>1
<1>3. \A q \in Runs : Balanced(run'[q])
  BY <1>2 DEF Balance
<1>4. RunRowsBalance'
  BY DEF Balance, RunRowsBalance
<1> QED
  BY <1>3, <1>4 DEF Balance, Balanced

LEMMA TailIsShorter ==
  ASSUME NEW s \in Seq(Titles), s # <<>>
  PROVE  Len(s) = Len(Tail(s)) + 1 /\ Len(Tail(s)) \in Nat
  OBVIOUS

LEMMA BalanceRun ==
  ASSUME TypeInv, SettingOK, Balance, NEW r \in Runs,
         Start(r) \/ Fetch(r) \/ FetchFails(r) \/ Find(r)
         \/ SkipWithinRun(r) \/ Update(r) \/ Insert(r) \/ RepoFails(r)
  PROVE  Balance'
<1> DEFINE R == run[r]
<1>0. R \in RunShape /\ RunOK(R, clock) /\ Balanced(R)
  BY DEF TypeInv, Balance
<1>1. /\ R.fetched \in Nat /\ R.inserted \in Nat /\ R.updated \in Nat
      /\ R.skipped \in Nat /\ R.items \in Seq(Titles) /\ Len(R.items) \in Nat
  BY <1>0 DEF RunShape
<1>2. R.pc = "apply" => R.items # <<>>
  BY <1>0 DEF RunOK
<1>3. R.pc = "apply" => Len(R.items) = Len(Tail(R.items)) + 1
                        /\ Len(Tail(R.items)) \in Nat
  BY <1>1, <1>2, TailIsShorter
<1> DEFINE n == Len(Tail(R.items))
<1>s. ASSUME R.pc = "apply"
       PROVE  /\ R.fetched = (R.inserted + 1) + R.updated + R.skipped + n
              /\ R.fetched = R.inserted + (R.updated + 1) + R.skipped + n
              /\ R.fetched = R.inserted + R.updated + (R.skipped + 1) + n
  <2>1. Len(R.items) = n + 1 /\ n \in Nat
    BY <1>3, <1>s
  <2> HIDE DEF n
  <2> DEFINE f == R.fetched
             i == R.inserted
             u == R.updated
             s == R.skipped
  <2>2. f = i + u + s + (n + 1)
    BY <1>0, <2>1 DEF Balanced
  <2>3. f \in Nat /\ i \in Nat /\ u \in Nat /\ s \in Nat
    BY <1>1
  <2>4. SUFFICES /\ f = (i + 1) + u + s + n
                 /\ f = i + (u + 1) + s + n
                 /\ f = i + u + (s + 1) + n
    OBVIOUS
  <2> HIDE DEF f, i, u, s
  <2> QED
    BY <2>1, <2>2, <2>3
<1>4. SUFFICES \E X : run' = [run EXCEPT ![r] = X] /\ Balanced(X)
  <2>1. UNCHANGED crawlRuns
    BY DEF Start, Fetch, FetchFails, Find, SkipWithinRun, Update, Insert, RepoFails
  <2> QED
    BY <2>1, OneBalances
<1>5. CASE Start(r)
  <2> DEFINE X == [R EXCEPT !.pc = "loop", !.todo = setting.sources]
  <2>1. run' = [run EXCEPT ![r] = X]
    BY <1>5 DEF Start
  <2>2. Balanced(X)
    BY <1>0 DEF Balanced, RunShape
  <2> QED
    BY <2>1, <2>2
<1>6. CASE Fetch(r)
  <2>1. PICK s \in R.todo, feed \in setting.feeds :
          run' = [run EXCEPT ![r] =
                    [R EXCEPT !.todo = @ \ {s}, !.source = {s}, !.items = feed,
                              !.at = clock', !.fetched = @ + Len(feed)]]
    BY <1>6 DEF Fetch
  <2> DEFINE X == [R EXCEPT !.todo = @ \ {s}, !.source = {s}, !.items = feed,
                            !.at = clock', !.fetched = @ + Len(feed)]
  <2>2. Len(feed) \in Nat
    BY FeedsAssumption DEF SettingOK
  <2>3. R.items = <<>>
    BY <1>6 DEF Fetch
  <2>4. R.fetched = R.inserted + R.updated + R.skipped
    BY <1>0, <1>1, <2>3 DEF Balanced
  <2>5. /\ X.fetched = R.fetched + Len(feed) /\ X.items = feed
        /\ X.inserted = R.inserted /\ X.updated = R.updated /\ X.skipped = R.skipped
    BY <1>0 DEF RunShape
  <2>6. Balanced(X)
    BY <1>1, <2>2, <2>4, <2>5 DEF Balanced
  <2> QED
    BY <2>1, <2>6
<1>7. CASE FetchFails(r)
  <2>1. PICK s \in R.todo :
          run' = [run EXCEPT ![r] = [R EXCEPT !.todo = @ \ {s}, !.errors = @ + 1]]
    BY <1>7 DEF FetchFails
  <2>2. Balanced([R EXCEPT !.todo = @ \ {s}, !.errors = @ + 1])
    BY <1>0 DEF Balanced, RunShape
  <2> QED
    BY <2>1, <2>2
<1>8. CASE Find(r)
  <2>1. PICK W \in Windows : \E m \in Matches(Head(R.items), W) :
          run' = [run EXCEPT ![r] = [R EXCEPT !.match = m, !.pc = "apply"]]
    BY <1>8 DEF Find
  <2>2. PICK m : run' = [run EXCEPT ![r] = [R EXCEPT !.match = m, !.pc = "apply"]]
    BY <2>1
  <2>3. Balanced([R EXCEPT !.match = m, !.pc = "apply"])
    BY <1>0 DEF Balanced, RunShape
  <2> QED
    BY <2>2, <2>3
<1>9. CASE SkipWithinRun(r)
  <2> DEFINE X == [R EXCEPT !.pc = "loop", !.items = Tail(@), !.skipped = @ + 1]
  <2>1. R.pc = "apply" /\ run' = [run EXCEPT ![r] = X]
    BY <1>9 DEF SkipWithinRun
  <2>2. /\ X.fetched = R.fetched /\ X.items = Tail(R.items)
        /\ X.inserted = R.inserted /\ X.updated = R.updated
        /\ X.skipped = R.skipped + 1
    BY <1>0 DEF RunShape
  <2> HIDE DEF X
  <2>c. X.fetched = X.inserted + X.updated + X.skipped + Len(Tail(R.items))
    BY <1>s, <2>1, <2>2
  <2>3. Balanced(X)
    BY <2>2, <2>c DEF Balanced
  <2> QED
    BY <2>1, <2>3
<1>10. CASE Update(r)
  <2> DEFINE X == [R EXCEPT !.pc = "loop", !.items = Tail(@),
                            !.touched = @ \union {run[r].match}, !.updated = @ + 1]
  <2>1. R.pc = "apply" /\ run' = [run EXCEPT ![r] = X]
    BY <1>10 DEF Update
  <2>2. /\ X.fetched = R.fetched /\ X.items = Tail(R.items)
        /\ X.inserted = R.inserted /\ X.updated = R.updated + 1
        /\ X.skipped = R.skipped
    BY <1>0 DEF RunShape
  <2> HIDE DEF X
  <2>c. X.fetched = X.inserted + X.updated + X.skipped + Len(Tail(R.items))
    BY <1>s, <2>1, <2>2
  <2>3. Balanced(X)
    BY <2>2, <2>c DEF Balanced
  <2> QED
    BY <2>1, <2>3
<1>11. CASE Insert(r)
  <2> DEFINE X == [R EXCEPT !.pc = "loop", !.items = Tail(@),
                            !.touched = @ \union {clock'}, !.inserted = @ + 1]
  <2>1. R.pc = "apply" /\ run' = [run EXCEPT ![r] = X]
    BY <1>11 DEF Insert
  <2>2. /\ X.fetched = R.fetched /\ X.items = Tail(R.items)
        /\ X.inserted = R.inserted + 1 /\ X.updated = R.updated
        /\ X.skipped = R.skipped
    BY <1>0 DEF RunShape
  <2> HIDE DEF X
  <2>c. X.fetched = X.inserted + X.updated + X.skipped + Len(Tail(R.items))
    BY <1>s, <2>1, <2>2
  <2>3. Balanced(X)
    BY <2>2, <2>c DEF Balanced
  <2> QED
    BY <2>1, <2>3
<1>12. CASE RepoFails(r)
  <2>1. run' = [run EXCEPT ![r] = [R EXCEPT !.pc = "failed"]]
    BY <1>12 DEF RepoFails
  <2>2. Balanced([R EXCEPT !.pc = "failed"])
    BY <1>0 DEF Balanced, RunShape
  <2> QED
    BY <2>1, <2>2
<1> QED
  BY <1>5, <1>6, <1>7, <1>8, <1>9, <1>10, <1>11, <1>12

LEMMA BalancePersist ==
  ASSUME TypeInv, Balance, NEW r \in Runs, Persist(r)
  PROVE  Balance'
<1> DEFINE R == run[r]
           X == [R EXCEPT !.pc = "done"]
<1>0. run \in [Runs -> RunShape] /\ R \in RunShape /\ Balanced(R)
  BY DEF TypeInv, Balance
<1>1. R.fetched = R.inserted + R.updated + R.skipped
  <2>1. R.items = <<>>
    BY DEF Persist
  <2>2. /\ R.inserted \in Nat /\ R.updated \in Nat /\ R.skipped \in Nat
        /\ Len(R.items) = 0
    BY <1>0, <2>1 DEF RunShape
  <2> QED
    BY <1>0, <2>2 DEF Balanced
<1>2. RunRowsBalance'
  BY <1>1 DEF Persist, Balance, RunRowsBalance
<1>3. run' = [run EXCEPT ![r] = X]
  BY DEF Persist
<1>4. Balanced(X)
  BY <1>0 DEF Balanced, RunShape
<1>5. \A q \in Runs : run'[q] = IF q = r THEN X ELSE run[q]
  BY <1>0, <1>3
<1>6. \A q \in Runs : Balanced(run'[q])
  BY <1>4, <1>5 DEF Balance
<1> QED
  BY <1>2, <1>6 DEF Balance, Balanced

LEMMA BalanceStep == TypeInv /\ SettingOK /\ Balance /\ [Next]_vars => Balance'
<1> SUFFICES ASSUME TypeInv, SettingOK, Balance, [Next]_vars PROVE Balance'
  OBVIOUS
<1>1. CASE UNCHANGED vars
  BY <1>1 DEF vars, Balance, Balanced, RunRowsBalance
<1>2. CASE CleanUp
  BY <1>2, CleanUpKeeps DEF Balance, Balanced, RunRowsBalance
<1> QED
  BY <1>1, <1>2, BalanceRun, BalancePersist DEF Next, Step

\* Every crawl_runs row accounts for each item its run fetched exactly once,
\* whatever the sources, the matches and the other runs were.
THEOREM RowsBalance == Spec => []RunRowsBalance
<1>1. Balance => RunRowsBalance
  BY DEF Balance
<1> QED
  BY <1>1, TypeAlways, SettingAlways, BalanceInit, BalanceStep, PTL DEF Spec

-----------------------------------------------------------------------------
(* What each step of a run changes                                         *)

\* The steps that write no topic.
Reading(r) ==
    \/ Start(r) \/ Fetch(r) \/ FetchFails(r) \/ Find(r)
    \/ SkipWithinRun(r) \/ Persist(r) \/ RepoFails(r)

OthersKept(r) == \A q \in Runs : q # r => run'[q] = run[q]

SameClaims(R, X) ==
    X.touched = R.touched /\ X.inserted = R.inserted /\ X.updated = R.updated

LEMMA Moved ==
  ASSUME TypeInv, NEW r \in Runs, NEW X, run' = [run EXCEPT ![r] = X]
  PROVE  run'[r] = X /\ OthersKept(r)
  BY DEF TypeInv, OthersKept

LEMMA FetchEffect ==
  ASSUME TypeInv, NEW r \in Runs, Fetch(r)
  PROVE  /\ UNCHANGED <<topics, obs, sweep>> /\ OthersKept(r)
         /\ SameClaims(run[r], run'[r])
         /\ clock' = clock + 1 /\ run'[r].at = clock'
         /\ run'[r].pc = "loop" /\ run[r].pc = "loop"
<1>1. PICK s \in run[r].todo, feed \in setting.feeds :
        run' = [run EXCEPT ![r] =
                  [run[r] EXCEPT !.todo = @ \ {s}, !.source = {s}, !.items = feed,
                                 !.at = clock', !.fetched = @ + Len(feed)]]
  BY DEF Fetch
<1> DEFINE X == [run[r] EXCEPT !.todo = @ \ {s}, !.source = {s}, !.items = feed,
                               !.at = clock', !.fetched = @ + Len(feed)]
<1>2. run'[r] = X /\ OthersKept(r)
  BY <1>1, Moved
<1>3. run[r] \in RunShape
  BY DEF TypeInv
<1>4. SameClaims(run[r], X) /\ X.at = clock' /\ X.pc = run[r].pc
  BY <1>3 DEF RunShape, SameClaims
<1> QED
  BY <1>2, <1>4 DEF Fetch

LEMMA FindEffect ==
  ASSUME TypeInv, NEW r \in Runs, Find(r)
  PROVE  /\ UNCHANGED <<clock, topics, obs, sweep>> /\ OthersKept(r)
         /\ SameClaims(run[r], run'[r])
         /\ run'[r].at = run[r].at /\ run'[r].items = run[r].items
         /\ run[r].pc = "loop" /\ run'[r].pc = "apply"
         /\ run'[r].match \in {NoTopic} \union DOMAIN topics
         /\ \E W \in Windows : run'[r].match \in Matches(Head(run[r].items), W)
<1>1. PICK W \in Windows : \E m \in Matches(Head(run[r].items), W) :
        run' = [run EXCEPT ![r] = [run[r] EXCEPT !.match = m, !.pc = "apply"]]
  BY DEF Find
<1>2. PICK m \in Matches(Head(run[r].items), W) :
        run' = [run EXCEPT ![r] = [run[r] EXCEPT !.match = m, !.pc = "apply"]]
  BY <1>1
<1> DEFINE X == [run[r] EXCEPT !.match = m, !.pc = "apply"]
<1>3. run'[r] = X /\ OthersKept(r)
  BY <1>2, Moved
<1>4. run[r] \in RunShape
  BY DEF TypeInv
<1>5. /\ SameClaims(run[r], X) /\ X.at = run[r].at /\ X.items = run[r].items
      /\ X.pc = "apply" /\ X.match = m
  BY <1>4 DEF RunShape, SameClaims
<1>6. m \in {NoTopic} \union DOMAIN topics
  BY <1>2 DEF Matches, Windows
<1>7. UNCHANGED <<clock, topics, obs, sweep>> /\ run[r].pc = "loop"
  BY DEF Find
<1> HIDE DEF X
<1> QED
  BY <1>2, <1>3, <1>5, <1>6, <1>7

LEMMA SkipEffect ==
  ASSUME TypeInv, NEW r \in Runs, SkipWithinRun(r)
  PROVE  /\ UNCHANGED <<clock, topics, obs, sweep>> /\ OthersKept(r)
         /\ SameClaims(run[r], run'[r])
         /\ run'[r].at = run[r].at
         /\ run[r].pc = "apply" /\ run'[r].pc = "loop"
<1> DEFINE X == [run[r] EXCEPT !.pc = "loop", !.items = Tail(@), !.skipped = @ + 1]
<1>1. run' = [run EXCEPT ![r] = X] /\ run[r].pc = "apply"
      /\ UNCHANGED <<clock, topics, obs, sweep>>
  BY DEF SkipWithinRun
<1>2. run'[r] = X /\ OthersKept(r)
  BY <1>1, Moved
<1>3. run[r] \in RunShape
  BY DEF TypeInv
<1>4. SameClaims(run[r], X) /\ X.at = run[r].at /\ X.pc = "loop"
  BY <1>3 DEF RunShape, SameClaims
<1> QED
  BY <1>1, <1>2, <1>4

\* Start, a source that fails, and the two ends of a run.
LEMMA TurnEffect ==
  ASSUME TypeInv, NEW r \in Runs,
         Start(r) \/ FetchFails(r) \/ Persist(r) \/ RepoFails(r)
  PROVE  /\ UNCHANGED <<clock, topics, obs, sweep>> /\ OthersKept(r)
         /\ SameClaims(run[r], run'[r])
         /\ run'[r].at = run[r].at /\ run'[r].items = run[r].items
         /\ run'[r].pc \in {"loop", "done", "failed"}
         /\ ~Start(r) => Active(r)
         /\ Start(r) => run[r].pc = "idle"
<1>3. run[r] \in RunShape
  BY DEF TypeInv
<1>1. CASE Start(r)
  <2> DEFINE X == [run[r] EXCEPT !.pc = "loop", !.todo = setting.sources]
  <2>1. run' = [run EXCEPT ![r] = X] /\ UNCHANGED <<clock, topics, obs, sweep>>
        /\ run[r].pc = "idle"
    BY <1>1 DEF Start
  <2>2. run'[r] = X /\ OthersKept(r)
    BY <2>1, Moved
  <2>3. SameClaims(run[r], X) /\ X.at = run[r].at /\ X.items = run[r].items /\ X.pc = "loop"
    BY <1>3 DEF RunShape, SameClaims
  <2> QED
    BY <1>1, <2>1, <2>2, <2>3
<1>2. CASE FetchFails(r)
  <2>0. PICK s \in run[r].todo :
          run' = [run EXCEPT ![r] = [run[r] EXCEPT !.todo = @ \ {s}, !.errors = @ + 1]]
    BY <1>2 DEF FetchFails
  <2> DEFINE X == [run[r] EXCEPT !.todo = @ \ {s}, !.errors = @ + 1]
  <2>1. UNCHANGED <<clock, topics, obs, sweep>> /\ run[r].pc = "loop"
    BY <1>2 DEF FetchFails
  <2>2. run'[r] = X /\ OthersKept(r)
    BY <2>0, Moved
  <2>3. SameClaims(run[r], X) /\ X.at = run[r].at /\ X.items = run[r].items /\ X.pc = "loop"
    BY <1>3, <2>1 DEF RunShape, SameClaims
  <2>4. Active(r) /\ ~Start(r)
    BY <2>1 DEF Active, Start
  <2> QED
    BY <2>1, <2>2, <2>3, <2>4
<1>4. CASE Persist(r)
  <2> DEFINE X == [run[r] EXCEPT !.pc = "done"]
  <2>1. run' = [run EXCEPT ![r] = X] /\ UNCHANGED <<clock, topics, obs, sweep>>
        /\ run[r].pc = "loop"
    BY <1>4 DEF Persist
  <2>2. run'[r] = X /\ OthersKept(r)
    BY <2>1, Moved
  <2>3. SameClaims(run[r], X) /\ X.at = run[r].at /\ X.items = run[r].items /\ X.pc = "done"
    BY <1>3 DEF RunShape, SameClaims
  <2>4. Active(r) /\ ~Start(r)
    BY <2>1 DEF Active, Start
  <2> QED
    BY <2>1, <2>2, <2>3, <2>4
<1>5. CASE RepoFails(r)
  <2> DEFINE X == [run[r] EXCEPT !.pc = "failed"]
  <2>1. run' = [run EXCEPT ![r] = X] /\ UNCHANGED <<clock, topics, obs, sweep>>
        /\ Active(r)
    BY <1>5 DEF RepoFails
  <2>2. run'[r] = X /\ OthersKept(r)
    BY <2>1, Moved
  <2>3. SameClaims(run[r], X) /\ X.at = run[r].at /\ X.items = run[r].items /\ X.pc = "failed"
    BY <1>3 DEF RunShape, SameClaims
  <2>4. ~Start(r)
    BY <2>1 DEF Active, Start
  <2> QED
    BY <2>1, <2>2, <2>3, <2>4
<1> QED
  BY <1>1, <1>2, <1>4, <1>5

LEMMA UpdateEffect ==
  ASSUME TypeInv, NEW r \in Runs, Update(r)
  PROVE  /\ UNCHANGED <<clock, sweep>> /\ OthersKept(r)
         /\ run[r].match \notin run[r].touched /\ run[r].match \in 1..clock
         /\ run[r].at \in 1..clock /\ run'[r].at = run[r].at
         /\ run'[r].touched = run[r].touched \union {run[r].match}
         /\ run'[r].inserted = run[r].inserted
         /\ run'[r].updated = run[r].updated + 1
         /\ run[r].pc = "apply" /\ run'[r].pc = "loop"
<1> DEFINE X == [run[r] EXCEPT !.pc = "loop", !.items = Tail(@),
                               !.touched = @ \union {run[r].match}, !.updated = @ + 1]
<1>1. /\ run' = [run EXCEPT ![r] = X] /\ run[r].pc = "apply"
      /\ UNCHANGED <<clock, sweep>>
      /\ run[r].match \notin run[r].touched /\ run[r].match # 0
  BY DEF Update, NoTopic
<1>2. run'[r] = X /\ OthersKept(r)
  BY <1>1, Moved
<1>3. run[r] \in RunShape /\ RunOK(run[r], clock) /\ clock \in Nat
  BY DEF TypeInv
<1>4. /\ X.at = run[r].at /\ X.pc = "loop" /\ X.inserted = run[r].inserted
      /\ X.touched = run[r].touched \union {run[r].match}
      /\ X.updated = run[r].updated + 1
  BY <1>3 DEF RunShape
<1>5. run[r].at \in 1..clock /\ run[r].match \in 1..clock
  BY <1>1, <1>3 DEF RunOK
<1> HIDE DEF X
<1> QED
  BY <1>1, <1>2, <1>4, <1>5

LEMMA InsertEffect ==
  ASSUME TypeInv, NEW r \in Runs, Insert(r)
  PROVE  /\ clock' = clock + 1 /\ UNCHANGED sweep /\ OthersKept(r)
         /\ run[r].match = NoTopic
         /\ run[r].at \in 1..clock /\ run'[r].at = run[r].at
         /\ run'[r].touched = run[r].touched \union {clock'}
         /\ run'[r].inserted = run[r].inserted + 1
         /\ run'[r].updated = run[r].updated
         /\ run[r].pc = "apply" /\ run'[r].pc = "loop"
         /\ DOMAIN topics' = DOMAIN topics \union {clock'}
         /\ topics'[clock'] = [title |-> Head(run[r].items), count |-> 1, last |-> clock']
         /\ \A t \in DOMAIN topics : t # clock' /\ topics'[t] = topics[t]
         /\ obs' = obs \union {Observation(r, clock')}
<1> DEFINE X == [run[r] EXCEPT !.pc = "loop", !.items = Tail(@),
                               !.touched = @ \union {clock'}, !.inserted = @ + 1]
<1>1. /\ run' = [run EXCEPT ![r] = X] /\ run[r].pc = "apply" /\ run[r].match = NoTopic
      /\ clock' = clock + 1 /\ UNCHANGED sweep
      /\ obs' = obs \union {Observation(r, clock')}
  BY DEF Insert
<1>2. run'[r] = X /\ OthersKept(r)
  BY <1>1, Moved
<1>3. run[r] \in RunShape /\ RunOK(run[r], clock) /\ clock \in Nat
      /\ \A t \in DOMAIN topics : t \in 1..clock
  BY DEF TypeInv
<1>4. /\ X.at = run[r].at /\ X.pc = "loop" /\ X.inserted = run[r].inserted + 1
      /\ X.touched = run[r].touched \union {clock'}
      /\ X.updated = run[r].updated
  BY <1>3 DEF RunShape
<1>5. run[r].at \in 1..clock
  BY <1>1, <1>3 DEF RunOK
<1>6. clock' \notin DOMAIN topics
  BY <1>1, <1>3
<1>7. topics' = [t \in DOMAIN topics \union {clock'} |->
                   IF t = clock'
                   THEN [title |-> Head(run[r].items), count |-> 1, last |-> t]
                   ELSE topics[t]]
  BY DEF Insert
<1>8. /\ DOMAIN topics' = DOMAIN topics \union {clock'}
      /\ topics'[clock'] = [title |-> Head(run[r].items), count |-> 1, last |-> clock']
      /\ \A t \in DOMAIN topics : t # clock' /\ topics'[t] = topics[t]
  BY <1>6, <1>7
<1> HIDE DEF X
<1> QED
  BY <1>1, <1>2, <1>4, <1>5, <1>8

\* In every step a run keeps what it claims, or claims one topic more.
LEMMA ReadingEffect ==
  ASSUME TypeInv, NEW r \in Runs, Reading(r)
  PROVE  /\ UNCHANGED <<topics, obs, sweep>> /\ OthersKept(r)
         /\ SameClaims(run[r], run'[r])
         /\ \/ clock' = clock /\ run'[r].at = run[r].at
            \/ clock' = clock + 1 /\ run'[r].at = clock'
<1>1. CASE Fetch(r)
  BY <1>1, FetchEffect
<1>2. CASE Find(r)
  BY <1>2, FindEffect
<1>3. CASE SkipWithinRun(r)
  BY <1>3, SkipEffect
<1>4. CASE Start(r) \/ FetchFails(r) \/ Persist(r) \/ RepoFails(r)
  BY <1>4, TurnEffect
<1> QED
  BY <1>1, <1>2, <1>3, <1>4 DEF Reading

-----------------------------------------------------------------------------
(* Observations                                                            *)

\* Fetch times tell fetches apart, and what a fetch has observed is claimed by
\* its run: no observation is ever stored twice.
Fetched ==
    /\ \A r \in Runs : run[r].at \in 0..clock
    /\ \A q, r \in Runs : q # r /\ run[q].at = run[r].at => run[q].at = 0
    /\ \A o \in obs, r \in Runs : o.at = run[r].at => o.topic \in run[r].touched
    /\ IsFiniteSet(obs)

LEMMA FetchedInit == Init => Fetched
<1> SUFFICES ASSUME Init PROVE Fetched
  OBVIOUS
<1>1. \A r \in Runs : run[r].at = 0
  BY DEF Init, Idle
<1>2. obs = {} /\ clock = 0
  BY DEF Init
<1> QED
  BY <1>1, <1>2, FS_EmptySet DEF Fetched

LEMMA FetchedReading ==
  ASSUME TypeInv, Fetched, NEW r \in Runs, Reading(r)
  PROVE  Fetched'
<1>1. /\ UNCHANGED obs /\ OthersKept(r) /\ run'[r].touched = run[r].touched
      /\ \/ clock' = clock /\ run'[r].at = run[r].at
         \/ clock' = clock + 1 /\ run'[r].at = clock'
  BY ReadingEffect DEF SameClaims
<1>2. clock \in Nat /\ \A o \in obs : o.at \in 1..clock
  BY DEF TypeInv
<1>3. \A q \in Runs : q # r => run'[q] = run[q]
  BY <1>1 DEF OthersKept
<1>4. \A q \in Runs : run'[q].touched = run[q].touched
  BY <1>1, <1>3
<1>5. IsFiniteSet(obs')
  BY <1>1 DEF Fetched
<1>6. CASE clock' = clock /\ run'[r].at = run[r].at
  <2>1. \A q \in Runs : run'[q].at = run[q].at
    BY <1>3, <1>6
  <2> QED
    BY <1>1, <1>4, <1>5, <1>6, <2>1 DEF Fetched
<1>7. CASE clock' = clock + 1 /\ run'[r].at = clock'
  <2>1. \A q \in Runs : q # r => run'[q].at = run[q].at /\ run[q].at \in 0..clock
    BY <1>3 DEF Fetched
  <2>2. \A q \in Runs : run'[q].at \in 0..clock'
    BY <1>2, <1>7, <2>1
  <2>3. \A p, q \in Runs : p # q /\ run'[p].at = run'[q].at => run'[p].at = 0
    <3> SUFFICES ASSUME NEW p \in Runs, NEW q \in Runs, p # q, run'[p].at = run'[q].at
                 PROVE  run'[p].at = 0
      OBVIOUS
    <3>1. p # r /\ q # r
      BY <1>2, <1>7, <2>1
    <3> QED
      BY <2>1, <3>1 DEF Fetched
  <2>4. \A o \in obs', q \in Runs : o.at = run'[q].at => o.topic \in run'[q].touched
    <3> SUFFICES ASSUME NEW o \in obs, NEW q \in Runs, o.at = run'[q].at
                 PROVE  o.topic \in run'[q].touched
      BY <1>1
    <3>1. q # r
      BY <1>2, <1>7
    <3> QED
      BY <1>3, <3>1 DEF Fetched
  <2> QED
    BY <1>5, <2>2, <2>3, <2>4 DEF Fetched
<1> QED
  BY <1>1, <1>6, <1>7

\* Storing an observation of a topic that is now claimed.
LEMMA FetchedWriting ==
  ASSUME TypeInv, Fetched, NEW r \in Runs, NEW t,
         OthersKept(r), run'[r].at = run[r].at, run[r].at \in 1..clock,
         run'[r].touched = run[r].touched \union {t},
         clock' \in Nat, clock <= clock',
         obs' = obs \/ obs' = obs \union {Observation(r, t)}
  PROVE  Fetched'
<1>1. clock \in Nat
  BY DEF TypeInv
<1>2. \A q \in Runs : run'[q].at = run[q].at /\ run[q].touched \subseteq run'[q].touched
  BY DEF OthersKept
<1>3. \A q \in Runs : run'[q].at \in 0..clock'
  BY <1>1, <1>2 DEF Fetched
<1>4. \A p, q \in Runs : p # q /\ run'[p].at = run'[q].at => run'[p].at = 0
  BY <1>2 DEF Fetched
<1>5. \A q \in Runs : q # r => run[q].at # run[r].at
  BY <1>1 DEF Fetched
<1>6. \A o \in obs', q \in Runs : o.at = run'[q].at => o.topic \in run'[q].touched
  <2> SUFFICES ASSUME NEW o \in obs', NEW q \in Runs, o.at = run[q].at
               PROVE  o.topic \in run'[q].touched
    BY <1>2
  <2>1. CASE o \in obs
    BY <1>2, <2>1 DEF Fetched
  <2>2. CASE o = Observation(r, t)
    <3>1. o.at = run[r].at /\ o.topic = t
      BY <2>2 DEF Observation
    <3>2. q = r
      BY <1>5, <3>1
    <3> QED
      BY <3>1, <3>2
  <2> QED
    BY <2>1, <2>2
<1>7. IsFiniteSet(obs')
  BY FS_AddElement DEF Fetched
<1> QED
  BY <1>3, <1>4, <1>6, <1>7 DEF Fetched

LEMMA CleanUpShrinks ==
  ASSUME TypeInv, CleanUp
  PROVE  UNCHANGED <<run, clock>> /\ obs' \subseteq obs
<1>1. CASE \E s \in Sources, cutoff \in 1..clock + 1 : SweepSource(s, cutoff)
  BY <1>1 DEF SweepSource
<1>2. CASE SweepOrphans \/ ScanOrphans
  BY <1>2 DEF SweepOrphans, ScanOrphans
<1>3. CASE DeleteOrphans
  BY <1>3 DEF DeleteOrphans, DeleteTopics
<1>4. CASE \E cutoff \in 1..clock + 1 : PurgeOld(cutoff)
  BY <1>4 DEF PurgeOld, DeleteTopics
<1> QED
  BY <1>1, <1>2, <1>3, <1>4 DEF CleanUp

LEMMA FetchedStep == TypeInv /\ Fetched /\ [Next]_vars => Fetched'
<1> SUFFICES ASSUME TypeInv, Fetched, [Next]_vars PROVE Fetched'
  OBVIOUS
<1>1. CASE UNCHANGED vars
  BY <1>1 DEF vars, Fetched
<1>2. CASE CleanUp
  <2>1. UNCHANGED <<run, clock>> /\ obs' \subseteq obs
    BY <1>2, CleanUpShrinks
  <2>2. IsFiniteSet(obs')
    BY <2>1, FS_Subset DEF Fetched
  <2> QED
    BY <2>1, <2>2 DEF Fetched
<1>3. ASSUME NEW r \in Runs, Step(r) PROVE Fetched'
  <2>0. clock \in Nat
    BY DEF TypeInv
  <2>1. CASE Reading(r)
    BY <2>1, FetchedReading
  <2>2. CASE Update(r)
    <3>0. PICK t : t = run[r].match
      OBVIOUS
    <3>1. /\ UNCHANGED clock /\ OthersKept(r)
          /\ run[r].at \in 1..clock /\ run'[r].at = run[r].at
          /\ run'[r].touched = run[r].touched \union {t}
      BY <2>2, <3>0, UpdateEffect
    <3>2. obs' = obs \/ obs' = obs \union {Observation(r, t)}
      BY <2>2, <3>0 DEF Update
    <3>3. clock' \in Nat /\ clock <= clock'
      BY <2>0, <3>1
    <3> QED
      BY <3>1, <3>2, <3>3, FetchedWriting
  <2>3. CASE Insert(r)
    <3>1. /\ clock' = clock + 1 /\ OthersKept(r)
          /\ run[r].at \in 1..clock /\ run'[r].at = run[r].at
          /\ run'[r].touched = run[r].touched \union {clock'}
          /\ obs' = obs \union {Observation(r, clock')}
      BY <2>3, InsertEffect
    <3> QED
      BY <2>0, <3>1, FetchedWriting
  <2> QED
    BY <1>3, <2>1, <2>2, <2>3 DEF Step, Reading
<1> QED
  BY <1>1, <1>2, <1>3 DEF Next

LEMMA FetchedAlways == Spec => []Fetched
  BY FetchedInit, FetchedStep, TypeAlways, PTL DEF Spec

-----------------------------------------------------------------------------
(* What the runs claim, and what is stored                                 *)

\* A run counts each topic it inserted or updated once.
Counted ==
    \A r \in Runs : /\ IsFiniteSet(run[r].touched)
                    /\ Cardinality(run[r].touched) = run[r].inserted + run[r].updated

\* While nothing is deleted: what a run has touched or found is there, with the
\* observations the runs made of it and no other.
Kept ==
    /\ sweep.pc = "idle"
    /\ \A r \in Runs : /\ run[r].touched \subseteq DOMAIN topics
                       /\ run[r].pc = "apply" => run[r].match \in {NoTopic} \union DOMAIN topics
    /\ \A t \in DOMAIN topics : topics[t].count = Cardinality(TopicObs(t))
    /\ Cardinality(obs) = Cardinality(Claims)

LEMMA CountedInit == Init => Counted
<1> SUFFICES ASSUME Init PROVE Counted
  OBVIOUS
<1>1. \A r \in Runs : run[r].touched = {} /\ run[r].inserted = 0 /\ run[r].updated = 0
  BY DEF Init, Idle
<1> QED
  BY <1>1, FS_EmptySet DEF Counted

\* One topic more is one more to count.
LEMMA OneCounted ==
  ASSUME TypeInv, Counted, NEW r \in Runs, NEW t, t \notin run[r].touched
  PROVE  /\ IsFiniteSet(run[r].touched \union {t})
         /\ Cardinality(run[r].touched \union {t}) = (run[r].inserted + 1) + run[r].updated
         /\ Cardinality(run[r].touched \union {t}) = run[r].inserted + (run[r].updated + 1)
<1>1. PICK T, i, u : T = run[r].touched /\ i = run[r].inserted /\ u = run[r].updated
  OBVIOUS
<1>2. IsFiniteSet(T) /\ Cardinality(T) = i + u
  BY <1>1 DEF Counted
<1>3. i \in Nat /\ u \in Nat
  BY <1>1 DEF TypeInv, RunShape
<1>4. IsFiniteSet(T \union {t}) /\ Cardinality(T \union {t}) = Cardinality(T) + 1
  BY <1>1, <1>2, FS_AddElement
<1>5. Cardinality(T \union {t}) = (i + 1) + u /\ Cardinality(T \union {t}) = i + (u + 1)
  BY <1>2, <1>3, <1>4
<1> QED
  BY <1>1, <1>4, <1>5

LEMMA CountedStep == TypeInv /\ Counted /\ [Next]_vars => Counted'
<1> SUFFICES ASSUME TypeInv, Counted, [Next]_vars PROVE Counted'
  OBVIOUS
<1>1. CASE UNCHANGED vars
  BY <1>1 DEF vars, Counted
<1>2. CASE CleanUp
  BY <1>2, CleanUpShrinks DEF Counted
<1>3. ASSUME NEW r \in Runs, Step(r) PROVE Counted'
  <2>0. /\ run[r].inserted \in Nat /\ run[r].updated \in Nat
        /\ clock \in Nat /\ run[r].touched \subseteq 1..clock
    BY DEF TypeInv, RunShape, RunOK
  <2>1. /\ IsFiniteSet(run[r].touched)
        /\ Cardinality(run[r].touched) = run[r].inserted + run[r].updated
    BY DEF Counted
  <2>a. ASSUME OthersKept(r), IsFiniteSet(run'[r].touched),
               Cardinality(run'[r].touched) = run'[r].inserted + run'[r].updated
        PROVE  Counted'
    BY <2>a DEF Counted, OthersKept
  <2>2. CASE Reading(r)
    <3>1. OthersKept(r) /\ SameClaims(run[r], run'[r])
      BY <2>2, ReadingEffect
    <3> QED
      BY <2>1, <2>a, <3>1 DEF SameClaims
  <2>3. CASE Update(r)
    <3>0. PICK t : t = run[r].match
      OBVIOUS
    <3>1. /\ OthersKept(r) /\ t \notin run[r].touched
          /\ run'[r].touched = run[r].touched \union {t}
          /\ run'[r].inserted = run[r].inserted
          /\ run'[r].updated = run[r].updated + 1
      BY <2>3, <3>0, UpdateEffect
    <3>2. /\ IsFiniteSet(run[r].touched \union {t})
          /\ Cardinality(run[r].touched \union {t})
               = run[r].inserted + (run[r].updated + 1)
      BY <3>1, OneCounted
    <3> QED
      BY <2>a, <3>1, <3>2
  <2>4. CASE Insert(r)
    <3>1. /\ OthersKept(r) /\ clock' = clock + 1
          /\ run'[r].touched = run[r].touched \union {clock'}
          /\ run'[r].inserted = run[r].inserted + 1
          /\ run'[r].updated = run[r].updated
      BY <2>4, InsertEffect
    <3>2. clock' \notin run[r].touched
      BY <2>0, <3>1
    <3>3. /\ IsFiniteSet(run[r].touched \union {clock'})
          /\ Cardinality(run[r].touched \union {clock'})
               = (run[r].inserted + 1) + run[r].updated
      BY <3>2, OneCounted
    <3> QED
      BY <2>a, <3>1, <3>3
  <2> QED
    BY <1>3, <2>2, <2>3, <2>4 DEF Step, Reading
<1> QED
  BY <1>1, <1>2, <1>3 DEF Next

LEMMA NothingClaimed == Init => Claims = {}
  BY DEF Init, Idle, Claims

LEMMA KeptInit == Init => Kept
<1> SUFFICES ASSUME Init PROVE Kept
  OBVIOUS
<1>1. DOMAIN topics = {} /\ obs = {} /\ sweep.pc = "idle"
  BY DEF Init
<1>2. \A r \in Runs : run[r].touched = {} /\ run[r].pc = "idle"
  BY DEF Init, Idle
<1> QED
  BY <1>1, <1>2, NothingClaimed DEF Kept

LEMMA ClaimsFinite == TypeInv => IsFiniteSet(Claims)
<1> SUFFICES ASSUME TypeInv PROVE IsFiniteSet(Claims)
  OBVIOUS
<1>1. clock \in Nat /\ \A r \in Runs : run[r].touched \subseteq 1..clock
  BY DEF TypeInv, RunOK
<1>2. IsFiniteSet(1..clock)
  BY <1>1, FS_Interval
<1>3. IsFiniteSet(Runs \X (1..clock))
  BY <1>2, FS_Product, RunsAssumption
<1>4. Claims \in SUBSET (Runs \X (1..clock))
  BY <1>1 DEF Claims
<1> QED
  BY <1>3, <1>4, FS_Subset

LEMMA SameClaimed ==
  ASSUME \A q \in Runs : run'[q].touched = run[q].touched
  PROVE  Claims' = Claims
  BY DEF Claims

LEMMA OneClaimed ==
  ASSUME TypeInv, NEW r \in Runs, NEW t, OthersKept(r), t \notin run[r].touched,
         run'[r].touched = run[r].touched \union {t}
  PROVE  Cardinality(Claims') = Cardinality(Claims) + 1
<1>1. Claims' = Claims \union {<<r, t>>}
  <2>1. ASSUME NEW c \in Claims' PROVE c \in Claims \union {<<r, t>>}
    <3>1. PICK q \in Runs : c \in {q} \X run'[q].touched
      BY DEF Claims
    <3>2. CASE q = r
      BY <3>1, <3>2 DEF Claims
    <3>3. CASE q # r
      BY <3>1, <3>3 DEF Claims, OthersKept
    <3> QED
      BY <3>2, <3>3
  <2>2. ASSUME NEW c \in Claims PROVE c \in Claims'
    <3>1. PICK q \in Runs : c \in {q} \X run[q].touched
      BY DEF Claims
    <3>2. run[q].touched \subseteq run'[q].touched
      BY DEF OthersKept
    <3> QED
      BY <3>1, <3>2 DEF Claims
  <2>3. <<r, t>> \in Claims'
    BY DEF Claims
  <2> QED
    BY <2>1, <2>2, <2>3
<1>2. <<r, t>> \notin Claims
  BY DEF Claims
<1> QED
  BY <1>1, <1>2, ClaimsFinite, FS_AddElement, FS_CardinalityType

LEMMA ReadingFinds ==
  ASSUME TypeInv, NEW r \in Runs, Reading(r)
  PROVE  run'[r].pc = "apply" => run'[r].match \in {NoTopic} \union DOMAIN topics
<1>1. CASE Fetch(r)
  BY <1>1, FetchEffect
<1>2. CASE Find(r)
  BY <1>2, FindEffect
<1>3. CASE SkipWithinRun(r)
  BY <1>3, SkipEffect
<1>4. CASE Start(r) \/ FetchFails(r) \/ Persist(r) \/ RepoFails(r)
  BY <1>4, TurnEffect
<1> QED
  BY <1>1, <1>2, <1>3, <1>4 DEF Reading

LEMMA KeptReading ==
  ASSUME TypeInv, Kept, NEW r \in Runs, Reading(r)
  PROVE  Kept'
<1>1. /\ UNCHANGED <<topics, obs, sweep>> /\ OthersKept(r)
      /\ run'[r].touched = run[r].touched
      /\ run'[r].pc = "apply" => run'[r].match \in {NoTopic} \union DOMAIN topics
  BY ReadingEffect, ReadingFinds DEF SameClaims
<1>2. \A q \in Runs : run'[q].touched = run[q].touched
  BY <1>1 DEF OthersKept
<1>3. Claims' = Claims
  BY <1>2, SameClaimed
<1>4. \A q \in Runs : run'[q].pc = "apply" => run'[q].match \in {NoTopic} \union DOMAIN topics
  BY <1>1 DEF OthersKept, Kept
<1> QED
  BY <1>1, <1>2, <1>3, <1>4 DEF Kept, TopicObs

\* A write stores the claim it makes.
LEMMA KeptWriting ==
  ASSUME TypeInv, Fetched, Kept, NEW r \in Runs, NEW t,
         UNCHANGED sweep, OthersKept(r), run'[r].pc = "loop",
         t \notin run[r].touched, run'[r].touched = run[r].touched \union {t},
         DOMAIN topics' = DOMAIN topics \union {t},
         \A u \in DOMAIN topics : u # t => topics'[u] = topics[u],
         topics'[t].count = Cardinality(TopicObs(t)) + 1,
         obs' = obs \union {Observation(r, t)}
  PROVE  Kept'
<1> DEFINE o == Observation(r, t)
<1>1. o.topic = t /\ o.at = run[r].at
  BY DEF Observation
<1>2. o \notin obs
  BY <1>1 DEF Fetched
<1> HIDE DEF o
<1>3. /\ IsFiniteSet(obs) /\ \A u : IsFiniteSet(TopicObs(u))
  BY FS_Subset DEF Fetched, TopicObs
<1>4. Cardinality(obs') = Cardinality(obs) + 1
  BY <1>2, <1>3, FS_AddElement DEF o
<1>5. Cardinality(Claims') = Cardinality(Claims) + 1
  BY OneClaimed
<1>6. \A u : u # t => TopicObs(u)' = TopicObs(u)
  BY <1>1 DEF TopicObs, o
<1>7. TopicObs(t)' = TopicObs(t) \union {o} /\ o \notin TopicObs(t)
  BY <1>1, <1>2 DEF TopicObs, o
<1>8. Cardinality(TopicObs(t)') = Cardinality(TopicObs(t)) + 1
  BY <1>3, <1>7, FS_AddElement
<1>9. ASSUME NEW u \in DOMAIN topics' PROVE topics'[u].count = Cardinality(TopicObs(u)')
  <2>1. CASE u = t
    BY <1>8, <2>1
  <2>2. CASE u # t
    BY <1>6, <2>2 DEF Kept
  <2> QED
    BY <2>1, <2>2
<1>10. \A q \in Runs : run'[q].touched \subseteq DOMAIN topics'
  BY DEF OthersKept, Kept
<1>11. \A q \in Runs : run'[q].pc = "apply" => run'[q].match \in {NoTopic} \union DOMAIN topics'
  BY DEF OthersKept, Kept
<1>12. sweep'.pc = "idle" /\ Cardinality(obs') = Cardinality(Claims')
  BY <1>4, <1>5 DEF Kept
<1> QED
  BY <1>9, <1>10, <1>11, <1>12 DEF Kept

LEMMA UpdateKept ==
  ASSUME TypeInv, Fetched, Kept, NEW r \in Runs, Update(r)
  PROVE  Kept'
<1>0. PICK t : t = run[r].match
  OBVIOUS
<1>1. /\ UNCHANGED sweep /\ OthersKept(r) /\ run'[r].pc = "loop"
      /\ t \notin run[r].touched /\ t \in 1..clock /\ run[r].pc = "apply"
      /\ run'[r].touched = run[r].touched \union {t}
  BY <1>0, UpdateEffect
<1>2. t \in DOMAIN topics
  BY <1>0, <1>1 DEF Kept, NoTopic
<1>3. /\ topics' = [topics EXCEPT ![t].count = @ + 1, ![t].last = run[r].at]
      /\ obs' = obs \union {Observation(r, t)}
  BY <1>0, <1>2 DEF Update
<1>4. topics[t] \in TopicShape
  BY <1>2 DEF TypeInv
<1>5. DOMAIN topics' = DOMAIN topics /\ \A u \in DOMAIN topics : u # t => topics'[u] = topics[u]
  BY <1>3
<1>6. topics'[t].count = topics[t].count + 1
  BY <1>2, <1>3, <1>4 DEF TopicShape
<1>7. topics[t].count = Cardinality(TopicObs(t))
  BY <1>2 DEF Kept
<1> QED
  BY <1>1, <1>2, <1>3, <1>5, <1>6, <1>7, KeptWriting

LEMMA InsertKept ==
  ASSUME TypeInv, Fetched, Kept, NEW r \in Runs, Insert(r)
  PROVE  Kept'
<1>0. PICK t : t = clock'
  OBVIOUS
<1>1. /\ UNCHANGED sweep /\ OthersKept(r) /\ run'[r].pc = "loop"
      /\ run'[r].touched = run[r].touched \union {t} /\ t = clock + 1
      /\ DOMAIN topics' = DOMAIN topics \union {t}
      /\ topics'[t] = [title |-> Head(run[r].items), count |-> 1, last |-> t]
      /\ \A u \in DOMAIN topics : u # t /\ topics'[u] = topics[u]
      /\ obs' = obs \union {Observation(r, t)}
  BY <1>0, InsertEffect
<1>2. /\ clock \in Nat /\ run[r].touched \subseteq 1..clock
      /\ \A o \in obs : o.topic \in DOMAIN topics
  BY DEF TypeInv, RunOK
<1>3. t \notin run[r].touched
  BY <1>1, <1>2
<1>4. TopicObs(t) = {}
  BY <1>1, <1>2 DEF TopicObs
<1>5. topics'[t].count = Cardinality(TopicObs(t)) + 1
  <2>1. topics'[t].count = 1
    BY <1>1
  <2>2. Cardinality(TopicObs(t)) = 0
    BY <1>4, FS_EmptySet
  <2> QED
    BY <2>1, <2>2
<1> QED
  BY <1>1, <1>3, <1>5, KeptWriting

LEMMA KeptStep ==
  ASSUME TypeInv, Fetched, Kept, ~May("cleanup"), [Next]_vars
  PROVE  Kept'
<1>1. CASE UNCHANGED vars
  BY <1>1 DEF vars, Kept, TopicObs, Claims
<1>2. ~CleanUp
  BY DEF CleanUp, SweepSource, SweepOrphans, ScanOrphans, DeleteOrphans, PurgeOld, Kept
<1>3. ASSUME NEW r \in Runs, Step(r) PROVE Kept'
  BY <1>3, KeptReading, UpdateKept, InsertKept DEF Step, Reading
<1> QED
  BY <1>1, <1>2, <1>3 DEF Next

\* What may happen in a behaviour is settled at its start.
LEMMA MaySame == [Next]_vars => setting' = setting
  BY DEF Next, vars

KeptWithoutCleanUp == ~May("cleanup") => Kept

LEMMA KeptAlways == Spec => []KeptWithoutCleanUp
<1>1. Init => KeptWithoutCleanUp
  BY KeptInit DEF KeptWithoutCleanUp
<1>2. TypeInv /\ Fetched /\ KeptWithoutCleanUp /\ [Next]_vars => KeptWithoutCleanUp'
  BY MaySame, KeptStep DEF KeptWithoutCleanUp, May
<1> QED
  BY <1>1, <1>2, TypeAlways, FetchedAlways, PTL DEF Spec

LEMMA CountedAlways == Spec => []Counted
  BY CountedInit, CountedStep, TypeAlways, PTL DEF Spec

\* Without clean-ups the table holds exactly what the runs count as inserted
\* and updated, an observation for each: however many runs overlap, and wherever
\* a repository call fails and the run is abandoned.
THEOREM ClaimsAreStored == Spec => []StoredClaims
<1>1. Counted /\ KeptWithoutCleanUp => StoredClaims
  BY DEF Counted, KeptWithoutCleanUp, Kept, StoredClaims
<1> QED
  BY <1>1, CountedAlways, KeptAlways, PTL

\* And observation_count is the number of observations stored: the counter of
\* update_existing and the rows beside it never part.
THEOREM CountsObservations == Spec => []StoredObservations
<1>1. KeptWithoutCleanUp => StoredObservations
  BY DEF KeptWithoutCleanUp, Kept, StoredObservations
<1> QED
  BY <1>1, KeptAlways, PTL

-----------------------------------------------------------------------------
(* Runs one at a time                                                      *)

\* What a run has still to apply was fetched after every topic it has not
\* touched was last seen.
Alone ==
    /\ \A q, r \in Runs : Active(q) /\ Active(r) => q = r
    /\ \A r \in Runs : run[r].pc = "idle" => run[r].items = <<>>
    /\ \A r \in Runs, t \in DOMAIN topics :
         Active(r) /\ run[r].items # <<>> /\ t \notin run[r].touched =>
            topics[t].last <= run[r].at

LEMMA AloneInit == Init => Alone
  BY DEF Init, Idle, Alone, Active

\* The run that steps is the only one that is or becomes active.
LEMMA OthersRest ==
  ASSUME TypeInv, Alone, ~May("overlap"), NEW r \in Runs, Step(r)
  PROVE  /\ OthersKept(r)
         /\ \A q \in Runs : q # r => ~Active(q)
<1>1. OthersKept(r)
  BY ReadingEffect, UpdateEffect, InsertEffect DEF Step, Reading
<1>2. CASE Start(r)
  BY <1>1, <1>2 DEF Start
<1>3. CASE ~Start(r)
  <2>1. Active(r)
    BY <1>3 DEF Step, Active, Fetch, FetchFails, Find, SkipWithinRun, Update, Insert,
                Persist, RepoFails
  <2> QED
    BY <1>1, <2>1 DEF Alone
<1> QED
  BY <1>2, <1>3

\* So it is enough to look at that run.
LEMMA AloneRun ==
  ASSUME TypeInv, Alone, NEW r \in Runs,
         OthersKept(r), \A q \in Runs : q # r => ~Active(q),
         run'[r].pc = "idle" => run'[r].items = <<>>,
         \A t \in DOMAIN topics' :
            run'[r].items # <<>> /\ t \notin run'[r].touched =>
               topics'[t].last <= run'[r].at
  PROVE  Alone'
<1>1. \A q \in Runs : q # r => run'[q] = run[q] /\ ~Active(q)'
  BY DEF OthersKept, Active
<1>2. \A p, q \in Runs : Active(p)' /\ Active(q)' => p = q
  BY <1>1
<1>3. \A q \in Runs : run'[q].pc = "idle" => run'[q].items = <<>>
  BY <1>1 DEF Alone
<1>4. ASSUME NEW q \in Runs, NEW t \in DOMAIN topics',
             Active(q)', run'[q].items # <<>>, t \notin run'[q].touched
      PROVE  topics'[t].last <= run'[q].at
  <2>1. q = r
    BY <1>1, <1>4
  <2> QED
    BY <1>4, <2>1
<1> QED
  BY <1>2, <1>3, <1>4 DEF Alone

LEMMA AloneReading ==
  ASSUME TypeInv, Alone, ~May("overlap"), NEW r \in Runs, Reading(r)
  PROVE  Alone'
<1>0. /\ OthersKept(r) /\ \A q \in Runs : q # r => ~Active(q)
      /\ UNCHANGED topics /\ run'[r].touched = run[r].touched
  BY OthersRest, ReadingEffect DEF Step, Reading, SameClaims
<1>a. ASSUME Active(r), run[r].items # <<>>, run'[r].at = run[r].at, run'[r].pc # "idle"
      PROVE  Alone'
  <2>1. \A t \in DOMAIN topics : t \notin run[r].touched => topics[t].last <= run[r].at
    BY <1>a DEF Alone
  <2> QED
    BY <1>0, <1>a, <2>1, AloneRun
<1>b. ASSUME run'[r].items = <<>> PROVE Alone'
  BY <1>0, <1>b, AloneRun
<1>1. CASE Fetch(r)
  <2>1. /\ clock' = clock + 1 /\ run'[r].at = clock' /\ run'[r].pc = "loop"
    BY <1>1, FetchEffect
  <2>2. \A t \in DOMAIN topics : topics[t].last \in 1..clock /\ clock \in Nat
    BY DEF TypeInv
  <2>3. \A t \in DOMAIN topics' : topics'[t].last <= run'[r].at
    BY <1>0, <2>1, <2>2
  <2> QED
    BY <1>0, <2>1, <2>3, AloneRun
<1>2. CASE Find(r)
  <2>1. run'[r].at = run[r].at /\ run'[r].pc = "apply" /\ run[r].pc = "loop"
    BY <1>2, FindEffect
  <2>2. run[r].items # <<>>
    BY <1>2 DEF Find
  <2> QED
    BY <1>a, <2>1, <2>2 DEF Active
<1>3. CASE SkipWithinRun(r)
  <2>1. run'[r].at = run[r].at /\ run'[r].pc = "loop" /\ run[r].pc = "apply"
    BY <1>3, SkipEffect
  <2>2. run[r].items # <<>>
    BY <2>1 DEF TypeInv, RunOK
  <2> QED
    BY <1>a, <2>1, <2>2 DEF Active
<1>4. CASE Start(r) \/ FetchFails(r) \/ Persist(r) \/ RepoFails(r)
  <2>1. /\ run'[r].at = run[r].at /\ run'[r].items = run[r].items
        /\ run'[r].pc # "idle"
        /\ ~Start(r) => Active(r)
        /\ Start(r) => run[r].pc = "idle"
    BY <1>4, TurnEffect
  <2>2. CASE run[r].items = <<>>
    BY <1>b, <2>1, <2>2
  <2>3. CASE run[r].items # <<>>
    <3>1. ~Start(r)
      BY <2>1, <2>3 DEF Alone
    <3> QED
      BY <1>a, <2>1, <2>3, <3>1
  <2> QED
    BY <2>2, <2>3
<1> QED
  BY <1>1, <1>2, <1>3, <1>4 DEF Reading

\* What an update does to the topics.
LEMMA UpdatedTopics ==
  ASSUME TypeInv, NEW r \in Runs, Update(r)
  PROVE  /\ DOMAIN topics' = DOMAIN topics
         /\ \A t \in DOMAIN topics : topics'[t].title = topics[t].title
         /\ \A t \in DOMAIN topics : topics'[t].last =
              IF t = run[r].match THEN run[r].at ELSE topics[t].last
<1>0. PICK m : m = run[r].match
  OBVIOUS
<1>1. CASE m \in DOMAIN topics
  <2>1. topics' = [topics EXCEPT ![m].count = @ + 1, ![m].last = run[r].at]
    BY <1>0, <1>1 DEF Update
  <2>2. topics \in [DOMAIN topics -> TopicShape]
    BY DEF TypeInv
  <2>3. DOMAIN topics' = DOMAIN topics
    BY <2>1
  <2>4. ASSUME NEW t \in DOMAIN topics
        PROVE  /\ topics'[t].title = topics[t].title
               /\ topics'[t].last = IF t = m THEN run[r].at ELSE topics[t].last
    <3>1. topics[t] \in TopicShape
      BY <2>2
    <3>2. CASE t = m
      BY <2>1, <3>1, <3>2 DEF TopicShape
    <3>3. CASE t # m
      BY <2>1, <3>1, <3>3
    <3> QED
      BY <3>2, <3>3
  <2> QED
    BY <1>0, <2>3, <2>4
<1>2. CASE m \notin DOMAIN topics
  BY <1>0, <1>2 DEF Update
<1> QED
  BY <1>1, <1>2

LEMMA AloneUpdate ==
  ASSUME TypeInv, Alone, ~May("overlap"), NEW r \in Runs, Update(r)
  PROVE  Alone'
<1>0. PICK m : m = run[r].match
  OBVIOUS
<1>1. /\ OthersKept(r) /\ \A q \in Runs : q # r => ~Active(q)
      /\ run'[r].at = run[r].at /\ run'[r].pc = "loop"
      /\ run'[r].touched = run[r].touched \union {m} /\ run[r].pc = "apply"
  BY <1>0, OthersRest, UpdateEffect DEF Step
<1>2. Active(r) /\ run[r].items # <<>>
  BY <1>1 DEF Active, TypeInv, RunOK
<1>3. \A t \in DOMAIN topics : t \notin run[r].touched => topics[t].last <= run[r].at
  BY <1>2 DEF Alone
<1>4. \A t \in DOMAIN topics' : t \notin run'[r].touched => topics'[t].last <= run'[r].at
  BY <1>0, <1>1, <1>3, UpdatedTopics
<1> QED
  BY <1>1, <1>4, AloneRun

LEMMA AloneInsert ==
  ASSUME TypeInv, Alone, ~May("overlap"), NEW r \in Runs, Insert(r)
  PROVE  Alone'
<1>1. /\ OthersKept(r) /\ \A q \in Runs : q # r => ~Active(q)
      /\ run'[r].at = run[r].at /\ run'[r].pc = "loop"
      /\ run'[r].touched = run[r].touched \union {clock'} /\ run[r].pc = "apply"
      /\ DOMAIN topics' = DOMAIN topics \union {clock'}
      /\ \A t \in DOMAIN topics : topics'[t] = topics[t]
  BY OthersRest, InsertEffect DEF Step
<1>2. Active(r) /\ run[r].items # <<>>
  BY <1>1 DEF Active, TypeInv, RunOK
<1>3. \A t \in DOMAIN topics : t \notin run[r].touched => topics[t].last <= run[r].at
  BY <1>2 DEF Alone
<1>4. \A t \in DOMAIN topics' : t \notin run'[r].touched => topics'[t].last <= run'[r].at
  BY <1>1, <1>3
<1> QED
  BY <1>1, <1>4, AloneRun

LEMMA AloneStep ==
  ASSUME TypeInv, Alone, ~May("overlap"), [Next]_vars
  PROVE  Alone'
<1>1. CASE UNCHANGED vars
  BY <1>1 DEF vars, Alone, Active
<1>2. CASE CleanUp
  BY <1>2, CleanUpKeeps DEF Alone, Active
<1> QED
  BY <1>1, <1>2, AloneReading, AloneUpdate, AloneInsert DEF Next, Step, Reading

OneAtATime == ~May("overlap") => Alone

LEMMA AloneAlways == Spec => []OneAtATime
<1>1. Init => OneAtATime
  BY AloneInit DEF OneAtATime
<1>2. TypeInv /\ OneAtATime /\ [Next]_vars => OneAtATime'
  BY MaySame, AloneStep DEF OneAtATime, May
<1> QED
  BY <1>1, <1>2, TypeAlways, PTL DEF Spec

LEMMA SeenForward ==
  ASSUME TypeInv, Alone, ~May("overlap"), [Next]_vars
  PROVE  LastSeenStep
<1>0. \A t \in DOMAIN topics : topics[t].last \in Nat
  BY DEF TypeInv
<1>1. CASE UNCHANGED vars
  BY <1>0, <1>1 DEF vars, LastSeenStep
<1>2. CASE CleanUp
  BY <1>0, <1>2, CleanUpKeeps DEF LastSeenStep
<1>3. ASSUME NEW r \in Runs, Update(r) PROVE LastSeenStep
  <2>0. PICK m : m = run[r].match
    OBVIOUS
  <2>1. Active(r) /\ run[r].items # <<>> /\ m \notin run[r].touched
    BY <1>3, <2>0, UpdateEffect DEF Active, TypeInv, RunOK
  <2>2. \A t \in DOMAIN topics : t \notin run[r].touched => topics[t].last <= run[r].at
    BY <2>1 DEF Alone
  <2>3. \A t \in DOMAIN topics : topics'[t].last = IF t = m THEN run[r].at ELSE topics[t].last
    BY <1>3, <2>0, UpdatedTopics
  <2> QED
    BY <1>0, <2>1, <2>2, <2>3 DEF LastSeenStep
<1>4. ASSUME NEW r \in Runs, Insert(r) PROVE LastSeenStep
  <2>1. \A t \in DOMAIN topics : topics'[t] = topics[t]
    BY <1>4, InsertEffect
  <2> QED
    BY <1>0, <2>1 DEF LastSeenStep
<1>5. ASSUME NEW r \in Runs, Reading(r) PROVE LastSeenStep
  BY <1>0, <1>5, ReadingEffect DEF LastSeenStep
<1> QED
  BY <1>1, <1>2, <1>3, <1>4, <1>5 DEF Next, Step, Reading

\* One run at a time, last_seen_at never moves back: an item is applied with the
\* time its source was fetched, later than any topic of an earlier run was seen,
\* and never twice to a topic.
THEOREM SeenAdvances == Spec => SequentialLastSeenAdvances
<1>1. TypeInv /\ OneAtATime /\ [Next]_vars => [~May("overlap") => LastSeenStep]_vars
  BY SeenForward DEF OneAtATime
<1> QED
  BY <1>1, TypeAlways, AloneAlways, PTL DEF Spec, SequentialLastSeenAdvances

-----------------------------------------------------------------------------
(* No two topics alike                                                     *)

\* find_candidates returns every topic.
AllInWindow == Cardinality(DOMAIN topics) <= CandidateLimit

\* A run about to insert knows that nothing is similar.
Distinct ==
    /\ NoDuplicateTopics
    /\ \A r \in Runs : run[r].pc = "apply" /\ run[r].match = NoTopic =>
         \A t \in DOMAIN topics : <<Head(run[r].items), topics[t].title>> \notin Similar

LEMMA WindowIsAll ==
  ASSUME TypeInv, AllInWindow, NEW W \in Windows
  PROVE  W = DOMAIN topics
<1>1. IsFiniteSet(DOMAIN topics)
  <2>1. clock \in Nat /\ DOMAIN topics \in SUBSET (1..clock)
    BY DEF TypeInv
  <2>2. IsFiniteSet(1..clock)
    BY <2>1, FS_Interval
  <2> QED
    BY <2>1, <2>2, FS_Subset
<1>2. /\ W \in SUBSET DOMAIN topics
      /\ Cardinality(W) < CandidateLimit => W = DOMAIN topics
  BY DEF Windows
<1>3. /\ Cardinality(W) <= Cardinality(DOMAIN topics)
      /\ Cardinality(W) = Cardinality(DOMAIN topics) => W = DOMAIN topics
      /\ IsFiniteSet(W)
  BY <1>1, <1>2, FS_Subset
<1>4. Cardinality(W) \in Nat /\ Cardinality(DOMAIN topics) \in Nat
  BY <1>1, <1>3, FS_CardinalityType
<1> QED
  BY <1>2, <1>3, <1>4, LimitAssumption DEF AllInWindow

LEMMA NoneSimilar ==
  ASSUME TypeInv, NEW title, NoTopic \in Matches(title, DOMAIN topics)
  PROVE  \A t \in DOMAIN topics : <<title, topics[t].title>> \notin Similar
<1> DEFINE S == {t \in DOMAIN topics : <<title, topics[t].title>> \in Similar}
<1>1. NoTopic \notin DOMAIN topics
  BY DEF TypeInv, NoTopic
<1>2. S = {}
  BY <1>1 DEF Matches
<1> QED
  BY <1>2

LEMMA DistinctInit == Init => Distinct
  BY DEF Init, Idle, Distinct, NoDuplicateTopics

\* Topics that keep their titles, and a run that is not about to insert.
LEMMA DistinctKept ==
  ASSUME Distinct, NEW r \in Runs, OthersKept(r),
         DOMAIN topics' \subseteq DOMAIN topics,
         \A t \in DOMAIN topics' : topics'[t].title = topics[t].title,
         run'[r].pc = "apply" /\ run'[r].match = NoTopic =>
            \A t \in DOMAIN topics : <<Head(run'[r].items), topics[t].title>> \notin Similar
  PROVE  Distinct'
<1>1. NoDuplicateTopics'
  BY DEF Distinct, NoDuplicateTopics
<1>2. \A q \in Runs : run'[q].pc = "apply" /\ run'[q].match = NoTopic =>
        \A t \in DOMAIN topics : <<Head(run'[q].items), topics[t].title>> \notin Similar
  BY DEF Distinct, OthersKept
<1> QED
  BY <1>1, <1>2 DEF Distinct

LEMMA DistinctReading ==
  ASSUME TypeInv, AllInWindow, Distinct, NEW r \in Runs, Reading(r)
  PROVE  Distinct'
<1>0. UNCHANGED topics /\ OthersKept(r)
  BY ReadingEffect
<1>1. CASE Find(r)
  <2>1. PICK W \in Windows : run'[r].match \in Matches(Head(run[r].items), W)
    BY <1>1, FindEffect
  <2>2. W = DOMAIN topics /\ run'[r].items = run[r].items
    BY <1>1, WindowIsAll, FindEffect
  <2>3. run'[r].match = NoTopic =>
          \A t \in DOMAIN topics : <<Head(run'[r].items), topics[t].title>> \notin Similar
    BY <2>1, <2>2, NoneSimilar
  <2> QED
    BY <1>0, <2>3, DistinctKept
<1>2. CASE ~Find(r)
  <2>1. run'[r].pc # "apply"
    BY <1>2, FetchEffect, SkipEffect, TurnEffect DEF Reading
  <2> QED
    BY <1>0, <2>1, DistinctKept
<1> QED
  BY <1>1, <1>2

LEMMA DistinctInsert ==
  ASSUME TypeInv, Alone, ~May("overlap"), Distinct, NEW r \in Runs, Insert(r)
  PROVE  Distinct'
<1>0. PICK n : n = clock'
  OBVIOUS
<1>a. OthersKept(r) /\ \A q \in Runs : q # r => ~Active(q)
  BY OthersRest DEF Step
<1>b. /\ run[r].pc = "apply" /\ run[r].match = NoTopic /\ run'[r].pc = "loop"
      /\ DOMAIN topics' = DOMAIN topics \union {n}
      /\ topics'[n] = [title |-> Head(run[r].items), count |-> 1, last |-> n]
      /\ \A t \in DOMAIN topics : topics'[t] = topics[t]
  BY <1>0, InsertEffect
<1>1. /\ OthersKept(r) /\ \A q \in Runs : q # r => ~Active(q)
      /\ run[r].pc = "apply" /\ run[r].match = NoTopic /\ run'[r].pc = "loop"
      /\ DOMAIN topics' = DOMAIN topics \union {n}
      /\ topics'[n].title = Head(run[r].items)
      /\ \A t \in DOMAIN topics : topics'[t] = topics[t]
  BY <1>a, <1>b
<1>2. \A t \in DOMAIN topics : <<topics'[n].title, topics[t].title>> \notin Similar
  BY <1>1 DEF Distinct
<1>3. topics'[n].title \in Titles /\ \A t \in DOMAIN topics : topics[t].title \in Titles
  <2>1. run[r] \in RunShape /\ run[r].items # <<>>
    BY <1>1 DEF TypeInv, RunOK
  <2>2. topics \in [DOMAIN topics -> TopicShape]
    BY DEF TypeInv
  <2> QED
    BY <1>1, <2>1, <2>2, RunFields DEF TopicShape
<1>4. \A t \in DOMAIN topics : <<topics[t].title, topics'[n].title>> \notin Similar
  BY <1>2, <1>3, SimilarAssumption
<1>5. ASSUME NEW t \in DOMAIN topics', NEW u \in DOMAIN topics', t # u
      PROVE  <<topics'[t].title, topics'[u].title>> \notin Similar
  <2>1. CASE t = n
    BY <1>1, <1>2, <1>5, <2>1
  <2>2. CASE u = n
    BY <1>1, <1>4, <1>5, <2>2
  <2>3. CASE t # n /\ u # n
    BY <1>1, <1>5, <2>3 DEF Distinct, NoDuplicateTopics
  <2> QED
    BY <2>1, <2>2, <2>3
<1>6. \A q \in Runs : run'[q].pc # "apply"
  BY <1>1 DEF OthersKept, Active
<1> QED
  BY <1>5, <1>6 DEF Distinct, NoDuplicateTopics

LEMMA DistinctStep ==
  ASSUME TypeInv, Alone, ~May("overlap"), AllInWindow, Distinct, [Next]_vars
  PROVE  Distinct'
<1>1. CASE UNCHANGED vars
  BY <1>1 DEF vars, Distinct, NoDuplicateTopics
<1>2. CASE CleanUp
  <2>1. /\ UNCHANGED run /\ DOMAIN topics' \subseteq DOMAIN topics
        /\ \A t \in DOMAIN topics' : topics'[t] = topics[t]
    BY <1>2, CleanUpKeeps
  <2> QED
    BY <2>1 DEF Distinct, NoDuplicateTopics
<1>3. ASSUME NEW r \in Runs, Update(r) PROVE Distinct'
  <2>1. OthersKept(r) /\ run'[r].pc = "loop"
    BY <1>3, UpdateEffect
  <2>2. DOMAIN topics' = DOMAIN topics
        /\ \A t \in DOMAIN topics : topics'[t].title = topics[t].title
    BY <1>3, UpdatedTopics
  <2> QED
    BY <2>1, <2>2, DistinctKept
<1> QED
  BY <1>1, <1>2, <1>3, DistinctReading, DistinctInsert DEF Next, Step, Reading

DistinctAlone == ~May("overlap") => Distinct

\* Runs one at a time never store a second topic for a similar title, as long as
\* the window of find_candidates holds them all: with more topics than that, the
\* match may be outside it.  Sources, fetches that fail, abandoned runs and
\* clean-ups between any two steps make no difference.
THEOREM AloneNoDuplicates == Spec /\ []AllInWindow => []SequentialNoDuplicates
<1>1. Init => DistinctAlone
  BY DistinctInit DEF DistinctAlone
<1>2. TypeInv /\ OneAtATime /\ AllInWindow /\ DistinctAlone /\ [Next]_vars => DistinctAlone'
  BY MaySame, DistinctStep DEF DistinctAlone, OneAtATime, May
<1>3. DistinctAlone => SequentialNoDuplicates
  BY DEF DistinctAlone, Distinct, SequentialNoDuplicates
<1> QED
  BY <1>1, <1>2, <1>3, TypeAlways, AloneAlways, PTL DEF Spec

=============================================================================
