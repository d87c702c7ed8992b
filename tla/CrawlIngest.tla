----------------------------- MODULE CrawlIngest -----------------------------
(***************************************************************************)
(* The crawler's run_once (orchestrator.py) over the SQLAlchemy topic      *)
(* repository, any number of runs at a time (the CLI container, POST       *)
(* /crawl, the two internal crawl routes), next to the API's topic         *)
(* clean-up routes.  Each repository call is one transaction; nothing      *)
(* spans the search for a match and the write that follows it.             *)
(*                                                                         *)
(* A topic is named by its first_seen_at: ids and clock readings are both  *)
(* unique.  An observation is a topic_sources row; its url is the item's   *)
(* and adds nothing to the fetch time, which is unique per fetch.          *)
(***************************************************************************)
EXTENDS Naturals, Sequences, FiniteSets, FiniteSetsExt

CONSTANTS
    Runs,           \* bound: invocations of run_once
    Sources,        \* sources there are
    Titles,         \* titles up to dedup_key
    Similar,        \* the pairs of titles is_duplicate accepts
    Feeds,          \* bound: what one fetch may return
    CandidateLimit, \* find_candidates' window
    Settings        \* the sources that are enabled, what a fetch of them may
                    \* return, and which of AllFaults may happen

AllFaults == {"overlap",     \* two runs at the same time
              "repo_fails",  \* a repository call raises
              "cleanup"}     \* the clean-up routes are used

ASSUME SimilarAssumption ==
    /\ Similar \subseteq Titles \X Titles
    /\ \A a, b \in Titles : <<a, b>> \in Similar => <<b, a>> \in Similar
ASSUME FeedsAssumption == Feeds \subseteq Seq(Titles)
ASSUME LimitAssumption == CandidateLimit \in Nat \ {0}
ASSUME RunsAssumption == IsFiniteSet(Runs)
ASSUME SettingsAssumption ==
    \A s \in Settings : /\ DOMAIN s = {"sources", "feeds", "faults"}
                       /\ s.sources \subseteq Sources
                       /\ s.feeds \subseteq Feeds
                       /\ s.faults \subseteq AllFaults

VARIABLES
    setting,    \* what may happen in this behaviour
    clock,      \* the database's and the crawlers' wall clock
    topics,     \* topics, by id: title, observation_count, last_seen_at
    obs,        \* topic_sources rows
    run,        \* the state of each run_once
    crawlRuns,  \* crawl_runs rows
    sweep       \* the clean-up request under way

vars == <<setting, clock, topics, obs, run, crawlRuns, sweep>>

May(fault) == fault \in setting.faults

NoTopic == 0

Idle == [pc |-> "idle", todo |-> {}, source |-> {}, items |-> <<>>, at |-> 0,
         match |-> NoTopic, touched |-> {},
         fetched |-> 0, inserted |-> 0, updated |-> 0, skipped |-> 0,
         errors |-> 0]

Active(r) == run[r].pc \in {"loop", "apply"}

TopicObs(t) == {o \in obs : o.topic = t}

Init ==
    /\ setting \in Settings
    /\ clock = 0
    /\ topics = <<>>
    /\ obs = {}
    /\ run = [r \in Runs |-> Idle]
    /\ crawlRuns = {}
    /\ sweep = [pc |-> "idle", doomed |-> {}]

-----------------------------------------------------------------------------
(* run_once                                                                *)

Start(r) ==
    /\ run[r].pc = "idle"
    /\ May("overlap") \/ \A q \in Runs : ~Active(q)
    /\ run' = [run EXCEPT ![r] = [run[r] EXCEPT !.pc = "loop", !.todo = setting.sources]]
    /\ UNCHANGED <<clock, topics, obs, crawlRuns, sweep>>

\* Mutant: observed_at is the feed entry's own date.
FetchPublished(r) ==
    /\ run[r].pc = "loop"
    /\ run[r].items = <<>>
    /\ clock' = clock + 1
    /\ \E s \in run[r].todo, feed \in setting.feeds, at \in 0..clock :
         run' = [run EXCEPT ![r] = [run[r] EXCEPT !.todo = @ \ {s},
                                                  !.source = {s}, !.items = feed,
                                                  !.at = at,
                                                  !.fetched = @ + Len(feed)]]
    /\ UNCHANGED <<topics, obs, crawlRuns, sweep>>

\* The next source answers; observed_at is read as the fetch starts.
Fetch(r) ==
    /\ run[r].pc = "loop"
    /\ run[r].items = <<>>
    /\ clock' = clock + 1
    /\ \E s \in run[r].todo, feed \in setting.feeds :
         run' = [run EXCEPT ![r] = [run[r] EXCEPT !.todo = @ \ {s},
                                                  !.source = {s}, !.items = feed,
                                                  !.at = clock',
                                                  !.fetched = @ + Len(feed)]]
    /\ UNCHANGED <<topics, obs, crawlRuns, sweep>>

\* source.fetch raised: recorded, and the run goes on with the next source.
FetchFails(r) ==
    /\ run[r].pc = "loop"
    /\ run[r].items = <<>>
    /\ \E s \in run[r].todo :
         run' = [run EXCEPT ![r] = [run[r] EXCEPT !.todo = @ \ {s},
                                                  !.errors = @ + 1]]
    /\ UNCHANGED <<clock, topics, obs, crawlRuns, sweep>>

\* Mutant: the window is the latest topic alone.
LatestOnly ==
    {W \in SUBSET DOMAIN topics :
        /\ Cardinality(W) <= 1
        /\ W = {} => DOMAIN topics = {}
        /\ \A t \in W, u \in DOMAIN topics \ W : topics[u].last <= topics[t].last}

\* The windows find_candidates may return: the CandidateLimit topics seen
\* last, ties in any order.
Windows ==
    {W \in SUBSET DOMAIN topics :
        /\ Cardinality(W) <= CandidateLimit
        /\ Cardinality(W) < CandidateLimit => W = DOMAIN topics
        /\ \A t \in W, u \in DOMAIN topics \ W : topics[u].last <= topics[t].last}

\* The first candidate, latest seen first, whose title is similar.
Matches(title, W) ==
    LET S == {t \in W : <<title, topics[t].title>> \in Similar}
    IN IF S = {} THEN {NoTopic}
       ELSE {t \in S : \A u \in S : topics[u].last <= topics[t].last}

Find(r) ==
    /\ run[r].pc = "loop"
    /\ run[r].items # <<>>
    /\ \E W \in Windows : \E m \in Matches(Head(run[r].items), W) :
         run' = [run EXCEPT ![r] = [run[r] EXCEPT !.match = m, !.pc = "apply"]]
    /\ UNCHANGED <<clock, topics, obs, crawlRuns, sweep>>

\* Mutant: a match seen before in this run counts as an update.
SkipAsUpdate(r) ==
    /\ run[r].pc = "apply"
    /\ run[r].match \in run[r].touched
    /\ run' = [run EXCEPT ![r] = [run[r] EXCEPT !.pc = "loop", !.items = Tail(@),
                                                !.updated = @ + 1]]
    /\ UNCHANGED <<clock, topics, obs, crawlRuns, sweep>>

\* Mutant: it is not counted at all.
SkipSilently(r) ==
    /\ run[r].pc = "apply"
    /\ run[r].match \in run[r].touched
    /\ run' = [run EXCEPT ![r] = [run[r] EXCEPT !.pc = "loop", !.items = Tail(@)]]
    /\ UNCHANGED <<clock, topics, obs, crawlRuns, sweep>>

\* The match was inserted or updated earlier in this run.
SkipWithinRun(r) ==
    /\ run[r].pc = "apply"
    /\ run[r].match \in run[r].touched
    /\ run' = [run EXCEPT ![r] = [run[r] EXCEPT !.pc = "loop", !.items = Tail(@),
                                                !.skipped = @ + 1]]
    /\ UNCHANGED <<clock, topics, obs, crawlRuns, sweep>>

Observation(r, t) ==
    [topic |-> t, source |-> run[r].source, at |-> run[r].at]

\* Mutant: the run forgets that it updated the topic.
UpdateUnmarked(r) ==
    /\ run[r].pc = "apply"
    /\ run[r].match \notin run[r].touched \union {NoTopic}
    /\ IF run[r].match \in DOMAIN topics
       THEN /\ topics' = [topics EXCEPT ![run[r].match].count = @ + 1,
                                        ![run[r].match].last = run[r].at]
            /\ obs' = obs \union {Observation(r, run[r].match)}
       ELSE UNCHANGED <<topics, obs>>
    /\ run' = [run EXCEPT ![r] = [run[r] EXCEPT !.pc = "loop", !.items = Tail(@),
                                                !.updated = @ + 1]]
    /\ UNCHANGED <<clock, crawlRuns, sweep>>

\* Mutant: the counters move and the observation is not stored.
UpdateCountersOnly(r) ==
    /\ run[r].pc = "apply"
    /\ run[r].match \notin run[r].touched \union {NoTopic}
    /\ IF run[r].match \in DOMAIN topics
       THEN topics' = [topics EXCEPT ![run[r].match].count = @ + 1,
                                     ![run[r].match].last = run[r].at]
       ELSE UNCHANGED topics
    /\ run' = [run EXCEPT ![r] = [run[r] EXCEPT !.pc = "loop", !.items = Tail(@),
                                                !.touched = @ \union {run[r].match},
                                                !.updated = @ + 1]]
    /\ UNCHANGED <<clock, obs, crawlRuns, sweep>>

\* update_existing: bump and observation in one transaction.  A topic deleted
\* since the search fails the foreign key; the retry's UPDATE then touches no
\* row, and the item still counts as an update.
Update(r) ==
    /\ run[r].pc = "apply"
    /\ run[r].match \notin run[r].touched \union {NoTopic}
    /\ IF run[r].match \in DOMAIN topics
       THEN /\ topics' = [topics EXCEPT ![run[r].match].count = @ + 1,
                                        ![run[r].match].last = run[r].at]
            /\ obs' = obs \union {Observation(r, run[r].match)}
       ELSE UNCHANGED <<topics, obs>>
    /\ run' = [run EXCEPT ![r] = [run[r] EXCEPT !.pc = "loop", !.items = Tail(@),
                                                !.touched = @ \union {run[r].match},
                                                !.updated = @ + 1]]
    /\ UNCHANGED <<clock, crawlRuns, sweep>>

\* insert_new: first_seen_at and last_seen_at are the database's now().
Insert(r) ==
    /\ run[r].pc = "apply"
    /\ run[r].match = NoTopic
    /\ clock' = clock + 1
    /\ topics' = [t \in DOMAIN topics \union {clock'} |->
                    IF t = clock'
                    THEN [title |-> Head(run[r].items), count |-> 1, last |-> t]
                    ELSE topics[t]]
    /\ obs' = obs \union {Observation(r, clock')}
    /\ run' = [run EXCEPT ![r] = [run[r] EXCEPT !.pc = "loop", !.items = Tail(@),
                                                !.touched = @ \union {clock'},
                                                !.inserted = @ + 1]]
    /\ UNCHANGED <<crawlRuns, sweep>>

\* The crawl_runs row, the run's last side effect.
Persist(r) ==
    /\ run[r].pc = "loop"
    /\ run[r].items = <<>>
    /\ run[r].todo = {}
    /\ crawlRuns' = crawlRuns \union
         {[run |-> r, fetched |-> run[r].fetched, inserted |-> run[r].inserted,
           updated |-> run[r].updated, skipped |-> run[r].skipped,
           errors |-> run[r].errors]}
    /\ run' = [run EXCEPT ![r].pc = "done"]
    /\ UNCHANGED <<clock, topics, obs, sweep>>

\* A repository call raises: what was committed stays, the run is abandoned
\* without a crawl_runs row and the route answers 500.
RepoFails(r) ==
    /\ May("repo_fails")
    /\ Active(r)
    /\ run' = [run EXCEPT ![r].pc = "failed"]
    /\ UNCHANGED <<clock, topics, obs, crawlRuns, sweep>>

-----------------------------------------------------------------------------
(* POST /topics/cleanup and /topics/cleanup-orphans                        *)

\* Mutant: the foreign key does not cascade.
DeleteTopicsOnly(D) ==
    /\ topics' = [t \in DOMAIN topics \ D |-> topics[t]]
    /\ UNCHANGED obs

\* Deleting a topic cascades to its observations.
DeleteTopics(D) ==
    /\ topics' = [t \in DOMAIN topics \ D |-> topics[t]]
    /\ obs' = {o \in obs : o.topic \notin D}

\* With a source filter: the first DELETE, of the source's observations older
\* than the cut-off (all of them when the request names no age).
SweepSource(s, cutoff) ==
    /\ May("cleanup")
    /\ sweep.pc = "idle"
    /\ obs' = {o \in obs : ~(o.source = {s} /\ o.at < cutoff)}
    /\ sweep' = [sweep EXCEPT !.pc = "swept"]
    /\ UNCHANGED <<clock, topics, run, crawlRuns>>

\* cleanup-orphans starts where the other route's second statement does.
SweepOrphans ==
    /\ May("cleanup")
    /\ sweep.pc = "idle"
    /\ sweep' = [sweep EXCEPT !.pc = "swept"]
    /\ UNCHANGED <<clock, topics, obs, run, crawlRuns>>

\* The orphans are chosen on the statement's snapshot ...
ScanOrphans ==
    /\ sweep.pc = "swept"
    /\ sweep' = [pc |-> "scanned",
                 doomed |-> {t \in DOMAIN topics : TopicObs(t) = {}}]
    /\ UNCHANGED <<clock, topics, obs, run, crawlRuns>>

\* ... and deleted once their row locks are free, whatever was added to them
\* by the transactions waited for.
DeleteOrphans ==
    /\ sweep.pc = "scanned"
    /\ DeleteTopics(sweep.doomed)
    /\ sweep' = [pc |-> "idle", doomed |-> {}]
    /\ UNCHANGED <<clock, run, crawlRuns>>

\* With an age alone: topics not seen since the cut-off.
PurgeOld(cutoff) ==
    /\ May("cleanup")
    /\ sweep.pc = "idle"
    /\ DeleteTopics({t \in DOMAIN topics : topics[t].last < cutoff})
    /\ UNCHANGED <<clock, run, crawlRuns, sweep>>

Step(r) ==
    \/ Start(r)
    \/ Fetch(r)
    \/ FetchFails(r)
    \/ Find(r)
    \/ SkipWithinRun(r)
    \/ Update(r)
    \/ Insert(r)
    \/ Persist(r)
    \/ RepoFails(r)

CleanUp ==
    \/ \E s \in Sources, cutoff \in 1..clock + 1 : SweepSource(s, cutoff)
    \/ SweepOrphans
    \/ ScanOrphans
    \/ DeleteOrphans
    \/ \E cutoff \in 1..clock + 1 : PurgeOld(cutoff)

Next == (CleanUp \/ \E r \in Runs : Step(r)) /\ UNCHANGED setting

Spec == Init /\ [][Next]_vars

-----------------------------------------------------------------------------
(* Properties                                                              *)

\* Types, with what the schema enforces: every observation has its topic.
TypeOK ==
    /\ clock \in Nat
    /\ \A t \in DOMAIN topics :
         /\ t \in 1..clock
         /\ topics[t].title \in Titles
         /\ topics[t].count \in Nat \ {0}
         /\ topics[t].last \in 1..clock
    /\ \A o \in obs : o.topic \in DOMAIN topics /\ o.at \in 1..clock
    /\ \A r \in Runs :
         /\ run[r].pc \in {"idle", "loop", "apply", "done", "failed"}
         /\ run[r].match \in 0..clock
         /\ run[r].touched \subseteq 1..clock
    /\ sweep.pc \in {"idle", "swept", "scanned"}

\* observation_count counts the runs that saw the topic: "bumped at most once
\* per crawl per topic", however runs, failures and clean-ups interleave.
CountIsRuns ==
    \A t \in DOMAIN topics :
        topics[t].count = Cardinality({r \in Runs : t \in run[r].touched})

\* A crawl_runs row accounts for every fetched item exactly once, and for
\* every source.
RunRowsBalance ==
    \A row \in crawlRuns :
        row.fetched = row.inserted + row.updated + row.skipped

\* A topic and a run that says it has inserted or updated it.
Claims == UNION {{r} \X run[r].touched : r \in Runs}

\* Without clean-ups, what the runs count as inserted and updated is what the
\* table holds, an observation for each, failed and overlapping runs included.
StoredClaims ==
    ~May("cleanup") =>
        /\ \A r \in Runs :
             Cardinality(run[r].touched) = run[r].inserted + run[r].updated
        /\ Cardinality(obs) = Cardinality(Claims)

\* schemas.py:88: observation_count is "total source observations recorded", as
\* long as nothing is deleted.
StoredObservations ==
    ~May("cleanup") =>
        \A t \in DOMAIN topics : topics[t].count = Cardinality(TopicObs(t))

\* ARCHITECTURE.md:96: "Re-crawls upsert (...), never duplicate": no two
\* topics are similar.
NoDuplicateTopics ==
    \A t, u \in DOMAIN topics :
        t # u => <<topics[t].title, topics[u].title>> \notin Similar

\* So it is of runs one at a time, over any sources and between clean-ups.
SequentialNoDuplicates == ~May("overlap") => NoDuplicateTopics

\* A step that moves no last_seen_at back.
LastSeenStep ==
    \A t \in DOMAIN topics \intersect DOMAIN topics' :
        topics[t].last <= topics'[t].last

\* last_seen_at only moves forward, one run at a time: the list order of the
\* API, the window of find_candidates and the age purge rely on it, and so does
\* v_topic_stats' longevity, which is never negative.
SequentialLastSeenAdvances == [][~May("overlap") => LastSeenStep]_vars

=============================================================================
