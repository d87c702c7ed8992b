------------------------------ MODULE Catalogue ------------------------------
(***************************************************************************)
(* The crawl sources, who owns them and who subscribes to them:            *)
(* routes/crawl_config.py, routes/department_sources.py, the crawler's     *)
(* composition.py, and the three readers of both tables (routes/topics.py, *)
(* routes/dashboard.py, postgres_rag.py), over Directory.                  *)
(*                                                                         *)
(* One topic stands for any: every predicate on topics looks at one of     *)
(* them.  It exists while some source has an observation of it.            *)
(***************************************************************************)
EXTENDS Directory

CONSTANTS
    Sources, HackerNews,  \* source names, and the one that needs no feed_url
    Builtin,              \* the names of the hard-coded list
    Disabled,             \* the names in CRAWLER_DISABLED_SOURCES
    Editors               \* bound: catalogue requests in flight

ASSUME SourcesAssumption == Builtin \subseteq Sources /\ Disabled \subseteq Sources

VARIABLES
    cfg,    \* crawl_config: owner (None: no row) and whether there is a feed_url
    subs,   \* department_sources: the names enabled for a department; a flag that
            \* is off is read like a row that is missing, and rows outlive cfg's
    seen,   \* sources with a topic_sources row of the topic
    cases,  \* departments with a business case of the topic
    edit,   \* the catalogue requests in flight
    crawl   \* the crawl choosing its sources

catVars == <<cfg, subs, seen, cases, edit, crawl>>

NoSource == [owner |-> None, feed |-> FALSE]
Rows == {s \in Sources : cfg[s].owner # None}
IdleEdit == [pc |-> "idle", dept |-> None, source |-> HackerNews,
             to |-> NoSource, flag |-> FALSE]
IdleCrawl == [pc |-> "idle", dept |-> None, found |-> {}, owned |-> {},
              picks |-> {}, fallback |-> FALSE]

\* Migrations 0007, 0017 and 0022 fill the catalogue, subscribe Default to it
\* and make it the owner; the topic has been crawled.
CatInit ==
    /\ cfg = [s \in Sources |-> IF s \in Builtin THEN [owner |-> Default, feed |-> s # HackerNews]
                                ELSE NoSource]
    /\ subs = [d \in Depts |-> IF d = Default THEN Builtin ELSE {}]
    /\ seen = Builtin
    /\ cases = {}
    /\ edit = [e \in Editors |-> IdleEdit]
    /\ crawl = IdleCrawl

-----------------------------------------------------------------------------
(* What each reader of the two tables makes of them                        *)

\* GET /department-sources: the sources shown enabled to a department.
Page(d) == {s \in Rows : cfg[s].owner = d \/ s \in subs[d]}

\* Mutant: subscriptions only, as in get_unassessed_topic_ids.
ShownSubscribed(d) == \E s \in seen : s \in subs[d]

\* GET /topics, /topics/{id} and /dashboard: a subscription counts without a
\* catalogue row, ownership without a subscription.
Shown(d) == \E s \in seen : s \in subs[d] \/ cfg[s].owner = d

\* get_unassessed_topic_ids: subscriptions only.
Unassessed(d) == d \notin cases /\ seen \intersect subs[d] # {}

\* build_sources_from_db makes no source of a row it has no address for.
Buildable(s) == s = HackerNews \/ cfg[s].feed

-----------------------------------------------------------------------------
(* Catalogue requests                                                      *)

\* _require_writer: an analyst or lead of the active department, or
Writer(d) == \E by \in Users : HasRole(by, d, {"analyst", "dept_lead"})

\* a superadmin in a department that is not theirs, who may touch every row.
Override == \E by \in Users, d \in Live : SuperAdmin(by) /\ member[d][by] = "none"

CatIdle == crawl.pc = "idle" /\ \A e \in Editors : edit[e].pc = "idle"

DirIdle == \A c \in Clients : req[c].pc = "idle"

\* A request begins (AskSource has its guard).
AskEdit(e, r) ==
    /\ edit' = [edit EXCEPT ![e] = r]
    /\ UNCHANGED <<dirVars, cfg, subs, seen, cases, crawl>>

EditDone(e) == edit' = [edit EXCEPT ![e] = IdleEdit]

\* The owner is the writer's department; only the override names another.
AskCreate(e, s, d, feed) ==
    /\ d \in Live
    /\ s \notin Rows
    /\ Writer(d) \/ Override
    /\ AskEdit(e, [IdleEdit EXCEPT !.pc = "create", !.source = s,
                                   !.to = [owner |-> d, feed |-> feed]])

\* The primary key and the owner's foreign key may still refuse it (500).
Create(e) ==
    LET s == edit[e].source
    IN /\ edit[e].pc = "create"
       /\ IF s \notin Rows /\ edit[e].to.owner \in Live
          THEN cfg' = [cfg EXCEPT ![s] = edit[e].to]
          ELSE UNCHANGED cfg
       /\ EditDone(e)
       /\ UNCHANGED <<dirVars, subs, seen, cases, crawl>>

\* _load_owned_or_403; d is None for the override.
MayEdit(d, s) ==
    /\ s \in Rows
    /\ IF d = None THEN Override ELSE Writer(d) /\ cfg[s].owner = d

\* The fields of a PUT: a new owner from the override only, and a feed_url (None:
\* not in the body), which an empty string takes away.
AskUpdate(e, d, s, owner, feed) ==
    /\ MayEdit(d, s)
    /\ owner = cfg[s].owner \/ (d = None /\ owner \in Live)
    /\ AskEdit(e, [IdleEdit EXCEPT !.pc = "update", !.dept = d, !.source = s,
                     !.to = [owner |-> IF owner = cfg[s].owner THEN None ELSE owner,
                             feed |-> feed]])

\* UPDATE by name: whoever owns the row by now.  404 when it is gone, 500 when
\* the new owner is.
Update(e) ==
    LET s == edit[e].source  to == edit[e].to
    IN /\ edit[e].pc = "update"
       /\ IF s \in Rows /\ to.owner \in Live \union {None}
          THEN cfg' = [cfg EXCEPT ![s].owner = IF to.owner = None THEN @ ELSE to.owner,
                                  ![s].feed = IF to.feed = None THEN @ ELSE to.feed]
          ELSE UNCHANGED cfg
       /\ EditDone(e)
       /\ UNCHANGED <<dirVars, subs, seen, cases, crawl>>

AskDelete(e, d, s) ==
    /\ MayEdit(d, s)
    /\ AskEdit(e, [IdleEdit EXCEPT !.pc = "delete", !.dept = d, !.source = s])

\* DELETE by name; the subscriptions have no foreign key to the name and stay.
Delete(e) ==
    /\ edit[e].pc = "delete"
    /\ cfg' = [cfg EXCEPT ![edit[e].source] = NoSource]
    /\ EditDone(e)
    /\ UNCHANGED <<dirVars, subs, seen, cases, crawl>>

\* PUT /department-sources/{name}: 400 for the owner.
AskSubscribe(e, d, s, flag) ==
    /\ Writer(d)
    /\ s \in Rows /\ cfg[s].owner # d
    /\ AskEdit(e, [IdleEdit EXCEPT !.pc = "subscribe", !.dept = d, !.source = s,
                                   !.flag = flag])

\* The upsert; 500 when the department is gone.
Subscribe(e) ==
    LET d == edit[e].dept
    IN /\ edit[e].pc = "subscribe"
       /\ subs' = IF d \notin Live THEN subs
                  ELSE [subs EXCEPT ![d] = IF edit[e].flag THEN @ \union {edit[e].source}
                                           ELSE @ \ {edit[e].source}]
       /\ EditDone(e)
       /\ UNCHANGED <<dirVars, cfg, seen, cases, crawl>>

-----------------------------------------------------------------------------
(* A crawl: build_sources_from_db, then run_once                           *)

\* The hard-coded list, a department's crawl included.
FallBack(d) ==
    crawl' = [IdleCrawl EXCEPT !.pc = "fetch", !.dept = d, !.fallback = TRUE,
                               !.picks = Builtin \ Disabled]

\* The first SELECT, for a department or (None) for all; everything has an
\* owner, so a crawl for all takes the whole catalogue.  It may raise or find
\* nothing.
ReadCatalogue(d) ==
    /\ crawl.pc = "idle"
    /\ "overlap" \in scope \/ (CatIdle /\ DirIdle)
    /\ \/ FallBack(d)
       \/ /\ Rows # {}
          /\ crawl' = [IdleCrawl EXCEPT !.pc = "subs", !.dept = d,
                 !.found = {s \in Rows : Buildable(s)},
                 !.owned = {s \in Rows : Buildable(s) /\ d \in {cfg[s].owner, None}}]
    /\ UNCHANGED <<dirVars, cfg, subs, seen, cases, edit>>

Subscribed(d) == UNION {subs[x] : x \in {y \in Depts : d \in {y, None}}}

\* Mutant: subscriptions only, as before the ownership branch.
ReadSubscriptionsOnly ==
    /\ crawl.pc = "subs"
    /\ crawl' = [crawl EXCEPT !.pc = "fetch",
                              !.picks = crawl.found \intersect Subscribed(crawl.dept)]
    /\ UNCHANGED <<dirVars, cfg, subs, seen, cases, edit>>

\* The second SELECT; what the first found owned is added to it.
ReadSubscriptions ==
    /\ crawl.pc = "subs"
    /\ \/ FallBack(crawl.dept)
       \/ crawl' = [crawl EXCEPT !.pc = "fetch", !.found = {}, !.owned = {},
                      !.picks = crawl.found \intersect
                                  (crawl.owned \union Subscribed(crawl.dept))]
    /\ UNCHANGED <<dirVars, cfg, subs, seen, cases, edit>>

\* Any of the sources picked may have had the topic.
FetchAll ==
    /\ crawl.pc = "fetch"
    /\ \E had \in SUBSET crawl.picks :
         /\ had # {} => "topics" \in scope
         /\ seen' = seen \union had
    /\ crawl' = IdleCrawl
    /\ UNCHANGED <<dirVars, cfg, subs, cases, edit>>

-----------------------------------------------------------------------------
(* Assessments and clean-ups                                               *)

\* A job of the department picks the topic and stores a case.
AssessJob(d) ==
    /\ d \in Live /\ Unassessed(d)
    /\ cases' = cases \union {d}
    /\ UNCHANGED <<dirVars, cfg, subs, seen, edit, crawl>>

\* The clean-up of a source's observations, or of all: without one the topic
\* is deleted, and its cases with it.
CleanUp(sources) ==
    /\ seen \intersect sources # {}
    /\ seen' = seen \ sources
    /\ cases' = IF seen' = {} THEN {} ELSE cases
    /\ UNCHANGED <<dirVars, cfg, subs, edit, crawl>>

\* Mutant: crawl_config.department_id has no foreign key.
MayDropAny(d) == TRUE

\* The department_sources and business_cases of a deleted department go with
\* it; crawl_config.department_id is ON DELETE RESTRICT.
MayDrop(d) == \A s \in Sources : cfg[s].owner # d

DropRows(d) ==
    /\ subs' = [subs EXCEPT ![d] = {}]
    /\ cases' = cases \ {d}
    /\ UNCHANGED <<cfg, seen, edit, crawl>>

CatHangup ==
    /\ edit' = [e \in Editors |-> IdleEdit]
    /\ crawl' = IdleCrawl
    /\ UNCHANGED <<cfg, subs, seen, cases>>

AskSource(e) ==
    /\ edit[e].pc = "idle"
    /\ "overlap" \in scope \/ (CatIdle /\ DirIdle)
    /\ \E s \in Sources, d \in Depts :
          \/ \E feed \in BOOLEAN : AskCreate(e, s, d, feed)
          \/ \E flag \in BOOLEAN : AskSubscribe(e, d, s, flag)
          \/ \E feed \in BOOLEAN \union {None}, by \in {d, None} : AskUpdate(e, by, s, d, feed)
          \/ AskDelete(e, d, s)
          \/ AskDelete(e, None, s)

CatStep ==
    \/ "sources" \in scope /\ \E e \in Editors : AskSource(e)
    \/ "crawls" \in scope /\ \E d \in Live \union {None} : ReadCatalogue(d)
    \/ \E e \in Editors : Create(e) \/ Update(e) \/ Delete(e) \/ Subscribe(e)
    \/ ReadSubscriptions
    \/ FetchAll
    \/ /\ "topics" \in scope
       /\ \/ \E d \in Depts : AssessJob(d)
          \/ \E sources \in {Sources} \union {{s} : s \in Sources} : CleanUp(sources)

-----------------------------------------------------------------------------
(* Properties                                                              *)

\* Types, with what the foreign keys keep.
CatTypeOK ==
    /\ \A s \in Sources : cfg[s].owner \in Live \union {None}
    /\ subs \in [Depts -> SUBSET Sources]
    /\ \A d \in Depts : subs[d] # {} => d \in Live
    /\ cases \subseteq Live
    /\ seen = {} => cases = {}
    /\ crawl.picks \subseteq Sources

\* department_sources.py:77, composition.py:164: with requests one at a time, a
\* department's crawl fetches exactly the sources its page shows enabled, and a
\* crawl for all everything any page shows, but for rows without an address and
\* when the catalogue was empty or could not be read.
CrawlMatchesPage ==
    (crawl.pc = "fetch" /\ ~crawl.fallback /\ "overlap" \notin scope) =>
        crawl.picks = {s \in UNION {Page(d) : d \in {x \in Live : crawl.dept \in {x, None}}} :
                         Buildable(s)}

\* topics.py:134: without the ownership branch a department "that creates a
\* source via Crawl Config sees 0 topics from that source".  With requests one
\* at a time, what a department's crawl brings in is on its list of topics, and
\* what a crawl for all brings in is on some department's, but for a crawl that
\* fell back.
CrawlShown ==
    (crawl.pc = "fetch" /\ ~crawl.fallback /\ "overlap" \notin scope
       /\ ~(seen' \subseteq seen)) =>
        \E d \in {x \in Live : crawl.dept \in {x, None}} : Shown(d)'

CrawledAreShown == [][CrawlShown]_catVars

\* department_sources.py:7: owners "are implicitly subscribed": a topic a
\* department is shown and has no case of is one its jobs pick.
ShownAreAssessed ==
    \A d \in Live : (Shown(d) /\ d \notin cases) => Unassessed(d)

=============================================================================
