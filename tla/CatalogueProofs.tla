--------------------------- MODULE CatalogueProofs ---------------------------
(***************************************************************************)
(* Theorems about Tenancy's sources, crawls and net view, for any number   *)
(* of sources, departments and requests.                                   *)
(***************************************************************************)
EXTENDS TenancyProofs

SourceShape == [owner : MaybeDept, feed : BOOLEAN]
ChangeShape == [owner : MaybeDept, feed : BOOLEAN \union {None}]

EditPcs == {"idle", "create", "update", "delete", "subscribe"}

EditShape == [pc : EditPcs, dept : MaybeDept, source : Sources \union {HackerNews},
              to : ChangeShape, flag : BOOLEAN]

CrawlShape == [pc : {"idle", "subs", "fetch"}, dept : MaybeDept,
               found : SUBSET Sources, owned : SUBSET Sources,
               picks : SUBSET Sources, fallback : BOOLEAN]

EditOK(r) ==
    /\ r.pc # "idle" => r.source \in Sources
    /\ r.pc = "create" => r.to \in SourceShape /\ r.to.owner \in Depts
    /\ r.pc = "subscribe" => r.dept \in Depts

CatInv ==
    /\ cfg \in [Sources -> SourceShape]
    /\ \A s \in Sources : cfg[s].owner \in Live \union {None}
    /\ subs \in [Depts -> SUBSET Sources]
    /\ \A d \in Depts : subs[d] # {} => d \in Live
    /\ cases \subseteq Live
    /\ seen \subseteq Sources
    /\ seen = {} => cases = {}
    /\ edit \in [Editors -> EditShape]
    /\ \A e \in Editors : EditOK(edit[e])
    /\ crawl \in CrawlShape

LEMMA CatInvImplies == CatInv => CatTypeOK
  BY DEF CatInv, CatTypeOK, CrawlShape

LEMMA CatConstants ==
  /\ Builtin \subseteq Sources /\ None \notin Depts /\ None \in MaybeDept
  /\ NoSource \in SourceShape /\ NoSource \in ChangeShape /\ IdleEdit \in EditShape /\ EditOK(IdleEdit)
  /\ IdleCrawl \in CrawlShape
<1>1. Builtin \subseteq Sources /\ None \notin Depts /\ None \in MaybeDept
  BY SourcesAssumption, DeptsAssumption DEF MaybeDept
<1>2. NoSource \in SourceShape /\ NoSource \in ChangeShape
  BY <1>1 DEF NoSource, SourceShape, ChangeShape
<1>3. IdleEdit \in EditShape /\ EditOK(IdleEdit)
  BY <1>1, <1>2 DEF IdleEdit, EditShape, EditPcs, EditOK
<1>4. IdleCrawl \in CrawlShape
  BY <1>1 DEF IdleCrawl, CrawlShape
<1> QED
  BY <1>1, <1>2, <1>3, <1>4

LEMMA CatInvInit == Init => CatInv
<1> SUFFICES ASSUME Init PROVE CatInv
  OBVIOUS
<1> USE CatConstants
<1>1. Default \in Depts /\ Default \in Live /\ Default \in MaybeDept
  BY Constants, FoundedAssumption DEF Init, DirInit, Live, MaybeDept
<1>2. cfg \in [Sources -> SourceShape]
  BY <1>1 DEF Init, CatInit, SourceShape
<1>3. \A s \in Sources : cfg[s].owner \in Live \union {None}
  BY <1>1 DEF Init, CatInit, NoSource
<1>4. subs \in [Depts -> SUBSET Sources]
  BY DEF Init, CatInit
<1>5. \A d \in Depts : subs[d] # {} => d \in Live
  BY <1>1 DEF Init, CatInit
<1>6. /\ cases = {} /\ seen = Builtin /\ crawl = IdleCrawl
      /\ edit = [e \in Editors |-> IdleEdit]
  BY DEF Init, CatInit
<1> QED
  BY <1>2, <1>3, <1>4, <1>5, <1>6 DEF CatInv

\* The rows, when only the directory moves and no department is deleted.
LEMMA CatLive ==
  ASSUME CatInv, UNCHANGED catVars, Live \subseteq Live'
  PROVE  CatInv'
  BY DEF CatInv, catVars

\* A step of one request that leaves the directory alone.
LEMMA CatEdit ==
  ASSUME CatInv, NEW e \in Editors, NEW r \in EditShape, EditOK(r),
         edit' = [edit EXCEPT ![e] = r], UNCHANGED <<dirVars, seen, cases, crawl>>,
         cfg' \in [Sources -> SourceShape],
         \A s \in Sources : cfg'[s].owner \in Live \union {None},
         subs' \in [Depts -> SUBSET Sources],
         \A d \in Depts : subs'[d] # {} => d \in Live
  PROVE  CatInv'
<1>1. edit' \in [Editors -> EditShape] /\ \A x \in Editors : EditOK(edit'[x])
  BY DEF CatInv
<1>2. Live' = Live
  BY DEF dirVars, Live
<1> QED
  BY <1>1, <1>2 DEF CatInv

LEMMA CatAsk ==
  ASSUME CatInv, NEW e \in Editors, AskSource(e)
  PROVE  CatInv'
<1> DEFINE goal == \E r \in EditShape : EditOK(r) /\ AskEdit(e, r)
<1>1. SUFFICES goal
  BY CatEdit DEF AskEdit, CatInv
<1> USE CatConstants
<1>2. ASSUME NEW s \in Sources, NEW d \in Depts, NEW feed \in BOOLEAN,
             AskCreate(e, s, d, feed)
      PROVE  goal
  <2> DEFINE to == [owner |-> d, feed |-> feed]
             r == [IdleEdit EXCEPT !.pc = "create", !.source = s, !.to = to]
  <2>1. "create" \in EditPcs /\ to \in SourceShape /\ to \in ChangeShape
    BY DEF EditPcs, SourceShape, ChangeShape, MaybeDept
  <2>2. r \in EditShape
    BY <2>1 DEF EditShape
  <2>3. r.pc = "create" /\ r.source = s /\ r.to = to /\ to.owner = d
    BY DEF EditShape
  <2>4. EditOK(r)
    BY <2>1, <2>3 DEF EditOK
  <2> QED
    BY <1>2, <2>2, <2>4 DEF AskCreate
<1>3. ASSUME NEW s \in Sources, NEW d \in Depts, NEW flag \in BOOLEAN,
             AskSubscribe(e, d, s, flag)
      PROVE  goal
  <2> DEFINE r == [IdleEdit EXCEPT !.pc = "subscribe", !.dept = d, !.source = s,
                                   !.flag = flag]
  <2>1. "subscribe" \in EditPcs /\ d \in MaybeDept
    BY DEF EditPcs, MaybeDept
  <2>2. r \in EditShape
    BY <2>1 DEF EditShape
  <2>3. r.pc = "subscribe" /\ r.source = s /\ r.dept = d
    BY DEF EditShape
  <2>4. EditOK(r)
    BY <2>3 DEF EditOK
  <2> QED
    BY <1>3, <2>2, <2>4 DEF AskSubscribe
<1>4. ASSUME NEW s \in Sources, NEW d \in Depts, NEW feed \in BOOLEAN \union {None},
             NEW by \in {d, None}, AskUpdate(e, by, s, d, feed)
      PROVE  goal
  <2> DEFINE to == [owner |-> IF d = cfg[s].owner THEN None ELSE d, feed |-> feed]
             r == [IdleEdit EXCEPT !.pc = "update", !.dept = by, !.source = s, !.to = to]
  <2>1. "update" \in EditPcs /\ by \in MaybeDept /\ to \in ChangeShape
    BY DEF EditPcs, MaybeDept, ChangeShape
  <2>2. r \in EditShape
    BY <2>1 DEF EditShape
  <2>3. r.pc = "update" /\ r.source = s
    BY DEF EditShape
  <2>4. EditOK(r)
    BY <2>3 DEF EditOK
  <2> QED
    BY <1>4, <2>2, <2>4 DEF AskUpdate
<1>5. ASSUME NEW s \in Sources, NEW by \in MaybeDept, AskDelete(e, by, s)
      PROVE  goal
  <2> DEFINE r == [IdleEdit EXCEPT !.pc = "delete", !.dept = by, !.source = s]
  <2>1. "delete" \in EditPcs
    BY DEF EditPcs
  <2>2. r \in EditShape
    BY <2>1 DEF EditShape
  <2>3. r.pc = "delete" /\ r.source = s
    BY DEF EditShape
  <2>4. EditOK(r)
    BY <2>3 DEF EditOK
  <2> QED
    BY <1>5, <2>2, <2>4 DEF AskDelete
<1> QED
  BY <1>2, <1>3, <1>4, <1>5 DEF AskSource, MaybeDept

LEMMA CatCommit ==
  ASSUME CatInv, NEW e \in Editors, Create(e) \/ Update(e) \/ Delete(e) \/ Subscribe(e)
  PROVE  CatInv'
<1> USE CatConstants
<1> DEFINE s == edit[e].source
           to == edit[e].to
<1>1. /\ edit[e] \in EditShape /\ EditOK(edit[e]) /\ to \in ChangeShape
      /\ cfg \in [Sources -> SourceShape]
      /\ \A x \in Sources : cfg[x].owner \in Live \union {None}
  BY DEF CatInv, EditShape
<1>2. s \in Sources
  BY <1>1 DEF EditOK, Create, Update, Delete, Subscribe
<1>3. edit' = [edit EXCEPT ![e] = IdleEdit] /\ UNCHANGED <<dirVars, seen, cases, crawl>>
  BY DEF Create, Update, Delete, Subscribe, EditDone
<1>4. CASE ~Subscribe(e)
  <2>1. UNCHANGED subs
    BY <1>4 DEF Create, Update, Delete
  <2>2. \/ UNCHANGED cfg
        \/ \E n \in SourceShape : n.owner \in Live \union {None} /\ cfg' = [cfg EXCEPT ![s] = n]
    <3>1. CASE Create(e)
      BY <1>1, <3>1 DEF Create, EditOK
    <3>2. CASE Update(e)
      <4> DEFINE n == [owner |-> IF to.owner = None THEN cfg[s].owner ELSE to.owner,
                       feed |-> IF to.feed = None THEN cfg[s].feed ELSE to.feed]
      <4>1. UNCHANGED cfg \/ (to.owner \in Live \union {None} /\ cfg' = [cfg EXCEPT ![s] = n])
        <5>1. cfg[s] \in SourceShape /\ cfg[s] = [owner |-> cfg[s].owner, feed |-> cfg[s].feed]
          BY <1>1, <1>2 DEF SourceShape
        <5>2. cfg' \in {cfg} \/ (to.owner \in Live \union {None} /\
                cfg' = [cfg EXCEPT ![s].owner = IF to.owner = None THEN @ ELSE to.owner,
                                   ![s].feed = IF to.feed = None THEN @ ELSE to.feed])
          BY <3>2 DEF Update
        <5> QED
          BY <1>1, <1>2, <5>1, <5>2
      <4>2. n \in SourceShape
        BY <1>1, <1>2 DEF SourceShape, ChangeShape
      <4>3. to.owner \in Live \union {None} => n.owner \in Live \union {None}
        BY <1>1, <1>2
      <4> QED
        BY <4>1, <4>2, <4>3
    <3>3. CASE Delete(e)
      BY <3>3 DEF Delete, NoSource
    <3> QED
      BY <1>4, <3>1, <3>2, <3>3
  <2>3. cfg' \in [Sources -> SourceShape] /\ \A x \in Sources : cfg'[x].owner \in Live \union {None}
    BY <1>1, <1>2, <2>2
  <2> QED
    BY <1>3, <2>1, <2>3, CatEdit DEF CatInv
<1>5. CASE Subscribe(e)
  <2> DEFINE d == edit[e].dept
  <2>1. d \in Depts /\ UNCHANGED cfg
    BY <1>1, <1>5 DEF EditOK, Subscribe
  <2>2. \/ UNCHANGED subs
        \/ d \in Live /\ \E n \in SUBSET Sources : subs' = [subs EXCEPT ![d] = n]
    <3>1. subs[d] \union {s} \in SUBSET Sources /\ subs[d] \ {s} \in SUBSET Sources
      BY <1>2, <2>1 DEF CatInv
    <3> QED
      BY <1>5, <3>1 DEF Subscribe
  <2>3. subs' \in [Depts -> SUBSET Sources] /\ \A x \in Depts : subs'[x] # {} => x \in Live
    BY <2>1, <2>2 DEF CatInv
  <2> QED
    BY <1>1, <1>3, <2>1, <2>3, CatEdit
<1> QED
  BY <1>4, <1>5

LEMMA CatCrawl ==
  ASSUME CatInv,
         \/ \E d \in Live \union {None} : ReadCatalogue(d)
         \/ ReadSubscriptions \/ FetchAll
  PROVE  CatInv'
<1> USE CatConstants
<1>0. UNCHANGED <<dirVars, cfg, subs, cases, edit>> /\ crawl \in CrawlShape
  BY DEF ReadCatalogue, ReadSubscriptions, FetchAll, CatInv
<1>1. crawl' \in CrawlShape
  <2>1. ASSUME NEW d \in MaybeDept, FallBack(d) PROVE crawl' \in CrawlShape
    BY <2>1 DEF FallBack, CrawlShape
  <2>2. ASSUME NEW d \in Live \union {None}, ReadCatalogue(d) PROVE crawl' \in CrawlShape
    <3>1. d \in MaybeDept
      BY DEF MaybeDept, Live
    <3>2. {s \in Rows : Buildable(s)} \in SUBSET Sources
          /\ {s \in Rows : Buildable(s) /\ d \in {cfg[s].owner, None}} \in SUBSET Sources
      BY DEF Rows
    <3>3. CASE FallBack(d)
      BY <2>1, <3>1, <3>3
    <3>4. CASE crawl' = [IdleCrawl EXCEPT !.pc = "subs", !.dept = d,
                 !.found = {s \in Rows : Buildable(s)},
                 !.owned = {s \in Rows : Buildable(s) /\ d \in {cfg[s].owner, None}}]
      BY <3>1, <3>2, <3>4 DEF CrawlShape
    <3> QED
      BY <2>2, <3>3, <3>4 DEF ReadCatalogue
  <2>3. CASE ReadSubscriptions
    <3>1. crawl.dept \in MaybeDept /\ crawl.found \in SUBSET Sources
      BY <1>0 DEF CrawlShape
    <3>2. CASE FallBack(crawl.dept)
      BY <2>1, <3>1, <3>2
    <3>3. CASE crawl' = [crawl EXCEPT !.pc = "fetch", !.found = {}, !.owned = {},
                      !.picks = crawl.found \intersect
                                  (crawl.owned \union Subscribed(crawl.dept))]
      <4>1. crawl.found \intersect (crawl.owned \union Subscribed(crawl.dept)) \in SUBSET Sources
        BY <3>1
      <4> QED
        BY <1>0, <3>3, <4>1 DEF CrawlShape
    <3> QED
      BY <2>3, <3>2, <3>3 DEF ReadSubscriptions
  <2>4. CASE FetchAll
    BY <2>4 DEF FetchAll
  <2> QED
    BY <2>2, <2>3, <2>4
<1>2. seen' \subseteq Sources /\ (seen' = {} => seen = {})
  BY <1>0 DEF ReadCatalogue, ReadSubscriptions, FetchAll, CatInv, CrawlShape
<1>3. Live' = Live
  BY <1>0 DEF dirVars, Live
<1> QED
  BY <1>0, <1>1, <1>2, <1>3 DEF CatInv

LEMMA CatTopics ==
  ASSUME CatInv,
         \/ \E d \in Depts : AssessJob(d)
         \/ \E sources \in {Sources} \union {{s} : s \in Sources} : CleanUp(sources)
  PROVE  CatInv'
<1>0. UNCHANGED <<dirVars, cfg, subs, edit, crawl>>
  BY DEF AssessJob, CleanUp
<1>1. Live' = Live
  BY <1>0 DEF dirVars, Live
<1>2. CASE \E d \in Depts : AssessJob(d)
  <2>1. seen' = seen /\ seen # {} /\ cases' \subseteq Live
    BY <1>2 DEF AssessJob, Unassessed, CatInv
  <2> QED
    BY <1>0, <1>1, <2>1 DEF CatInv
<1>3. CASE \E sources \in {Sources} \union {{s} : s \in Sources} : CleanUp(sources)
  <2>1. seen' \subseteq seen /\ cases' \subseteq cases /\ (seen' = {} => cases' = {})
    BY <1>3 DEF CleanUp
  <2> QED
    BY <1>0, <1>1, <2>1 DEF CatInv
<1> QED
  BY <1>2, <1>3

LEMMA CatDrop ==
  ASSUME CatInv, DirInv, NEW c \in Clients, DropDept(c)
  PROVE  CatInv'
<1> DEFINE d == req[c].dept
<1>1. d \in Depts
  BY RowFacts DEF ReqShape
<1>2. CASE KeepDept(c) /\ UNCHANGED catVars
  BY <1>2, CatLive DEF KeepDept, Refused, Live
<1>3. CASE MayDrop(d) /\ Drop(c) /\ DropRows(d)
  <2>1. Live' = Live \ {d}
    BY <1>1, <1>3, RowFacts DEF Drop, Live
  <2>2. /\ subs' = [subs EXCEPT ![d] = {}] /\ cases' = cases \ {d}
        /\ UNCHANGED <<cfg, seen, edit, crawl>>
    BY <1>3 DEF DropRows
  <2>3. \A s \in Sources : cfg[s].owner # d
    BY <1>3 DEF MayDrop
  <2>4. subs' \in [Depts -> SUBSET Sources] /\ \A x \in Depts : subs'[x] # {} => x \in Live'
    BY <1>1, <2>1, <2>2 DEF CatInv
  <2> QED
    BY <2>1, <2>2, <2>3, <2>4 DEF CatInv
<1> QED
  BY <1>2, <1>3 DEF DropDept

LEMMA CatCrash ==
  ASSUME CatInv, Crash
  PROVE  CatInv'
<1>1. UNCHANGED <<dept, cfg, subs, seen, cases>> /\ crawl' = IdleCrawl
      /\ edit' = [e \in Editors |-> IdleEdit]
  BY DEF Crash, Restart, CatHangup
<1> QED
  BY <1>1, CatConstants DEF CatInv, Live

LEMMA CatInvStep == CatInv /\ DirInv /\ [Next]_tenVars => CatInv'
<1> SUFFICES ASSUME CatInv, DirInv, [Next]_tenVars PROVE CatInv'
  OBVIOUS
<1>1. CASE UNCHANGED <<dirVars, catVars>>
  BY <1>1, CatLive DEF dirVars, Live
<1>2. ASSUME NEW c \in Clients, DirStep(c), UNCHANGED catVars PROVE CatInv'
  BY <1>2, DirStepLive, CatLive
<1>3. CASE CatStep
  BY <1>3, CatAsk, CatCommit, CatCrawl, CatTopics DEF CatStep
<1>4. CASE AccStep /\ UNCHANGED <<catVars, harmVars>>
  BY <1>1, <1>4, AccessKeepsDirectory
<1>5. CASE UNCHANGED tenVars
  BY <1>1, <1>5 DEF tenVars
<1> QED
  BY <1>1, <1>2, <1>3, <1>4, <1>5, CatDrop, CatCrash DEF Next

LEMMA CatInvAlways == Spec => []CatInv
  BY TenancyDirInv, CatInvInit, CatInvStep, PTL DEF Spec

\* Every source is owned by a live department, and subscriptions and cases are
\* of live departments and of a topic that exists, however departments are
\* deleted next to requests about them.
THEOREM CatTypeCorrect == Spec => []CatTypeOK
  BY CatInvImplies, CatInvAlways, PTL

-----------------------------------------------------------------------------
(* What a crawl fetches and what a page shows                              *)

SourcesIdle == \A e \in Editors : edit[e].pc = "idle"

PagePicks(d) ==
    {s \in UNION {Page(x) : x \in {y \in Live : d \in {y, None}}} : Buildable(s)}

\* Nothing moves under a crawl when requests come one at a time.
PageInv ==
    Sequential =>
        /\ crawl.pc # "idle" => DirIdle /\ SourcesIdle /\ crawl.dept \in Live \union {None}
        /\ crawl.pc = "subs" =>
             /\ crawl.found = {s \in Rows : Buildable(s)}
             /\ crawl.owned = {s \in Rows : Buildable(s) /\ crawl.dept \in {cfg[s].owner, None}}
        /\ (crawl.pc = "fetch" /\ ~crawl.fallback) => crawl.picks = PagePicks(crawl.dept)

\* No crawl is under way.
LEMMA PageRests ==
  ASSUME crawl' = IdleCrawl
  PROVE  PageInv'
  BY DEF PageInv, IdleCrawl

\* Neither the crawl nor what it read has moved.
LEMMA PageStays ==
  ASSUME PageInv, UNCHANGED <<dirVars, cfg, subs, edit, crawl>>
  PROVE  PageInv'
<1>1. /\ UNCHANGED <<Rows, Live>> /\ \A s : Buildable(s)' <=> Buildable(s)
      /\ \A d : Page(d)' = Page(d)
  BY DEF dirVars, Rows, Live, Buildable, Page
<1>2. \A d : PagePicks(d)' = PagePicks(d)
  BY <1>1 DEF PagePicks
<1>3. UNCHANGED <<scope, req>>
  BY DEF dirVars
<1> QED
  BY <1>1, <1>2, <1>3 DEF PageInv, Sequential, DirIdle, SourcesIdle

LEMMA PicksArePage ==
  ASSUME CatInv, NEW d \in Live \union {None}
  PROVE  {s \in Rows : Buildable(s)} \intersect
           ({s \in Rows : Buildable(s) /\ d \in {cfg[s].owner, None}} \union Subscribed(d))
             = PagePicks(d)
<1>1. \A s \in Rows : s \in Sources /\ cfg[s].owner \in Live
  BY DEF CatInv, Rows
<1>2. None \notin Live /\ Live \subseteq Depts
  BY DeptsAssumption DEF Live
<1>3. CASE d = None
  <2>1. PagePicks(d) = {s \in UNION {Page(x) : x \in Live} : Buildable(s)}
    BY <1>3 DEF PagePicks
  <2>2. UNION {Page(x) : x \in Live} = Rows
    BY <1>1 DEF Page
  <2> QED
    BY <1>3, <2>1, <2>2
<1>4. CASE d \in Live
  <2>1. d # None /\ {y \in Live : d \in {y, None}} = {d} /\ {y \in Depts : d \in {y, None}} = {d}
    BY <1>2, <1>4
  <2>2. PagePicks(d) = {s \in Page(d) : Buildable(s)} /\ Subscribed(d) = subs[d]
    BY <2>1 DEF PagePicks, Subscribed
  <2> QED
    BY <2>1, <2>2 DEF Page
<1> QED
  BY <1>3, <1>4

LEMMA PageInvInit == Init => PageInv
  BY DEF Init, CatInit, IdleCrawl, PageInv

LEMMA PageReads ==
  ASSUME CatInv, PageInv, (\E d \in Live \union {None} : ReadCatalogue(d)) \/ ReadSubscriptions
  PROVE  PageInv'
<1>0. UNCHANGED <<dirVars, cfg, subs, edit>> /\ crawl \in CrawlShape
  BY DEF ReadCatalogue, ReadSubscriptions, CatInv
<1>1. /\ UNCHANGED <<Rows, Live>> /\ \A s : Buildable(s)' <=> Buildable(s)
      /\ \A d : Page(d)' = Page(d)
  BY <1>0 DEF dirVars, Rows, Live, Buildable, Page
<1>2. \A d : PagePicks(d)' = PagePicks(d)
  BY <1>1 DEF PagePicks
<1>3. UNCHANGED <<scope, req>>
  BY <1>0 DEF dirVars
<1>4. SUFFICES ASSUME Sequential
               PROVE  /\ DirIdle /\ SourcesIdle
                      /\ crawl'.dept \in Live \union {None}
                      /\ crawl'.pc = "subs" =>
                           /\ crawl'.found = {s \in Rows : Buildable(s)}
                           /\ crawl'.owned = {s \in Rows : Buildable(s)
                                                /\ crawl'.dept \in {cfg[s].owner, None}}
                      /\ (crawl'.pc = "fetch" /\ ~crawl'.fallback) =>
                           crawl'.picks = PagePicks(crawl'.dept)
  BY <1>0, <1>1, <1>2, <1>3 DEF PageInv, Sequential, DirIdle, SourcesIdle
<1>5. ASSUME NEW d \in Live \union {None}, FallBack(d)
      PROVE  crawl'.dept = d /\ crawl'.pc = "fetch" /\ crawl'.fallback
  BY <1>5 DEF FallBack, IdleCrawl
<1>6. ASSUME NEW d \in Live \union {None}, ReadCatalogue(d)
      PROVE  /\ DirIdle /\ SourcesIdle
             /\ crawl'.dept = d
             /\ \/ crawl'.pc = "fetch" /\ crawl'.fallback
                \/ /\ crawl'.pc = "subs"
                   /\ crawl'.found = {s \in Rows : Buildable(s)}
                   /\ crawl'.owned = {s \in Rows : Buildable(s) /\ d \in {cfg[s].owner, None}}
  <2>1. DirIdle /\ SourcesIdle
    BY <1>4, <1>6 DEF ReadCatalogue, CatIdle, SourcesIdle, Sequential
  <2>2. CASE FallBack(d)
    BY <1>5, <2>1, <2>2
  <2>3. CASE ~FallBack(d)
    <3>1. crawl' = [IdleCrawl EXCEPT !.pc = "subs", !.dept = d,
                 !.found = {s \in Rows : Buildable(s)},
                 !.owned = {s \in Rows : Buildable(s) /\ d \in {cfg[s].owner, None}}]
      BY <1>6, <2>3 DEF ReadCatalogue
    <3> QED
      BY <2>1, <3>1 DEF IdleCrawl
  <2> QED
    BY <2>2, <2>3
<1>7. CASE ReadSubscriptions
  <2>1. /\ DirIdle /\ SourcesIdle /\ crawl.dept \in Live \union {None}
        /\ crawl.found = {s \in Rows : Buildable(s)}
        /\ crawl.owned = {s \in Rows : Buildable(s) /\ crawl.dept \in {cfg[s].owner, None}}
    BY <1>4, <1>7 DEF ReadSubscriptions, PageInv
  <2>2. CASE FallBack(crawl.dept)
    BY <1>5, <2>1, <2>2
  <2>3. CASE ~FallBack(crawl.dept)
    <3> DEFINE picks == crawl.found \intersect (crawl.owned \union Subscribed(crawl.dept))
    <3>1. crawl' = [crawl EXCEPT !.pc = "fetch", !.found = {}, !.owned = {}, !.picks = picks]
      BY <1>7, <2>3 DEF ReadSubscriptions
    <3>2. crawl'.pc = "fetch" /\ crawl'.picks = picks /\ crawl'.dept = crawl.dept
      BY <1>0, <3>1 DEF CrawlShape
    <3>3. picks = PagePicks(crawl.dept)
      BY <2>1, PicksArePage
    <3> QED
      BY <2>1, <3>2, <3>3
  <2> QED
    BY <2>2, <2>3
<1> QED
  BY <1>6, <1>7

LEMMA PageInvStep == CatInv /\ DirInv /\ PageInv /\ [Next]_tenVars => PageInv'
<1> SUFFICES ASSUME CatInv, DirInv, PageInv, [Next]_tenVars PROVE PageInv'
  OBVIOUS
<1>1. CASE UNCHANGED <<dirVars, catVars>>
  BY <1>1, PageStays DEF catVars
<1>2. CASE Crash
  BY <1>2, PageRests DEF Crash, CatHangup
<1>3. ASSUME NEW c \in Clients,
             \/ ("overlap" \in scope \/ CatIdle) /\ DirStep(c) /\ UNCHANGED catVars
             \/ DropDept(c)
      PROVE  PageInv'
  <2>1. UNCHANGED <<scope, crawl>>
    BY <1>3, StepOfOne DEF DropDept, DropRows, catVars
  <2>2. CASE crawl.pc = "idle" \/ ~Sequential
    BY <2>1, <2>2 DEF PageInv, Sequential
  <2>3. CASE crawl.pc # "idle" /\ Sequential
    <3>1. DirIdle /\ ~CatIdle
      BY <2>3 DEF PageInv, CatIdle
    <3>2. DropDept(c)
      BY <1>3, <2>3, <3>1 DEF Sequential
    <3> QED
      BY <3>1, <3>2 DEF DropDept, DirIdle
  <2> QED
    BY <2>2, <2>3
<1>4. CASE CatStep
  <2>1. ASSUME NEW e \in Editors,
               AskSource(e) \/ Create(e) \/ Update(e) \/ Delete(e) \/ Subscribe(e)
        PROVE  PageInv'
    <3>1. UNCHANGED <<dirVars, crawl>>
      <4>1. CASE AskSource(e)
        BY <4>1 DEF AskSource, AskEdit, AskCreate, AskUpdate, AskDelete, AskSubscribe
      <4> QED
        BY <2>1, <4>1 DEF Create, Update, Delete, Subscribe
    <3>2. crawl.pc = "idle" \/ ~Sequential
      BY <2>1 DEF AskSource, CatIdle, Sequential, PageInv, SourcesIdle, Create, Update,
                  Delete, Subscribe
    <3> QED
      BY <3>1, <3>2 DEF PageInv, Sequential, dirVars, Live
  <2>2. CASE FetchAll
    BY <2>2, PageRests DEF FetchAll
  <2>3. CASE \/ \E d \in Depts : AssessJob(d)
             \/ \E sources \in {Sources} \union {{s} : s \in Sources} : CleanUp(sources)
    BY <2>3, PageStays DEF AssessJob, CleanUp
  <2> QED
    BY <1>4, <2>1, <2>2, <2>3, PageReads DEF CatStep
<1>5. CASE AccStep /\ UNCHANGED <<catVars, harmVars>>
  BY <1>1, <1>5, AccessKeepsDirectory
<1>6. CASE UNCHANGED tenVars
  BY <1>1, <1>6 DEF tenVars
<1> QED
  BY <1>1, <1>2, <1>3, <1>4, <1>5, <1>6 DEF Next

\* With requests one at a time, a department's crawl fetches exactly the
\* sources its page shows enabled, a crawl for all what any page shows.
THEOREM CrawlsMatchPage == Spec => []CrawlMatchesPage
<1>1. Init => PageInv
  BY PageInvInit
<1>2. PageInv => CrawlMatchesPage
  BY DEF PageInv, CrawlMatchesPage, PagePicks, Sequential
<1> QED
  BY <1>1, <1>2, CatInvAlways, TenancyDirInv, PageInvStep, PTL DEF Spec

\* Only a crawl finds a topic anew.
LEMMA FetchesAlone ==
  ASSUME [Next]_tenVars, ~(seen' \subseteq seen)
  PROVE  FetchAll
<1>1. ASSUME NEW c \in Clients, DropDept(c) PROVE UNCHANGED seen
  BY <1>1 DEF DropDept, DropRows, catVars
<1>2. ASSUME CatStep, ~FetchAll PROVE seen' \subseteq seen
  <2>1. ASSUME NEW e \in Editors, AskSource(e) PROVE UNCHANGED seen
    BY <2>1 DEF AskSource, AskEdit, AskCreate, AskUpdate, AskDelete, AskSubscribe
  <2> QED
    BY <1>2, <2>1 DEF CatStep, Create, Update, Delete, Subscribe, ReadCatalogue,
                      ReadSubscriptions, AssessJob, CleanUp
<1> QED
  BY <1>1, <1>2 DEF Next, Crash, CatHangup, tenVars, catVars

\* With requests one at a time, the topic that a department's crawl brings in is
\* on its list, and that of a crawl for all on some department's.
THEOREM CrawlsAreShown == Spec => CrawledAreShown
<1>1. ASSUME PageInv, CatInv, [Next]_tenVars, Sequential, crawl.pc = "fetch", ~crawl.fallback,
             NEW s \in seen', s \notin seen
      PROVE  \E d \in {x \in Live : crawl.dept \in {x, None}} : Shown(d)'
  <2>1. FetchAll
    BY <1>1, FetchesAlone
  <2>2. s \in crawl.picks /\ UNCHANGED <<dirVars, cfg, subs>>
    BY <1>1, <2>1 DEF FetchAll
  <2>3. s \in PagePicks(crawl.dept)
    BY <1>1, <2>2 DEF PageInv
  <2>4. PICK d \in Live : crawl.dept \in {d, None} /\ s \in Page(d)
    BY <2>3 DEF PagePicks
  <2>5. s \in subs'[d] \/ cfg'[s].owner = d
    BY <2>2, <2>4 DEF Page
  <2> QED
    BY <1>1, <2>4, <2>5 DEF Shown
<1>2. CatInv /\ PageInv /\ [Next]_tenVars => [CrawlShown]_catVars
  BY <1>1 DEF CrawlShown, Sequential
<1>3. Init => PageInv
  BY PageInvInit
<1> QED
  BY <1>2, <1>3, CatInvAlways, TenancyDirInv, PageInvStep, PTL DEF Spec, CrawledAreShown

-----------------------------------------------------------------------------
(* The net view                                                            *)

PutPcs == {"idle", "insert", "update", "reload", "answered"}
PutStatuses == {0, 200, 404, 500}
PutShape == [pc : PutPcs, status : PutStatuses, alone : BOOLEAN]

\* A PUT that may have stored its text.
Stored(r) == r.pc \in {"reload", "answered"} /\ r.status \in {0, 200}

\* Only an answered PUT has a status, and the row is from one that was stored.
HarmInv ==
    /\ view \in Authors \union {None}
    /\ view # None => seen # {}
    /\ put \in [Authors -> PutShape]
    /\ \A a \in Authors : put[a].pc # "answered" => put[a].status = 0
    /\ \A a \in Authors : view = a => Stored(put[a])

LEMMA DisturbShape ==
  ASSUME HarmInv
  PROVE  /\ Disturb \in [Authors -> PutShape]
         /\ \A a \in Authors : Disturb[a].pc = put[a].pc /\ Disturb[a].status = put[a].status
<1>1. ASSUME NEW a \in Authors
      PROVE  /\ [put[a] EXCEPT !.alone = FALSE] \in PutShape
             /\ [put[a] EXCEPT !.alone = FALSE].pc = put[a].pc
             /\ [put[a] EXCEPT !.alone = FALSE].status = put[a].status
  <2>1. put[a] \in PutShape
    BY DEF HarmInv
  <2> QED
    BY <2>1 DEF PutShape
<1> QED
  BY <1>1 DEF HarmInv, Disturb

\* What a step leaves of HarmInv, the row's topic aside.
PutsOK ==
    /\ view' \in Authors \union {None}
    /\ put' \in [Authors -> PutShape]
    /\ \A a \in Authors : put'[a].pc # "answered" => put'[a].status = 0
    /\ \A a \in Authors : view' = a => Stored(put'[a])

\* Every PUT keeps its place and its answer, and the row stays or goes.
LEMMA PutsStay ==
  ASSUME HarmInv, view' \in {view, None}, put' \in {put, Disturb}
  PROVE  PutsOK
<1>1. /\ put' \in [Authors -> PutShape]
      /\ \A a \in Authors : put'[a].pc = put[a].pc /\ put'[a].status = put[a].status
  BY DisturbShape DEF HarmInv
<1>2. \A a \in Authors : Stored(put'[a]) <=> Stored(put[a])
  BY <1>1 DEF Stored
<1> QED
  BY <1>1, <1>2, AuthorsAssumption DEF HarmInv, PutsOK

\* One PUT moves.
LEMMA PutMoves ==
  ASSUME HarmInv, NEW a \in Authors, NEW r \in PutShape,
         r.pc # "answered" => r.status = 0,
         put' \in {[put EXCEPT ![a] = r], [Disturb EXCEPT ![a] = r]},
         view' = view \/ view' = a, view' = a => Stored(r)
  PROVE  PutsOK
<1>1. put' \in [Authors -> PutShape] /\ put'[a] = r
  BY DisturbShape DEF HarmInv
<1>2. \A x \in Authors \ {a} : put'[x].pc = put[x].pc /\ put'[x].status = put[x].status
  BY DisturbShape DEF HarmInv
<1>3. \A x \in Authors \ {a} : Stored(put'[x]) <=> Stored(put[x])
  BY <1>2 DEF Stored
<1>4. \A x \in Authors : put'[x].pc # "answered" => put'[x].status = 0
  BY <1>1, <1>2 DEF HarmInv
<1>5. ASSUME NEW x \in Authors, view' = x PROVE Stored(put'[x])
  BY <1>1, <1>3, <1>5 DEF HarmInv
<1> QED
  BY <1>1, <1>4, <1>5 DEF HarmInv, PutsOK

LEMMA PutSteps ==
  ASSUME HarmInv, NEW a \in Authors, AskPut(a) \/ InsertView(a) \/ UpdateView(a) \/ Reload(a)
  PROVE  PutsOK
<1>0. put \in [Authors -> PutShape] /\ put[a] \in PutShape
  BY DEF HarmInv
<1>1. view = a => Stored(put[a])
  BY DEF HarmInv
<1>2. CASE AskPut(a)
  <2> DEFINE r == [pc |-> IF seen = {} THEN "answered"
                          ELSE IF view = None THEN "insert" ELSE "update",
                   status |-> IF seen = {} THEN 404 ELSE 0,
                   alone |-> InFlight = {}]
  <2>1. r \in PutShape /\ (r.pc # "answered" => r.status = 0)
    BY DEF PutShape, PutPcs, PutStatuses
  <2>2. put' = [Disturb EXCEPT ![a] = r] /\ view' = view /\ put[a].pc = "idle"
    BY <1>2 DEF AskPut
  <2>3. view # a
    BY <1>1, <2>2 DEF Stored
  <2> HIDE DEF r
  <2> QED
    BY <2>1, <2>2, <2>3, PutMoves
<1>3. ASSUME NEW s \in {200, 404, 500}, PutAnswered(a, s), view' = view,
             view = a => s = 200
      PROVE  PutsOK
  <2> DEFINE r == [put[a] EXCEPT !.pc = "answered", !.status = s]
  <2>0. s \in PutStatuses /\ "answered" \in PutPcs
    BY DEF PutStatuses, PutPcs
  <2>1. r \in PutShape /\ r.pc = "answered" /\ r.status = s
    BY <1>0, <2>0 DEF PutShape
  <2>2. put' = [put EXCEPT ![a] = r]
    BY <1>3 DEF PutAnswered
  <2> HIDE DEF r
  <2>3. view' = a => Stored(r)
    BY <1>3, <2>1 DEF Stored
  <2> QED
    BY <1>3, <2>1, <2>2, <2>3, PutMoves
<1>4. CASE InsertView(a)
  <2>1. put[a].pc = "insert" /\ put[a].status = 0
    BY <1>4 DEF InsertView, HarmInv
  <2>2. view # a
    BY <1>1, <2>1 DEF Stored
  <2>3. CASE view = None /\ seen # {}
    <3> DEFINE r == [put[a] EXCEPT !.pc = "reload"]
    <3>1. r \in PutShape /\ r.pc = "reload" /\ r.status = 0
      BY <1>0, <2>1 DEF PutShape, PutPcs
    <3>2. put' = [put EXCEPT ![a] = r] /\ view' = a
      BY <1>0, <1>4, <2>3 DEF InsertView
    <3> HIDE DEF r
    <3> QED
      BY <3>1, <3>2, PutMoves DEF Stored
  <2>4. CASE ~(view = None /\ seen # {})
    BY <1>3, <1>4, <2>2, <2>4 DEF InsertView
  <2> QED
    BY <2>3, <2>4
<1>5. CASE UpdateView(a)
  <2>1. view # a
    BY <1>1, <1>5 DEF UpdateView, Stored
  <2> QED
    BY <1>3, <1>5, <2>1 DEF UpdateView
<1>6. CASE Reload(a)
  <2>1. CASE seen = {}
    <3>1. view # a
      BY <2>1, AuthorsAssumption DEF HarmInv
    <3> QED
      BY <1>3, <1>6, <2>1, <3>1 DEF Reload
  <2>2. CASE seen # {}
    BY <1>3, <1>6, <2>2 DEF Reload
  <2> QED
    BY <2>1, <2>2
<1> QED
  BY <1>2, <1>4, <1>5, <1>6

LEMMA HangupSteps ==
  ASSUME HarmInv, HarmHangup
  PROVE  PutsOK
<1>0. put \in [Authors -> PutShape]
  BY DEF HarmInv
<1>1. ASSUME NEW a \in Authors
      PROVE  /\ put'[a] \in PutShape /\ put'[a].status = put[a].status
             /\ put'[a].pc \in {put[a].pc, "answered"}
  <2>1. /\ [put[a] EXCEPT !.pc = "answered"] \in PutShape
        /\ [put[a] EXCEPT !.pc = "answered"].status = put[a].status
        /\ [put[a] EXCEPT !.pc = "answered"].pc = "answered"
    BY <1>0 DEF PutShape, PutPcs
  <2> QED
    BY <1>0, <2>1 DEF HarmHangup
<1>2. put' \in [Authors -> PutShape]
  BY <1>1 DEF HarmHangup
<1>3. \A a \in Authors : put'[a].pc # "answered" => put'[a].status = 0
  BY <1>1 DEF HarmInv
<1>4. \A a \in Authors : view' = a => Stored(put'[a])
  BY <1>1 DEF HarmHangup, HarmInv, Stored
<1> QED
  BY <1>2, <1>3, <1>4 DEF HarmHangup, HarmInv, PutsOK

\* The row is of a topic that is there.
LEMMA ViewHasTopic ==
  ASSUME HarmInv, [Next]_tenVars
  PROVE  view' # None => seen' # {}
<1>1. CASE UNCHANGED <<view, seen>>
  BY <1>1 DEF HarmInv
<1>2. CASE LoseView
  BY <1>2 DEF HarmInv, LoseView
<1>3. CASE HarmStep /\ UNCHANGED catVars
  BY <1>3 DEF HarmInv, HarmStep, DeleteView, AskPut, InsertView, UpdateView, Reload, catVars
<1> QED
  BY <1>1, <1>2, <1>3 DEF Next, DropDept, DropRows, Crash, CatHangup, HarmHangup, tenVars,
                          catVars, harmVars

LEMMA HarmInvStep == HarmInv /\ [Next]_tenVars => HarmInv'
<1> SUFFICES ASSUME HarmInv, [Next]_tenVars PROVE HarmInv'
  OBVIOUS
<1>1. ASSUME UNCHANGED harmVars \/ DeleteView \/ LoseView PROVE PutsOK
  BY <1>1, PutsStay DEF harmVars, DeleteView, LoseView
<1>2. PutsOK
  BY <1>1, PutSteps, HangupSteps DEF Next, DropDept, HarmStep, Crash, tenVars
<1> QED
  BY <1>2, ViewHasTopic DEF PutsOK, HarmInv

LEMMA HarmInvAlways == Spec => []HarmInv
<1>1. Init => HarmInv
  <2>1. IdlePut \in PutShape /\ IdlePut.status = 0
    BY DEF IdlePut, PutShape, PutPcs, PutStatuses
  <2> QED
    BY <2>1, AuthorsAssumption DEF Init, HarmInit, HarmInv
<1> QED
  BY <1>1, HarmInvStep, PTL DEF Spec

\* A net view is of a topic that exists.
THEOREM HarmTypeCorrect == Spec => []HarmTypeOK
<1>1. HarmInv => HarmTypeOK
  BY DEF HarmInv, HarmTypeOK, PutShape, PutStatuses
<1> QED
  BY <1>1, HarmInvAlways, PTL

\* A PUT answered with an error has left nothing behind, however PUTs, deletions
\* of the view, clean-ups of the topic and restarts meet.
THEOREM FailuresLeaveNothing == Spec => []FailedPutsLeaveNothing
<1>1. HarmInv => FailedPutsLeaveNothing
  BY DEF HarmInv, FailedPutsLeaveNothing, Stored
<1> QED
  BY <1>1, HarmInvAlways, PTL

=============================================================================
