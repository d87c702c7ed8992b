---------------------------- MODULE TenancyProofs ----------------------------
(***************************************************************************)
(* Theorems about Tenancy: it implements Directory, and what a department  *)
(* token may crawl, for any number of users, departments, tokens, sources  *)
(* and requests.                                                           *)
(***************************************************************************)
EXTENDS Tenancy, DirectoryProofs

-----------------------------------------------------------------------------
(* The refinement                                                          *)

LEMMA CatalogueKeepsDirectory == CatStep => UNCHANGED dirVars
<1> SUFFICES ASSUME CatStep PROVE UNCHANGED dirVars
  OBVIOUS
<1>1. ASSUME NEW e \in Editors, AskSource(e) PROVE UNCHANGED dirVars
  <2>1. \A r : AskEdit(e, r) => UNCHANGED dirVars
    BY DEF AskEdit
  <2>2. \A s \in Sources, d \in Depts, feed \in BOOLEAN :
          AskCreate(e, s, d, feed) => UNCHANGED dirVars
    BY <2>1 DEF AskCreate
  <2>3. \A s \in Sources, d \in Depts, flag \in BOOLEAN :
          AskSubscribe(e, d, s, flag) => UNCHANGED dirVars
    BY <2>1 DEF AskSubscribe
  <2>4. \A by : \A s \in Sources, d \in Depts, feed \in BOOLEAN \union {None} :
          AskUpdate(e, by, s, d, feed) => UNCHANGED dirVars
    BY <2>1 DEF AskUpdate
  <2>5. \A by : \A s \in Sources : AskDelete(e, by, s) => UNCHANGED dirVars
    BY <2>1 DEF AskDelete
  <2> QED
    BY <1>1, <2>2, <2>3, <2>4, <2>5 DEF AskSource
<1>2. CASE \E d \in Live \union {None} : ReadCatalogue(d)
  BY <1>2 DEF ReadCatalogue
<1>3. CASE \E e \in Editors : Create(e) \/ Update(e) \/ Delete(e) \/ Subscribe(e)
  BY <1>3 DEF Create, Update, Delete, Subscribe
<1>4. CASE ReadSubscriptions \/ FetchAll
  BY <1>4 DEF ReadSubscriptions, FetchAll
<1>5. CASE \/ \E d \in Depts : AssessJob(d)
           \/ \E sources \in {Sources} \union {{s} : s \in Sources} : CleanUp(sources)
  BY <1>5 DEF AssessJob, CleanUp
<1> QED
  BY <1>1, <1>2, <1>3, <1>4, <1>5 DEF CatStep

LEMMA AccessKeepsDirectory == AccStep => UNCHANGED dirVars
<1> SUFFICES ASSUME AccStep PROVE UNCHANGED dirVars
  OBVIOUS
<1>1. CASE AskAccess
  BY <1>1 DEF AskAccess, Login, AskMint, AskRevoke, Arrive
<1>2. CASE (\E u \in Users : Expire(u)) \/ Mint \/ Revoke
  BY <1>2 DEF Expire, Mint, Revoke
<1>3. ASSUME NEW k \in Calls,
             Guard(k) \/ RequirePat(k) \/ RequireDeptPat(k) \/ Resolve(k) \/ Crawled(k)
      PROVE  UNCHANGED dirVars
  <2>1. (\E s : Answer(k, s)) => UNCHANGED dirVars
    BY DEF Answer
  <2>2. CASE Guard(k) \/ RequirePat(k) \/ Crawled(k)
    BY <2>1, <2>2 DEF Guard, RequirePat, Crawled, Pass
  <2>3. CASE RequireDeptPat(k) \/ Resolve(k)
    BY <2>1, <2>3 DEF RequireDeptPat, Resolve
  <2> QED
    BY <1>3, <2>2, <2>3
<1> QED
  BY <1>1, <1>2, <1>3 DEF AccStep

LEMMA StepRefines == [Next]_tenVars => [DirNext]_dirVars
<1> SUFFICES ASSUME [Next]_tenVars PROVE [DirNext]_dirVars
  OBVIOUS
<1>1. CASE UNCHANGED tenVars
  BY <1>1 DEF tenVars
<1>2. ASSUME NEW c \in Clients, DropDept(c) PROVE DirNext
  BY <1>2 DEF DropDept, DirNext
<1> QED
  BY <1>1, <1>2, CatalogueKeepsDirectory, AccessKeepsDirectory
     DEF Next, DirNext, Crash

\* What tokens, sources and net views add leaves the directory what it is
\* alone: a deletion that a source refuses is one of its steps too.
THEOREM ImplementsDirectory == Spec => DirSpec
<1>1. Init => DirInit
  BY DEF Init
<1> QED
  BY <1>1, StepRefines, PTL DEF Spec, DirSpec

\* The whole keeps exactly one default framework per department.
COROLLARY TenancyDefaultIsOne == Spec => []OneDefault
  BY ImplementsDirectory, DefaultIsOne

\* And what foreign keys tie stays tied, with the rows that tokens and sources
\* add to a department.
COROLLARY TenancyDirTypeCorrect == Spec => []DirTypeOK
  BY ImplementsDirectory, DirTypeCorrect

\* One at a time, no request to any of the routes takes the last active
\* superadmin away ...
COROLLARY TenancyAdminRemains == Spec => []AdminRemains
  BY ImplementsDirectory, AdminAlwaysRemains

\* ... or the last lead of a department that lives on.
COROLLARY TenancyLeadKept == Spec => LeadKept
  BY ImplementsDirectory, LeadIsKept

\* The whole keeps the foreign keys of the directory.
COROLLARY TenancyDirTypes == Spec => []DirTypeOK
  BY ImplementsDirectory, DirTypeCorrect

LEMMA TenancyDirInv == Spec => []DirInv
  BY ImplementsDirectory, DirInvAlways

-----------------------------------------------------------------------------
(* Departments, as far as tokens know them                                 *)

\* Live departments differ in their slugs.
UniqueSlugs == \A d, x \in Live : Slug[d] = Slug[x] => d = x

\* A step of the directory deletes departments, or creates one whose slug is
\* free, and deletes no account.
DeptMoves ==
    /\ \A d \in Depts : dept[d] = "gone" => dept'[d] = "gone"
    /\ \A d \in Depts : dept[d] = "live" => dept'[d] \in {"live", "gone"}
    /\ UniqueSlugs => UniqueSlugs'
    /\ \A u \in Users : account[u] # "none" => account'[u] # "none"

LEMMA DirectoryMoves ==
  ASSUME DirInv, [DirNext]_dirVars
  PROVE  DeptMoves
<1>0. dept \in [Depts -> {"new", "live", "gone"}]
      /\ account \in [Users -> {"none", "active", "inactive"}]
  BY DEF DirInv, DirTypeOK
<1>1. CASE UNCHANGED <<dept, account>>
  BY <1>0, <1>1 DEF DeptMoves, UniqueSlugs, Live
<1>2. ASSUME NEW c \in Clients, CreateUser(c) \/ Deactivate(c) PROVE DeptMoves
  <2>1. UNCHANGED dept /\ \A u \in Users : account[u] # "none" => account'[u] # "none"
    BY <1>0, <1>2 DEF CreateUser, Deactivate
  <2> QED
    BY <1>0, <2>1 DEF DeptMoves, UniqueSlugs, Live
<1>3. ASSUME NEW c \in Clients, Drop(c) PROVE DeptMoves
  <2>1. /\ UNCHANGED account
        /\ \A d \in Depts : dept'[d] \in {dept[d], "gone"}
    BY <1>0, <1>3 DEF Drop
  <2>2. Live' \subseteq Live
    BY <2>1 DEF Live
  <2> QED
    BY <1>0, <2>1, <2>2 DEF DeptMoves, UniqueSlugs
<1>4. ASSUME NEW c \in Clients, CreateDept(c), ~UNCHANGED dept PROVE DeptMoves
  <2> DEFINE n == req[c].dept
  <2>1. /\ UNCHANGED account /\ dept[n] = "new"
        /\ dept' = [dept EXCEPT ![n] = "live"]
        /\ \A x \in Live : Slug[x] # Slug[n]
    BY <1>4 DEF CreateDept
  <2>2. \A d \in Depts : dept[d] # "new" => dept'[d] = dept[d]
    BY <1>0, <2>1
  <2>3. Live' \subseteq Live \union {n}
    BY <1>0, <2>1 DEF Live
  <2>4. UniqueSlugs => UniqueSlugs'
    BY <2>1, <2>3 DEF UniqueSlugs
  <2> QED
    BY <1>0, <2>1, <2>2, <2>4 DEF DeptMoves
<1>5. ASSUME Restart PROVE DeptMoves
  <2>1. UNCHANGED dept /\ \A u \in Users : account[u] # "none" => account'[u] # "none"
    BY <1>0, <1>5 DEF Restart, EnsureSeedUser
  <2> QED
    BY <1>0, <2>1 DEF DeptMoves, UniqueSlugs, Live
<1>6. ASSUME NEW c \in Clients, DirStep(c) \/ KeepDept(c),
             ~CreateUser(c), ~Deactivate(c), ~CreateDept(c)
      PROVE  UNCHANGED <<dept, account>>
  <2>1. AskSome(c) => UNCHANGED <<dept, account>>
    BY AskIsAsked DEF Ask
  <2> QED
    BY <1>6, <2>1
       DEF DirStep, Add, Count, Change, Enable, Replace, Doomed, KeepDept, Refused
<1>7. ASSUME NEW c \in Clients, CreateDept(c), UNCHANGED dept PROVE DeptMoves
  BY <1>1, <1>7 DEF CreateDept
<1>8. CASE UNCHANGED dirVars
  BY <1>1, <1>8 DEF dirVars
<1> QED
  BY <1>1, <1>2, <1>3, <1>4, <1>5, <1>6, <1>7, <1>8 DEF DirNext

-----------------------------------------------------------------------------
(* Tokens                                                                  *)

PatShape == [dept : Depts, state : {"none", "live", "revoked", "gone"}]

MintShape == [pc : {"idle", "mint", "revoke"}, dept : Depts, pat : Pats \union {None}]

CallPcs == {"idle", "guard", "bearer", "resolve", "crawl", "answered"}
Statuses == {0, 200, 401, 403, 404, 500, 503}
Cookies == Users \union {None}
Bearers == Pats \union {Global, None}
Slugs == {Slug[d] : d \in Depts} \union {None}
MaybeDept == Depts \union {None}

CallShape == [pc : CallPcs, cookie : Cookies, bearer : Bearers, slug : Slugs,
              token : MaybeDept, crawls : MaybeDept, status : Statuses,
              stale : BOOLEAN]

\* A call got to where it is with a token that was good when it was looked at.
CallOK(k) ==
    /\ call[k].pc \in {"idle", "guard", "bearer"} => call[k].crawls = None
    /\ call[k].pc = "resolve" =>
         /\ call[k].token \in Depts /\ dept[call[k].token] # "new"
         /\ call[k].crawls = None
    /\ call[k].crawls # None =>
         /\ call[k].token \in Depts
         /\ Slug[call[k].crawls] = Slug[call[k].token]
         /\ call[k].crawls # call[k].token => dept[call[k].token] = "gone"
    /\ call[k].stale =>
         /\ call[k].bearer # Global
         /\ call[k].bearer \in Pats => pats[call[k].bearer].state \in {"revoked", "gone"}
         /\ call[k].pc # "resolve"
         /\ call[k].crawls = None

AccInv ==
    /\ UniqueSlugs
    /\ cookies \subseteq {u \in Users : account[u] # "none"}
    /\ pats \in [Pats -> PatShape]
    /\ \A t \in Pats : LivePat(t) => pats[t].dept \in Live
    /\ mint \in MintShape
    /\ mint.pc # "idle" => mint.pat \in Pats
    /\ mint.pc = "mint" => pats[mint.pat].state = "none"
    /\ call \in [Calls -> CallShape]
    /\ \A k \in Calls : CallOK(k)

LEMMA AccInvImplies == AccInv => AccTypeOK /\ CrawlRunsAsToken /\ StaleTokenRefused
  BY DEF AccInv, AccTypeOK, CrawlRunsAsToken, StaleTokenRefused, CallOK, CallShape,
         MaybeDept

LEMMA AccInvInit == Init => AccInv
<1> SUFFICES ASSUME Init PROVE AccInv
  OBVIOUS
<1>1. UniqueSlugs
  BY FoundedAssumption DEF Init, DirInit, UniqueSlugs, Live
<1>2. /\ pats \in [Pats -> PatShape] /\ mint \in MintShape /\ mint.pc = "idle"
      /\ \A t \in Pats : ~LivePat(t)
  BY Constants DEF Init, AccInit, PatShape, MintShape, IdleMint, LivePat
<1>3. IdleCall \in CallShape
  BY DEF IdleCall, CallShape, CallPcs, Statuses, Cookies, Bearers, Slugs, MaybeDept
<1>4. call = [k \in Calls |-> IdleCall] /\ cookies = {}
  BY DEF Init, AccInit
<1>5. \A k \in Calls : CallOK(k)
  BY <1>4 DEF CallOK, IdleCall
<1> QED
  BY <1>1, <1>2, <1>3, <1>4, <1>5 DEF AccInv

\* The directory moves and the tokens stay.
LEMMA AccDirectory ==
  ASSUME AccInv, DirInv, DeptMoves, UNCHANGED <<mint, call>>,
         cookies' = cookies,
         pats' \in [Pats -> PatShape],
         \A t \in Pats : LivePat(t)' => pats'[t].dept \in Live',
         \A t \in Pats : /\ pats[t].state = "none" => pats'[t].state = "none"
                         /\ pats[t].state \in {"revoked", "gone"} =>
                              pats'[t].state \in {"revoked", "gone"}
  PROVE  AccInv'
<1>1. ASSUME NEW k \in Calls PROVE CallOK(k)'
  <2>1. CallOK(k) /\ call[k] \in CallShape /\ call'[k] = call[k]
    BY DEF AccInv
  <2>2. call[k].token \in Depts =>
          /\ dept[call[k].token] = "gone" => dept'[call[k].token] = "gone"
          /\ dept[call[k].token] # "new" => dept'[call[k].token] # "new"
    BY RowFacts DEF DeptMoves
  <2>3. call[k].pc = "resolve" =>
          /\ call[k].token \in Depts /\ dept'[call[k].token] # "new"
          /\ call[k].crawls = None
    BY <2>1, <2>2 DEF CallOK
  <2>4. call[k].crawls # None =>
          /\ call[k].token \in Depts
          /\ Slug[call[k].crawls] = Slug[call[k].token]
          /\ call[k].crawls # call[k].token => dept'[call[k].token] = "gone"
    BY <2>1, <2>2 DEF CallOK
  <2>5. call[k].stale =>
          /\ call[k].bearer # Global
          /\ call[k].bearer \in Pats => pats'[call[k].bearer].state \in {"revoked", "gone"}
          /\ call[k].pc # "resolve"
          /\ call[k].crawls = None
    BY <2>1 DEF CallOK
  <2> QED
    BY <2>1, <2>3, <2>4, <2>5 DEF CallOK
<1> QED
  BY <1>1 DEF AccInv, DeptMoves

\* A step of one call.
LEMMA AccCall ==
  ASSUME AccInv, UNCHANGED <<dirVars, cookies, pats, mint>>, NEW k \in Calls,
         \A x \in Calls \ {k} : call'[x] = call[x],
         call' \in [Calls -> CallShape], CallOK(k)'
  PROVE  AccInv'
<1>1. ASSUME NEW x \in Calls \ {k} PROVE CallOK(x)'
  BY <1>1 DEF AccInv, CallOK, dirVars
<1> QED
  BY <1>1 DEF AccInv, UniqueSlugs, Live, LivePat, dirVars

LEMMA AccAnswer ==
  ASSUME AccInv, NEW k \in Calls, NEW s \in {200, 401, 403, 404, 500, 503}, Answer(k, s)
  PROVE  AccInv'
<1> DEFINE X == [call[k] EXCEPT !.pc = "answered", !.status = s]
<1>1. call[k] \in CallShape /\ CallOK(k)
  BY DEF AccInv
<1>a. s \in Statuses /\ "answered" \in CallPcs
  BY DEF Statuses, CallPcs
<1>2. X \in CallShape
  BY <1>1, <1>a DEF CallShape
<1>3. call' = [call EXCEPT ![k].pc = "answered", ![k].status = s]
      /\ UNCHANGED <<dirVars, cookies, pats, mint>>
  BY DEF Answer
<1>4. call'[k] = X /\ call' \in [Calls -> CallShape]
      /\ \A x \in Calls \ {k} : call'[x] = call[x]
  BY <1>2, <1>3 DEF AccInv
<1>5. /\ X.pc = "answered" /\ X.crawls = call[k].crawls /\ X.token = call[k].token
      /\ X.stale = call[k].stale /\ X.bearer = call[k].bearer
  BY <1>1 DEF CallShape
<1>6. CallOK(k)'
  BY <1>1, <1>3, <1>4, <1>5 DEF CallOK, dirVars
<1> QED
  BY <1>3, <1>4, <1>6, AccCall

LEMMA AccPass ==
  ASSUME AccInv, NEW k \in Calls, NEW pc \in {"bearer", "crawl"}, Pass(k, pc),
         call[k].pc \in {"guard", "bearer"}
  PROVE  AccInv'
<1> DEFINE X == [call[k] EXCEPT !.pc = pc]
<1>1. call[k] \in CallShape /\ CallOK(k)
  BY DEF AccInv
<1>2. X \in CallShape
  BY <1>1 DEF CallShape, CallPcs
<1>3. call' = [call EXCEPT ![k].pc = pc] /\ UNCHANGED <<dirVars, cookies, pats, mint>>
  BY DEF Pass
<1>4. call'[k] = X /\ call' \in [Calls -> CallShape]
      /\ \A x \in Calls \ {k} : call'[x] = call[x]
  BY <1>2, <1>3 DEF AccInv
<1>5. /\ X.pc = pc /\ X.crawls = call[k].crawls /\ X.token = call[k].token
      /\ X.stale = call[k].stale /\ X.bearer = call[k].bearer
  BY <1>1 DEF CallShape
<1>6. CallOK(k)'
  BY <1>1, <1>3, <1>4, <1>5 DEF CallOK, dirVars
<1> QED
  BY <1>3, <1>4, <1>6, AccCall

LEMMA AccArrive ==
  ASSUME AccInv, NEW k \in Calls, NEW c \in Users \union {None},
         NEW b \in Pats \union {Global, None},
         NEW s \in {Slug[d] : d \in Depts} \union {None}, Arrive(k, c, b, s)
  PROVE  AccInv'
<1> DEFINE bad == b # Global /\ ~LivePat(b)
           X == [IdleCall EXCEPT !.pc = "guard", !.cookie = c, !.bearer = b,
                                 !.slug = s, !.stale = bad]
<1>1. bad \in BOOLEAN /\ (b \in Pats => pats[b].state # "none")
  BY DEF Arrive
<1>2. X \in CallShape
  <2>1. /\ "guard" \in CallPcs /\ None \in MaybeDept /\ 0 \in Statuses
        /\ c \in Cookies /\ b \in Bearers /\ s \in Slugs
    BY DEF CallPcs, MaybeDept, Statuses, Cookies, Bearers, Slugs
  <2> HIDE DEF bad
  <2> QED
    BY <1>1, <2>1 DEF CallShape, IdleCall
<1>3. call' = [call EXCEPT ![k] = X] /\ UNCHANGED <<dirVars, cookies, pats, mint>>
  BY DEF Arrive
<1>4. call'[k] = X /\ call' \in [Calls -> CallShape]
      /\ \A x \in Calls \ {k} : call'[x] = call[x]
  BY <1>2, <1>3 DEF AccInv
<1>5. X.pc = "guard" /\ X.crawls = None /\ X.bearer = b /\ X.stale = bad
  BY DEF IdleCall
<1>6. bad /\ b \in Pats => pats[b].state \in {"revoked", "gone"}
  BY <1>1 DEF LivePat, AccInv, PatShape
<1>7. CallOK(k)'
  BY <1>3, <1>4, <1>5, <1>6 DEF CallOK
<1> QED
  BY <1>3, <1>4, <1>7, AccCall

LEMMA AccRequireDeptPat ==
  ASSUME AccInv, NEW k \in Calls, RequireDeptPat(k)
  PROVE  AccInv'
<1> DEFINE b == call[k].bearer
           X == [call[k] EXCEPT !.pc = "resolve", !.token = pats[b].dept]
<1>0. call[k] \in CallShape /\ CallOK(k) /\ call[k].pc = "bearer"
  BY DEF AccInv, RequireDeptPat
<1>1. CASE ~LivePat(b)
  BY <1>1, AccAnswer DEF RequireDeptPat
<1>2. CASE LivePat(b)
  <2>1. b \in Pats /\ pats[b].dept \in Depts /\ pats[b].dept \in Live
        /\ pats[b].state = "live"
    BY <1>2 DEF AccInv, PatShape, LivePat
  <2>a. "resolve" \in CallPcs /\ pats[b].dept \in MaybeDept
    BY <2>1 DEF CallPcs, MaybeDept
  <2>2. X \in CallShape
    BY <1>0, <2>a DEF CallShape
  <2>3. call' = [call EXCEPT ![k].pc = "resolve", ![k].token = pats[b].dept]
        /\ UNCHANGED <<dirVars, cookies, pats, mint>>
    BY <1>2 DEF RequireDeptPat
  <2>4. call'[k] = X /\ call' \in [Calls -> CallShape]
        /\ \A x \in Calls \ {k} : call'[x] = call[x]
    BY <2>2, <2>3 DEF AccInv
  <2>5. /\ X.pc = "resolve" /\ X.crawls = call[k].crawls /\ X.token = pats[b].dept
        /\ X.stale = call[k].stale /\ X.bearer = b
    BY <1>0 DEF CallShape
  <2>6. call[k].crawls = None /\ ~call[k].stale
    BY <1>0, <2>1 DEF CallOK, CallShape
  <2>7. dept'[pats[b].dept] # "new"
    BY <2>1, <2>3 DEF Live, dirVars
  <2>8. CallOK(k)'
    BY <2>1, <2>4, <2>5, <2>6, <2>7 DEF CallOK
  <2> QED
    BY <2>3, <2>4, <2>8, AccCall
<1> QED
  BY <1>1, <1>2

LEMMA AccResolve ==
  ASSUME AccInv, DirInv, NEW k \in Calls, Resolve(k)
  PROVE  AccInv'
<1> DEFINE t == call[k].token
           fresh == {d \in Live : Slug[d] = call[k].slug}
<1>0. call[k] \in CallShape /\ CallOK(k) /\ call[k].pc = "resolve"
  BY DEF AccInv, Resolve
<1>1. t \in Depts /\ dept[t] # "new" /\ ~call[k].stale
  BY <1>0 DEF CallOK, CallShape
<1>2. CASE Slug[t] # call[k].slug \/ fresh = {}
  BY <1>2, AccAnswer DEF Resolve
<1>3. CASE ~(Slug[t] # call[k].slug \/ fresh = {})
  <2>1. PICK d \in fresh :
          /\ call' = [call EXCEPT ![k].pc = "crawl", ![k].crawls = d]
          /\ UNCHANGED <<dirVars, cookies, pats, mint>>
    BY <1>3 DEF Resolve
  <2> DEFINE X == [call[k] EXCEPT !.pc = "crawl", !.crawls = d]
  <2>2. d \in Depts /\ d \in Live /\ Slug[d] = Slug[t]
    BY <1>3 DEF Live
  <2>a. "crawl" \in CallPcs /\ d \in MaybeDept
    BY <2>2 DEF CallPcs, MaybeDept
  <2>3. X \in CallShape
    BY <1>0, <2>a DEF CallShape
  <2>4. call'[k] = X /\ call' \in [Calls -> CallShape]
        /\ \A x \in Calls \ {k} : call'[x] = call[x]
    BY <2>1, <2>3 DEF AccInv
  <2>5. X.pc = "crawl" /\ X.crawls = d /\ X.token = t /\ X.stale = call[k].stale
    BY <1>0 DEF CallShape
  <2>6. d # t => dept[t] = "gone"
    <3>1. d # t => t \notin Live
      BY <2>2 DEF AccInv, UniqueSlugs
    <3> QED
      BY <1>1, <3>1, RowFacts DEF Live
  <2>7. dept' = dept
    BY <2>1 DEF dirVars
  <2>8. CallOK(k)'
    BY <1>1, <2>2, <2>4, <2>5, <2>6, <2>7 DEF CallOK
  <2> QED
    BY <2>1, <2>4, <2>8, AccCall
<1> QED
  BY <1>2, <1>3

LEMMA AccTokens ==
  ASSUME AccInv, DirInv, NEW d \in Depts, NEW t \in Pats,
         AskMint(d, t) \/ AskRevoke(d, t)
  PROVE  AccInv'
<1>1. UNCHANGED <<dirVars, cookies, pats, call>>
  BY DEF AskMint, AskRevoke
<1>2. mint' \in MintShape /\ mint'.pat = t /\ mint'.pc \in {"mint", "revoke"}
      /\ (mint'.pc = "mint" => pats[t].state = "none")
  BY DEF AskMint, AskRevoke, MintShape
<1>3. \A k \in Calls : CallOK(k)'
  BY <1>1 DEF AccInv, CallOK, dirVars
<1> QED
  BY <1>1, <1>2, <1>3 DEF AccInv, UniqueSlugs, Live, LivePat, dirVars

LEMMA AccMintRevoke ==
  ASSUME AccInv, DirInv, Mint \/ Revoke
  PROVE  AccInv'
<1> DEFINE p == mint.pat
<1>0. UNCHANGED <<dirVars, cookies, call>> /\ mint' = IdleMint
  BY DEF Mint, Revoke
<1>1. p \in Pats /\ mint.dept \in Depts /\ pats[p] \in PatShape
      /\ pats \in [Pats -> PatShape]
  BY DEF AccInv, MintShape, Mint, Revoke
<1>2. /\ pats' \in [Pats -> PatShape]
      /\ \A t \in Pats : LivePat(t)' => pats'[t].dept \in Live
      /\ \A t \in Pats : pats[t].state \in {"revoked", "gone"} =>
                           pats'[t].state \in {"revoked", "gone"}
  <2>1. CASE pats' = pats
    BY <2>1 DEF AccInv, LivePat
  <2>2. CASE Mint /\ mint.dept \in Live
    <3> DEFINE n == [dept |-> mint.dept, state |-> "live"]
    <3>1. pats' = [pats EXCEPT ![p] = n] /\ pats[p].state = "none"
      BY <2>2 DEF Mint, AccInv
    <3>2. n \in PatShape
      BY <1>1 DEF PatShape
    <3> QED
      BY <1>1, <2>2, <3>1, <3>2 DEF AccInv, LivePat
  <2>3. CASE Revoke
    <3> DEFINE n == [pats[p] EXCEPT !.state = IF @ = "live" THEN "revoked" ELSE @]
    <3>1. pats' = [pats EXCEPT ![p] = n]
      BY <2>3 DEF Revoke
    <3>2. n \in PatShape /\ n.state # "live"
          /\ (pats[p].state \in {"revoked", "gone"} => n.state \in {"revoked", "gone"})
      BY <1>1 DEF PatShape
    <3>3. pats'[p] = n /\ \A t \in Pats \ {p} : pats'[t] = pats[t]
      BY <1>1, <3>1
    <3>4. pats' \in [Pats -> PatShape]
      BY <1>1, <3>1, <3>2
    <3> HIDE DEF n
    <3> QED
      BY <3>2, <3>3, <3>4 DEF AccInv, LivePat
  <2> QED
    BY <2>1, <2>2, <2>3 DEF Mint
<1>3. \A k \in Calls : CallOK(k)'
  BY <1>0, <1>2 DEF AccInv, CallOK, dirVars
<1>4. mint' \in MintShape /\ mint'.pc = "idle"
  BY <1>0, Constants DEF IdleMint, MintShape
<1> QED
  BY <1>0, <1>2, <1>3, <1>4 DEF AccInv, UniqueSlugs, Live, dirVars

LEMMA AccStepInv ==
  ASSUME AccInv, DirInv, AccStep
  PROVE  AccInv'
<1>1. ASSUME NEW u \in Users, Login(u) \/ Expire(u) PROVE AccInv'
  <2>1. UNCHANGED <<dirVars, pats, mint, call>>
    BY <1>1 DEF Login, Expire
  <2>2. cookies' \subseteq {v \in Users : account[v] # "none"}
    BY <1>1 DEF Login, Expire, CurrentUser, AccInv
  <2>3. \A k \in Calls : CallOK(k)'
    BY <2>1 DEF AccInv, CallOK, dirVars
  <2> QED
    BY <2>1, <2>2, <2>3 DEF AccInv, UniqueSlugs, Live, LivePat, dirVars
<1>2. CASE AskAccess
  BY <1>1, <1>2, AccTokens, AccArrive DEF AskAccess
<1>3. ASSUME NEW k \in Calls, Guard(k) \/ RequirePat(k) \/ Crawled(k) PROVE AccInv'
  BY <1>3, AccAnswer, AccPass DEF Guard, RequirePat, Crawled
<1> QED
  BY <1>1, <1>2, <1>3, AccMintRevoke, AccRequireDeptPat, AccResolve DEF AccStep

\* The directory moves, no department is deleted, and nothing else changes.
LEMMA AccLive ==
  ASSUME AccInv, DirInv, DeptMoves, UNCHANGED accVars, Live \subseteq Live'
  PROVE  AccInv'
<1>1. UNCHANGED <<cookies, pats, mint, call>>
  BY DEF accVars
<1>2. \A t \in Pats : LivePat(t)' => pats'[t].dept \in Live'
  BY <1>1 DEF AccInv, LivePat
<1> QED
  BY <1>1, <1>2, AccDirectory DEF AccInv

LEMMA DirStepLive ==
  ASSUME DirInv, NEW c \in Clients, DirStep(c)
  PROVE  Live \subseteq Live'
<1>1. CASE CreateDept(c)
  BY <1>1, RowFacts DEF CreateDept, Live
<1>2. CASE AskSome(c)
  BY <1>2, AskIsAsked DEF Ask, Live
<1>3. CASE ~CreateDept(c) /\ ~AskSome(c)
  <2>1. UNCHANGED dept
    BY <1>3 DEF DirStep, Add, Count, Change, CreateUser, Deactivate, Enable, Replace,
                Doomed, Refused
  <2> QED
    BY <2>1 DEF Live
<1> QED
  BY <1>1, <1>2, <1>3

LEMMA AccDrop ==
  ASSUME AccInv, DirInv, NEW c \in Clients, DropDept(c)
  PROVE  AccInv'
<1> DEFINE d == req[c].dept
<1>1. d \in Depts
  BY RowFacts DEF ReqShape
<1>2. DeptMoves
  BY DirectoryMoves DEF DropDept, DirNext
<1>3. CASE KeepDept(c) /\ UNCHANGED accVars
  BY <1>2, <1>3, AccLive DEF KeepDept, Refused, Live
<1>4. CASE Drop(c) /\ DropPats(d) /\ UNCHANGED <<cookies, mint, call>>
  <2>1. pats \in [Pats -> PatShape]
    BY DEF AccInv
  <2>2. dept' = [dept EXCEPT ![d] = "gone"]
    BY <1>4 DEF Drop
  <2>3. \A t \in Pats : pats'[t] = IF pats[t].dept = d /\ pats[t].state # "none"
                                   THEN [pats[t] EXCEPT !.state = "gone"] ELSE pats[t]
    BY <1>4 DEF DropPats
  <2>4. ASSUME NEW t \in Pats
        PROVE  /\ pats'[t] \in PatShape /\ pats'[t].dept = pats[t].dept
               /\ pats'[t].state = IF pats[t].dept = d /\ pats[t].state # "none"
                                   THEN "gone" ELSE pats[t].state
    BY <2>1, <2>3 DEF PatShape
  <2>5. pats' \in [Pats -> PatShape]
    BY <1>4, <2>4 DEF DropPats
  <2>6. ASSUME NEW t \in Pats, pats'[t].state = "live" PROVE pats'[t].dept \in Live'
    <3>1. pats[t].state = "live" /\ pats[t].dept # d /\ pats'[t].dept = pats[t].dept
      BY <2>4, <2>6
    <3>2. pats[t].dept \in Live
      BY <3>1 DEF AccInv, LivePat
    <3> QED
      BY <2>2, <3>1, <3>2, RowFacts DEF Live
  <2>7. \A t \in Pats : /\ pats[t].state = "none" => pats'[t].state = "none"
                        /\ pats[t].state \in {"revoked", "gone"} =>
                             pats'[t].state \in {"revoked", "gone"}
    BY <2>4
  <2> QED
    BY <1>2, <1>4, <2>5, <2>6, <2>7, AccDirectory DEF LivePat
<1> QED
  BY <1>3, <1>4 DEF DropDept

LEMMA AccCrash ==
  ASSUME AccInv, DirInv, Crash
  PROVE  AccInv'
<1>1. DeptMoves /\ UNCHANGED <<dept, cookies, pats>>
  BY DirectoryMoves DEF Crash, DirNext, Restart, Hangup
<1>2. mint' = IdleMint
      /\ call' = [k \in Calls |-> IF call[k].pc = "answered" THEN call[k] ELSE IdleCall]
  BY DEF Crash, Hangup
<1>3. mint' \in MintShape /\ mint'.pc = "idle"
  BY <1>2, Constants DEF IdleMint, MintShape
<1>4. IdleCall \in CallShape
  BY DEF IdleCall, CallShape, CallPcs, Statuses, Cookies, Bearers, Slugs, MaybeDept
<1>5. call' \in [Calls -> CallShape]
  BY <1>2, <1>4 DEF AccInv
<1>6. ASSUME NEW k \in Calls PROVE CallOK(k)'
  <2>1. CASE call[k].pc = "answered"
    BY <1>1, <1>2, <2>1 DEF AccInv, CallOK
  <2>2. CASE call[k].pc # "answered"
    <3>1. call'[k] = IdleCall
      BY <1>2, <2>2
    <3>2. IdleCall.pc = "idle" /\ IdleCall.crawls = None /\ IdleCall.stale = FALSE
      BY DEF IdleCall
    <3> QED
      BY <3>1, <3>2 DEF CallOK
  <2> QED
    BY <2>1, <2>2
<1> QED
  BY <1>1, <1>3, <1>5, <1>6 DEF AccInv, DeptMoves, Live, LivePat

LEMMA AccInvStep == AccInv /\ DirInv /\ [Next]_tenVars => AccInv'
<1> SUFFICES ASSUME AccInv, DirInv, [Next]_tenVars PROVE AccInv'
  OBVIOUS
<1>1. CASE UNCHANGED <<dirVars, accVars>>
  BY <1>1 DEF dirVars, accVars, AccInv, UniqueSlugs, Live, LivePat, CallOK
<1>2. ASSUME NEW c \in Clients, DirStep(c), UNCHANGED accVars PROVE AccInv'
  <2>1. DeptMoves
    BY <1>2, DirectoryMoves DEF DirNext
  <2>2. Live \subseteq Live'
    BY <1>2, DirStepLive
  <2> QED
    BY <1>2, <2>1, <2>2, AccLive
<1>3. CASE CatStep /\ LoseView /\ UNCHANGED accVars
  BY <1>1, <1>3, CatalogueKeepsDirectory
<1>4. CASE HarmStep /\ UNCHANGED <<dirVars, accVars, catVars>>
  BY <1>1, <1>4
<1>5. CASE UNCHANGED tenVars
  BY <1>1, <1>5 DEF tenVars
<1>6. ASSUME NEW c \in Clients, DropDept(c) PROVE AccInv'
  BY <1>6, AccDrop
<1> QED
  BY <1>2, <1>3, <1>4, <1>5, <1>6, AccStepInv, AccCrash DEF Next

LEMMA AccInvAlways == Spec => []AccInv
  BY TenancyDirInv, AccInvInit, AccInvStep, PTL DEF Spec

\* Cookies are of accounts, live tokens of live departments.
THEOREM AccTypeCorrect == Spec => []AccTypeOK
  BY AccInvImplies, AccInvAlways, PTL

\* A department crawl runs for the department of its token, or for the live
\* successor of its slug once that department is gone, whatever is deleted,
\* created or revoked between the statements of the call.
THEOREM CrawlsRunAsToken == Spec => []CrawlRunsAsToken
  BY AccInvImplies, AccInvAlways, PTL

\* No call that arrives after its token stopped being good starts a crawl.
THEOREM StaleTokensRefused == Spec => []StaleTokenRefused
  BY AccInvImplies, AccInvAlways, PTL

=============================================================================
