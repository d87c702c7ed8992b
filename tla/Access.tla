------------------------------- MODULE Access -------------------------------
(***************************************************************************)
(* Sessions, tokens and the crawl calls of the scheduler:                  *)
(* auth/middleware.py, routes/auth.py, middleware/pat_auth.py,             *)
(* routes/department_pats.py and routes/internal.py, over Directory.       *)
(*                                                                         *)
(* A session cookie is a signed user name and a date: nothing is stored,   *)
(* and nothing but the date ends it.  A call passes AuthMiddleware before  *)
(* the token is looked at, and the department it crawls is looked up again *)
(* by the slug of the path.                                                *)
(***************************************************************************)
EXTENDS Directory

CONSTANTS
    Pats,    \* bound: department tokens ever minted
    Calls,   \* bound: internal crawl calls
    Global   \* the bearer TREND_INTERNAL_PAT

ASSUME GlobalAssumption == Global \notin Pats /\ None \notin Pats \union {Global}

VARIABLES
    cookies,  \* users for whom an unexpired cookie exists
    pats,     \* department_pats: department, and "none", "live", "revoked" or "gone"
    mint,     \* the token request in flight
    call      \* the internal crawl calls

accVars == <<cookies, pats, mint, call>>

IdleMint == [pc |-> "idle", dept |-> Default, pat |-> None]
IdleCall == [pc |-> "idle", cookie |-> None, bearer |-> None, slug |-> None,
             token |-> None, crawls |-> None, status |-> 0, stale |-> FALSE]

LivePat(t) == t \in Pats /\ pats[t].state = "live"

AccInit ==
    /\ cookies = {}
    /\ pats = [t \in Pats |-> [dept |-> Default, state |-> "none"]]
    /\ mint = IdleMint
    /\ call = [k \in Calls |-> IdleCall]

-----------------------------------------------------------------------------
(* Sessions                                                                *)

\* POST /login with the right password, for an active account.
Login(u) ==
    /\ CurrentUser(u)
    /\ cookies' = cookies \union {u}
    /\ UNCHANGED <<dirVars, pats, mint, call>>

\* The date in the cookie passes.  /logout asks the client to drop its cookie
\* and ends nothing here.
Expire(u) ==
    /\ u \in cookies
    /\ cookies' = cookies \ {u}
    /\ UNCHANGED <<dirVars, pats, mint, call>>

-----------------------------------------------------------------------------
(* Tokens                                                                  *)

AskMint(d, t) ==
    /\ mint.pc = "idle"
    /\ d \in Live
    /\ \E by \in Users : MayManage(by, d)
    /\ pats[t].state = "none"
    /\ mint' = [pc |-> "mint", dept |-> d, pat |-> t]
    /\ UNCHANGED <<dirVars, cookies, pats, call>>

\* The foreign key refuses a department that is gone (500).
Mint ==
    /\ mint.pc = "mint"
    /\ pats' = IF mint.dept \in Live
               THEN [pats EXCEPT ![mint.pat] = [dept |-> mint.dept, state |-> "live"]]
               ELSE pats
    /\ mint' = IdleMint
    /\ UNCHANGED <<dirVars, cookies, call>>

\* revoke_department_pat: 404 unless the token is of the path's department.
AskRevoke(d, t) ==
    /\ mint.pc = "idle"
    /\ d \in Live
    /\ \E by \in Users : MayManage(by, d)
    /\ pats[t].dept = d /\ pats[t].state \in {"live", "revoked"}
    /\ mint' = [pc |-> "revoke", dept |-> d, pat |-> t]
    /\ UNCHANGED <<dirVars, cookies, pats, call>>

\* A second revocation changes nothing; neither does one of a deleted row.
Revoke ==
    /\ mint.pc = "revoke"
    /\ pats' = [pats EXCEPT ![mint.pat].state = IF @ = "live" THEN "revoked" ELSE @]
    /\ mint' = IdleMint
    /\ UNCHANGED <<dirVars, cookies, call>>

\* Mutant: tokens outlive their department.
PatsKept(d) == pats' = pats

\* department_pats.department_id cascades.
DropPats(d) ==
    pats' = [t \in Pats |-> IF pats[t].dept = d /\ pats[t].state # "none"
                            THEN [pats[t] EXCEPT !.state = "gone"] ELSE pats[t]]

-----------------------------------------------------------------------------
(* POST /internal/crawl (slug None) and /internal/departments/{slug}/crawl *)

\* A call arrives with a token that was minted once; stale records that it is
\* unusable from the start.
Arrive(k, c, b, s) ==
    /\ call[k].pc = "idle"
    /\ b \in Pats => pats[b].state # "none"
    /\ call' = [call EXCEPT ![k] =
                  [IdleCall EXCEPT !.pc = "guard", !.cookie = c, !.bearer = b,
                                   !.slug = s,
                                   !.stale = b # Global /\ ~LivePat(b)]]
    /\ UNCHANGED <<dirVars, cookies, pats, mint>>

Answer(k, status) ==
    /\ call' = [call EXCEPT ![k].pc = "answered", ![k].status = status]
    /\ UNCHANGED <<dirVars, cookies, pats, mint>>

Pass(k, pc) ==
    /\ call' = [call EXCEPT ![k].pc = pc]
    /\ UNCHANGED <<dirVars, cookies, pats, mint>>

\* AuthMiddleware: the paths are not public, so a valid cookie is needed; the
\* account behind it is not looked at.
Guard(k) ==
    /\ call[k].pc = "guard"
    /\ IF call[k].cookie \in cookies THEN Pass(k, "bearer") ELSE Answer(k, 401)

\* require_pat; "nopat": TREND_INTERNAL_PAT is not set, and nothing is compared.
RequirePat(k) ==
    /\ call[k].pc = "bearer"
    /\ call[k].slug = None
    /\ IF "nopat" \in scope THEN Answer(k, 503)
       ELSE CASE call[k].bearer = Global -> Pass(k, "crawl")
              [] call[k].bearer = None -> Answer(k, 401)
              [] OTHER -> Answer(k, 403)

\* Mutant: the lookup does not ask for revoked_at IS NULL.
RequireAnyDeptPat(k) ==
    /\ call[k].pc = "bearer"
    /\ call[k].slug # None
    /\ IF call[k].bearer \in Pats /\ pats[call[k].bearer].state \in {"live", "revoked"}
       THEN /\ call' = [call EXCEPT ![k].pc = "resolve",
                          ![k].token = pats[call[k].bearer].dept]
            /\ UNCHANGED <<dirVars, cookies, pats, mint>>
       ELSE Answer(k, IF call[k].bearer = None THEN 401 ELSE 403)

\* require_dept_pat: the unrevoked row with the bearer's hash.
RequireDeptPat(k) ==
    /\ call[k].pc = "bearer"
    /\ call[k].slug # None
    /\ IF LivePat(call[k].bearer)
       THEN /\ call' = [call EXCEPT ![k].pc = "resolve",
                          ![k].token = pats[call[k].bearer].dept]
            /\ UNCHANGED <<dirVars, cookies, pats, mint>>
       ELSE Answer(k, IF call[k].bearer = None THEN 401 ELSE 403)

\* Mutant: the path's slug alone decides.
ResolveAny(k) ==
    /\ call[k].pc = "resolve"
    /\ LET fresh == {d \in Live : Slug[d] = call[k].slug}
       IN IF fresh = {} THEN Answer(k, 404)
          ELSE \E d \in fresh :
                 /\ call' = [call EXCEPT ![k].pc = "crawl", ![k].crawls = d]
                 /\ UNCHANGED <<dirVars, cookies, pats, mint>>

\* trigger_dept_crawl: the slug has to be the token's, and is looked up again.
Resolve(k) ==
    /\ call[k].pc = "resolve"
    /\ LET fresh == {d \in Live : Slug[d] = call[k].slug}
       IN IF Slug[call[k].token] # call[k].slug THEN Answer(k, 403)
          ELSE IF fresh = {} THEN Answer(k, 404)
          ELSE \E d \in fresh :
                 /\ call' = [call EXCEPT ![k].pc = "crawl", ![k].crawls = d]
                 /\ UNCHANGED <<dirVars, cookies, pats, mint>>

\* The crawl runs within the request: 200, or 500 when it raises.
Crawled(k) ==
    /\ call[k].pc = "crawl"
    /\ \E status \in {200, 500} : Answer(k, status)

\* The process ends.
Hangup ==
    /\ mint' = IdleMint
    /\ call' = [k \in Calls |-> IF call[k].pc = "answered" THEN call[k] ELSE IdleCall]
    /\ UNCHANGED <<cookies, pats>>

AskAccess ==
    \/ \E u \in Users : Login(u)
    \/ \E d \in Depts, t \in Pats : AskMint(d, t) \/ AskRevoke(d, t)
    \/ \E k \in Calls, c \in Users \union {None}, b \in Pats \union {Global, None},
          s \in {Slug[d] : d \in Depts} \union {None} : Arrive(k, c, b, s)

AccStep ==
    \/ "access" \in scope /\ AskAccess
    \/ \E u \in Users : Expire(u)
    \/ Mint
    \/ Revoke
    \/ \E k \in Calls :
         \/ Guard(k)
         \/ RequirePat(k)
         \/ RequireDeptPat(k)
         \/ Resolve(k)
         \/ Crawled(k)

-----------------------------------------------------------------------------
(* Properties                                                              *)

AccTypeOK ==
    /\ cookies \subseteq {u \in Users : account[u] # "none"}
    /\ \A t \in Pats : LivePat(t) => pats[t].dept \in Live
    /\ \A k \in Calls : call[k].crawls \in Depts \union {None}

\* pat_auth.py:100, internal.py:127: a department crawl runs for the department
\* of the token, though token and slug are read by different statements; only
\* a token whose department was deleted meanwhile may run for the successor
\* of the slug.
CrawlRunsAsToken ==
    \A k \in Calls :
        call[k].crawls # None =>
            /\ Slug[call[k].crawls] = Slug[call[k].token]
            /\ call[k].crawls # call[k].token => dept[call[k].token] = "gone"

\* department_pats.py:118: a call that comes after its token was revoked, or
\* its department deleted, starts no crawl, and one that came before ends.
StaleTokenRefused ==
    \A k \in Calls : call[k].crawls # None => ~call[k].stale

\* ARCHITECTURE.md:142: the guard "rejects unauthenticated /api/* except
\* login/logout/healthz/internal": a call with the configured token and no
\* cookie is not answered 401.
SchedulerAdmitted ==
    \A k \in Calls :
        (call[k].bearer = Global /\ call[k].slug = None) => call[k].status # 401

=============================================================================
