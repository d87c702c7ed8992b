------------------------------ MODULE Directory ------------------------------
(***************************************************************************)
(* Users, departments, memberships and the frameworks departments enable:  *)
(* routes/departments.py, users.py and frameworks.py over PostgreSQL at    *)
(* READ COMMITTED.                                                         *)
(*                                                                         *)
(* A request is admitted in one step (the SELECTs of its dependencies and  *)
(* of the row it is about), may count leads in a second, and commits in a  *)
(* last one; other requests run between them.  The caller is not kept: no  *)
(* handler looks at it again.                                              *)
(***************************************************************************)
EXTENDS Naturals, FiniteSets

CONSTANTS
    Users, Seed,        \* accounts, and the one AUTH_SEED_USERNAME names
    Depts, Default,     \* department ids, and the department of migration 0016
    Slug,               \* the slug each id is created with
    Frameworks, Verdict,
    None,               \* no department, no row, no answer
    Staff, Founded,     \* accounts and departments there from the start
    Clients,            \* bound: requests in flight
    Given,              \* bound: roles that requests give
    Scopes              \* what a behaviour uses: see scope

ASSUME UsersAssumption == IsFiniteSet(Users) /\ Seed \in Staff /\ Staff \subseteq Users
ASSUME DeptsAssumption == Default \in Depts /\ None \notin Depts \union Users
ASSUME FoundedAssumption ==
    /\ Default \in Founded /\ Founded \subseteq Depts
    /\ \A d, x \in Founded : Slug[d] = Slug[x] => d = x
ASSUME FrameworksAssumption == Verdict \in Frameworks
ASSUME GivenAssumption == Given \subseteq {"viewer", "analyst", "dept_lead"}

VARIABLES
    scope,    \* fixed in a behaviour: the groups of routes in use, "overlap"
              \* (requests overlap), "crash" (the process ends and restarts) and
              \* "nopat" (TREND_INTERNAL_PAT is not set)
    account,  \* users rows: "none", "active" or "inactive" (is_active)
    super,    \* users with is_superadmin
    dept,     \* departments rows: an id is "new", "live" or "gone"
    member,   \* user_departments: the role, or "none"
    links,    \* department_frameworks: rows, and those with is_default
    req       \* the requests in flight

dirVars == <<scope, account, super, dept, member, links, req>>

Live == {d \in Depts : dept[d] = "live"}
Leads(d) == {u \in Users : member[d][u] = "dept_lead"}
NoRows == [on |-> {}, default |-> {}]
AllFrameworks == [on |-> Frameworks, default |-> {Verdict}]
IdleReq == [pc |-> "idle", dept |-> Default, who |-> Seed, role |-> "none",
            seen |-> "none", want |-> NoRows]

DirInit ==
    /\ scope \in Scopes
    /\ account = [u \in Users |-> IF u \in Staff THEN "active" ELSE "none"]
    /\ super = {Seed}
    /\ dept = [d \in Depts |-> IF d \in Founded THEN "live" ELSE "new"]
    /\ member = [d \in Depts |-> [u \in Users |->
                    IF d = Default /\ u = Seed THEN "dept_lead" ELSE "none"]]
    /\ links = [d \in Depts |-> IF d \in Founded THEN AllFrameworks ELSE NoRows]
    /\ req = [c \in Clients |-> IdleReq]

-----------------------------------------------------------------------------
(* Who may                                                                 *)

\* get_current_user: the session names a user that is still active.
CurrentUser(u) == account[u] = "active"

SuperAdmin(u) == CurrentUser(u) /\ u \in super

\* _assert_dept_lead_or_superadmin
MayManage(u, d) == SuperAdmin(u) \/ (CurrentUser(u) /\ u \in Leads(d))

\* get_active_department: superadmins without a membership act as dept_lead;
\* a superadmin's own membership is taken at its role.
ActiveRole(u, d) ==
    IF u \in super /\ member[d][u] = "none" THEN "dept_lead" ELSE member[d][u]

\* require_role and the _require_writer of the source routes
HasRole(u, d, roles) == CurrentUser(u) /\ d \in Live /\ ActiveRole(u, d) \in roles

\* A client may start a request ...
Free(c) ==
    /\ req[c].pc = "idle"
    /\ "overlap" \in scope \/ \A x \in Clients : req[x].pc = "idle"

\* ... and starts it (AskSome).
Ask(c, r) ==
    /\ req' = [req EXCEPT ![c] = r]
    /\ UNCHANGED <<scope, account, super, dept, member, links>>

Done(c) == req' = [req EXCEPT ![c] = IdleReq]

\* Refused, or failed with nothing committed (4xx or 500).
Refused(c) ==
    /\ Done(c)
    /\ UNCHANGED <<scope, account, super, dept, member, links>>

-----------------------------------------------------------------------------
(* Members                                                                 *)

AskAdd(c, d, u, r) ==
    /\ d \in Live
    /\ \E by \in Users : MayManage(by, d)
    /\ account[u] # "none"
    /\ Ask(c, [IdleReq EXCEPT !.pc = "add", !.dept = d, !.who = u,
                                         !.role = r])

\* The primary key refuses a second membership, the foreign key a department
\* that is gone: both answer 409.
Add(c) ==
    LET d == req[c].dept  u == req[c].who
    IN /\ req[c].pc = "add"
       /\ IF d \in Live /\ member[d][u] = "none"
          THEN member' = [member EXCEPT ![d][u] = req[c].role]
          ELSE UNCHANGED member
       /\ Done(c)
       /\ UNCHANGED <<scope, account, super, dept, links>>

\* update_member (role r) and remove_member (role "none"): the membership is
\* read with the caller's.
AskChange(c, d, u, r) ==
    /\ d \in Live
    /\ \E by \in Users : MayManage(by, d)
    /\ member[d][u] # "none"
    /\ Ask(c, [IdleReq EXCEPT
              !.pc = IF member[d][u] = "dept_lead" /\ r # "dept_lead"
                     THEN "count" ELSE "change",
              !.dept = d, !.who = u, !.role = r, !.seen = member[d][u]])

\* Mutant: the check lets the last lead go.
CountOne(c) ==
    /\ req[c].pc = "count"
    /\ IF Cardinality(Leads(req[c].dept)) < 1
       THEN Done(c)
       ELSE req' = [req EXCEPT ![c].pc = "change"]
    /\ UNCHANGED <<scope, account, super, dept, member, links>>

\* _count_dept_leads: 409 for the last one, inactive users included.
Count(c) ==
    /\ req[c].pc = "count"
    /\ IF Cardinality(Leads(req[c].dept)) <= 1
       THEN Done(c)
       ELSE req' = [req EXCEPT ![c].pc = "change"]
    /\ UNCHANGED <<scope, account, super, dept, member, links>>

\* UPDATE and DELETE by key: a row that is gone stays gone (500 or 204), and a
\* role equal to the one read is not in the UPDATE.
Change(c) ==
    LET d == req[c].dept  u == req[c].who
    IN /\ req[c].pc = "change"
       /\ IF member[d][u] # "none" /\ req[c].role # req[c].seen
          THEN member' = [member EXCEPT ![d][u] = req[c].role]
          ELSE UNCHANGED member
       /\ Done(c)
       /\ UNCHANGED <<scope, account, super, dept, links>>

-----------------------------------------------------------------------------
(* Users                                                                   *)

AskCreateUser(c, u, isSuper) ==
    /\ \E by \in Users : SuperAdmin(by)
    /\ Ask(c, [IdleReq EXCEPT !.pc = "user", !.who = u,
                          !.role = IF isSuper THEN "dept_lead" ELSE "none"])

\* The unique username: 409 when the account exists, inactive or not.
CreateUser(c) ==
    /\ req[c].pc = "user"
    /\ IF account[req[c].who] = "none"
       THEN /\ account' = [account EXCEPT ![req[c].who] = "active"]
            /\ super' = IF req[c].role = "dept_lead" THEN super \union {req[c].who}
                        ELSE super
       ELSE UNCHANGED <<account, super>>
    /\ Done(c)
    /\ UNCHANGED <<scope, dept, member, links>>

\* Mutant: the caller may name itself.
AskDeactivateAny(c, u) ==
    /\ \E by \in Users : SuperAdmin(by)
    /\ account[u] # "none"
    /\ Ask(c, [IdleReq EXCEPT !.pc = "deactivate", !.who = u])

\* Superadmins deactivate anyone but themselves.
AskDeactivate(c, u) ==
    /\ \E by \in Users \ {u} : SuperAdmin(by)
    /\ account[u] # "none"
    /\ Ask(c, [IdleReq EXCEPT !.pc = "deactivate", !.who = u])

Deactivate(c) ==
    /\ req[c].pc = "deactivate"
    /\ account' = [account EXCEPT ![req[c].who] = "inactive"]
    /\ Done(c)
    /\ UNCHANGED <<scope, super, dept, member, links>>

-----------------------------------------------------------------------------
(* Departments                                                             *)

AskCreateDept(c, d) ==
    /\ \E by \in Users : SuperAdmin(by)
    /\ dept[d] = "new"
    /\ Ask(c, [IdleReq EXCEPT !.pc = "create", !.dept = d])

\* The first commit of create_department: the row alone.
CreateDept(c) ==
    LET d == req[c].dept
    IN /\ req[c].pc = "create"
       /\ IF dept[d] = "new" /\ ~\E x \in Live : Slug[x] = Slug[d]
          THEN /\ dept' = [dept EXCEPT ![d] = "live"]
               /\ req' = [req EXCEPT ![c].pc = "enable"]
          ELSE /\ Done(c)
               /\ UNCHANGED dept
       /\ UNCHANGED <<scope, account, super, member, links>>

\* New rows of a department make the inserts of a request that deleted the old
\* ones fail on the index of one default per department.
Doom(d, c) ==
    req' = [x \in Clients |->
              IF x = c THEN IdleReq
              ELSE IF req[x].pc = "replace" /\ req[x].dept = d
                   THEN [req[x] EXCEPT !.pc = "doomed"]
                   ELSE req[x]]

\* The second commit: every seeded framework, verdict the default.  500 when
\* the department is gone or has rows by now.
Enable(c) ==
    LET d == req[c].dept
    IN /\ req[c].pc = "enable"
       /\ IF d \in Live /\ links[d].on = {}
          THEN links' = [links EXCEPT ![d] = AllFrameworks] /\ Doom(d, c)
          ELSE Done(c) /\ UNCHANGED links
       /\ UNCHANGED <<scope, account, super, dept, member>>

AskDrop(c, d) ==
    /\ \E by \in Users : SuperAdmin(by)
    /\ d \in Live
    /\ Slug[d] # Slug[Default]
    /\ Ask(c, [IdleReq EXCEPT !.pc = "drop", !.dept = d])

\* Mutant: memberships and frameworks have no ON DELETE CASCADE.
DropAlone(c) ==
    /\ req[c].pc = "drop"
    /\ dept' = [dept EXCEPT ![req[c].dept] = "gone"]
    /\ Done(c)
    /\ UNCHANGED <<scope, account, super, member, links>>

\* delete_department, when no source refuses it: the cascades are the
\* database's.
Drop(c) ==
    /\ req[c].pc = "drop"
    /\ dept' = [dept EXCEPT ![req[c].dept] = "gone"]
    /\ member' = [member EXCEPT ![req[c].dept] = [u \in Users |-> "none"]]
    /\ links' = [links EXCEPT ![req[c].dept] = NoRows]
    /\ Done(c)
    /\ UNCHANGED <<scope, account, super>>

\* DELETE refused by a foreign key outside this module (see Tenancy).
KeepDept(c) == req[c].pc = "drop" /\ Refused(c)

-----------------------------------------------------------------------------
(* Frameworks                                                              *)

\* The bodies DepartmentFrameworksUpdate accepts.
Choices == {[on |-> on, default |-> {f}] :
              on \in SUBSET Frameworks, f \in Frameworks}

\* Mutant: the DELETE is committed before the INSERTs.
AskReplaceInTwo(c, d, want) ==
    /\ \E by \in Users : HasRole(by, d, {"dept_lead"})
    /\ want.default \subseteq want.on
    /\ req' = [req EXCEPT ![c].pc = "replace", ![c].dept = d, ![c].want = want]
    /\ links' = [links EXCEPT ![d] = NoRows]
    /\ UNCHANGED <<scope, account, super, dept, member>>

\* PUT /frameworks/mine, up to its DELETE: rows committed from here on are not
\* in what it deletes.
AskReplace(c, d, want) ==
    /\ \E by \in Users : HasRole(by, d, {"dept_lead"})
    /\ want.default \subseteq want.on
    /\ Ask(c, [IdleReq EXCEPT !.pc = "replace", !.dept = d,
                                            !.want = want])

\* Its INSERTs and the commit of both.
Replace(c) ==
    LET d == req[c].dept
    IN /\ req[c].pc = "replace"
       /\ IF d \in Live
          THEN links' = [links EXCEPT ![d] = req[c].want] /\ Doom(d, c)
          ELSE Done(c) /\ UNCHANGED links
       /\ UNCHANGED <<scope, account, super, dept, member>>

Doomed(c) == req[c].pc = "doomed" /\ Refused(c)

-----------------------------------------------------------------------------
(* The process ends; its successor runs ensure_seed_user and seeds the     *)
(* frameworks, which are there since migration 0019.                       *)

\* ensure_seed_user: creates the account, or promotes it again; an inactive
\* one stays inactive.
EnsureSeedUser ==
    /\ account' = IF account[Seed] = "none"
                  THEN [account EXCEPT ![Seed] = "active"] ELSE account
    /\ super' = super \union {Seed}
    /\ member' = IF Default \in Live /\ member[Default][Seed] = "none"
                 THEN [member EXCEPT ![Default][Seed] = "dept_lead"] ELSE member

Restart ==
    /\ "crash" \in scope
    /\ req' = [c \in Clients |-> IdleReq]
    /\ EnsureSeedUser
    /\ UNCHANGED <<scope, dept, links>>

\* A request of a group of routes in use.
AskSome(c) ==
    /\ Free(c)
    /\ \/ /\ "members" \in scope
          /\ \E d \in Depts, u \in Users, r \in Given \union {"none"} :
               AskChange(c, d, u, r) \/ (r # "none" /\ AskAdd(c, d, u, r))
       \/ /\ "users" \in scope
          /\ \E u \in Users :
               AskDeactivate(c, u) \/ \E s \in BOOLEAN : AskCreateUser(c, u, s)
       \/ /\ "departments" \in scope
          /\ \E d \in Depts : AskCreateDept(c, d) \/ AskDrop(c, d)
       \/ /\ "frameworks" \in scope
          /\ \E d \in Depts, want \in Choices : AskReplace(c, d, want)

DirStep(c) ==
    \/ AskSome(c)
    \/ Add(c)
    \/ Count(c)
    \/ Change(c)
    \/ CreateUser(c)
    \/ Deactivate(c)
    \/ CreateDept(c)
    \/ Enable(c)
    \/ Replace(c)
    \/ Doomed(c)

DirNext == Restart \/ \E c \in Clients : DirStep(c) \/ Drop(c) \/ KeepDept(c)

DirSpec == DirInit /\ [][DirNext]_dirVars

-----------------------------------------------------------------------------
(* Properties                                                              *)

\* Types, with what the foreign keys keep: rows of live departments and of
\* users that exist.
DirTypeOK ==
    /\ account \in [Users -> {"none", "active", "inactive"}]
    /\ super \subseteq {u \in Users : account[u] # "none"}
    /\ dept \in [Depts -> {"new", "live", "gone"}]
    /\ member \in [Depts -> [Users -> {"none", "viewer", "analyst", "dept_lead"}]]
    /\ \A d \in Depts, u \in Users :
         member[d][u] # "none" => d \in Live /\ account[u] # "none"
    /\ \A d \in Depts : links[d] # NoRows => d \in Live

\* models.py:319: a department that has frameworks has exactly one default, one
\* of them, whatever requests replace the set at the same time; and a
\* department without any is one whose creation is not over, or was cut short.
OneDefault ==
    \A d \in Live :
        IF links[d].on = {}
        THEN \/ "crash" \in scope /\ d \notin Founded
             \/ \E c \in Clients : req[c].pc = "enable" /\ req[c].dept = d
        ELSE \E f \in links[d].on : links[d].default = {f}

\* departments.py:370: with requests one at a time, a department that has a
\* lead keeps one until it is deleted.
LeadKept ==
    [][\A d \in Live :
         (Leads(d) # {} /\ "overlap" \notin scope /\ dept'[d] = "live")
            => Leads(d)' # {}]_dirVars

\* users.py:148: with requests one at a time, some superadmin is always active
\* (only superadmins make, deactivate or create superadmins).
AdminRemains ==
    "overlap" \notin scope => \E u \in Users : SuperAdmin(u)

=============================================================================
