------------------------------ MODULE Migrations ------------------------------
(***************************************************************************)
(* The schema's life: `alembic upgrade head` in docker-entrypoint.sh over  *)
(* whatever database was restored, the seeding at startup, the API at the  *)
(* head version, and an operator's downgrades.                             *)
(*                                                                         *)
(* A database is a record.  What a version has no column for is Null,      *)
(* FALSE or empty (TRUE for the enabled flag of a source).  One topic and  *)
(* one model stand for any, so the business cases that may collide are     *)
(* those with the same prompt version.  0001 to 0006, 0008, 0009 and 0011  *)
(* to 0015 make empty tables or add columns that are left out.             *)
(***************************************************************************)
EXTENDS Naturals, FiniteSets, FiniteSetsExt

CONSTANTS
    Found,        \* databases that may be restored
    Depts, Default,
    It,           \* the department with the slug "it"
    Builtin,      \* the sources 0007 inserts
    Frameworks, Verdict,
    Prompt,       \* the prompt version of each framework in the code
    Seeded,       \* the one that 0019 inserts for all of them
    Provider,     \* what 0023 makes of a base_url
    SeedName,     \* AUTH_SEED_USERNAME, normalised
    NewDepts,     \* bound: departments ever created
    Cases,        \* bound: business cases ever made
    Null          \* no value, or no column for one

ASSUME DeptsAssumption == Default \in Depts /\ NewDepts \subseteq Depts /\ Null \notin Depts
ASSUME FrameworksAssumption == Verdict \in Frameworks /\ Null \notin Frameworks
ASSUME ProviderAssumption ==
    /\ "ollama" \in DOMAIN Provider
    /\ \A url \in DOMAIN Provider : Provider[url] # Null

VARIABLES
    stored,   \* the committed database
    stage,    \* of the container
    work,     \* what the upgrade's transaction has made of it (Fresh: none runs)
    refused   \* the migration that raised in the last one, and the version it
              \* was from

migVars == <<stored, stage, work, refused>>

Head == 23
Revisions == {0, 7, 10} \union 16..Head

Fresh == [version |-> 0, users |-> {}, depts |-> {}, sources |-> {}, subs |-> {},
          ai |-> {}, cases |-> {}, links |-> {}, frameworks |-> {},
          tokens |-> {}, viewed |-> FALSE]

-----------------------------------------------------------------------------
(* Databases                                                               *)

Fields == {"version", "users", "depts", "sources", "subs", "ai", "cases", "links",
           "frameworks", "tokens", "viewed"}

\* A user leads some departments and is a viewer or analyst of others.
UsersOK(S) ==
    \A u \in S : DOMAIN u = {"id", "name", "lower", "active", "super", "leads", "joins"}
SourcesOK(S) ==
    /\ \A s \in S : DOMAIN s = {"name", "on", "owner"} /\ s.on \in BOOLEAN
    /\ \A s, x \in S : s.name = x.name => s = x
AiOK(S) == \A a \in S : DOMAIN a = {"dept", "url", "provider"}
CasesOK(S) == \A c \in S : DOMAIN c = {"id", "prompt", "dept", "fw"}

\* Columns, the primary key of the sources, and no tokens before their table.
IsDb(db) ==
    /\ DOMAIN db = Fields
    /\ db.version \in 0..Head
    /\ UsersOK(db.users) /\ SourcesOK(db.sources) /\ AiOK(db.ai) /\ CasesOK(db.cases)
    /\ db.version < 18 => db.tokens = {}

Unique(rows, Key(_)) == \A x, y \in rows : Key(x) = Key(y) => x = y

\* What a version has no table or column for.
Absent(db) ==
    LET v == db.version
    IN /\ v < 16 => db.depts = {}
       /\ v < 17 => /\ db.subs = {}
                    /\ \A c \in db.cases : c.dept = Null
                    /\ \A a \in db.ai : a.dept = Null
       /\ v < 19 => db.links = {} /\ \A c \in db.cases : c.fw = Null
       /\ v < 22 => \A s \in db.sources : s.owner = Null
       /\ v < 23 => \A a \in db.ai : a.provider = Null

\* Foreign keys and NOT NULL; Default cannot be deleted.
Referenced(db) ==
    LET v == db.version
    IN /\ db.depts \subseteq Depts
       /\ v >= 16 => Default \in db.depts
       /\ \A u \in db.users : u.leads \subseteq db.depts /\ u.joins \subseteq db.depts
       /\ v >= 17 => /\ \A c \in db.cases : c.dept \in db.depts
                     /\ \A a \in db.ai : a.dept \in db.depts
       /\ v >= 19 => \A c \in db.cases : c.fw \in Frameworks
       /\ v >= 22 => \A s \in db.sources : s.owner \in db.depts
       /\ v >= 23 => \A a \in db.ai : a.provider # Null
       /\ \A a \in db.ai : a.url \in DOMAIN Provider
       /\ \A r \in db.subs : r.dept \in db.depts
       /\ \A r \in db.links : r.dept \in db.depts
       /\ db.tokens \subseteq db.depts

\* Unique constraints.
Keyed(db) ==
    /\ Unique(db.users, LAMBDA u : <<u.name, u.lower, IF u.lower THEN Null ELSE u.id>>)
    /\ db.version >= 19 => Unique(db.cases, LAMBDA c : <<c.dept, c.fw, c.prompt>>)
    /\ Unique(db.ai, LAMBDA a : a.dept)

LinksOf(db, d) == {r \in db.links : r.dept = d}

\* A department whose creation was cut short has no frameworks (OneDefault in
\* Directory), and only a restored database has one.
CutShort(d) == \E db \in Found : db.version >= 19 /\ d \in db.depts /\ LinksOf(db, d) = {}

\* What the API keeps that no table enforces.
Kept21(db) == db.version >= 21 => \A u \in db.users : u.lower
Kept19(db) ==
    db.version >= 19 =>
        \A d \in db.depts :
            IF LinksOf(db, d) = {} THEN CutShort(d)
            ELSE Cardinality({r \in LinksOf(db, d) : r.default}) = 1

\* A database fits its version.
Schema(db) ==
    /\ db.version \in Revisions
    /\ Absent(db)
    /\ Referenced(db)
    /\ Keyed(db)
    /\ Kept19(db)
    /\ Kept21(db)

\* Whatever is restored is a database that some version of the system left.
ASSUME FoundAssumption == \A db \in Found : IsDb(db) /\ Schema(db)

-----------------------------------------------------------------------------
(* The migrations                                                          *)

Up7(db) == [db EXCEPT !.sources =
              {[name |-> s, on |-> TRUE, owner |-> Null] : s \in Builtin}]

Up10(db) == [db EXCEPT !.ai = {[dept |-> Null, url |-> "ollama", provider |-> Null]}]

\* Everyone becomes a superadmin and a lead of Default.
Up16(db) == [db EXCEPT !.depts = {Default},
                       !.users = {[u EXCEPT !.super = TRUE, !.leads = {Default},
                                            !.joins = {}] : u \in @}]

Down16(db) == [db EXCEPT !.depts = {},
                         !.users = {[u EXCEPT !.super = FALSE, !.leads = {},
                                              !.joins = {}] : u \in @}]

\* Mutant: no pre-check.
Refuses17Never(db) == FALSE

\* The pre-check: two cases of a topic by the same prompt and model.
Refuses17(db) == \E x, y \in db.cases : x # y /\ x.prompt = y.prompt

\* Mutant: the new ai_config starts empty.
Up17Empty(db) == [db EXCEPT
    !.subs = {[dept |-> Default, name |-> s.name, on |-> s.on] : s \in db.sources},
    !.sources = {[s EXCEPT !.on = TRUE] : s \in @},
    !.ai = {},
    !.cases = {[c EXCEPT !.dept = Default] : c \in @}]

\* Everything there is becomes Default's.
Up17(db) == [db EXCEPT
    !.subs = {[dept |-> Default, name |-> s.name, on |-> s.on] : s \in db.sources},
    !.sources = {[s EXCEPT !.on = TRUE] : s \in @},
    !.ai = {[a EXCEPT !.dept = Default] : a \in @},
    !.cases = {[c EXCEPT !.dept = Default] : c \in @}]

\* Of the configurations Default's is kept, or any other; the flag of a source
\* is that of Default's subscription, or TRUE.
Down17(db) ==
    LET mine == {a \in db.ai : a.dept = Default}
        kept == IF mine # {} THEN mine
                ELSE IF db.ai = {} THEN {} ELSE {CHOOSE a \in db.ai : TRUE}
        flag(s) == \A r \in db.subs : r.dept = Default /\ r.name = s.name => r.on
    IN [db EXCEPT !.subs = {},
                  !.sources = {[s EXCEPT !.on = flag(s)] : s \in @},
                  !.ai = {[a EXCEPT !.dept = Null] : a \in kept},
                  !.cases = {[c EXCEPT !.dept = Null] : c \in @}]

Up18(db) == [db EXCEPT !.tokens = {}]

Down18(db) == [db EXCEPT !.tokens = {}]

\* Mutant: no check before the unique constraint, and no constraint.
Refuses19Never(db) == FALSE

\* Every case is taken for a verdict: two of a department collide that were by
\* different frameworks.
Refuses19(db) ==
    \E x, y \in db.cases : x # y /\ x.prompt = y.prompt /\ x.dept = y.dept

SeedRows == {[key |-> f, prompt |-> Seeded] : f \in Frameworks}

\* Every framework for a department, the verdict as its default.
AllEnabled(d) == {[dept |-> d, fw |-> f, default |-> f = Verdict] : f \in Frameworks}

Up19(db) == [db EXCEPT
    !.frameworks = SeedRows,
    !.links = UNION {AllEnabled(d) : d \in db.depts},
    !.cases = {[c EXCEPT !.fw = Verdict] : c \in @}]

Down19(db) == [db EXCEPT !.frameworks = {}, !.links = {},
                         !.cases = {[c EXCEPT !.fw = Null] : c \in @}]

Up20(db) == [db EXCEPT !.viewed = FALSE]

Down20(db) == [db EXCEPT !.viewed = FALSE]

\* The pre-check finds names that differ in case, the unique index those that
\* differ in blanks around them.  The downgrade is a no-op.
Refuses21(db) == \E x, y \in db.users : x # y /\ x.name = y.name

Up21(db) == [db EXCEPT !.users = {[u EXCEPT !.lower = TRUE] : u \in @}]

\* The IT department owns every source, or else Default, which cannot be
\* deleted: the other fallbacks are never reached.
Up22(db) == [db EXCEPT !.sources =
    {[s EXCEPT !.owner = IF It \in db.depts THEN It ELSE Default] : s \in @}]

Down22(db) == [db EXCEPT !.sources = {[s EXCEPT !.owner = Null] : s \in @}]

Up23(db) == [db EXCEPT !.ai = {[a EXCEPT !.provider = Provider[a.url]] : a \in @}]

Down23(db) == [db EXCEPT !.ai = {[a EXCEPT !.provider = Null] : a \in @}]

After(v) == Min({r \in Revisions : r > v})
Before(v) == Max({r \in Revisions : r < v})

\* The script of revision v.
Up(v, db) ==
    CASE v = 7 -> Up7(db)
      [] v = 10 -> Up10(db)
      [] v = 16 -> Up16(db)
      [] v = 17 -> Up17(db)
      [] v = 18 -> Up18(db)
      [] v = 19 -> Up19(db)
      [] v = 20 -> Up20(db)
      [] v = 21 -> Up21(db)
      [] v = 22 -> Up22(db)
      [] v = 23 -> Up23(db)

Refuses(v, db) ==
    \/ v = 17 /\ Refuses17(db)
    \/ v = 19 /\ Refuses19(db)
    \/ v = 21 /\ Refuses21(db)

Down(v, db) ==
    CASE v = 16 -> Down16(db)
      [] v = 17 -> Down17(db)
      [] v = 18 -> Down18(db)
      [] v = 19 -> Down19(db)
      [] v = 20 -> Down20(db)
      [] v = 21 -> db
      [] v = 22 -> Down22(db)
      [] v = 23 -> Down23(db)

-----------------------------------------------------------------------------
(* A boot                                                                  *)

NoneRefused == [by |-> 0, from |-> 0]

MigInit ==
    /\ stored \in Found
    /\ stage = "down"
    /\ work = Fresh
    /\ refused = NoneRefused

\* alembic opens one transaction for all the revisions it has to run.
Begin ==
    /\ stage = "down"
    /\ stage' = "upgrade"
    /\ work' = stored
    /\ refused' = NoneRefused
    /\ UNCHANGED stored

Migrate ==
    /\ stage = "upgrade"
    /\ work.version < Head
    /\ ~Refuses(After(work.version), work)
    /\ work' = [Up(After(work.version), work) EXCEPT !.version = After(work.version)]
    /\ UNCHANGED <<stored, stage, refused>>

\* The transaction is over, and the container in its next stage.
Over(next) == stage' = next /\ work' = Fresh

\* A migration raises: rolled back, and set -e ends the entrypoint.
Raise ==
    /\ stage = "upgrade"
    /\ work.version < Head
    /\ Refuses(After(work.version), work)
    /\ refused' = [by |-> After(work.version), from |-> stored.version]
    /\ Over("down")
    /\ UNCHANGED stored

CommitUpgrade ==
    /\ stage = "upgrade"
    /\ work.version = Head
    /\ stored' = work
    /\ Over("seed_user")
    /\ UNCHANGED refused

\* Mutant: an account that is there is taken as it is.
SeedUserOnce ==
    LET known == {u \in stored.users : u.name = SeedName /\ u.lower}
    IN /\ stage = "seed_user"
       /\ stored' = [stored EXCEPT !.users =
                       IF known # {} THEN @
                       ELSE @ \union {[id |-> SeedName, name |-> SeedName, lower |-> TRUE,
                                       active |-> TRUE, super |-> TRUE,
                                       leads |-> {Default}, joins |-> {}]}]
       /\ stage' = "seed_frameworks"
       /\ UNCHANGED <<work, refused>>

\* ensure_seed_user finds its account by the normalised name.  One that is there
\* is promoted and, unless it has a role in Default, made a lead of it: its role
\* there and is_active stay.
SeedUser ==
    LET known == {u \in stored.users : u.name = SeedName /\ u.lower}
        added(u) == (stored.depts \intersect {Default}) \ u.joins
        admin == [id |-> SeedName, name |-> SeedName, lower |-> TRUE, active |-> TRUE,
                  super |-> TRUE, leads |-> stored.depts \intersect {Default}, joins |-> {}]
    IN /\ stage = "seed_user"
       /\ stored' = [stored EXCEPT !.users =
                       IF known = {} THEN @ \union {admin}
                       ELSE (@ \ known) \union
                              {[u EXCEPT !.super = TRUE, !.leads = @ \union added(u)] :
                                 u \in known}]
       /\ stage' = "seed_frameworks"
       /\ UNCHANGED <<work, refused>>

\* seed_frameworks: insert what is missing, update what differs.
SeedFrameworks ==
    /\ stage = "seed_frameworks"
    /\ stored' = [stored EXCEPT !.frameworks =
                    {[key |-> f, prompt |-> Prompt[f]] : f \in Frameworks}]
    /\ stage' = "serving"
    /\ UNCHANGED <<work, refused>>

\* The container ends, at any point.
End ==
    /\ stage # "down"
    /\ Over("down")
    /\ UNCHANGED <<stored, refused>>

-----------------------------------------------------------------------------
(* The API at the head version, and the operator                           *)

Serve(db) ==
    /\ stage = "serving"
    /\ stored' = db
    /\ UNCHANGED <<stage, work, refused>>

\* A case under the unique key; the model of the requests is one.
Assess(c, d, f) ==
    /\ d \in stored.depts
    /\ \A x \in stored.cases : x.id # c /\ <<x.dept, x.fw, x.prompt>> # <<d, f, Prompt[f]>>
    /\ Serve([stored EXCEPT !.cases = @ \union
               {[id |-> c, prompt |-> Prompt[f], dept |-> d, fw |-> f]}])

\* create_department, both commits (Directory has what happens between them).
AddDept(d) ==
    /\ d \notin stored.depts
    /\ Serve([stored EXCEPT !.depts = @ \union {d}, !.links = @ \union AllEnabled(d)])

\* update_ai_config
PutAi(d, url) ==
    /\ d \in stored.depts
    /\ Serve([stored EXCEPT !.ai = {a \in @ : a.dept # d} \union
               {[dept |-> d, url |-> url, provider |-> Provider[url]]}])

\* create_department_pat
MintToken(d) ==
    d \in stored.depts /\ Serve([stored EXCEPT !.tokens = @ \union {d}])

\* put_harmonization
WriteView == Serve([stored EXCEPT !.viewed = TRUE])

\* README.md:257: `alembic downgrade -1`, not below 0015 (bound).
Downgrade ==
    /\ stage = "down"
    /\ stored.version >= 16
    /\ stored' = [Down(stored.version, stored) EXCEPT !.version = Before(stored.version)]
    /\ UNCHANGED <<stage, work, refused>>

MigNext ==
    \/ Begin
    \/ Migrate
    \/ Raise
    \/ CommitUpgrade
    \/ SeedUser
    \/ SeedFrameworks
    \/ End
    \/ \E d \in Depts :
         \/ \E c \in Cases, f \in Frameworks : Assess(c, d, f)
         \/ \E url \in DOMAIN Provider : PutAi(d, url)
         \/ MintToken(d)
    \/ \E d \in NewDepts : AddDept(d)
    \/ WriteView
    \/ Downgrade

MigSpec == MigInit /\ [][MigNext]_migVars

-----------------------------------------------------------------------------
(* Properties                                                              *)

\* The database fits its version, and so does what an upgrade under way has
\* made of it: no migration trips over a row an earlier one or a downgrade left.
MigTypeOK == Schema(stored) /\ Schema(work)

\* 0019:391: "0017 step 1 already proved" that no two cases collide: an upgrade
\* that runs both is stopped by the first or by none.
CheckedAhead == refused.by = 19 => refused.from >= 17

\* The seed account was deactivated in a restored database: no boot reactivates it.
Barred == \E db \in Found : \E u \in db.users : u.name = SeedName /\ ~u.active

\* main.py:51: once the API serves, each department has exactly one default
\* framework (but for one that the restored database has without any), each
\* framework the prompt version of the code, every name is normal, and the seed
\* account can log in (unless it is Barred), is superadmin and has a role in
\* Default; whatever version was restored, wherever earlier boots ended.
ServesReady ==
    stage = "serving" =>
        /\ stored.version = Head
        /\ \A d \in stored.depts :
             \/ Cardinality({r \in LinksOf(stored, d) : r.default}) = 1
             \/ LinksOf(stored, d) = {} /\ CutShort(d)
        /\ stored.frameworks = {[key |-> f, prompt |-> Prompt[f]] : f \in Frameworks}
        /\ \A u \in stored.users : u.lower
        /\ \E u \in stored.users :
             /\ u.name = SeedName /\ u.super /\ Default \in u.leads \union u.joins
             /\ u.active \/ Barred

\* What the commit of an upgrade leaves as it was.
Kept ==
    (stage = "upgrade" /\ stage' = "seed_user") =>
        /\ {<<u.id, u.name, u.active>> : u \in stored'.users} =
             {<<u.id, u.name, u.active>> : u \in stored.users}
        /\ {<<c.id, c.prompt>> : c \in stored'.cases} = {<<c.id, c.prompt>> : c \in stored.cases}
        /\ stored.version >= 7 =>
             {s.name : s \in stored'.sources} = {s.name : s \in stored.sources}
        /\ stored.version >= 10 =>
             {a.url : a \in stored'.ai} = {a.url : a \in stored.ai}
        /\ IF stored.version >= 17
           THEN /\ {<<c.id, c.dept>> : c \in stored'.cases} = {<<c.id, c.dept>> : c \in stored.cases}
                /\ stored'.subs = stored.subs
                /\ stored'.tokens = stored.tokens
           ELSE stored.version >= 7 => \A s \in stored.sources :
                  s.on <=> [dept |-> Default, name |-> s.name, on |-> TRUE] \in stored'.subs
        /\ stored.version >= 19 => stored'.cases = stored.cases /\ stored'.links = stored.links

\* MT-008 in 0017:8, "single-tenant data migrates cleanly": an upgrade that is
\* committed has every user, case, source and subscription that it found, and
\* every model configuration; who may not log in still may not; Default
\* subscribes to what was enabled; and rows that named their department still
\* name it.
UpgradeKeeps == [][Kept]_migVars

=============================================================================
