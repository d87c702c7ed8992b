------------------------------ MODULE MCContainer ------------------------------
(***************************************************************************)
(* Instances of DumpPersistence and of Migrations for TLC: what the API's  *)
(* container does to the database it holds.  A behaviour is one of three:  *)
(*                                                                         *)
(*   rough    dumps and restores, with the Faults of the configuration     *)
(*   calm     the same without any fault                                   *)
(*   upgrade  boots over a restored database, upgrades and downgrades      *)
(***************************************************************************)
EXTENDS DumpPersistence, Migrations, TLC

CONSTANTS d1, d2, d3, hn, own, verdict, swot, pestle, seed, u1, u2, k1, k2

VARIABLE environment

-----------------------------------------------------------------------------
(* Databases that a container may restore                                  *)

\* The code's: verdict's prompt is v4, the others are at the first.
MCPrompt == verdict :> "v4" @@ swot :> "v1" @@ pestle :> "v1"
MCProvider == "ollama" :> "ollama" @@ "local" :> "openai"

Person(id, name, lower) ==
    [id |-> id, name |-> name, lower |-> lower, active |-> TRUE, super |-> FALSE,
     leads |-> {}, joins |-> {}]

\* A single-tenant database (0010 to 0015): its users, the prompt version of
\* each case, and the source that is switched off.
Old(users, prompt, off) ==
    [Fresh EXCEPT !.version = 10, !.users = users,
        !.sources = {[name |-> s, on |-> s # off, owner |-> Null] : s \in {hn, own}},
        !.ai = {[dept |-> Null, url |-> "local", provider |-> Null]},
        !.cases = {[id |-> c, prompt |-> prompt[c], dept |-> Null, fw |-> Null] :
                     c \in DOMAIN prompt}]

\* One at the head version: d3's creation was cut short, two cases of d1 differ
\* by their framework alone, and the seed account is one that was deactivated as
\* a viewer of d1.
Current ==
    [Fresh EXCEPT !.version = 23, !.users = {
            [Person(u1, u1, TRUE) EXCEPT !.leads = {d1, d3}],
            [Person(seed, seed, TRUE) EXCEPT !.active = FALSE, !.joins = {d1}]},
        !.depts = {d1, d3},
        !.sources = {[name |-> hn, on |-> TRUE, owner |-> d3]},
        !.subs = {[dept |-> d1, name |-> hn, on |-> FALSE]},
        !.ai = {[dept |-> d3, url |-> "local", provider |-> "openai"]},
        !.cases = {[id |-> k1, prompt |-> "v1", dept |-> d1, fw |-> swot],
                   [id |-> k2, prompt |-> "v1", dept |-> d1, fw |-> pestle]},
        !.links = {[dept |-> d1, fw |-> f, default |-> f = swot] : f \in {swot, pestle}},
        !.frameworks = {[key |-> f, prompt |-> "v1"] : f \in DOMAIN MCPrompt}]

\* A new one; names that need normalising; the seed account in another case,
\* re-assessed under a new prompt; two names that collide; two cases that do;
\* and one of this very version.
MCFound == {
    Fresh,
    Old({Person(u1, u1, FALSE)}, k1 :> "v4", hn),
    Old({Person(seed, seed, FALSE)}, k1 :> "v3" @@ k2 :> "v4", None),
    Old({Person(u1, u1, FALSE), Person(u2, u1, TRUE)}, k1 :> "v4", hn),
    Old({Person(u1, u1, TRUE)}, k1 :> "v4" @@ k2 :> "v4", own),
    Current}

-----------------------------------------------------------------------------
(* The two components side by side                                         *)

Calm == INSTANCE DumpPersistence WITH Faults <- {}

MCInit ==
    /\ Init
    /\ environment \in {"rough", "calm", "upgrade"}
    /\ MigInit
    /\ environment # "upgrade" => stored = Fresh

MCNext ==
    /\ \/ environment = "rough" /\ Next /\ UNCHANGED migVars
       \/ environment = "calm" /\ Calm!Next /\ UNCHANGED migVars
       \/ environment = "upgrade" /\ MigNext /\ UNCHANGED vars
    /\ UNCHANGED environment

\* Fairness of FairSpec, in either environment.
MCFairness ==
    /\ \A w \in Writes : WF_vars(Respond(w))
    /\ WF_vars(Tick)
    /\ WF_vars(IF environment = "calm" THEN Calm!Elapse ELSE Elapse)
    /\ \A p \in Scripts : WF_vars(IF environment = "calm" THEN Calm!ScriptStep(p)
                                  ELSE ScriptStep(p))
    /\ WF_vars(ApiExits)
    /\ WF_vars(StopPostgres)
    /\ WF_vars(Exit)

MCSpec == MCInit /\ [][MCNext]_<<vars, migVars, environment>> /\ MCFairness

\* Without faults, and with clients that pause, an answered write reaches the
\* restorable dump unless the container is stopped or dies first.
CalmWritesDumped ==
    \A w \in Writes :
        (environment = "calm" /\ phase = "running" /\ w \in db /\ w \notin inflight)
            ~> (w \in Restorable \/ phase # "running")

=============================================================================
