---------------------------- MODULE Harmonization ----------------------------
(***************************************************************************)
(* The net view of the topic: routes/harmonization.py over Catalogue.      *)
(*                                                                         *)
(* PUT looks for the row, then inserts or updates it.  The UPDATE carries  *)
(* updated_at as an ISO string for a timestamptz column: asyncpg refuses   *)
(* the parameter, so the statement fails before it reaches the database.   *)
(***************************************************************************)
EXTENDS Catalogue

CONSTANTS Authors   \* bound: PUT requests; each brings a text of its own

ASSUME AuthorsAssumption == None \notin Authors

VARIABLES
    view,   \* topic_harmonizations: the PUT the row is from, or None
    put     \* the PUT requests: where they are, how they were answered, and
            \* whether they ran alone

harmVars == <<view, put>>

IdlePut == [pc |-> "idle", status |-> 0, alone |-> FALSE]

HarmInit ==
    /\ view = None
    /\ put = [a \in Authors |-> IdlePut]

InFlight == {a \in Authors : put[a].pc \notin {"idle", "answered"}}

\* require_can_harmonize: a superadmin, or a lead of any department.
MayHarmonize ==
    \E u \in Users : CurrentUser(u) /\ (u \in super \/ \E d \in Depts : u \in Leads(d))

PutAnswered(a, status) ==
    put' = [put EXCEPT ![a] = [put[a] EXCEPT !.pc = "answered", !.status = status]]

\* Another request has a part in what this one sees.
Disturb == [a \in Authors |-> IF a \in InFlight THEN [put[a] EXCEPT !.alone = FALSE]
                              ELSE put[a]]

\* The topic is there; the row is looked for.
AskPut(a) ==
    /\ put[a].pc = "idle"
    /\ "overlap" \in scope \/ InFlight = {}
    /\ MayHarmonize
    /\ put' = [Disturb EXCEPT ![a] =
                 [pc |-> IF seen = {} THEN "answered"
                         ELSE IF view = None THEN "insert" ELSE "update",
                  status |-> IF seen = {} THEN 404 ELSE 0,
                  alone |-> InFlight = {}]]
    /\ UNCHANGED view

\* The primary key lets the first of two in, the foreign key none once the
\* topic is gone.
InsertView(a) ==
    /\ put[a].pc = "insert"
    /\ IF view = None /\ seen # {}
       THEN view' = a /\ put' = [put EXCEPT ![a].pc = "reload"]
       ELSE PutAnswered(a, 500) /\ UNCHANGED view

\* Mutant: the text is committed before updated_at is set.
UpdateHalf(a) ==
    /\ put[a].pc = "update"
    /\ view' = IF view = None THEN None ELSE a
    /\ PutAnswered(a, 500)

\* The UPDATE that asyncpg refuses, text and all.
UpdateView(a) ==
    /\ put[a].pc = "update"
    /\ PutAnswered(a, 500)
    /\ UNCHANGED view

\* _load_harmonization: 404 when the topic has been deleted since.
Reload(a) ==
    /\ put[a].pc = "reload"
    /\ PutAnswered(a, IF seen = {} THEN 404 ELSE 200)
    /\ UNCHANGED view

\* DELETE, in one statement, with or without a row.
DeleteView ==
    /\ "overlap" \in scope \/ InFlight = {}
    /\ MayHarmonize
    /\ view' = None
    /\ put' = Disturb

\* Mutant: topic_harmonizations.topic_id has no ON DELETE CASCADE.
KeepView == view' = view /\ put' = Disturb

\* The row goes with its topic.
LoseView ==
    /\ view' = IF seen' = {} THEN None ELSE view
    /\ put' = IF seen' = {} THEN Disturb ELSE put

\* The process ends: its PUTs are never answered (0).
HarmHangup ==
    /\ put' = [a \in Authors |-> IF a \in InFlight THEN [put[a] EXCEPT !.pc = "answered"]
                                 ELSE put[a]]
    /\ UNCHANGED view

HarmStep ==
    \/ "netview" \in scope /\ (DeleteView \/ \E a \in Authors : AskPut(a))
    \/ \E a \in Authors : InsertView(a) \/ UpdateView(a) \/ Reload(a)

-----------------------------------------------------------------------------
(* Properties                                                              *)

\* Types; a net view is of a topic that exists.
HarmTypeOK ==
    /\ view \in Authors \union {None}
    /\ view # None => seen # {}
    /\ \A a \in Authors : put[a].status \in {0, 200, 404, 500}

\* harmonization.py:159-185: a PUT that is answered with an error has left
\* nothing behind, whether another was first, the topic was deleted before or
\* after the commit, or the UPDATE failed.
FailedPutsLeaveNothing == \A a \in Authors : view = a => put[a].status \in {0, 200}

\* harmonization.py:149 "Last-write-wins semantics", and
\* test_harmonization_endpoints.py:252, where a second PUT is answered 200:
\* a PUT that nothing else disturbs does not fail.
LastWriteWins == \A a \in Authors : put[a].alone => put[a].status # 500

=============================================================================
