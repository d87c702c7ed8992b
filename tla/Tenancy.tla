------------------------------- MODULE Tenancy -------------------------------
(***************************************************************************)
(* The departments, users, tokens, sources and net views together: one     *)
(* process and one database.  A step of one part leaves the others alone,  *)
(* except where foreign keys tie them: deleting a department takes tokens, *)
(* subscriptions and cases with it and is refused while a source is owned, *)
(* and the net view goes with its topic.                                   *)
(***************************************************************************)
EXTENDS Access, Harmonization

tenVars == <<dirVars, accVars, catVars, harmVars>>

Init == DirInit /\ AccInit /\ CatInit /\ HarmInit

\* delete_department, with what the database adds to it.
DropDept(c) ==
    LET d == req[c].dept
    IN /\ req[c].pc = "drop"
       /\ IF MayDrop(d)
          THEN Drop(c) /\ DropPats(d) /\ UNCHANGED <<cookies, mint, call>> /\ DropRows(d)
          ELSE KeepDept(c) /\ UNCHANGED <<accVars, catVars>>
       /\ UNCHANGED harmVars

Crash == Restart /\ Hangup /\ CatHangup /\ HarmHangup

Next ==
    \/ /\ "overlap" \in scope \/ CatIdle
       /\ \E c \in Clients : DirStep(c)
       /\ UNCHANGED <<accVars, catVars, harmVars>>
    \/ \E c \in Clients : DropDept(c)
    \/ AccStep /\ UNCHANGED <<catVars, harmVars>>
    \/ CatStep /\ LoseView /\ UNCHANGED accVars
    \/ HarmStep /\ UNCHANGED <<dirVars, accVars, catVars>>
    \/ Crash

Spec == Init /\ [][Next]_tenVars

=============================================================================
