---------------------------- MODULE DurableStore ----------------------------
(***************************************************************************)
(* What the dump and restore machinery promises, without dumps, files,     *)
(* locks or processes: a store that serves a set of committed writes and   *)
(* keeps a checkpoint of them outside the container.  A checkpoint never   *)
(* drops a write an earlier one held and never invents one; a container    *)
(* that comes back serves at least the checkpoint, and nothing that had    *)
(* not been written.                                                       *)
(***************************************************************************)
CONSTANT Writes          \* identities of committed database writes

VARIABLES live,          \* the writes the running database contains
          stored,        \* the writes a restart is certain to bring back
          serving        \* is the database up?

storeVars == <<live, stored, serving>>

Init ==
    /\ live = {}
    /\ stored = {}
    /\ serving = FALSE

Accept(w) ==
    /\ serving
    /\ live' = live \union {w}
    /\ UNCHANGED <<stored, serving>>

Checkpoint ==
    /\ serving
    /\ stored' \in SUBSET live
    /\ stored \subseteq stored'
    /\ UNCHANGED <<live, serving>>

\* The container goes away; what is left of its own disk is any part of it.
Stop ==
    /\ serving' = FALSE
    /\ live' \in SUBSET live
    /\ UNCHANGED stored

Recover ==
    /\ ~serving
    /\ serving' = TRUE
    /\ live' \in SUBSET (stored \union live)
    /\ stored \subseteq live'
    /\ UNCHANGED stored

Next ==
    \/ \E w \in Writes : Accept(w)
    \/ Checkpoint
    \/ Stop
    \/ Recover

Spec == Init /\ [][Next]_storeVars

=============================================================================
