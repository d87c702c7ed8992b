-------------------------- MODULE MCAssessmentJobs --------------------------
(***************************************************************************)
(* Instances of AssessmentJobs for TLC.                                    *)
(***************************************************************************)
EXTENDS AssessmentJobs, TLC

\* Topics and jobs are interchangeable.  Used by the safety runs only.
Symmetry == Permutations(Topics) \union Permutations(Jobs)

=============================================================================
