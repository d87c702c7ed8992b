------------------------------ MODULE JobBoard ------------------------------
(***************************************************************************)
(* What a client polling GET /api/assess/jobs/{id} may rely on, without    *)
(* topics, model calls or workers.  A job is posted, begins, is resized    *)
(* once to the work actually found, advances one topic at a time, and is   *)
(* completed only when every topic is accounted for; or it fails.          *)
(***************************************************************************)
EXTENDS Naturals

CONSTANTS
    Jobs,
    MaxLimit    \* largest limit of a request

VARIABLE board      \* the assessment_jobs row of each job

NoRow == [state |-> "none", total |-> 0, completed |-> 0, failed |-> 0]

Init == board = [j \in Jobs |-> NoRow]

Post(j) ==
    /\ board[j].state = "none"
    /\ \E limit \in 1..MaxLimit :
         board' = [board EXCEPT ![j].state = "pending", ![j].total = limit]

Begin(j) ==
    /\ board[j].state = "pending"
    /\ board' = [board EXCEPT ![j].state = "running"]

Resize(j) ==
    /\ board[j].state = "running"
    /\ board[j].completed = 0
    /\ \E total \in 0..board[j].total :
         board' = [board EXCEPT ![j].total = total]

Advance(j) ==
    /\ board[j].state = "running"
    /\ board[j].completed < board[j].total
    /\ \E failure \in {0, 1} :
         board' = [board EXCEPT ![j].completed = @ + 1,
                                ![j].failed = @ + failure]

Complete(j) ==
    /\ board[j].state = "running"
    /\ board[j].completed = board[j].total
    /\ board' = [board EXCEPT ![j].state = "completed"]

Fail(j) ==
    /\ board[j].state \in {"pending", "running"}
    /\ board' = [board EXCEPT ![j].state = "failed"]

Next == \E j \in Jobs :
    Post(j) \/ Begin(j) \/ Resize(j) \/ Advance(j) \/ Complete(j) \/ Fail(j)

Spec == Init /\ [][Next]_board

=============================================================================
