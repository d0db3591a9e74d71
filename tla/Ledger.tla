------------------------------- MODULE Ledger -------------------------------
(***************************************************************************)
(* What the host promises Airlock about management jobs, without journals, *)
(* crashes, recovery, retries or the network: a job is executed once, and  *)
(* only while it is open, and its completion is of the latest attempt and  *)
(* true.                                                                   *)
(***************************************************************************)
EXTENDS Naturals

CONSTANTS
    Jobs,
    Completion,  \* what Airlock may be told of a job: at least its token and status
    None         \* a job without completion

VARIABLES
    work,        \* [jobs -> what is to be done]; it never changes
    attempt,     \* [Jobs -> how often Airlock has handed out the job]
    applied,     \* [Jobs -> how often the host has executed it]
    completed    \* [Jobs -> the completion Airlock has accepted, or None]

Init ==
    /\ attempt = [j \in Jobs |-> 0]
    /\ applied = [j \in Jobs |-> 0]
    /\ completed = [j \in Jobs |-> None]

\* Airlock hands out an open job under the next token.
Deliver(j) ==
    /\ completed[j] = None
    /\ attempt' = [attempt EXCEPT ![j] = @ + 1]
    /\ UNCHANGED <<work, applied, completed>>

\* The host executes an open job, once.  A removal is idempotent: the host may repeat
\* it, and may still carry out one that was completed as failed.
Execute(j) ==
    /\ attempt[j] > 0
    /\ work[j].kind # "remove" => applied[j] = 0 /\ completed[j] = None
    /\ applied' = [applied EXCEPT ![j] = @ + 1]
    /\ UNCHANGED <<work, attempt, completed>>

\* Airlock is told how the latest attempt of an open job ended; a shell, update or
\* rollback that ended well was executed.
Complete(j, c) ==
    /\ completed[j] = None
    /\ c.token = attempt[j]
    /\ c.status = "success" /\ work[j].kind \in {"shell", "update", "rollback"} =>
          applied[j] = 1
    /\ completed' = [completed EXCEPT ![j] = c]
    /\ UNCHANGED <<work, attempt, applied>>

Next ==
    \E j \in Jobs : Deliver(j) \/ Execute(j) \/ \E c \in Completion : Complete(j, c)

Spec == Init /\ [][Next]_<<work, attempt, applied, completed>>
=============================================================================
