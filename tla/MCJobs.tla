------------------------------- MODULE MCJobs -------------------------------
EXTENDS Jobs, TLC

CONSTANTS e1, e2

\* A small event and one as large as messages get; of the completions only the one a
\* connector reports is as large.
SomeBytes ==
    (e1 :> 1) @@ (e2 :> 3) @@ ("reported" :> 3) @@ ("exited" :> 1) @@ ("refused" :> 1)

\* An attempt is handed out once, so the number of its events is used only while it is
\* active.
SequenceInUse ==
    [a \in Attempts |-> IF \E p \in Procs : a \in active[p] THEN sequence[a] ELSE 0]

\* The server accepts an event whatever it has; that it has one is used only while the
\* event is queued.
AppliedInUse == Terminals(applied) \cup (applied \cap outbox)

\* What later steps and the properties of the queue depend on.  Every guard asks only
\* whether there is a failure.
InUse ==
    <<childVars, active, received, SequenceInUse, handling, closing, unfinished, work,
      reading, outbox, flush, failure = None, sent, AppliedInUse, closed>>

\* Attempts are interchangeable.
AnyAttempt == Permutations(Attempts)
=============================================================================
