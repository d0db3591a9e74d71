-------------------------------- MODULE Jobs --------------------------------
(***************************************************************************)
(* Connector jobs, from the work demand that brings one to the outcome the *)
(* server acknowledges: the demand loop and handleWork (host.go), Dispatch,*)
(* the reader and the watcher of every child process (supervisor.go), the  *)
(* lease reports (activeAttempts) and the delivery of the outbox           *)
(* (outbox.go).                                                            *)
(*                                                                         *)
(* Each goroutine takes its steps separately wherever it releases a lock.  *)
(* A child process is one that became ready: launch returns no other.  A   *)
(* session that drops is a flush that fails and a demand without an answer.*)
(* Children conform to the protocol: they number their events and complete *)
(* only attempts they received.                                            *)
(***************************************************************************)
EXTENDS Outbox

CONSTANTS
    Ids,        \* installed connectors
    Procs,      \* child processes
    MaxActive   \* protocol.MaxActiveAttempts

VARIABLES
    children,    \* Supervisor.children
    phase,       \* a process: unborn, ready, exited, drained, settling, settled, offline
    stopping,    \* processes stopChild was called on
    active,      \* childProcess.active
    received,    \* active attempts that were written to a process
    sequence,    \* events the connector sent for an attempt
    handling,    \* the message a reader looked up the job of, or None
    closing,     \* the attempt whose completion is queued and not yet removed
    unfinished,  \* settleChild's copy of active, not yet completed
    work,        \* the demand loop
    reading,     \* activeAttempts between Statuses and the outbox (outboxMu)
    outbox,
    flush,       \* flushConnectorOutcomes: what it has left, is sending, was told
    failure,     \* the error that stops the host, or None
    sent,        \* external: attempts the server handed out
    applied,     \* external: entries the server applied
    closed       \* history: attempts rejected, or not in the outbox at a restart

childVars  == <<children, phase, stopping>>
jobVars    == <<active, received, sequence, handling, closing, unfinished>>
serverVars == <<sent, applied>>
vars == <<children, phase, stopping, active, received, sequence, handling, closing,
          unfinished, work, reading, outbox, flush, failure,
          sent, applied, closed>>

Work ==
    [step : {"idle", "demanding"}, attempt : {None}, child : {None}]
    \cup [step : {"arrived", "refused"}, attempt : Attempts, child : {None}]
    \cup [step : {"found", "added", "written"}, attempt : Attempts, child : Procs]

Idle == [step |-> "idle", attempt |-> None, child |-> None]

Flush ==
    [sending : {None}, reply : {"none"}]
    \cup [sending : Entry, reply : {"none", "ack", "rejected"}]

Failure == {"conflict", "event refused", "completion refused", "persistence"}

ASSUME JobsAssumption == None \notin Procs /\ None \notin Failure

NoFlush == [sending |-> None, reply |-> "none"]

\* Every goroutine holds what its step implies: a job in dispatch has an attempt,
\* and a child once one was found; only an entry being sent has an answer.
TypeOK ==
    /\ children \in [Ids -> Procs \cup {None}]
    /\ phase \in [Procs -> {"unborn", "ready", "exited", "drained", "settling",
                            "settled", "offline"}]
    /\ stopping \in SUBSET Procs
    /\ active \in [Procs -> SUBSET Attempts]
    /\ received \in [Procs -> SUBSET Attempts]
    /\ sequence \in [Attempts -> 0..MaxSequence]
    /\ handling \in [Procs -> Entry \cup {None}]
    /\ closing \in [Procs -> Attempts \cup {None}]
    /\ unfinished \in [Procs -> SUBSET Attempts]
    /\ work \in Work
    /\ reading \in (SUBSET Attempts) \cup {None}
    /\ outbox \in SUBSET Entry
    /\ flush \in Flush
    /\ failure \in Failure \cup {None}
    /\ sent \in SUBSET Attempts
    /\ applied \in SUBSET Entry
    /\ closed \in SUBSET Attempts

NoChildren == [id \in Ids |-> None]
Unborn == [p \in Procs |-> "unborn"]
NoJobs == [p \in Procs |-> {}]
Nothing == [p \in Procs |-> None]

Init ==
    /\ children = NoChildren
    /\ phase = Unborn
    /\ stopping = {}
    /\ active = NoJobs
    /\ received = NoJobs
    /\ handling = Nothing
    /\ closing = Nothing
    /\ unfinished = NoJobs
    /\ work = Idle
    /\ reading = None
    /\ flush = NoFlush
    /\ failure = None
    /\ sequence = [a \in Attempts |-> 0]
    /\ outbox = {}
    /\ sent = {}
    /\ applied = {}
    /\ closed = {}

\* enqueueOutcome, under outboxMu: the entry is already there or is written;
\* otherwise the host is told to stop.  A write can fail after the rename.
EnqueueOutcome(e, recorded) ==
    LET admitted == ~Conflicting(outbox, e) /\ ~Exhausted(outbox, e)
        stop(error) == failure' = IF failure = None THEN error ELSE failure
    IN  /\ reading = None
        /\ \/ /\ recorded /\ admitted
              /\ outbox' = outbox \cup {e}
              /\ UNCHANGED failure
           \/ /\ ~recorded /\ Conflicting(outbox, e)
              /\ stop("conflict") /\ UNCHANGED outbox
           \/ /\ ~recorded /\ Exhausted(outbox, e)
              /\ stop(IF IsEvent(e) THEN "event refused" ELSE "completion refused")
              /\ UNCHANGED outbox
           \/ /\ ~recorded /\ admitted /\ e \notin outbox
              /\ stop("persistence") /\ outbox' \in {outbox, outbox \cup {e}}

----------------------------------------------------------------------------
(* Child processes (supervisor.go).                                        *)

\* Start, Activate or the watcher's relaunch puts a ready process in the map.
Launch(id, p) ==
    /\ phase[p] = "unborn"
    /\ children[id] # None =>
          phase[children[id]] = "offline" /\ children[id] \notin stopping
    /\ children' = [children EXCEPT ![id] = p]
    /\ phase' = [phase EXCEPT ![p] = "ready"]
    /\ UNCHANGED <<stopping, jobVars, work, reading, outbox, flush, failure,
                   serverVars, closed>>

\* The process exits by itself, is terminated, or obeys stopChild.
Exit(p) ==
    /\ phase[p] = "ready"
    /\ phase' = [phase EXCEPT ![p] = "exited"]
    /\ UNCHANGED <<children, stopping, jobVars, work, reading, outbox, flush,
                   failure, serverVars, closed>>

\* stopChild marks the process; it may take its time to exit.
StopBegins(id) ==
    /\ children[id] # None
    /\ children[id] \notin stopping
    /\ stopping' = stopping \cup {children[id]}
    /\ UNCHANGED <<children, phase, jobVars, work, reading, outbox, flush,
                   failure, serverVars, closed>>

\* stop forgets the process once it has exited, settled or not.
StopEnds(id) ==
    /\ children[id] \in stopping
    /\ phase[children[id]] # "ready"
    /\ children' = [children EXCEPT ![id] = None]
    /\ UNCHANGED <<phase, stopping, jobVars, work, reading, outbox, flush,
                   failure, serverVars, closed>>

\* Mutant: the job is removed before its completion is recorded.
ReaderRemovesFirst(p, e) ==
    /\ phase[p] \in {"ready", "exited"}
    /\ handling[p] = None
    /\ closing[p] = None
    /\ e.attempt \in received[p] \cap active[p]
    /\ e = ConnectorCompletion(e.attempt, "reported")
    /\ handling' = [handling EXCEPT ![p] = e]
    /\ active' = [active EXCEPT ![p] = @ \ {e.attempt}]
    /\ UNCHANGED <<childVars, received, sequence, closing, unfinished, work, reading,
                   outbox, flush, failure, serverVars, closed>>

\* The reader decodes a message and looks up its job; others are ignored.
ReaderFindsJob(p, e) ==
    /\ phase[p] \in {"ready", "exited"}
    /\ handling[p] = None
    /\ closing[p] = None
    /\ e.attempt \in received[p] \cap active[p]
    /\ IF IsEvent(e)
       THEN /\ e.suffix = sequence[e.attempt] + 1
            /\ sequence' = [sequence EXCEPT ![e.attempt] = e.suffix]
       ELSE e.body = "reported" /\ UNCHANGED sequence
    /\ handling' = [handling EXCEPT ![p] = e]
    /\ UNCHANGED <<childVars, active, received, closing, unfinished, work, reading,
                   outbox, flush, failure, serverVars, closed>>

\* The sink records it; if it cannot, the reader ends and the child is killed.
ReaderEnqueues(p, recorded) ==
    LET e == handling[p]
    IN  /\ e # None
        /\ EnqueueOutcome(e, recorded)
        /\ handling' = [handling EXCEPT ![p] = None]
        /\ closing' = [closing EXCEPT ![p] =
                          IF recorded /\ ~IsEvent(e) THEN e.attempt ELSE None]
        /\ phase' = [phase EXCEPT ![p] = IF recorded THEN @ ELSE "drained"]
        /\ UNCHANGED <<children, stopping, active, received, sequence, unfinished, work,
                       reading, flush, serverVars, closed>>

\* removeJob, after the completion was queued by the reader or by settleChild.
RemoveJob(p) ==
    /\ closing[p] # None
    /\ active' = [active EXCEPT ![p] = @ \ {closing[p]}]
    /\ received' = [received EXCEPT ![p] = @ \ {closing[p]}]
    /\ closing' = [closing EXCEPT ![p] = None]
    /\ UNCHANGED <<childVars, sequence, handling, unfinished, work, reading, outbox, flush,
                   failure, serverVars, closed>>

\* The reader reaches the end of the output of a process that has exited.
Drain(p) ==
    /\ phase[p] = "exited"
    /\ handling[p] = None
    /\ closing[p] = None
    /\ phase' = [phase EXCEPT ![p] = "drained"]
    /\ UNCHANGED <<children, stopping, jobVars, work, reading, outbox, flush,
                   failure, serverVars, closed>>

\* Mutant: the jobs of a child that was stopped are not settled.
SettleUnlessStopped(p) ==
    /\ phase[p] = "drained"
    /\ phase' = [phase EXCEPT ![p] = "settling"]
    /\ unfinished' = [unfinished EXCEPT ![p] = IF p \in stopping THEN {} ELSE active[p]]
    /\ UNCHANGED <<children, stopping, active, received, sequence, handling, closing, work,
                   reading, outbox, flush, failure, serverVars, closed>>

\* settleChild copies the unfinished jobs.
SettleBegins(p) ==
    /\ phase[p] = "drained"
    /\ phase' = [phase EXCEPT ![p] = "settling"]
    /\ unfinished' = [unfinished EXCEPT ![p] = active[p]]
    /\ UNCHANGED <<children, stopping, active, received, sequence, handling, closing, work,
                   reading, outbox, flush, failure, serverVars, closed>>

\* It completes each of them with an error; RemoveJob follows, whatever it got.
SettleEnqueues(p, a, recorded) ==
    /\ phase[p] = "settling"
    /\ closing[p] = None
    /\ a \in unfinished[p]
    /\ EnqueueOutcome(ConnectorCompletion(a, "exited"), recorded)
    /\ unfinished' = [unfinished EXCEPT ![p] = @ \ {a}]
    /\ closing' = [closing EXCEPT ![p] = a]
    /\ UNCHANGED <<childVars, active, received, sequence, handling, work, reading,
                   flush, serverVars, closed>>

\* watch then leaves a process that was stopped, and marks another as offline;
\* Launch may follow.
SettleEnds(p) ==
    /\ phase[p] = "settling"
    /\ closing[p] = None
    /\ unfinished[p] = {}
    /\ phase' = [phase EXCEPT ![p] = IF p \in stopping THEN "settled" ELSE "offline"]
    /\ UNCHANGED <<children, stopping, jobVars, work, reading, outbox, flush,
                   failure, serverVars, closed>>

----------------------------------------------------------------------------
(* activeAttempts, under outboxMu: Statuses first, then the outbox.        *)

\* The active attempts of the children in the map.
Visible == UNION {active[p] : p \in {children[id] : id \in Ids} \ {None}}

ReadStatuses ==
    /\ failure = None
    /\ reading = None
    /\ work = Idle
    /\ reading' = Visible
    /\ UNCHANGED <<childVars, jobVars, work, outbox, flush, failure, serverVars,
                   closed>>

\* The demand asks for the claims that are left; at zero no job can come.
ReadOutbox ==
    /\ reading # None
    /\ reading' = None
    /\ work' = IF Cardinality(reading \cup Completing(outbox)) < Claims
               THEN [step |-> "demanding", attempt |-> None, child |-> None]
               ELSE Idle
    /\ UNCHANGED <<childVars, jobVars, outbox, flush, failure, serverVars, closed>>

----------------------------------------------------------------------------
(* The demand loop, handleWork and Dispatch.                               *)

\* External: the server hands out an attempt it never handed out before.
ServerSendsJob(a) ==
    /\ work.step = "demanding"
    /\ a \notin sent
    /\ sent' = sent \cup {a}
    /\ work' = [step |-> "arrived", attempt |-> a, child |-> None]
    /\ UNCHANGED <<childVars, jobVars, reading, outbox, flush, failure, applied,
                   closed>>

\* The demand fails, or brings a cancellation or a management job.
DemandEnds ==
    /\ work.step = "demanding"
    /\ work' = Idle
    /\ UNCHANGED <<childVars, jobVars, reading, outbox, flush, failure,
                   serverVars, closed>>

ActiveCount == Cardinality(Visible)

\* Dispatch reads the child under the supervisor's lock, and releases it.
DispatchFindsChild(id) ==
    /\ work.step = "arrived"
    /\ ActiveCount < MaxActive
    /\ children[id] # None
    /\ work' = [step |-> "found", attempt |-> work.attempt, child |-> children[id]]
    /\ UNCHANGED <<childVars, jobVars, reading, outbox, flush, failure,
                   serverVars, closed>>

\* It adds the job to a child that still looks ready: one that has exited does.
DispatchAddsJob ==
    /\ work.step = "found"
    /\ phase[work.child] # "offline"
    /\ work.attempt \notin active[work.child]
    /\ active' = [active EXCEPT ![work.child] = @ \cup {work.attempt}]
    /\ work' = [step |-> "added", attempt |-> work.attempt, child |-> work.child]
    /\ UNCHANGED <<childVars, received, sequence, handling, closing, unfinished, reading,
                   outbox, flush, failure, serverVars, closed>>

\* The frame reaches the process.
EncodeWrites ==
    /\ work.step = "added"
    /\ phase[work.child] = "ready"
    /\ received' = [received EXCEPT ![work.child] = @ \cup {work.attempt}]
    /\ work' = [step |-> "written", attempt |-> work.attempt, child |-> work.child]
    /\ UNCHANGED <<childVars, active, sequence, handling, closing, unfinished, reading,
                   outbox, flush, failure, serverVars, closed>>

EncodeReturns ==
    /\ work.step = "written"
    /\ work' = Idle
    /\ UNCHANGED <<childVars, jobVars, reading, outbox, flush, failure,
                   serverVars, closed>>

\* The write fails, or times out after or before the frame got through; a timeout
\* kills the child.
EncodeFails ==
    /\ work.step \in {"added", "written"}
    /\ phase' = [phase EXCEPT ![work.child] = IF @ = "ready" THEN "exited" ELSE @]
    /\ active' = [active EXCEPT ![work.child] = @ \ {work.attempt}]
    /\ received' = [received EXCEPT ![work.child] = @ \ {work.attempt}]
    /\ work' = [step |-> "refused", attempt |-> work.attempt, child |-> None]
    /\ UNCHANGED <<children, stopping, sequence, handling, closing, unfinished, reading,
                   outbox, flush, failure, serverVars, closed>>

\* No child, too many attempts, or a child that is not ready (it may say so
\* itself at any time).
DispatchRefuses ==
    /\ work.step \in {"arrived", "found"}
    /\ work' = [step |-> "refused", attempt |-> work.attempt, child |-> None]
    /\ UNCHANGED <<childVars, jobVars, reading, outbox, flush, failure,
                   serverVars, closed>>

\* handleWork completes a job it could not dispatch.
RefusalEnqueued(recorded) ==
    /\ work.step = "refused"
    /\ EnqueueOutcome(ConnectorCompletion(work.attempt, "refused"), recorded)
    /\ work' = Idle
    /\ UNCHANGED <<childVars, jobVars, reading, flush, serverVars, closed>>

----------------------------------------------------------------------------
(* flushConnectorOutcomes.                                                 *)

\* An entry is read and sent, in the order of the names: an attempt's events and
\* then its completion.  Only this worker removes entries, so those a pass found in
\* the directory are still there.
FlushSends(e) ==
    /\ failure = None
    /\ flush.sending = None
    /\ e \in outbox
    /\ \A x \in outbox : x.attempt = e.attempt => x.suffix >= e.suffix
    /\ flush' = [sending |-> e, reply |-> "none"]
    /\ UNCHANGED <<childVars, jobVars, work, reading, outbox, failure, serverVars,
                   closed>>

\* External: a completion is applied once; a changed one is rejected.
Acceptable(e) == IsEvent(e) \/ ~Conflicting(applied, e)

\* External: the server applies the entry; the reply may get lost.
ServerApplies(replied) ==
    /\ flush.sending # None
    /\ flush.reply = "none"
    /\ Acceptable(flush.sending)
    /\ applied' = applied \cup {flush.sending}
    /\ flush' = IF replied THEN [sending |-> flush.sending, reply |-> "ack"] ELSE NoFlush
    /\ UNCHANGED <<childVars, jobVars, work, reading, outbox, failure, sent,
                   closed>>

\* External: 400, 403, 404 or 409.
ServerRejects ==
    /\ flush.sending # None
    /\ flush.reply = "none"
    /\ flush' = [sending |-> flush.sending, reply |-> "rejected"]
    /\ UNCHANGED <<childVars, jobVars, work, reading, outbox, failure,
                   serverVars, closed>>

\* Any other error ends the flush.
FlushFails ==
    /\ flush.sending # None
    /\ flush.reply = "none"
    /\ flush' = NoFlush
    /\ UNCHANGED <<childVars, jobVars, work, reading, outbox, failure,
                   serverVars, closed>>

\* Mutant: the entry is removed without waiting for the answer.
RemoveUnapplied ==
    /\ flush.sending # None
    /\ reading = None
    /\ outbox' = WithoutPath(outbox, flush.sending)
    /\ flush' = NoFlush
    /\ UNCHANGED <<childVars, jobVars, work, reading, failure, serverVars, closed>>

RemoveAcknowledged ==
    /\ flush.reply = "ack"
    /\ reading = None
    /\ outbox' = WithoutPath(outbox, flush.sending)
    /\ flush' = NoFlush
    /\ UNCHANGED <<childVars, jobVars, work, reading, failure, serverVars, closed>>

\* Mutant: a rejected entry stays in the queue.
RetryRejected ==
    /\ flush.reply = "rejected"
    /\ reading = None
    /\ flush' = NoFlush
    /\ UNCHANGED <<childVars, jobVars, work, reading, outbox, failure, serverVars, closed>>

\* It is renamed out of the queue; the retention of rejected files is left out.
RetainRejected ==
    /\ flush.reply = "rejected"
    /\ reading = None
    /\ outbox' = WithoutPath(outbox, flush.sending)
    /\ flush' = NoFlush
    /\ closed' = closed \cup Completing({flush.sending})
    /\ UNCHANGED <<childVars, jobVars, work, reading, failure, serverVars>>

----------------------------------------------------------------------------

\* The host process ends and a new one starts: what was active dies with it.
Restart ==
    /\ children' = NoChildren
    /\ phase' = Unborn
    /\ stopping' = {}
    /\ active' = NoJobs
    /\ received' = NoJobs
    /\ handling' = Nothing
    /\ closing' = Nothing
    /\ unfinished' = NoJobs
    /\ work' = Idle
    /\ reading' = None
    /\ flush' = NoFlush
    /\ failure' = None
    /\ closed' = sent \ Completing(outbox)
    /\ sequence' = [a \in Attempts |-> 0]
    /\ UNCHANGED <<outbox, serverVars>>

ChildStep ==
    \/ \E id \in Ids :
          \/ \E p \in Procs : Launch(id, p)
          \/ StopBegins(id)
          \/ StopEnds(id)
    \/ \E p \in Procs :
          \/ Exit(p)
          \/ \E e \in Entry : ReaderFindsJob(p, e)
          \/ \E recorded \in BOOLEAN : ReaderEnqueues(p, recorded)
          \/ RemoveJob(p)
          \/ Drain(p)
          \/ SettleBegins(p)
          \/ \E a \in Attempts, recorded \in BOOLEAN : SettleEnqueues(p, a, recorded)
          \/ SettleEnds(p)

WorkStep ==
    \/ ReadStatuses
    \/ ReadOutbox
    \/ \E a \in Attempts : ServerSendsJob(a)
    \/ DemandEnds
    \/ \E id \in Ids : DispatchFindsChild(id)
    \/ DispatchAddsJob
    \/ EncodeWrites
    \/ EncodeReturns
    \/ EncodeFails
    \/ DispatchRefuses
    \/ \E recorded \in BOOLEAN : RefusalEnqueued(recorded)

FlushStep ==
    \/ \E e \in outbox : FlushSends(e)
    \/ \E replied \in BOOLEAN : ServerApplies(replied)
    \/ ServerRejects
    \/ FlushFails
    \/ RemoveAcknowledged
    \/ RetainRejected

Next == ChildStep \/ WorkStep \/ FlushStep \/ Restart

Spec == Init /\ [][Next]_vars

\* The locks are fair, the loops keep running, an entry that is sent over and over
\* is eventually answered, and the service manager restarts a host that stopped.
SendingOf(a) == flush.sending # None /\ flush.sending.attempt = a

FlushFairness ==
    /\ WF_vars(ReadOutbox)
    /\ \A a \in Attempts :
          /\ SF_vars(\E e \in outbox : e.attempt = a /\ FlushSends(e))
          /\ SF_vars(SendingOf(a) /\ (ServerApplies(TRUE) \/ ServerRejects))
          /\ SF_vars(SendingOf(a) /\ (RemoveAcknowledged \/ RetainRejected))

ChildFairness ==
    \A p \in Procs :
        /\ SF_vars(\E recorded \in BOOLEAN : ReaderEnqueues(p, recorded))
        /\ WF_vars(RemoveJob(p))
        /\ WF_vars(Drain(p))
        /\ WF_vars(SettleBegins(p))
        /\ \A a \in Attempts : SF_vars(\E recorded \in BOOLEAN : SettleEnqueues(p, a, recorded))

DispatchFairness ==
    /\ WF_vars(EncodeWrites \/ EncodeReturns \/ EncodeFails)
    /\ SF_vars(\E recorded \in BOOLEAN : RefusalEnqueued(recorded))
    /\ WF_vars(failure # None /\ Restart)

\* It is not restarted forever.
StaysUp == <>[][~Restart]_vars

FairSpec == Spec /\ FlushFairness /\ ChildFairness /\ DispatchFairness /\ StaysUp

----------------------------------------------------------------------------
(* Properties.                                                             *)

\* An accepted job is in dispatch, active in a child, or has an outcome that is
\* queued or delivered, unless the host is stopping: whatever the interleaving of
\* Dispatch, the reader, settleChild and stop, none is silently dropped.
NoAttemptForgotten ==
    failure = None =>
        \A a \in sent \ closed :
            \/ a = work.attempt
            \/ \E p \in Procs : a \in active[p]
            \/ a \in Completing(outbox) \cup Completing(applied)

\* As long as fewer than Claims completions are queued, one more fits: events
\* never take the capacity reserved for terminal outcomes (enqueueOutcome).
EntriesFit ==
    Cardinality(Terminals(outbox)) < Claims => Cardinality(outbox) < MaxEntries

\* The same for bytes, at the largest size a message may have.
BytesFit ==
    Cardinality(Terminals(outbox)) < Claims => TotalBytes(outbox) + MaxBody <= MaxBytes

LeavesAnswered ==
    \A e \in outbox \ outbox' :
        e \in applied \/ (e = flush.sending /\ flush.reply = "rejected")

\* An entry leaves the queue only once the server has applied or rejected that
\* very payload (flushConnectorOutcomes removes a path, not a payload).
DeletedOnlyWhenAnswered == [][LeavesAnswered]_vars

\* A queued completion is eventually acknowledged or rejected, however often the
\* session drops and over any number of restarts, once the host stays up
\* (flushConnectorOutcomes).
CompletionsDelivered ==
    \A a \in Attempts : a \in Completing(outbox) ~> a \notin Completing(outbox)

\* A job whose child has exited eventually has an outcome (settleChild).
ExitedJobsEnd ==
    \A p \in Procs, a \in Attempts :
        (a \in active[p] /\ phase[p] # "ready") ~>
            (a \in closed \cup Completing(outbox) \cup Completing(applied) \/ failure # None)

\* The host stops only for failures of local persistence or a full queue, never
\* because it recorded two outcomes of one attempt itself.  The code does not keep
\* this: handleWork and settleChild may both complete an attempt (enqueueOutcome).
StopsOnlyForPersistence == failure # "conflict"

----------------------------------------------------------------------------
(* The inductive invariants behind NoAttemptForgotten, EntriesFit,         *)
(* BytesFit and DeletedOnlyWhenAnswered.                                   *)

\* One entry per path, the entry being sent is still queued, an acknowledged one
\* was applied, and events stay below their limits.
QueueInvariant ==
    /\ TypeOK
    /\ IsFiniteSet(outbox)
    /\ \A x, y \in outbox : SamePath(x, y) => x = y
    /\ flush.sending # None => flush.sending \in outbox
    /\ flush.reply = "ack" => flush.sending \in applied
    /\ Cardinality(Events(outbox)) <= MaxEntries - Claims
    /\ TotalBytes(Events(outbox)) <= MaxBytes - Claims * MaxBody

Settled(a) == a \in closed \cup Completing(outbox) \cup Completing(applied)

\* A job being removed from its child is settled, and so is one that Dispatch has
\* written unless it is still active.
JobsInvariant ==
    /\ QueueInvariant
    /\ reading # None => work = Idle
    /\ failure = None =>
          /\ \A p \in Procs : closing[p] # None => Settled(closing[p])
          /\ \A a \in sent : \/ Settled(a)
                             \/ \E p \in Procs : a \in active[p]
                             \/ a = work.attempt /\ work.step \in {"arrived", "found", "refused"}
=============================================================================
