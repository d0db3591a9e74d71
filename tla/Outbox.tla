------------------------------- MODULE Outbox -------------------------------
(***************************************************************************)
(* The durable queue of connector output (outbox.go), as operators on the  *)
(* set of its pending entries.  An entry's path is its attempt and suffix: *)
(* the sequence number of an event, or "terminal" for the completion,      *)
(* which is Terminal here.  The job ID and the token of an attempt are one *)
(* value, and a body stands for the marshalled message.                    *)
(***************************************************************************)
EXTENDS Integers, FiniteSets

CONSTANTS
    Attempts,       \* attempt tokens, with their jobs
    MaxSequence,    \* a bound on the events of one attempt
    EventBodies,    \* what an event may say
    Bytes,          \* [body -> length of the message that carries it]
    MaxEntries,     \* maxOutboxEntries
    MaxBytes,       \* maxOutboxBytes
    MaxBody,        \* the size limit of one message
    Claims,         \* protocol.MaxHostConnectorClaims
    None

Terminal == MaxSequence + 1

\* A child's own completion, settleChild's, and handleWork's.
CompletionBodies == {"reported", "exited", "refused"}

EventEntry == [attempt : Attempts, suffix : 1..MaxSequence, body : EventBodies]

CompletionEntry == [attempt : Attempts, suffix : {Terminal}, body : CompletionBodies]

Entry == EventEntry \cup CompletionEntry

ASSUME OutboxAssumption ==
    /\ MaxSequence \in Nat
    /\ Claims \in Nat \ {0}
    /\ MaxEntries \in Nat /\ MaxEntries > Claims
    /\ MaxBody \in Nat \ {0} /\ MaxBytes \in Nat /\ MaxBytes > Claims * MaxBody
    /\ \A b \in EventBodies \cup CompletionBodies : Bytes[b] \in 1..MaxBody
    /\ None \notin Entry
    /\ None \notin Attempts

ConnectorCompletion(a, body) == [attempt |-> a, suffix |-> Terminal, body |-> body]

IsEvent(e) == e.suffix # Terminal

SamePath(x, y) == x.attempt = y.attempt /\ x.suffix = y.suffix

Events(entries) == {e \in entries : IsEvent(e)}

Terminals(entries) == {e \in entries : ~IsEvent(e)}

\* The attempts of the "-terminal.json" files (activeAttempts).
Completing(entries) == {e.attempt : e \in Terminals(entries)}

\* Every byte of every message, named by its entry and its place in the message.
QueuedBytes(entries) == {x \in entries \X (1..MaxBody) : x[2] <= Bytes[x[1].body]}

TotalBytes(entries) == Cardinality(QueuedBytes(entries))

\* Mutant: no entries reserved for completions.
EntryLimitUnreserved(e) == MaxEntries

EntryLimit(e) == IF IsEvent(e) THEN MaxEntries - Claims ELSE MaxEntries

\* Mutant: no bytes reserved for completions.
ByteLimitUnreserved(e) == MaxBytes

ByteLimit(e) == IF IsEvent(e) THEN MaxBytes - Claims * MaxBody ELSE MaxBytes

\* Mutant: an outcome is not compared with the one recorded at its path.
ConflictingUnchecked(entries, e) == FALSE

Conflicting(entries, e) == e \notin entries /\ \E x \in entries : SamePath(x, e)

Exhausted(entries, e) ==
    /\ ~\E x \in entries : SamePath(x, e)
    /\ \/ Cardinality(entries) >= EntryLimit(e)
       \/ TotalBytes(entries) + Bytes[e.body] > ByteLimit(e)

\* os.Remove of the path an acknowledged or rejected entry was read from.
WithoutPath(entries, e) == {x \in entries : ~SamePath(x, e)}
=============================================================================
