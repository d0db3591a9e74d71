---------------------------- MODULE JobsProofs -----------------------------
(* The safety properties of Jobs, for every value of the constants.        *)
EXTENDS Jobs, FiniteSetTheorems, TLAPS

----------------------------------------------------------------------------
(* The types of Jobs and the form of its output queue.                     *)

\* The bounds of the queue are natural numbers, and events leave Claims entries.
LEMMA Limits == MaxEntries \in Nat /\ Claims \in Nat /\ MaxEntries - Claims \in Nat
BY OutboxAssumption

\* An entry of the queue has one of the two shapes, told apart by its suffix.
LEMMA EntryFields ==
    ASSUME NEW e \in Entry
    PROVE  /\ e.attempt \in Attempts
           /\ e.suffix \in 1..Terminal
           /\ IsEvent(e) => e \in EventEntry
           /\ ~IsEvent(e) => e \in CompletionEntry
BY OutboxAssumption DEF Entry, EventEntry, CompletionEntry, IsEvent, Terminal

\* A completion that the host records is an entry, and not an event.
LEMMA CompletionType ==
    ASSUME NEW a \in Attempts, NEW body \in CompletionBodies
    PROVE  /\ ConnectorCompletion(a, body) \in Entry
           /\ ~IsEvent(ConnectorCompletion(a, body))
           /\ ConnectorCompletion(a, body).attempt = a
BY Zenon DEF ConnectorCompletion, Entry, CompletionEntry, IsEvent

\* An attempt completes in a set of entries when its completion is one of them.
LEMMA CompletingHas ==
    ASSUME NEW entries, NEW e \in entries, ~IsEvent(e)
    PROVE  e.attempt \in Completing(entries)
BY Zenon DEF Completing, Terminals

\* More entries complete more attempts.
LEMMA CompletingGrows ==
    ASSUME NEW S, NEW T, S \subseteq T
    PROVE  Completing(S) \subseteq Completing(T)
BY Zenon DEF Completing, Terminals

\* Events leave room for Claims messages of the largest size.
LEMMA ByteLimits == MaxBytes - Claims * MaxBody \in Nat
<1>1. Claims * MaxBody \in Nat
  BY OutboxAssumption
<1> QED BY <1>1, OutboxAssumption

\* The bytes of finitely many entries are finite, at most MaxBody for each.
LEMMA BytesFinite ==
    ASSUME NEW S, IsFiniteSet(S)
    PROVE  /\ IsFiniteSet(QueuedBytes(S))
           /\ TotalBytes(S) \in Nat
           /\ TotalBytes(S) <= Cardinality(S) * MaxBody
<1>1. IsFiniteSet(1..MaxBody) /\ Cardinality(1..MaxBody) = MaxBody
  BY FS_Interval, OutboxAssumption
<1>2. /\ IsFiniteSet(S \X (1..MaxBody))
      /\ Cardinality(S \X (1..MaxBody)) = Cardinality(S) * MaxBody
  BY <1>1, FS_Product, Zenon
<1>3. QueuedBytes(S) \in SUBSET (S \X (1..MaxBody))
  BY Zenon DEF QueuedBytes
<1>4. IsFiniteSet(QueuedBytes(S)) /\ TotalBytes(S) <= Cardinality(S \X (1..MaxBody))
  BY <1>2, <1>3, FS_Subset, Zenon DEF TotalBytes
<1> QED BY <1>2, <1>4, FS_CardinalityType, Zenon DEF TotalBytes

\* Fewer entries have no more bytes.
LEMMA BytesGrow ==
    ASSUME NEW T, IsFiniteSet(T), NEW S \in SUBSET T
    PROVE  TotalBytes(S) <= TotalBytes(T)
<1>1. QueuedBytes(S) \in SUBSET QueuedBytes(T)
  BY Zenon DEF QueuedBytes
<1> QED BY <1>1, BytesFinite, FS_Subset, Zenon DEF TotalBytes

\* The bytes of two disjoint sets of entries add up.
LEMMA BytesAdd ==
    ASSUME NEW S, IsFiniteSet(S), NEW T, IsFiniteSet(T), S \cap T = {}
    PROVE  TotalBytes(S \cup T) = TotalBytes(S) + TotalBytes(T)
<1>1. /\ QueuedBytes(S \cup T) = QueuedBytes(S) \cup QueuedBytes(T)
      /\ QueuedBytes(S) \cap QueuedBytes(T) = {}
  BY Zenon DEF QueuedBytes
<1>2. IsFiniteSet(QueuedBytes(S)) /\ IsFiniteSet(QueuedBytes(T))
  BY BytesFinite, Zenon
<1>3. Cardinality(QueuedBytes(S) \cup QueuedBytes(T))
        = Cardinality(QueuedBytes(S)) + Cardinality(QueuedBytes(T))
          - Cardinality(QueuedBytes(S) \cap QueuedBytes(T))
  BY <1>2, FS_Union, Zenon
<1>4. Cardinality(QueuedBytes(S) \cap QueuedBytes(T)) = 0
  BY <1>1, FS_EmptySet, Zenon
<1>5. Cardinality(QueuedBytes(S)) \in Nat /\ Cardinality(QueuedBytes(T)) \in Nat
  BY <1>2, FS_CardinalityType, Zenon
<1>6. TotalBytes(S \cup T) = Cardinality(QueuedBytes(S) \cup QueuedBytes(T))
  BY <1>1, Zenon DEF TotalBytes
<1> QED BY <1>3, <1>4, <1>5, <1>6 DEF TotalBytes

\* One entry has the bytes of its message.
LEMMA BytesOfOne ==
    ASSUME NEW e \in Entry
    PROVE  TotalBytes({e}) = Bytes[e.body]
<1>1. PICK n \in 1..MaxBody : n = Bytes[e.body]
  BY OutboxAssumption, Zenon DEF Entry, EventEntry, CompletionEntry
<1>2. QueuedBytes({e}) = {e} \X (1..n)
  BY <1>1, OutboxAssumption DEF QueuedBytes
<1>3. IsFiniteSet(1..n) /\ Cardinality(1..n) = n
  BY FS_Interval, OutboxAssumption
<1>4. IsFiniteSet({e}) /\ Cardinality({e}) = 1
  BY FS_Singleton, Zenon
<1>5. Cardinality({e} \X (1..n)) = 1 * n
  BY <1>3, <1>4, FS_Product
<1>6. 1 * n = n
  BY OutboxAssumption
<1> QED BY <1>1, <1>2, <1>5, <1>6, Zenon DEF TotalBytes

\* enqueueOutcome keeps the queue well formed, whether the write succeeds, is
\* refused or fails: what was recorded stays, and what was not stops the host.
LEMMA EnqueueStep ==
    ASSUME QueueInvariant, NEW e \in Entry, NEW recorded \in BOOLEAN,
           EnqueueOutcome(e, recorded)
    PROVE  /\ outbox \subseteq outbox' /\ outbox' \in SUBSET Entry
           /\ IsFiniteSet(outbox')
           /\ \A x, y \in outbox' : SamePath(x, y) => x = y
           /\ Cardinality(Events(outbox')) <= MaxEntries - Claims
           /\ TotalBytes(Events(outbox')) <= MaxBytes - Claims * MaxBody
           /\ failure' \in Failure \cup {None}
           /\ failure # None => failure' # None
           /\ recorded => e \in outbox'
           /\ ~recorded => failure' # None
<1>1. /\ outbox \subseteq Entry /\ IsFiniteSet(outbox) /\ failure \in Failure \cup {None}
      /\ \A x, y \in outbox : SamePath(x, y) => x = y
      /\ Cardinality(Events(outbox)) <= MaxEntries - Claims
      /\ TotalBytes(Events(outbox)) <= MaxBytes - Claims * MaxBody
  BY Zenon DEF QueueInvariant, TypeOK
<1>2. /\ outbox' = outbox \/ (outbox' = outbox \cup {e} /\ ~Conflicting(outbox, e)
                                                       /\ ~Exhausted(outbox, e))
      /\ recorded => outbox' = outbox \cup {e} /\ failure' = failure
      /\ ~recorded => \E error \in Failure :
                         failure' = IF failure = None THEN error ELSE failure
  BY ZenonT(60) DEF EnqueueOutcome, Failure
<1>3. CASE outbox' = outbox
  BY <1>1, <1>2, <1>3, JobsAssumption, Zenon
<1>4. CASE outbox' = outbox \cup {e} /\ ~Conflicting(outbox, e) /\ ~Exhausted(outbox, e)
  <2>1. CASE e \in outbox
    BY <2>1, <1>3, <1>4, Zenon
  <2>2. CASE e \notin outbox
    <3>1. \A x \in outbox : ~SamePath(x, e) /\ ~SamePath(e, x)
      BY <1>4, <2>2, Zenon DEF Conflicting, SamePath
    <3>2. ~(Cardinality(outbox) >= EntryLimit(e))
      BY <3>1, <1>4, Zenon DEF Exhausted
    <3>3. IsFiniteSet(Events(outbox)) /\ Events(outbox) \subseteq outbox
      BY <1>1, FS_Subset, Zenon DEF Events
    <3>4. Cardinality(Events(outbox)) <= Cardinality(outbox)
      BY <1>1, <3>3, FS_Subset, Zenon
    <3>5. Cardinality(outbox) \in Nat /\ Cardinality(Events(outbox)) \in Nat
      BY <1>1, <3>3, FS_CardinalityType, Zenon
    <3>6. Cardinality(Events(outbox')) <= MaxEntries - Claims
      <4>1. CASE IsEvent(e)
        <5>1. Events(outbox') = Events(outbox) \cup {e} /\ e \notin Events(outbox)
          BY <1>4, <2>2, <4>1, Zenon DEF Events
        <5>2. Cardinality(Events(outbox')) = Cardinality(Events(outbox)) + 1
          BY <5>1, <3>3, FS_AddElement, ZenonT(60)
        <5> QED BY <5>2, <3>2, <3>4, <3>5, <4>1, Limits DEF EntryLimit
      <4>2. CASE ~IsEvent(e)
        <5>1. Events(outbox') = Events(outbox)
          BY <1>4, <4>2, Zenon DEF Events
        <5> QED BY <5>1, <1>1, Zenon
      <4> QED BY <4>1, <4>2, Zenon
    <3>7. TotalBytes(Events(outbox')) <= MaxBytes - Claims * MaxBody
      <4>1. CASE IsEvent(e)
        <5>1. Events(outbox') = Events(outbox) \cup {e} /\ Events(outbox) \cap {e} = {}
          BY <1>4, <2>2, <4>1, Zenon DEF Events
        <5>2. TotalBytes(Events(outbox')) = TotalBytes(Events(outbox)) + Bytes[e.body]
          <6>1. IsFiniteSet({e}) /\ TotalBytes({e}) = Bytes[e.body]
            BY FS_Singleton, BytesOfOne, Zenon
          <6>2. TotalBytes(Events(outbox) \cup {e}) = TotalBytes(Events(outbox)) + TotalBytes({e})
            BY <5>1, <6>1, <3>3, BytesAdd, Zenon
          <6> QED BY <5>1, <6>1, <6>2, Zenon
        <5>3. TotalBytes(Events(outbox)) <= TotalBytes(outbox)
          BY <1>1, <3>3, BytesGrow, Zenon
        <5>4. ~(TotalBytes(outbox) + Bytes[e.body] > MaxBytes - Claims * MaxBody)
          BY <1>4, <3>1, <4>1, Zenon DEF Exhausted, ByteLimit
        <5>5. /\ TotalBytes(outbox) \in Nat /\ TotalBytes(Events(outbox)) \in Nat
              /\ Bytes[e.body] \in Nat
          BY <1>1, <3>3, BytesFinite, OutboxAssumption DEF Entry, EventEntry, CompletionEntry
        <5> QED BY <5>2, <5>3, <5>4, <5>5, ByteLimits
      <4>2. CASE ~IsEvent(e)
        <5>1. Events(outbox') = Events(outbox)
          BY <1>4, <4>2 DEF Events
        <5> QED BY <5>1, <1>1, Zenon
      <4> QED BY <4>1, <4>2, Zenon
    <3>8. IsFiniteSet(outbox')
      BY <1>1, <1>4, FS_AddElement, Zenon
    <3>9. \A x, y \in outbox' : SamePath(x, y) => x = y
      BY <3>1, <1>1, <1>4, Zenon
    <3> QED BY <3>6, <3>8, <3>9, <3>7, <1>1, <1>2, <1>4, JobsAssumption, Zenon
  <2> QED BY <2>1, <2>2, Zenon
<1> QED BY <1>2, <1>3, <1>4, Zenon

\* Recording an outcome leaves the types of everything but outbox and failure to
\* the goroutine that records it.
LEMMA EnqueueTypes ==
    ASSUME QueueInvariant, NEW e \in Entry, NEW recorded \in BOOLEAN,
           EnqueueOutcome(e, recorded)
    PROVE  outbox' \in SUBSET Entry /\ failure' \in Failure \cup {None}
BY EnqueueStep, Zenon

\* The steps of the child processes keep the types.
LEMMA ChildTypes ==
    ASSUME QueueInvariant, ChildStep
    PROVE  TypeOK'
<1>1. TypeOK
  BY Zenon DEF QueueInvariant
<1> USE DEF childVars, jobVars, serverVars
<1>2. CASE \E id \in Ids, p \in Procs : Launch(id, p)
  BY <1>1, <1>2 DEF TypeOK, Launch
<1>3. CASE \E id \in Ids : StopBegins(id)
  BY <1>1, <1>3 DEF TypeOK, StopBegins
<1>4. CASE \E id \in Ids : StopEnds(id)
  BY <1>1, <1>4 DEF TypeOK, StopEnds
<1>5. CASE \E p \in Procs : Exit(p)
  BY <1>1, <1>5, Zenon DEF TypeOK, Exit
<1>6. ASSUME NEW p \in Procs, NEW e \in Entry, ReaderFindsJob(p, e)
      PROVE  TypeOK'
  <2>1. e.attempt \in Attempts /\ (IsEvent(e) => e.suffix \in 0..MaxSequence)
    BY EntryFields, OutboxAssumption DEF EventEntry
  <2>2. sequence' \in [Attempts -> 0..MaxSequence]
    BY <1>1, <1>6, <2>1, Zenon DEF TypeOK, ReaderFindsJob
  <2> QED BY <1>1, <1>6, <2>2, Zenon DEF TypeOK, ReaderFindsJob
<1>7. ASSUME NEW p \in Procs, NEW recorded \in BOOLEAN, ReaderEnqueues(p, recorded)
      PROVE  TypeOK'
  <2>1. handling[p] \in Entry /\ EnqueueOutcome(handling[p], recorded)
    BY <1>1, <1>7, Zenon DEF TypeOK, ReaderEnqueues
  <2>2. handling[p].attempt \in Attempts
    BY <2>1, EntryFields, Zenon
  <2>3. outbox' \in SUBSET Entry /\ failure' \in Failure \cup {None}
    BY <2>1, EnqueueTypes, Zenon
  <2> QED BY <1>1, <1>7, <2>2, <2>3, Zenon DEF TypeOK, ReaderEnqueues
<1>8. CASE \E p \in Procs : RemoveJob(p)
  BY <1>1, <1>8 DEF TypeOK, RemoveJob
<1>9. CASE \E p \in Procs : Drain(p)
  BY <1>1, <1>9, Zenon DEF TypeOK, Drain
<1>10. CASE \E p \in Procs : SettleBegins(p)
  BY <1>1, <1>10 DEF TypeOK, SettleBegins
<1>11. ASSUME NEW p \in Procs, NEW a \in Attempts, NEW recorded \in BOOLEAN,
              SettleEnqueues(p, a, recorded)
       PROVE  TypeOK'
  <2>1. ConnectorCompletion(a, "exited") \in Entry
    BY CompletionType, Zenon DEF CompletionBodies
  <2>2. outbox' \in SUBSET Entry /\ failure' \in Failure \cup {None}
    BY <1>11, <2>1, EnqueueTypes, Zenon DEF SettleEnqueues
  <2> QED BY <1>1, <1>11, <2>2, Zenon DEF TypeOK, SettleEnqueues
<1>12. CASE \E p \in Procs : SettleEnds(p)
  BY <1>1, <1>12 DEF TypeOK, SettleEnds
<1> QED
  BY <1>2, <1>3, <1>4, <1>5, <1>6, <1>7, <1>8, <1>9, <1>10, <1>11, <1>12, Zenon DEF ChildStep

\* Where the demand loop is tells what it holds.
LEMMA WorkFields ==
    ASSUME work \in Work
    PROVE  /\ work.step \in {"arrived", "refused", "found", "added", "written"} =>
                 work.attempt \in Attempts
           /\ work.step \in {"found", "added", "written"} => work.child \in Procs
BY Zenon DEF Work

\* The steps of the demand loop keep the types.
LEMMA WorkTypes ==
    ASSUME QueueInvariant, WorkStep
    PROVE  TypeOK'
<1>1. TypeOK /\ work \in Work
  BY Zenon DEF QueueInvariant, TypeOK
<1> USE DEF childVars, jobVars, serverVars, Idle
<1>2. CASE ReadStatuses
  <2>1. Visible \subseteq Attempts
    BY <1>1, JobsAssumption DEF TypeOK, Visible
  <2> QED BY <1>1, <1>2, <2>1, Zenon DEF TypeOK, ReadStatuses
<1>3. CASE ReadOutbox
  <2>1. work' \in Work
    BY <1>3, Zenon DEF ReadOutbox, Work
  <2> QED BY <1>1, <1>3, <2>1, Zenon DEF TypeOK, ReadOutbox
<1>4. ASSUME NEW a \in Attempts, ServerSendsJob(a)
      PROVE  TypeOK'
  <2>1. work' \in Work
    BY <1>4, Zenon DEF ServerSendsJob, Work
  <2> QED BY <1>1, <1>4, <2>1, Zenon DEF TypeOK, ServerSendsJob
<1>5. CASE DemandEnds
  <2>1. work' \in Work
    BY <1>5, Zenon DEF DemandEnds, Work
  <2> QED BY <1>1, <1>5, <2>1, Zenon DEF TypeOK, DemandEnds
<1>6. ASSUME NEW id \in Ids, DispatchFindsChild(id)
      PROVE  TypeOK'
  <2>1. work.attempt \in Attempts /\ children[id] \in Procs
    BY <1>1, <1>6, WorkFields, Zenon DEF TypeOK, DispatchFindsChild
  <2>2. work' \in Work
    BY <1>6, <2>1, Zenon DEF DispatchFindsChild, Work
  <2> QED BY <1>1, <1>6, <2>2, Zenon DEF TypeOK, DispatchFindsChild
<1>7. CASE DispatchAddsJob
  <2>1. work.attempt \in Attempts /\ work.child \in Procs
    BY <1>1, <1>7, WorkFields, Zenon DEF DispatchAddsJob
  <2>2. work' \in Work
    BY <1>7, <2>1, Zenon DEF DispatchAddsJob, Work
  <2> QED BY <1>1, <1>7, <2>1, <2>2, Zenon DEF TypeOK, DispatchAddsJob
<1>8. CASE EncodeWrites
  <2>1. work.attempt \in Attempts /\ work.child \in Procs
    BY <1>1, <1>8, WorkFields, Zenon DEF EncodeWrites
  <2>2. work' \in Work
    BY <1>8, <2>1, Zenon DEF EncodeWrites, Work
  <2> QED BY <1>1, <1>8, <2>1, <2>2, ZenonT(60) DEF TypeOK, EncodeWrites
<1>9. CASE EncodeReturns
  <2>1. work' \in Work
    BY <1>9, Zenon DEF EncodeReturns, Work
  <2> QED BY <1>1, <1>9, <2>1, Zenon DEF TypeOK, EncodeReturns
<1>10. CASE EncodeFails
  <2>1. work.attempt \in Attempts /\ work.child \in Procs
    BY <1>1, <1>10, WorkFields, Zenon DEF EncodeFails
  <2>2. work' \in Work
    BY <1>10, <2>1, Zenon DEF EncodeFails, Work
  <2> QED BY <1>1, <1>10, <2>1, <2>2, Zenon DEF TypeOK, EncodeFails
<1>11. CASE DispatchRefuses
  <2>1. work.attempt \in Attempts
    BY <1>1, <1>11, WorkFields, Zenon DEF DispatchRefuses
  <2>2. work' \in Work
    BY <1>11, <2>1, Zenon DEF DispatchRefuses, Work
  <2> QED BY <1>1, <1>11, <2>2, Zenon DEF TypeOK, DispatchRefuses
<1>12. ASSUME NEW recorded \in BOOLEAN, RefusalEnqueued(recorded)
       PROVE  TypeOK'
  <2>1. work.attempt \in Attempts
    BY <1>1, <1>12, WorkFields, Zenon DEF RefusalEnqueued
  <2>2. ConnectorCompletion(work.attempt, "refused") \in Entry
    BY <2>1, CompletionType, Zenon DEF CompletionBodies
  <2>3. outbox' \in SUBSET Entry /\ failure' \in Failure \cup {None}
    BY <1>12, <2>2, EnqueueTypes, Zenon DEF RefusalEnqueued
  <2>4. work' \in Work
    BY <1>12, Zenon DEF RefusalEnqueued, Work
  <2> QED BY <1>1, <1>12, <2>3, <2>4, Zenon DEF TypeOK, RefusalEnqueued
<1> QED
  BY <1>2, <1>3, <1>4, <1>5, <1>6, <1>7, <1>8, <1>9, <1>10, <1>11, <1>12, Zenon DEF WorkStep

\* What the flush is sending is an entry; without one there is no answer.
LEMMA FlushFields ==
    ASSUME flush \in Flush
    PROVE  /\ flush.sending # None => flush.sending \in Entry
           /\ flush.reply # "none" => flush.sending \in Entry
BY OutboxAssumption, Zenon DEF Flush

\* The steps of the delivery, and a restart, keep the types.
LEMMA DeliveryTypes ==
    ASSUME QueueInvariant, FlushStep \/ Restart
    PROVE  TypeOK'
<1>1. TypeOK /\ flush \in Flush /\ outbox \subseteq Entry
  BY Zenon DEF QueueInvariant, TypeOK
<1> USE DEF childVars, jobVars, serverVars
<1>2. NoFlush \in Flush
  BY Zenon DEF NoFlush, Flush
<1>3. ASSUME NEW e \in outbox, FlushSends(e)
      PROVE  TypeOK'
  <2>1. flush' \in Flush
    BY <1>1, <1>3, Zenon DEF FlushSends, Flush
  <2> QED BY <1>1, <1>3, <2>1, Zenon DEF TypeOK, FlushSends
<1>4. ASSUME NEW replied \in BOOLEAN, ServerApplies(replied)
      PROVE  TypeOK'
  <2>1. flush.sending \in Entry
    BY <1>1, <1>4, FlushFields, Zenon DEF ServerApplies
  <2>2. [sending |-> flush.sending, reply |-> "ack"] \in Flush
    BY <2>1, Zenon DEF Flush
  <2>3. flush' \in Flush
    BY <1>2, <1>4, <2>2, Zenon DEF ServerApplies
  <2> QED BY <1>1, <1>4, <2>1, <2>3, Zenon DEF TypeOK, ServerApplies
<1>5. CASE ServerRejects
  <2>1. flush.sending \in Entry
    BY <1>1, <1>5, FlushFields, Zenon DEF ServerRejects
  <2>2. flush' \in Flush
    BY <1>5, <2>1, Zenon DEF ServerRejects, Flush
  <2> QED BY <1>1, <1>5, <2>2, Zenon DEF TypeOK, ServerRejects
<1>6. CASE FlushFails
  BY <1>1, <1>2, <1>6, Zenon DEF TypeOK, FlushFails
<1>7. CASE RemoveAcknowledged
  BY <1>1, <1>2, <1>7, Zenon DEF TypeOK, RemoveAcknowledged, WithoutPath
<1>8. CASE RetainRejected
  <2>1. flush.sending \in Entry
    BY <1>1, <1>8, FlushFields, Zenon DEF RetainRejected
  <2>2. Completing({flush.sending}) \subseteq Attempts
    BY <2>1, EntryFields, Zenon DEF Completing, Terminals
  <2> QED BY <1>1, <1>2, <1>8, <2>2, ZenonT(60) DEF TypeOK, RetainRejected, WithoutPath
<1>9. CASE Restart
  <2>1. Idle \in Work
    BY Zenon DEF Idle, Work
  <2>2. sequence' \in [Attempts -> 0..MaxSequence]
    BY <1>9, OutboxAssumption DEF Restart
  <2> QED BY <1>1, <1>2, <1>9, <2>1, <2>2, Zenon
          DEF TypeOK, Restart, NoChildren, Unborn, NoJobs, Nothing
<1> QED BY <1>3, <1>4, <1>5, <1>6, <1>7, <1>8, <1>9, Zenon DEF FlushStep

\* Removing a path keeps the queue well formed.
LEMMA RemoveStep ==
    ASSUME QueueInvariant, outbox' = WithoutPath(outbox, flush.sending)
    PROVE  /\ IsFiniteSet(outbox')
           /\ \A x, y \in outbox' : SamePath(x, y) => x = y
           /\ Cardinality(Events(outbox')) <= MaxEntries - Claims
           /\ TotalBytes(Events(outbox')) <= MaxBytes - Claims * MaxBody
<1>1. /\ IsFiniteSet(outbox) /\ \A x, y \in outbox : SamePath(x, y) => x = y
      /\ Cardinality(Events(outbox)) <= MaxEntries - Claims
      /\ TotalBytes(Events(outbox)) <= MaxBytes - Claims * MaxBody
  BY Zenon DEF QueueInvariant
<1>2. outbox' \subseteq outbox
  BY Zenon DEF WithoutPath
<1>3. IsFiniteSet(outbox') /\ IsFiniteSet(Events(outbox))
  BY <1>1, <1>2, FS_Subset, Zenon DEF Events
<1>4. IsFiniteSet(Events(outbox')) /\ Events(outbox') \subseteq Events(outbox)
  BY <1>2, <1>3, FS_Subset, Zenon DEF Events
<1>5. Cardinality(Events(outbox')) <= Cardinality(Events(outbox))
  BY <1>3, <1>4, FS_Subset, Zenon
<1>6. TotalBytes(Events(outbox')) <= MaxBytes - Claims * MaxBody
  <2>1. TotalBytes(Events(outbox')) <= TotalBytes(Events(outbox))
    BY <1>3, <1>4, BytesGrow, Zenon
  <2> QED BY <1>1, <1>3, <1>4, <2>1, BytesFinite, ByteLimits
<1>7. Cardinality(Events(outbox')) <= MaxEntries - Claims
  BY <1>1, <1>3, <1>4, <1>5, FS_CardinalityType, Limits
<1> QED
  BY <1>1, <1>2, <1>3, <1>6, <1>7, Zenon

\* A step that touches neither the queue nor its delivery keeps QueueInvariant.
LEMMA QueueUntouched ==
    ASSUME QueueInvariant, TypeOK', UNCHANGED <<outbox, flush, applied>>
    PROVE  QueueInvariant'
BY Zenon DEF QueueInvariant, Events, SamePath

\* So does one that records an outcome.
LEMMA QueueRecorded ==
    ASSUME QueueInvariant, TypeOK', NEW e \in Entry, NEW recorded \in BOOLEAN,
           EnqueueOutcome(e, recorded), UNCHANGED <<flush, applied>>
    PROVE  QueueInvariant'
<1>1. /\ outbox \subseteq outbox' /\ IsFiniteSet(outbox')
      /\ \A x, y \in outbox' : SamePath(x, y) => x = y
      /\ Cardinality(Events(outbox')) <= MaxEntries - Claims
      /\ TotalBytes(Events(outbox')) <= MaxBytes - Claims * MaxBody
  BY EnqueueStep, ZenonT(60)
<1> QED BY <1>1, Zenon DEF QueueInvariant

\* A step of a child either records the outcome its reader or settleChild holds, or
\* leaves the queue alone.
LEMMA ChildEffect ==
    ASSUME QueueInvariant, ChildStep
    PROVE  /\ UNCHANGED <<flush, sent, applied, closed>>
           /\ \/ UNCHANGED <<outbox, failure>>
              \/ \E e \in Entry, recorded \in BOOLEAN : EnqueueOutcome(e, recorded)
<1>1. TypeOK
  BY DEF QueueInvariant
<1>2. ASSUME NEW p \in Procs, NEW recorded \in BOOLEAN, ReaderEnqueues(p, recorded)
      PROVE  \E e \in Entry : EnqueueOutcome(e, recorded)
  <2>1. handling[p] \in Entry
    BY <1>1, <1>2, Zenon DEF TypeOK, ReaderEnqueues
  <2> QED BY <1>2, <2>1, Zenon DEF ReaderEnqueues
<1>3. ASSUME NEW p \in Procs, NEW a \in Attempts, NEW recorded \in BOOLEAN,
             SettleEnqueues(p, a, recorded)
      PROVE  \E e \in Entry : EnqueueOutcome(e, recorded)
  <2>1. ConnectorCompletion(a, "exited") \in Entry
    BY CompletionType DEF CompletionBodies
  <2> QED BY <1>3, <2>1, Zenon DEF SettleEnqueues
<1> QED
  BY <1>2, <1>3 DEF ChildStep, Launch, StopBegins, StopEnds, Exit, ReaderFindsJob,
     ReaderEnqueues, RemoveJob, Drain, SettleBegins, SettleEnqueues, SettleEnds, serverVars

\* The demand loop records only the completion of a job it could not dispatch.
LEMMA WorkEffect ==
    ASSUME QueueInvariant, WorkStep
    PROVE  /\ UNCHANGED <<flush, applied, closed>>
           /\ \/ UNCHANGED <<outbox, failure>>
              \/ \E e \in Entry, recorded \in BOOLEAN : EnqueueOutcome(e, recorded)
<1>1. TypeOK /\ work \in Work
  BY DEF QueueInvariant, TypeOK
<1>2. ASSUME NEW recorded \in BOOLEAN, RefusalEnqueued(recorded)
      PROVE  \E e \in Entry : EnqueueOutcome(e, recorded)
  <2>1. work.attempt \in Attempts
    BY <1>1, <1>2, WorkFields, Zenon DEF RefusalEnqueued
  <2>2. ConnectorCompletion(work.attempt, "refused") \in Entry
    BY <2>1, CompletionType DEF CompletionBodies
  <2> QED BY <1>2, <2>2, Zenon DEF RefusalEnqueued
<1> QED
  BY <1>2, ZenonT(60) DEF WorkStep, ReadStatuses, ReadOutbox, ServerSendsJob, DemandEnds,
     DispatchFindsChild, DispatchAddsJob, EncodeWrites, EncodeReturns, EncodeFails,
     DispatchRefuses, RefusalEnqueued, serverVars

\* QueueInvariant is inductive.
LEMMA QueueNext ==
    ASSUME QueueInvariant, [Next]_vars
    PROVE  QueueInvariant'
<1>1. CASE ChildStep
  BY <1>1, ChildEffect, ChildTypes, QueueUntouched, QueueRecorded, Zenon
<1>2. CASE WorkStep
  BY <1>2, WorkEffect, WorkTypes, QueueUntouched, QueueRecorded, Zenon
<1>3. CASE FlushStep
  <2>1. TypeOK'
    BY <1>3, DeliveryTypes, Zenon
  <2>2. ASSUME NEW e \in outbox, FlushSends(e)
        PROVE  QueueInvariant'
    BY <2>1, <2>2, ZenonT(60) DEF QueueInvariant, FlushSends, serverVars, Events, SamePath
  <2>3. ASSUME NEW replied \in BOOLEAN, ServerApplies(replied)
        PROVE  QueueInvariant'
    BY <2>1, <2>3, Zenon DEF QueueInvariant, ServerApplies, NoFlush, Events, SamePath
  <2>4. CASE ServerRejects
    BY <2>1, <2>4, Zenon DEF QueueInvariant, ServerRejects, serverVars, Events, SamePath
  <2>5. CASE FlushFails
    BY <2>1, <2>5, Zenon DEF QueueInvariant, FlushFails, NoFlush, serverVars, Events, SamePath
  <2>6. CASE RemoveAcknowledged
    BY <2>1, <2>6, RemoveStep, Zenon DEF QueueInvariant, RemoveAcknowledged, NoFlush, serverVars
  <2>7. CASE RetainRejected
    BY <2>1, <2>7, RemoveStep, Zenon DEF QueueInvariant, RetainRejected, NoFlush, serverVars
  <2> QED BY <1>3, <2>2, <2>3, <2>4, <2>5, <2>6, <2>7, Zenon DEF FlushStep
<1>4. CASE Restart
  <2>1. TypeOK'
    BY <1>4, DeliveryTypes, Zenon
  <2> QED BY <1>4, <2>1, Zenon DEF QueueInvariant, Restart, NoFlush, serverVars, Events, SamePath
<1>5. CASE UNCHANGED vars
  <2>1. TypeOK'
    BY <1>5, Zenon DEF QueueInvariant, TypeOK, vars
  <2> QED BY <1>5, <2>1, QueueUntouched, Zenon DEF vars
<1> QED BY <1>1, <1>2, <1>3, <1>4, <1>5, Zenon DEF Next

\* The initial state is well formed.
LEMMA QueueInit == Init => QueueInvariant
<1> SUFFICES ASSUME Init PROVE QueueInvariant
  BY Zenon
<1>1. TypeOK
  <2>1. work \in Work /\ flush \in Flush
    BY Zenon DEF Init, Idle, Work, NoFlush, Flush
  <2>2. sequence \in [Attempts -> 0..MaxSequence]
    BY OutboxAssumption DEF Init
  <2> QED BY <2>1, <2>2, Zenon DEF Init, TypeOK, NoChildren, Unborn, NoJobs, Nothing
<1>2. Events(outbox) = {} /\ IsFiniteSet(outbox)
  BY FS_EmptySet, Zenon DEF Init, Events
<1>3. Cardinality(Events(outbox)) <= MaxEntries - Claims
  BY <1>2, FS_EmptySet, Limits
<1>4. TotalBytes(Events(outbox)) <= MaxBytes - Claims * MaxBody
  <2>1. QueuedBytes({}) = {}
    BY Zenon DEF QueuedBytes
  <2>2. TotalBytes(Events(outbox)) = 0
    BY <1>2, <2>1, FS_EmptySet, Zenon DEF TotalBytes
  <2> QED BY <2>2, ByteLimits
<1> QED BY <1>1, <1>2, <1>3, <1>4, Zenon DEF QueueInvariant, Init, NoFlush

\* What leaves the queue was answered: the flush removes the path it read, and the
\* payload at that path is still the one it sent.
LEMMA OnlyAnsweredLeave ==
    ASSUME QueueInvariant, [Next]_vars, NEW e \in outbox, e \notin outbox'
    PROVE  /\ RemoveAcknowledged \/ RetainRejected
           /\ e = flush.sending
           /\ e \in applied \/ flush.reply = "rejected"
<1>1. ~ChildStep
  BY ChildEffect, EnqueueStep, Zenon
<1>2. ~WorkStep
  BY WorkEffect, EnqueueStep, Zenon
<1>3. RemoveAcknowledged \/ RetainRejected
  BY <1>1, <1>2, Zenon DEF Next, FlushStep, FlushSends, ServerApplies, ServerRejects, FlushFails,
     Restart, vars
<1>4. SamePath(e, flush.sending) /\ flush.reply \in {"ack", "rejected"}
  BY <1>3, Zenon DEF RemoveAcknowledged, RetainRejected, WithoutPath
<1>5. flush.sending \in outbox
  <2>1. flush.sending # None
    BY <1>4, FlushFields, OutboxAssumption, Zenon DEF QueueInvariant, TypeOK
  <2> QED BY <2>1, Zenon DEF QueueInvariant
<1> QED BY <1>3, <1>4, <1>5, Zenon DEF QueueInvariant

----------------------------------------------------------------------------
(* No attempt is forgotten, and completions find room.                     *)

\* A settled attempt stays settled while the host runs.
LEMMA SettledStays ==
    ASSUME QueueInvariant, [Next]_vars, ~Restart, NEW a, Settled(a)
    PROVE  Settled(a)'
<1>1. closed \subseteq closed' /\ applied \subseteq applied'
  BY ChildEffect, WorkEffect, Zenon DEF Next, FlushStep, FlushSends, ServerApplies, ServerRejects,
     FlushFails, RemoveAcknowledged, RetainRejected, vars, serverVars
<1>2. CASE a \in Completing(outbox)
  <2>1. PICK e \in outbox : ~IsEvent(e) /\ e.attempt = a
    BY <1>2, Zenon DEF Completing, Terminals
  <2>2. CASE e \in outbox'
    BY <2>1, <2>2, CompletingHas, Zenon DEF Settled
  <2>3. CASE e \notin outbox'
    <3>1. /\ RemoveAcknowledged \/ RetainRejected
          /\ e = flush.sending /\ (e \in applied \/ flush.reply = "rejected")
      BY <2>3, OnlyAnsweredLeave, Zenon
    <3>2. CASE RetainRejected
      <4>1. a \in Completing({flush.sending})
        BY <2>1, <3>1, CompletingHas, Zenon
      <4> QED BY <3>2, <4>1, Zenon DEF RetainRejected, Settled
    <3>3. CASE RemoveAcknowledged
      <4>1. e \in applied
        BY <3>1, <3>3, Zenon DEF RemoveAcknowledged
      <4>2. a \in Completing(applied')
        BY <4>1, <1>1, <2>1, CompletingHas, Zenon
      <4> QED BY <4>2, Zenon DEF Settled
    <3> QED BY <3>1, <3>2, <3>3, Zenon
  <2> QED BY <2>2, <2>3, Zenon
<1>3. CASE a \in Completing(applied)
  BY <1>1, <1>3, CompletingGrows, Zenon DEF Settled
<1>4. CASE a \in closed
  BY <1>1, <1>4, Zenon DEF Settled
<1> QED BY <1>2, <1>3, <1>4, Zenon DEF Settled

\* The job accounting of JobsInvariant: every job handed out is settled, active in a
\* child, or on its way through Dispatch.
Owned(a) ==
    \/ Settled(a)
    \/ \E p \in Procs : a \in active[p]
    \/ a = work.attempt /\ work.step \in {"arrived", "found", "refused"}

Accounted ==
    /\ \A p \in Procs : closing[p] # None => Settled(closing[p])
    /\ \A a \in sent : Owned(a)

\* JobsInvariant is QueueInvariant and the accounting.
LEMMA JobsSplit ==
    JobsInvariant <=> /\ QueueInvariant
                      /\ reading # None => work = Idle
                      /\ failure = None => Accounted
BY Zenon DEF JobsInvariant, Accounted, Owned

\* A host that has failed stays so until it restarts.
LEMMA FailureStays ==
    ASSUME QueueInvariant, [Next]_vars, ~Restart, failure # None
    PROVE  failure' # None
<1>1. CASE ChildStep
  BY <1>1, ChildEffect, EnqueueStep, Zenon
<1>2. CASE WorkStep
  BY <1>2, WorkEffect, EnqueueStep, Zenon
<1> QED
  BY <1>1, <1>2, Zenon DEF Next, FlushStep, FlushSends, ServerApplies, ServerRejects, FlushFails,
     RemoveAcknowledged, RetainRejected, vars

\* A step that leaves the jobs in their places keeps the accounting.
LEMMA AccountedStays ==
    ASSUME QueueInvariant, [Next]_vars, ~Restart, Accounted,
           UNCHANGED <<closing, active, sent>>,
           \/ UNCHANGED work
           \/ work'.attempt = work.attempt /\ work'.step \in {"arrived", "found", "refused"}
           \/ work.step \in {"idle", "demanding", "added", "written"}
    PROVE  Accounted'
<1>1. \A a : Settled(a) => Settled(a)'
  BY SettledStays, Zenon
<1>2. (\A p \in Procs : closing[p] # None => Settled(closing[p]))'
  BY <1>1, Zenon DEF Accounted, Settled
<1>3. \A a \in sent' : Owned(a)'
  BY <1>1, Zenon DEF Accounted, Owned
<1> QED BY <1>2, <1>3, Zenon DEF Accounted

\* activeAttempts is read by an idle demand loop.
LEMMA ReadingStays ==
    ASSUME QueueInvariant, [Next]_vars, reading # None => work = Idle
    PROVE  (reading # None => work = Idle)'
<1>1. CASE ChildStep
  BY <1>1, SMTT(30) DEF ChildStep, Launch, StopBegins, StopEnds, Exit, ReaderFindsJob,
     ReaderEnqueues, RemoveJob, Drain, SettleBegins, SettleEnqueues, SettleEnds
<1>2. CASE WorkStep
  BY <1>2, SMTT(30) DEF WorkStep, ReadStatuses, ReadOutbox, ServerSendsJob, DemandEnds,
     DispatchFindsChild, DispatchAddsJob, EncodeWrites, EncodeReturns, EncodeFails,
     DispatchRefuses, RefusalEnqueued, Idle
<1>3. CASE FlushStep
  BY <1>3, Zenon DEF FlushStep, FlushSends, ServerApplies, ServerRejects, FlushFails,
     RemoveAcknowledged, RetainRejected
<1>4. CASE Restart \/ UNCHANGED vars
  BY <1>4, Zenon DEF Restart, vars
<1> QED BY <1>1, <1>2, <1>3, <1>4, ZenonT(60) DEF Next

\* The steps of the child processes keep the accounting, or stop the host.
LEMMA ChildAccounted ==
    ASSUME QueueInvariant, Accounted, ChildStep, ~Restart
    PROVE  failure' # None \/ Accounted'
<1>1. TypeOK
  BY Zenon DEF QueueInvariant
<1>2. /\ [Next]_vars /\ UNCHANGED sent
      /\ \A a : Settled(a) => Settled(a)'
  BY SettledStays, ChildEffect, Zenon DEF Next
<1>3. ASSUME UNCHANGED <<closing, active, work>>
      PROVE  Accounted'
  BY <1>2, <1>3, AccountedStays, Zenon
<1>4. ASSUME NEW p \in Procs, NEW recorded \in BOOLEAN, ReaderEnqueues(p, recorded)
      PROVE  failure' # None \/ Accounted'
  <2>1. handling[p] \in Entry /\ EnqueueOutcome(handling[p], recorded)
    BY <1>1, <1>4, Zenon DEF TypeOK, ReaderEnqueues
  <2>2. closing' \in [Procs -> Attempts \cup {None}] /\ UNCHANGED <<active, work>>
    BY <1>1, <1>4, <2>1, EntryFields, Zenon DEF TypeOK, ReaderEnqueues
  <2>3. recorded => handling[p] \in outbox'
    BY <2>1, EnqueueStep, ZenonT(60)
  <2> PICK b : b = handling[p].attempt
    BY Zenon
  <2>4. recorded /\ ~IsEvent(handling[p]) => Settled(b)'
    BY <2>3, CompletingHas, Zenon DEF Settled
  <2>5. (\A q \in Procs : closing[q] # None => Settled(closing[q]))'
    <3> SUFFICES ASSUME NEW q \in Procs, closing'[q] # None
                 PROVE  \E c : closing'[q] = c /\ Settled(c)'
      BY Zenon DEF Settled
    <3>1. CASE q = p
      BY <3>1, <1>1, <1>4, <2>4, Zenon DEF TypeOK, ReaderEnqueues
    <3>2. CASE q # p
      BY <3>2, <1>1, <1>2, <1>4, Zenon DEF TypeOK, ReaderEnqueues, Accounted
    <3> QED BY <3>1, <3>2, Zenon
  <2>6. (\A a \in sent : Owned(a))'
    BY <1>2, <2>2, Zenon DEF Accounted, Owned
  <2> QED BY <2>5, <2>6, Zenon DEF Accounted
<1>5. ASSUME NEW p \in Procs, RemoveJob(p)
      PROVE  Accounted'
  <2>1. Settled(closing[p]) /\ UNCHANGED work
    BY <1>5, Zenon DEF RemoveJob, Accounted
  <2>2. (\A q \in Procs : closing[q] # None => Settled(closing[q]))'
    <3> SUFFICES ASSUME NEW q \in Procs, closing'[q] # None
                 PROVE  closing'[q] = closing[q] /\ Settled(closing[q])'
      BY Zenon DEF Settled
    <3> QED BY <1>1, <1>2, <1>5, Zenon DEF TypeOK, RemoveJob, Accounted
  <2>4. (\A a \in sent : Owned(a))'
    <3> SUFFICES ASSUME NEW a \in sent
                 PROVE  Owned(a)'
      BY <1>2, Zenon
    <3>1. CASE a = closing[p]
      BY <3>1, <2>1, <1>2, Zenon DEF Owned
    <3>2. CASE a # closing[p]
      <4>1. \A q \in Procs : a \in active[q] => a \in active'[q]
        BY <3>2, <1>1, <1>5, Zenon DEF TypeOK, RemoveJob
      <4> QED BY <4>1, <2>1, <1>2, Zenon DEF Owned, Accounted
    <3> QED BY <3>1, <3>2, Zenon
  <2> QED BY <2>2, <2>4, Zenon DEF Accounted
<1>6. ASSUME NEW p \in Procs, NEW b \in Attempts, NEW recorded \in BOOLEAN,
             SettleEnqueues(p, b, recorded)
      PROVE  failure' # None \/ Accounted'
  <2> DEFINE e == ConnectorCompletion(b, "exited")
  <2>1. e \in Entry /\ ~IsEvent(e) /\ e.attempt = b
    BY CompletionType, Zenon DEF CompletionBodies
  <2> HIDE DEF e
  <2>2. /\ EnqueueOutcome(e, recorded) /\ UNCHANGED <<active, work>>
        /\ closing' = [closing EXCEPT ![p] = b]
    BY <1>6, Zenon DEF SettleEnqueues, e
  <2>3. (recorded => e \in outbox') /\ (~recorded => failure' # None)
    BY <2>1, <2>2, EnqueueStep, Zenon
  <2>4. CASE recorded
    <3>1. Settled(b)'
      BY <2>1, <2>3, <2>4, CompletingHas, Zenon DEF Settled
    <3>2. (\A q \in Procs : closing[q] # None => Settled(closing[q]))'
      <4> SUFFICES ASSUME NEW q \in Procs, closing'[q] # None
                   PROVE  (closing'[q] = b /\ Settled(b)')
                          \/ (closing'[q] = closing[q] /\ Settled(closing[q])')
        BY Zenon DEF Settled
      <4> QED BY <1>1, <1>2, <2>2, <3>1, Zenon DEF TypeOK, Accounted
    <3>3. (\A a \in sent : Owned(a))'
      BY <1>2, <2>2, Zenon DEF Accounted, Owned
    <3> QED BY <3>2, <3>3, Zenon DEF Accounted
  <2> QED BY <2>3, <2>4, Zenon
<1> QED
  BY <1>3, <1>4, <1>5, <1>6, Zenon DEF ChildStep, Launch, StopBegins, StopEnds, Exit,
     ReaderFindsJob, Drain, SettleBegins, SettleEnds, jobVars

\* So do those of the demand loop.
LEMMA WorkAccounted ==
    ASSUME QueueInvariant, Accounted, WorkStep, ~Restart, reading # None => work = Idle
    PROVE  failure' # None \/ Accounted'
<1>1. TypeOK /\ work \in Work
  BY Zenon DEF QueueInvariant, TypeOK
<1>2. [Next]_vars /\ \A a : Settled(a) => Settled(a)'
  BY SettledStays, Zenon DEF Next
<1>3. CASE ReadStatuses
  BY <1>2, <1>3, AccountedStays, Zenon DEF ReadStatuses, jobVars, serverVars
<1>4. CASE ReadOutbox
  <2>1. work.step = "idle" /\ UNCHANGED <<closing, active, sent>>
    BY <1>4 DEF ReadOutbox, Idle, jobVars, serverVars
  <2> QED BY <1>2, <2>1, AccountedStays, Zenon
<1>5. ASSUME NEW b \in Attempts, ServerSendsJob(b)
      PROVE  Accounted'
  <2>1. /\ UNCHANGED <<closing, active>> /\ sent' = sent \cup {b} /\ work.step = "demanding"
        /\ work'.attempt = b /\ work'.step = "arrived"
    BY <1>5, Zenon DEF ServerSendsJob, jobVars
  <2>2. (\A p \in Procs : closing[p] # None => Settled(closing[p]))'
    BY <1>2, <2>1, Zenon DEF Accounted, Settled
  <2>3. (\A a \in sent : Owned(a))'
    BY <1>2, <2>1, Zenon DEF Accounted, Owned
  <2> QED BY <2>2, <2>3, Zenon DEF Accounted
<1>6. CASE DemandEnds
  BY <1>2, <1>6, AccountedStays, Zenon DEF DemandEnds, jobVars, serverVars
<1>7. ASSUME NEW id \in Ids, DispatchFindsChild(id)
      PROVE  Accounted'
  <2>1. /\ work'.attempt = work.attempt /\ work'.step = "found"
        /\ UNCHANGED <<closing, active, sent>>
    BY <1>7, Zenon DEF DispatchFindsChild, jobVars, serverVars
  <2> QED BY <1>2, <2>1, AccountedStays, Zenon
<1>8. CASE DispatchAddsJob
  <2>1. work.attempt \in Attempts /\ work.child \in Procs
    BY <1>1, <1>8, WorkFields, Zenon DEF DispatchAddsJob
  <2>2. /\ UNCHANGED <<closing, sent>>
        /\ work.attempt \in active'[work.child]
        /\ \A p \in Procs : active[p] \subseteq active'[p]
    BY <1>1, <1>8, <2>1, Zenon DEF TypeOK, DispatchAddsJob, serverVars
  <2>3. (\A p \in Procs : closing[p] # None => Settled(closing[p]))'
    BY <1>2, <2>2, Zenon DEF Accounted, Settled
  <2>4. (\A a \in sent : Owned(a))'
    BY <1>2, <2>1, <2>2, Zenon DEF Accounted, Owned
  <2> QED BY <2>3, <2>4, Zenon DEF Accounted
<1>9. CASE EncodeWrites
  BY <1>2, <1>9, AccountedStays, Zenon DEF EncodeWrites, serverVars
<1>10. CASE EncodeReturns
  BY <1>2, <1>10, AccountedStays, Zenon DEF EncodeReturns, jobVars, serverVars
<1>11. CASE EncodeFails
  <2>1. work.attempt \in Attempts /\ work.child \in Procs
    BY <1>1, <1>11, WorkFields, Zenon DEF EncodeFails
  <2>2. /\ UNCHANGED <<closing, sent>> /\ work.step \in {"added", "written"}
        /\ work'.attempt = work.attempt /\ work'.step = "refused"
    BY <1>11, Zenon DEF EncodeFails, serverVars
  <2>3. \A p \in Procs : active[p] \ {work.attempt} \subseteq active'[p]
    BY <1>1, <1>11, <2>1, Zenon DEF TypeOK, EncodeFails
  <2>4. (\A p \in Procs : closing[p] # None => Settled(closing[p]))'
    BY <1>2, <2>2, Zenon DEF Accounted, Settled
  <2>5. (\A a \in sent : Owned(a))'
    BY <1>2, <2>2, <2>3, Zenon DEF Accounted, Owned
  <2> QED BY <2>4, <2>5 DEF Accounted
<1>12. CASE DispatchRefuses
  <2>1. /\ work'.attempt = work.attempt /\ work'.step = "refused"
        /\ UNCHANGED <<closing, active, sent>>
    BY <1>12, Zenon DEF DispatchRefuses, jobVars, serverVars
  <2> QED BY <1>2, <2>1, AccountedStays, Zenon
<1>13. ASSUME NEW recorded \in BOOLEAN, RefusalEnqueued(recorded)
       PROVE  failure' # None \/ Accounted'
  <2> PICK b : b = work.attempt
    BY Zenon
  <2> DEFINE e == ConnectorCompletion(b, "refused")
  <2>1. e \in Entry /\ ~IsEvent(e) /\ e.attempt = b
    BY <1>1, <1>13, WorkFields, CompletionType, Zenon DEF CompletionBodies, RefusalEnqueued
  <2>2. EnqueueOutcome(e, recorded) /\ UNCHANGED <<closing, active, sent>>
    BY <1>13, Zenon DEF RefusalEnqueued, jobVars, serverVars
  <2> HIDE DEF e
  <2>3. (recorded => e \in outbox') /\ (~recorded => failure' # None)
    BY <2>1, <2>2, EnqueueStep, Zenon
  <2>4. CASE recorded
    <3>1. Settled(b)'
      BY <2>1, <2>3, <2>4, CompletingHas, Zenon DEF Settled
    <3>2. (\A p \in Procs : closing[p] # None => Settled(closing[p]))'
      BY <1>2, <2>2, Zenon DEF Accounted, Settled
    <3>3. (\A a \in sent : Owned(a))'
      BY <1>2, <2>2, <3>1, Zenon DEF Accounted, Owned
    <3> QED BY <3>2, <3>3, Zenon DEF Accounted
  <2> QED BY <2>3, <2>4, Zenon
<1> QED
  BY <1>3, <1>4, <1>5, <1>6, <1>7, <1>8, <1>9, <1>10, <1>11, <1>12, <1>13, Zenon DEF WorkStep

\* JobsInvariant is inductive.
LEMMA JobsNext ==
    ASSUME JobsInvariant, [Next]_vars
    PROVE  JobsInvariant'
<1>1. QueueInvariant /\ (reading # None => work = Idle) /\ (failure = None => Accounted)
  BY JobsSplit, Zenon
<1>2. QueueInvariant' /\ (reading # None => work = Idle)'
  BY <1>1, QueueNext, ReadingStays, Zenon
<1>3. CASE Restart
  <2>1. /\ closing' = Nothing /\ closed' = sent \ Completing(outbox)
        /\ UNCHANGED <<outbox, applied, sent>>
    BY <1>3, Zenon DEF Restart, serverVars
  <2>2. (\A p \in Procs : closing[p] # None => Settled(closing[p]))'
    BY <2>1, Zenon DEF Nothing
  <2>3. (\A a \in sent : Owned(a))'
    BY <2>1, Zenon DEF Owned, Settled
  <2>4. Accounted'
    BY <2>2, <2>3, Zenon DEF Accounted
  <2> QED BY <1>2, <2>4, Zenon DEF JobsInvariant, Accounted, Owned
<1>4. CASE ~Restart
  <2>1. ASSUME failure' = None
        PROVE  Accounted'
    <3>1. Accounted
      BY <1>1, <1>4, <2>1, FailureStays, Zenon
    <3>2. CASE ChildStep
      BY <1>1, <1>4, <2>1, <3>1, <3>2, ChildAccounted, Zenon
    <3>3. CASE WorkStep
      BY <1>1, <1>4, <2>1, <3>1, <3>3, WorkAccounted, Zenon
    <3>4. CASE FlushStep \/ UNCHANGED vars
      <4>1. UNCHANGED <<closing, active, sent, work>>
        BY <3>4, Zenon DEF FlushStep, FlushSends, ServerApplies, ServerRejects, FlushFails,
           RemoveAcknowledged, RetainRejected, vars, jobVars, serverVars
      <4> QED BY <1>1, <1>4, <3>1, <4>1, AccountedStays, Zenon
    <3> QED BY <1>4, <3>2, <3>3, <3>4, Zenon DEF Next
  <2> QED BY <1>2, <2>1, Zenon DEF JobsInvariant, Accounted, Owned
<1> QED BY <1>3, <1>4, Zenon

\* At the start nothing was handed out.
LEMMA JobsInit == Init => JobsInvariant
BY QueueInit, ZenonT(30) DEF Init, JobsInvariant, Nothing

\* JobsInvariant always holds: the queue is well formed, and every job is accounted
\* for (outbox.go, supervisor.go).
THEOREM JobsCorrect == Spec => []JobsInvariant
<1>1. JobsInvariant /\ [Next]_vars => JobsInvariant'
  BY JobsNext, Zenon
<1> QED BY <1>1, JobsInit, PTL DEF Spec

\* No job is silently dropped, for any number of connectors, processes and jobs
\* and whatever the limits of the queue (handleWork, Dispatch, settleChild).
THEOREM NothingForgotten == Spec => []NoAttemptForgotten
<1>1. JobsInvariant => NoAttemptForgotten
  BY Zenon DEF JobsInvariant, NoAttemptForgotten, Settled
<1> QED BY <1>1, JobsCorrect, PTL

\* Events never use up the entries reserved for completions (enqueueOutcome).
THEOREM ReserveKept == Spec => []EntriesFit
<1>1. QueueInvariant => EntriesFit
  <2> SUFFICES ASSUME QueueInvariant, Cardinality(Terminals(outbox)) < Claims
               PROVE  Cardinality(outbox) < MaxEntries
    BY Zenon DEF EntriesFit
  <2>1. IsFiniteSet(outbox) /\ Cardinality(Events(outbox)) <= MaxEntries - Claims
    BY Zenon DEF QueueInvariant
  <2>2. IsFiniteSet(Events(outbox)) /\ IsFiniteSet(Terminals(outbox))
    BY <2>1, FS_Subset, Zenon DEF Events, Terminals
  <2>3. /\ outbox = Events(outbox) \cup Terminals(outbox)
        /\ Events(outbox) \cap Terminals(outbox) = {}
    BY Zenon DEF Events, Terminals
  <2>4. Cardinality(outbox) = Cardinality(Events(outbox)) + Cardinality(Terminals(outbox))
    <3>1. Cardinality(Events(outbox) \cup Terminals(outbox))
            = Cardinality(Events(outbox)) + Cardinality(Terminals(outbox))
              - Cardinality(Events(outbox) \cap Terminals(outbox))
      BY <2>2, FS_Union, Zenon
    <3>2. Cardinality(Events(outbox) \cap Terminals(outbox)) = 0
      BY <2>3, FS_EmptySet, Zenon
    <3>3. Cardinality(Events(outbox)) \in Nat /\ Cardinality(Terminals(outbox)) \in Nat
      BY <2>2, FS_CardinalityType, Zenon
    <3> HIDE DEF Events, Terminals
    <3>4. Cardinality(Events(outbox) \cup Terminals(outbox)) = Cardinality(outbox)
      BY <2>3, Zenon
    <3> QED BY <3>1, <3>2, <3>3, <3>4
  <2> QED BY <2>1, <2>2, <2>4, FS_CardinalityType, Limits
<1>2. JobsInvariant => QueueInvariant
  BY Zenon DEF JobsInvariant
<1> QED BY <1>1, <1>2, JobsCorrect, PTL

\* Nor the bytes: a completion of the largest size fits as long as fewer than Claims
\* are queued (enqueueOutcome).
THEOREM ByteReserveKept == Spec => []BytesFit
<1>1. QueueInvariant => BytesFit
  <2> SUFFICES ASSUME QueueInvariant, Cardinality(Terminals(outbox)) < Claims
               PROVE  TotalBytes(outbox) + MaxBody <= MaxBytes
    BY Zenon DEF BytesFit
  <2>1. IsFiniteSet(outbox) /\ TotalBytes(Events(outbox)) <= MaxBytes - Claims * MaxBody
    BY Zenon DEF QueueInvariant
  <2>2. IsFiniteSet(Events(outbox)) /\ IsFiniteSet(Terminals(outbox))
    BY <2>1, FS_Subset, Zenon DEF Events, Terminals
  <2>3. /\ outbox = Events(outbox) \cup Terminals(outbox)
        /\ Events(outbox) \cap Terminals(outbox) = {}
    BY DEF Events, Terminals
  <2>4. TotalBytes(outbox) = TotalBytes(Events(outbox)) + TotalBytes(Terminals(outbox))
    BY <2>2, <2>3, BytesAdd, Zenon
  <2>5. PICK n \in Nat : n = Cardinality(Terminals(outbox))
    BY <2>2, FS_CardinalityType, Zenon
  <2>6. TotalBytes(Terminals(outbox)) <= n * MaxBody
    BY <2>2, <2>5, BytesFinite, Zenon
  <2>7. n * MaxBody + MaxBody <= Claims * MaxBody
    <3> DEFINE k == Claims - (n + 1)
    <3>1. k \in Nat /\ Claims = n + 1 + k
      BY <2>5, OutboxAssumption
    <3> HIDE DEF k
    <3>2. Claims * MaxBody = n * MaxBody + MaxBody + k * MaxBody
      BY <3>1, OutboxAssumption
    <3>3. k * MaxBody \in Nat /\ n * MaxBody \in Nat
      BY <2>5, <3>1, OutboxAssumption
    <3> QED BY <3>2, <3>3, OutboxAssumption
  <2>8. /\ TotalBytes(Events(outbox)) \in Nat /\ TotalBytes(Terminals(outbox)) \in Nat
        /\ n * MaxBody \in Nat /\ Claims * MaxBody \in Nat
    BY <2>2, <2>5, BytesFinite, OutboxAssumption
  <2> QED BY <2>1, <2>4, <2>6, <2>7, <2>8, OutboxAssumption
<1>2. JobsInvariant => QueueInvariant
  BY DEF JobsInvariant
<1> QED BY <1>1, <1>2, JobsCorrect, PTL

\* The queue loses an entry only once the server has applied or rejected that very
\* payload (flushConnectorOutcomes).
THEOREM DeletedCorrect == Spec => DeletedOnlyWhenAnswered
<1>1. JobsInvariant /\ [Next]_vars => [LeavesAnswered]_vars
  BY OnlyAnsweredLeave, Zenon DEF JobsInvariant, LeavesAnswered
<1> QED BY <1>1, JobsCorrect, PTL DEF Spec, DeletedOnlyWhenAnswered
============================================================================
