------------------------- MODULE ManagementProofs --------------------------
(***************************************************************************)
(* The inductive invariant of Management and the properties that follow    *)
(* from it.                                                                *)
(***************************************************************************)
EXTENDS ManagementSteps

----------------------------------------------------------------------------
(* What was executed is journalled, or completed.                          *)

\* JournalKept is preserved.
LEMMA JournalStaysKept ==
    ASSUME Consistent, Stepped, Next
    PROVE  JournalKept'
<1>1. /\ op \in Operation /\ applied \in [Jobs -> Nat] /\ sending \in Completion \cup {None}
      /\ journal \in [Jobs -> ManagementOutcome \cup {None}]
      /\ completed \in [Jobs -> Completion \cup {None}]
  BY Zenon DEF Consistent, Typed, TypeOK
<1>2. \A j \in Jobs : completed[j] # None => completed'[j] # None
  BY CompletedStays, Zenon DEF Consistent
<1>3. ASSUME NEW j \in Jobs, journal'[j] = None, applied'[j] > 0 PROVE completed'[j] # None
  <2>1. applied'[j] = applied[j]
    <3>1. ASSUME journal' = journal, \/ op.step \in {"executing", "staged"} /\ op.job = j
                                     \/ Running(j)
          PROVE  FALSE
      <4>1. Running(j)
        BY <3>1, Zenon DEF Consistent, ExecutionCoherent, ExecutionSteps
      <4> QED BY <1>3, <3>1, <4>1, Zenon DEF Running
    <3> QED BY <3>1, Zenon DEF Stepped, AppliedStep
  <2>2. CASE journal[j] = None
    BY <1>2, <1>3, <2>1, <2>2, Zenon DEF Consistent, JournalKept
  <2>3. CASE op.step = "journalled" /\ op.job = j
    <3>1. applied[j] = 0
      BY <2>3, Zenon DEF Consistent, ExecutionCoherent, ExecutionSteps
    <3> QED BY <1>3, <2>1, <3>1
  <2> QED BY <1>3, <2>2, <2>3, Zenon DEF Stepped, JournalStep
<1>4. ASSUME NEW j \in Jobs, ~Running(j), journal[j] # None \/ completed[j] # None
      PROVE  ~(journal'[j] # None /\ journal'[j].status = "running")
  <2>1. ASSUME journal'[j] # None, journal'[j].status = "running" PROVE FALSE
    <3>1. journal'[j] # journal[j]
      BY <1>4, <2>1, Zenon DEF Running
    <3>2. journal[j] = None /\ journal'[j].token \in Tokens /\ <<j, journal'[j].token>> \in waiting
      BY <2>1, <3>1, ZenonT(60) DEF Stepped, JournalStep
    <3> QED BY <1>4, <3>2, WaitingIsOpen, Zenon
  <2> QED BY <2>1, Zenon
<1>5. ASSUME NEW j \in Jobs, sending' # None, sending'.job = j
      PROVE  /\ ~(journal'[j] # None /\ journal'[j].status = "running")
             /\ journal'[j] = None => completed'[j] # None
  <2>1. CASE \E k \in Jobs : FlushSends(k)
    <3>1. PICK k \in Jobs : FlushSends(k)
      BY <2>1, Zenon
    <3>2. sending'.job = k
      BY <3>1, Zenon DEF FlushSends, Reporting
    <3> QED BY <1>5, <3>1, <3>2, Zenon DEF FlushSends, Running
  <2>2. CASE sending' = sending
    <3>1. ~Running(j) /\ (journal[j] = None => completed[j] # None)
      BY <1>5, <2>2, Zenon DEF Consistent, JournalKept
    <3>2. ~(journal'[j] # None /\ journal'[j].status = "running")
      BY <1>4, <3>1, Zenon
    <3>3. op.step = "journalled" => op.job # j
      BY <3>1, Zenon DEF Consistent, ExecutionCoherent, ExecutionSteps
    <3> QED BY <1>2, <3>1, <3>2, <3>3, Zenon DEF Stepped, JournalStep
  <2>3. CASE sending' = None
    BY <1>5, <2>3, Zenon
  <2> QED
    BY <2>1, <2>2, <2>3, ZenonT(60) DEF Next, ServerDelivers, HandleManagement, ExecutionStep,
       RecoveryStep, Report, FlushEnds, DeliverInventory, StartFailure, LocalStep, Restart,
       sessionVars
<1>6. ASSUME op'.step = "acknowledged" PROVE completed'[op'.completion.job] # None
  <2>1. CASE op' = op
    <3>1. op.completion.job \in Jobs
      BY <1>1, <1>6, <2>1, OperationTypes, Zenon DEF Completion
    <3> QED BY <1>2, <1>6, <2>1, <3>1, Zenon DEF Consistent, JournalKept
  <2>2. CASE Report
    <3>1. op.completion \in Completion /\ op.completion.job \in Jobs
      BY <1>1, <2>2, OperationTypes, Zenon DEF Report, Completion
    <3>2. op' # Free
      <4>1. Free.step = "free"
        BY Zenon DEF Free
      <4> QED BY <1>6, <4>1, Zenon
    <3>3. op' = [step |-> "acknowledged", completion |-> op.completion]
          /\ ServerCompletes(op.completion)
      BY <1>1, <2>2, <3>2, OperationTypes, ZenonT(60) DEF Report, Go
    <3>4. op'.completion = op.completion
      BY <3>3, Zenon
    <3>5. completed'[op.completion.job] = op.completion
      BY <1>1, <3>1, <3>3, Zenon DEF ServerCompletes
    <3>6. op.completion # None
      BY <3>1, JournalAssumption, Zenon
    <3> QED BY <3>4, <3>5, <3>6, Zenon
  <2> QED BY <1>6, <2>1, <2>2, HolderSteps, Zenon DEF Consistent, HolderStep, ExecutionSteps
<1>7. ASSUME op'.step \in {"replaying", "rebound"}
      PROVE  ~(journal'[op'.job] # None /\ journal'[op'.job].status = "running")
  <2>1. CASE op' = op
    <3>1. op.job \in Jobs /\ ~Running(op.job) /\ op # Free
      <4>1. Free.step = "free"
        BY Zenon DEF Free
      <4> QED
        BY <1>1, <1>7, <2>1, <4>1, OperationTypes, ZenonT(60) DEF Consistent, JournalKept
    <3> QED BY <2>1, <3>1, Zenon DEF Stepped, JournalStep, Running
  <2>2. CASE Replay /\ op'.step = "rebound"
    <3>1. op'.job = op.job /\ ~Running(op.job) /\ journal' = journal
      <4>1. \A n : Rebound(n).job = op.job
        BY Zenon DEF Rebound
      <4>2. Free.step = "free"
        BY Zenon DEF Free
      <4> QED BY <2>2, <4>1, <4>2, Zenon DEF Replay, Consistent, JournalKept
    <3> QED BY <3>1, Zenon DEF Running
  <2>3. CASE journal' = journal /\ ~Running(op'.job)
    BY <2>3, Zenon DEF Running
  <2> QED
    BY <1>7, <2>1, <2>2, <2>3, HolderSteps, ZenonT(60) DEF Consistent, HolderStep, ExecutionSteps
<1> QED BY <1>3, <1>5, <1>6, <1>7, Zenon DEF JournalKept, Running

----------------------------------------------------------------------------
(* The outcomes.                                                           *)

\* OutcomeCoherent, of the next state.
CoherentNext(j, o) ==
    /\ j \in DOMAIN Work
    /\ o.token <= attempt'[j]
    /\ \A u \in Tokens :
          /\ <<j, u>> \in waiting' \/ Answers(op', j, u) => o.token < u
          /\ Executes(op', j, u) => o.token < u \/ (o.status = "running" /\ o.token = u)
    /\ o.revision # 0 => o.status = "success" /\ Work[j].kind \in Transitions
    /\ o.status = "success" =>
          /\ Work[j].kind \in Transitions => o.revision # 0
          /\ Work[j].kind \in Transitions \cup {"shell"} => applied'[j] > 0
          /\ \A id \in Ids : Reported(mem', id, j, o) /\ Reported(disk', id, j, o)

\* An attempt that is over no longer holds managementMu.
LEMMA AttemptOver ==
    ASSUME Answered(op'), NEW j, NEW u
    PROVE  ~Executes(op', j, u) /\ ~Answers(op', j, u)
BY Zenon DEF Answered, Executes, Answers, ExecutionSteps

\* Coherence is about the token, the status and the revision of an outcome.
LEMMA SameOutcome ==
    ASSUME NEW j, NEW o, NEW c, CoherentNext(j, o),
           c.token = o.token, c.status = o.status, c.revision = o.revision
    PROVE  CoherentNext(j, c)
<1>1. \A st, id : Reported(st, id, j, o) => Reported(st, id, j, c)
  BY Zenon DEF Reported
<1> QED BY <1>1, Zenon DEF CoherentNext

\* An outcome stays coherent: new inventory is bound by a later attempt.
LEMMA OutcomeStable ==
    ASSUME Consistent, Stepped, NEW j \in Jobs, NEW o, o.token \in Tokens, OutcomeCoherent(j, o)
    PROVE  CoherentNext(j, o)
<1>1. /\ o.token \in Nat /\ attempt[j] \in Nat /\ attempt'[j] \in Nat
      /\ \A u \in Tokens : u \in Nat
  BY TokenTypes, Zenon DEF Consistent, Typed, TypeOK, Stepped
<1>2. o.token <= attempt[j] /\ attempt[j] <= attempt'[j]
  BY Zenon DEF OutcomeCoherent, Stepped, AttemptStep
<1>3. o.token <= attempt'[j]
  BY <1>1, <1>2, Transitive, Zenon
<1>4. \A a, b, c \in Nat : a <= b /\ b < c => a < c
  OBVIOUS
<1>5. ASSUME NEW u \in Tokens
      PROVE  /\ <<j, u>> \in waiting' \/ Answers(op', j, u) => o.token < u
             /\ Executes(op', j, u) => o.token < u \/ (o.status = "running" /\ o.token = u)
  <2>1. /\ <<j, u>> \in waiting \/ Answers(op, j, u) => o.token < u
        /\ Executes(op, j, u) => o.token < u \/ (o.status = "running" /\ o.token = u)
    BY <1>5, Zenon DEF OutcomeCoherent
  <2>2. attempt[j] < u => o.token < u
    BY <1>1, <1>2, <1>4, <1>5, Zenon
  <2> QED BY <1>5, <2>1, <2>2, Zenon DEF Stepped, AttemptStep, Admitted
<1>6. ASSUME o.status = "success", NEW st \in {mem', disk'}, NEW id \in Ids
      PROVE  Reported(st, id, j, o)
  <2> SUFFICES ASSUME BoundTo(st, id, j)
               PROVE  \/ o.token < st.pending[id].attempt.token
                      \/ /\ o.token = st.pending[id].attempt.token
                         /\ o.revision = st.pending[id].revision
    BY Zenon DEF Reported
  <2>1. Kept(st, id) \/ Fresh(st, id)
    BY <1>6, Zenon DEF BoundTo, Stepped, BindingStep
  <2>2. CASE Kept(st, id)
    <3>1. PICK old \in {mem, disk} : old.pending[id] = st.pending[id]
      BY <2>2, Zenon DEF Kept
    <3>2. BoundTo(old, id, j) /\ Reported(old, id, j, o)
      BY <1>6, <3>1, Zenon DEF BoundTo, OutcomeCoherent
    <3> QED BY <3>1, <3>2, Zenon DEF Reported
  <2>3. CASE Fresh(st, id)
    <3>1. j = op.job /\ st.pending[id].attempt.token = op.token
      BY <2>3, Zenon DEF Fresh, BoundTo
    <3>2. op.step \in ExecutionSteps \/ op.step = "replaying"
      BY <2>3, Zenon DEF Fresh, ExecutionSteps
    <3>3. op.token \in Tokens
      BY <3>2, JobInHand, Zenon DEF Consistent, Typed
    <3>4. Executes(op, j, op.token) \/ Answers(op, j, op.token)
      BY <3>1, <3>2, Zenon DEF Executes, Answers
    <3>5. o.token < op.token
      BY <1>6, <3>3, <3>4, Zenon DEF OutcomeCoherent
    <3> QED BY <3>1, <3>5, Zenon
  <2> QED BY <2>1, <2>2, <2>3, ZenonT(60)
<1>7. applied[j] > 0 => applied'[j] > 0
  BY AppliedStays, Zenon DEF Consistent, Stepped
<1> QED BY <1>3, <1>5, <1>6, <1>7, ZenonT(60) DEF CoherentNext, OutcomeCoherent

\* The attempt in hand is the latest of its job but for those that wait.
LEMMA AttemptLast ==
    ASSUME Consistent, Stepped, NEW j \in Jobs, NEW t \in Tokens,
           Executes(op, j, t) \/ Answers(op, j, t) \/ Admitted(j, t)
    PROVE  /\ j \in DOMAIN Work /\ t <= attempt'[j]
           /\ \A u \in Tokens : <<j, u>> \in waiting' => t < u
<1>1. /\ t \in Nat /\ attempt[j] \in Nat /\ attempt'[j] \in Nat
      /\ \A u \in Tokens : u \in Nat
  BY TokenTypes, Zenon DEF Consistent, Typed, TypeOK, Stepped
<1>2. j \in DOMAIN Work /\ t <= attempt[j] /\ attempt[j] <= attempt'[j]
  BY Zenon DEF Consistent, AttemptsInOrder, Stepped, AttemptStep, Admitted
<1>3. t <= attempt'[j]
  BY <1>1, <1>2, Transitive, Zenon
<1>4. \A a, b, c \in Nat : a <= b /\ b < c => a < c
  OBVIOUS
<1>5. ASSUME NEW u \in Tokens, <<j, u>> \in waiting' PROVE t < u
  <2>1. attempt[j] < u => t < u
    BY <1>1, <1>2, <1>4, <1>5, ZenonT(60)
  <2> QED BY <1>5, <2>1, Zenon DEF Consistent, AttemptsInOrder, Stepped, AttemptStep, Admitted
<1> QED BY <1>2, <1>3, <1>5, Zenon

\* The failure of the attempt in hand is coherent, and so is the start of a job.
LEMMA FailureCoherent ==
    ASSUME Consistent, Stepped, NEW j \in Jobs, NEW t \in Tokens, NEW o,
           Executes(op, j, t) \/ Answers(op, j, t) \/ Admitted(j, t),
           o.token = t, o.revision = 0,
           \/ o.status = "error" /\ Answered(op')
           \/ o.status = "running" /\ (Answered(op') \/ op' = Executing(j, t, None, "journalled"))
    PROVE  CoherentNext(j, o)
<1>1. /\ j \in DOMAIN Work /\ t <= attempt'[j]
      /\ \A u \in Tokens : <<j, u>> \in waiting' => t < u
  BY AttemptLast, Zenon
<1>2. ASSUME NEW u \in Tokens
      PROVE  ~Answers(op', j, u) /\ (Executes(op', j, u) => o.status = "running" /\ u = t)
  <2>1. CASE Answered(op')
    BY <2>1, AttemptOver, Zenon
  <2>2. CASE o.status = "running" /\ op' = Executing(j, t, None, "journalled")
    <3>1. op'.step = "journalled" /\ op'.token = t
      BY <2>2, Zenon DEF Executing
    <3> QED BY <2>2, <3>1, Zenon DEF Executes, Answers
  <2> QED BY <2>1, <2>2, Zenon
<1>3. o.status # "success"
  OBVIOUS
<1> QED BY <1>1, <1>2, <1>3, Zenon DEF CoherentNext

\* Inventory is pending only for the connector of a transition.
LEMMA OnlyTransitionsBind ==
    ASSUME Consistent, Stepped, NEW st \in {mem', disk'}, NEW id \in Ids, NEW j \in Jobs,
           BoundTo(st, id, j)
    PROVE  Work[j].kind \in Transitions /\ Work[j].id = id
<1>1. BoundNext(st, id, j)
  BY BindingsStayBound, Zenon
<1> QED BY <1>1, Zenon DEF BoundNext

\* The outcome of an execution: a success names the inventory it has bound.
LEMMA FinishCoherent ==
    ASSUME Consistent, Stepped, Finish, Answered(op'), NEW o,
           o.token = op.token,
           op.step = "failed" => o.status = "error" /\ o.revision = 0,
           op.step = "succeeded" =>
              /\ o.status = "success"
              /\ o.revision = IF Kind \in Transitions
                              THEN RemoteInventoryRevision(Target, op.job) ELSE 0
    PROVE  CoherentNext(op.job, o)
<1>1. op.step \in {"succeeded", "failed"} /\ op.step \in ExecutionSteps
  BY Zenon DEF Finish, ExecutionSteps
<1>2. op.job \in Jobs /\ op.token \in Tokens /\ Target \in Ids /\ Executes(op, op.job, op.token)
  BY <1>1, JobInHand, Zenon DEF Consistent, Typed, Executes
<1>3. CASE op.step = "failed"
  BY <1>2, <1>3, FailureCoherent, Zenon
<1>4. CASE op.step = "succeeded"
  <2>1. /\ op.job \in DOMAIN Work /\ op.token <= attempt'[op.job]
        /\ \A u \in Tokens : <<op.job, u>> \in waiting' => op.token < u
    BY <1>2, AttemptLast, Zenon
  <2>2. mem' = mem /\ disk' = disk /\ applied' = applied
    BY Zenon DEF Finish, storeVars
  <2>3. /\ Kind \in Transitions \cup {"shell"} => applied[op.job] > 0
        /\ Kind \in Transitions =>
              /\ BoundTo(mem, Target, op.job)
              /\ mem.pending[Target].attempt.token = op.token
              /\ disk = mem
    BY <1>1, <1>4, Zenon DEF Consistent, ExecutionCoherent
  <2>4. Kind \in Transitions => o.revision # 0
    BY <1>4, InventoryIsThere, Zenon DEF Consistent, TransitionHasInventory
  <2>5. ASSUME NEW st \in {mem', disk'}, NEW id \in Ids PROVE Reported(st, id, op.job, o)
    <3> SUFFICES ASSUME BoundTo(st, id, op.job)
                 PROVE  /\ o.token = st.pending[id].attempt.token
                        /\ o.revision = st.pending[id].revision
      BY Zenon DEF Reported
    <3>1. Kind \in Transitions /\ id = Target
      BY <1>2, <2>5, OnlyTransitionsBind, Zenon DEF Kind, Target
    <3>2. st = mem
      BY <2>2, <2>3, <2>5, <3>1, ZenonT(60)
    <3>3. o.revision = mem.pending[Target].revision
      BY <1>4, <2>3, <3>1, Zenon DEF RemoteInventoryRevision, BoundTo
    <3> QED BY <2>3, <3>1, <3>2, <3>3, ZenonT(60)
  <2>6. o.status = "success" /\ (o.revision # 0 => Kind \in Transitions)
    BY <1>4, Zenon
  <2>7. \A u \in Tokens : ~Executes(op', op.job, u) /\ ~Answers(op', op.job, u)
    BY AttemptOver, Zenon
  <2> QED BY <2>1, <2>2, <2>3, <2>4, <2>5, <2>6, <2>7, ZenonT(60) DEF CoherentNext, Kind
<1> QED BY <1>1, <1>3, <1>4, Zenon

\* A replayed outcome names the inventory bound to the new attempt.
LEMMA ReplayCoherent ==
    ASSUME Consistent, Stepped, Replay, op'.step = "rebound"
    PROVE  /\ op'.job = op.job /\ op'.outcome.status = op.outcome.status
           /\ CoherentNext(op.job, op'.outcome)
<1>1. op.step = "replaying" /\ Answered(op')
  BY Zenon DEF Replay, Answered
<1>2. /\ op.job \in Jobs /\ op.token \in Tokens /\ op.outcome \in ManagementOutcome
      /\ mem \in PersistedState
  BY <1>1, OperationTypes, Zenon DEF Consistent, Typed, TypeOK
<1>3. op.outcome.status # "running" /\ OutcomeCoherent(op.job, op.outcome)
  BY <1>1, Zenon DEF Consistent, OutcomesCoherent
<1>4. Answers(op, op.job, op.token)
  BY <1>1, Zenon DEF Answers
<1>5. /\ op.job \in DOMAIN Work /\ op.token <= attempt'[op.job]
      /\ \A u \in Tokens : <<op.job, u>> \in waiting' => op.token < u
  BY <1>2, <1>4, AttemptLast, Zenon
<1>6. \A u \in Tokens : ~Executes(op', op.job, u) /\ ~Answers(op', op.job, u)
  BY <1>1, AttemptOver, Zenon
<1>7. op.outcome.token # op.token
  <2>1. op.outcome.token < op.token
    BY <1>2, <1>3, <1>4, ZenonT(60) DEF OutcomeCoherent
  <2>2. op.token \in Nat
    BY <1>2, TokenTypes, Zenon
  <2> QED BY <2>1, <2>2
<1>8. applied'[op.job] = applied[op.job]
  BY Zenon DEF Replay
<1>9. ASSUME NEW n, op' = Rebound(n)
      PROVE  /\ op'.job = op.job /\ op'.outcome.token = op.token
             /\ op'.outcome.status = op.outcome.status /\ op'.outcome.revision = n
  BY <1>9, Zenon DEF Rebound, Outcome
<1>10. op' # Free
  <2>1. Free.step = "free"
    BY Zenon DEF Free
  <2> QED BY <2>1, Zenon
<1>11. CASE ~MustRebind /\ op' = Rebound(op.outcome.revision)
  <2>1. /\ op'.job = op.job /\ op'.outcome.token = op.token
        /\ op'.outcome.status = op.outcome.status /\ op'.outcome.revision = op.outcome.revision
    BY <1>9, <1>11, Zenon
  <2>2. op.outcome.status = "success" => Work[op.job].kind \notin Transitions
    BY <1>3, <1>7, <1>11, Zenon DEF MustRebind, OutcomeCoherent
  <2>3. ASSUME NEW st \in {mem', disk'}, NEW id \in Ids, op.outcome.status = "success"
        PROVE  Reported(st, id, op.job, op'.outcome)
    BY <1>2, <2>2, <2>3, OnlyTransitionsBind, ZenonT(60) DEF Reported
  <2>4. /\ op.outcome.revision # 0 =>
              op.outcome.status = "success" /\ Work[op.job].kind \in Transitions
        /\ op.outcome.status = "success" =>
              /\ Work[op.job].kind \in Transitions => op.outcome.revision # 0
              /\ Work[op.job].kind \in Transitions \cup {"shell"} => applied'[op.job] > 0
    BY <1>3, <1>8, Zenon DEF OutcomeCoherent
  <2> QED BY <1>5, <1>6, <2>1, <2>3, <2>4, ZenonT(60) DEF CoherentNext
<1>12. CASE MustRebind /\ CanRebind /\ Saved(Rebinding) /\ op' = Rebound(mem.revision + 1)
  <2>1. /\ op'.job = op.job /\ op'.outcome.token = op.token
        /\ op'.outcome.status = op.outcome.status /\ op'.outcome.revision = mem.revision + 1
    BY <1>9, <1>12, Zenon
  <2>2. /\ op.outcome.status = "success" /\ Work[op.job].kind \in Transitions
        /\ Work[op.job].kind \in Transitions \cup {"shell"} => applied'[op.job] > 0
    BY <1>3, <1>8, <1>12, ZenonT(60) DEF MustRebind, OutcomeCoherent
  <2>3. mem.revision + 1 # 0
    <3>1. mem.revision \in Nat
      BY <1>2, RevisionTypes, Zenon
    <3> QED BY <3>1
  <2>4. mem' = Rebinding /\ disk' = Rebinding /\ Work[op.job].id \in Ids
    BY <1>1, <1>12, JobInHand, ZenonT(60) DEF Saved, Consistent, Typed
  <2>5. /\ Rebinding.pending[Work[op.job].id].attempt.token = op.token
        /\ Rebinding.pending[Work[op.job].id].revision = mem.revision + 1
    BY <1>2, <2>4, Zenon
       DEF Rebinding, PutInventoryConnector, InventoryUpsertMutation, PersistedState
  <2>6. ASSUME NEW st \in {mem', disk'}, NEW id \in Ids
        PROVE  Reported(st, id, op.job, op'.outcome)
    <3> SUFFICES ASSUME BoundTo(st, id, op.job)
                 PROVE  /\ op'.outcome.token = st.pending[id].attempt.token
                        /\ op'.outcome.revision = st.pending[id].revision
      BY Zenon DEF Reported
    <3>1. id = Work[op.job].id
      BY <1>2, <2>6, OnlyTransitionsBind, ZenonT(60)
    <3>2. st = Rebinding
      BY <2>4, <2>6, Zenon
    <3> QED BY <2>1, <2>5, <3>1, <3>2, ZenonT(60)
  <2> QED BY <1>5, <1>6, <2>1, <2>2, <2>3, <2>6, ZenonT(60) DEF CoherentNext
<1> QED BY <1>10, <1>11, <1>12, ZenonT(60) DEF Replay

\* The outcome recovery gives an interrupted job.
LEMMA RecoverCoherent ==
    ASSUME Consistent, Stepped, NEW j \in Jobs, Recover(j), op'.step = "recovered"
    PROVE  /\ op'.job = j /\ op'.outcome.status # "running"
           /\ CoherentNext(j, op'.outcome)
<1>1. journal[j] # None /\ journal[j].status = "running" /\ Running(j)
  BY Zenon DEF Recover, Running
<1>2. CoherentNext(j, journal[j])
  <2>1. OutcomeCoherent(j, journal[j]) /\ journal[j].token \in Tokens
    BY <1>1, JobRunning, OutcomeParts, Zenon DEF Consistent, Typed
  <2> QED BY <2>1, OutcomeStable, Zenon
<1>3. /\ mem \in PersistedState /\ disk \in PersistedState
      /\ Work[j].id \in Ids
  BY <1>1, JobRunning, Zenon DEF Consistent, Typed, TypeOK
<1>4. \A u \in Tokens : ~Executes(op', j, u)
  BY Zenon DEF Executes, ExecutionSteps
<1>5. ASSUME NEW s, NEW n, Recovered(j, s, n)
      PROVE  /\ op'.job = j /\ op'.outcome.token = journal[j].token
             /\ op'.outcome.status = s /\ op'.outcome.revision = n
  <2>1. op' = [step |-> "recovered", caller |-> op.caller, job |-> j,
               outcome |-> Outcome(journal[j].token, s, journal[j].before, n)]
    BY <1>5, Zenon DEF Recovered
  <2>2. op'.job = j /\ op'.outcome = Outcome(journal[j].token, s, journal[j].before, n)
    BY <2>1, Zenon
  <2>3. PICK o : o = Outcome(journal[j].token, s, journal[j].before, n)
    BY Zenon
  <2>4. o.token = journal[j].token /\ o.status = s /\ o.revision = n
    BY <2>3, Zenon DEF Outcome
  <2> QED BY <2>2, <2>3, <2>4, ZenonT(60)
<1>6. CASE Recovered(j, "error", 0)
  <2>1. /\ op'.job = j /\ op'.outcome.token = journal[j].token
        /\ op'.outcome.status = "error" /\ op'.outcome.revision = 0
    BY <1>5, <1>6, Zenon
  <2> QED BY <1>2, <1>4, <2>1, Zenon DEF CoherentNext
<1>7. CASE Recovered(j, "success", 0) /\ Work[j].kind = "remove"
  <2>1. /\ op'.job = j /\ op'.outcome.token = journal[j].token
        /\ op'.outcome.status = "success" /\ op'.outcome.revision = 0
    BY <1>5, <1>7, Zenon
  <2>2. Work[j].kind \notin Transitions \cup {"shell"}
    BY <1>7, Zenon DEF Transitions
  <2>3. \A st \in {mem', disk'}, id \in Ids : ~BoundTo(st, id, j)
    BY <2>2, OnlyTransitionsBind, Zenon
  <2>4. \A id \in Ids : Reported(mem', id, j, op'.outcome) /\ Reported(disk', id, j, op'.outcome)
    BY <2>3, Zenon DEF Reported
  <2> QED BY <1>2, <1>4, <2>1, <2>2, <2>4, ZenonT(60) DEF CoherentNext
<1>8. CASE /\ RecoverCommits(j)
           /\ Recovered(j, "success", RemoteInventoryRevision(Work[j].id, j))
           /\ ~(Work[j].kind \in Transitions /\ RemoteInventoryRevision(Work[j].id, j) = 0)
           /\ Work[j].kind \in {"install", "update", "rollback"}
  <2> DEFINE n == RemoteInventoryRevision(Work[j].id, j)
  <2>1. /\ op'.job = j /\ op'.outcome.token = journal[j].token
        /\ op'.outcome.status = "success" /\ op'.outcome.revision = n
    BY <1>5, <1>8, Zenon
  <2>2. n # 0 => BoundTo(mem, Work[j].id, j) /\ n = mem.pending[Work[j].id].revision
    BY Zenon DEF RemoteInventoryRevision, BoundTo
  <2>3. \A id \in Ids : Bound(mem, id, j) /\ Bound(disk, id, j) /\ BoundOnce(id, j)
    BY Zenon DEF Consistent, InventoryBound
  <2>4. n # 0 =>
           /\ Work[j].kind \in Transitions /\ applied[j] > 0
           /\ mem.pending[Work[j].id].attempt.token = journal[j].token
    BY <1>1, <1>3, <2>2, <2>3, ZenonT(60) DEF Bound
  <2>5. mem' = mem /\ disk' = disk /\ applied' = applied
    BY <1>8, Zenon DEF RecoverCommits, storeVars
  <2>6. Work[j].kind \in Transitions => n # 0
    BY <1>8, Zenon
  <2>7. Work[j].kind \in Transitions \cup {"shell"} => applied'[j] > 0
    BY <1>8, <2>4, <2>5, <2>6, ZenonT(60)
  <2>8. ASSUME NEW st \in {mem, disk}, NEW id \in Ids PROVE Reported(st, id, j, op'.outcome)
    <3> SUFFICES ASSUME BoundTo(st, id, j)
                 PROVE  /\ op'.outcome.token = st.pending[id].attempt.token
                        /\ op'.outcome.revision = st.pending[id].revision
      BY Zenon DEF Reported
    <3>1. Bound(st, id, j) /\ BoundOnce(id, j)
      BY <2>3, <2>8, Zenon
    <3>2. /\ Work[j].kind \in Transitions /\ id = Work[j].id
          /\ st.pending[id].attempt.token = journal[j].token
      BY <1>1, <3>1, Zenon DEF Bound
    <3>3. /\ BoundTo(mem, id, j) /\ n = mem.pending[id].revision
          /\ mem.pending[id].attempt.token = journal[j].token
      BY <2>2, <2>4, <2>6, <3>2, ZenonT(60)
    <3>4. st.pending[id].revision = n
      BY <2>8, <3>1, <3>2, <3>3, ZenonT(60) DEF BoundOnce
    <3> QED BY <2>1, <3>2, <3>4, ZenonT(60)
  <2>9. \A id \in Ids : Reported(mem', id, j, op'.outcome) /\ Reported(disk', id, j, op'.outcome)
    BY <2>5, <2>8, Zenon
  <2> QED BY <1>2, <1>4, <2>1, <2>4, <2>6, <2>7, <2>9, ZenonT(60) DEF CoherentNext
<1>9. op' # Free
  <2>1. Free.step = "free"
    BY Zenon DEF Free
  <2> QED BY <2>1, Zenon
<1>10. CASE RecoverRestores(j) \/ RecoverRemovesInstall(j) \/ RecoverNothing(j) \/ RecoverRemove(j)
  BY <1>6, <1>7, <1>9, <1>10, ZenonT(60) DEF RecoverRestores, RecoverRemovesInstall, RecoverNothing,
     RecoverRemove, RecoveryFails
<1>11. CASE Work[j].kind \in {"install", "update", "rollback"} /\ RecoverCommits(j)
  BY <1>8, <1>9, <1>11, ZenonT(60) DEF RecoverCommits, RecoveryFails
<1> QED BY <1>10, <1>11, Zenon DEF Recover

\* The handler that takes managementMu was waiting, before all others of its job.
LEMMA HandlerAdmitted ==
    ASSUME NEW j \in Jobs, NEW t \in Tokens, HandleManagement(j, t)
    PROVE  <<j, t>> \in waiting /\ Admitted(j, t)
<1>1. /\ <<j, t>> \in waiting /\ waiting' = waiting \ {<<j, t>>}
      /\ \A u \in Tokens : <<j, u>> \in waiting => t <= u
  BY Zenon DEF HandleManagement
<1>2. \A v \in Tokens : <<j, v>> \in waiting' => t < v
  BY <1>1, TokenTypes
<1> QED BY <1>1, <1>2, Zenon DEF Admitted

\* The outcomes in the journal,
LEMMA JournalCoherent ==
    ASSUME Consistent, Stepped, Next
    PROVE  \A j \in Jobs : journal'[j] # None => CoherentNext(j, journal'[j])
<1> DEFINE Goal == \A j \in Jobs : journal'[j] # None => CoherentNext(j, journal'[j])
<1>1. journal \in [Jobs -> ManagementOutcome \cup {None}] /\ op \in Operation
  BY Zenon DEF Consistent, Typed, TypeOK
<1>2. ASSUME NEW j \in Jobs, journal[j] # None PROVE CoherentNext(j, journal[j])
  <2>1. OutcomeCoherent(j, journal[j]) /\ journal[j].token \in Tokens
    BY <1>2, JobRunning, OutcomeParts, ZenonT(60) DEF Consistent, Typed
  <2> QED BY <2>1, OutcomeStable, Zenon
<1>3. ASSUME journal' = journal PROVE Goal
  BY <1>2, <1>3, Zenon
<1>4. ASSUME NEW k, NEW o, journal' = [journal EXCEPT ![k] = o],
             k \in Jobs => o = None \/ CoherentNext(k, o)
      PROVE  Goal
  BY <1>1, <1>2, <1>4, ZenonT(60)
<1>5. ASSUME NEW k \in Jobs, NEW o, JournalSaved(k, o) \/ JournalFaults(k, o), CoherentNext(k, o)
      PROVE  Goal
  BY <1>3, <1>4, <1>5, ZenonT(60) DEF JournalSaved, JournalFaults
<1> HIDE DEF Goal
<1>6. ASSUME NEW j \in Jobs, NEW t \in Tokens, HandleManagement(j, t) PROVE Goal
  <2>1. CASE Begin(j, t)
    <3>1. <<j, t>> \in waiting /\ Admitted(j, t)
      BY <1>6, HandlerAdmitted, Zenon DEF Consistent, HandleManagement
    <3>2. PICK o \in ManagementOutcome :
             /\ o.token = t /\ o.status = "running" /\ o.revision = 0
             /\ \/ JournalSaved(j, o) /\ op' = Executing(j, t, None, "journalled")
                \/ JournalFaults(j, o) /\ op' = Reporting(j, t, Failure(t, None))
      BY <2>1, <3>1, BeginOutcome, ZenonT(60) DEF Consistent
    <3>3. Answered(op') \/ op' = Executing(j, t, None, "journalled")
      <4>1. \A f : Reporting(j, t, f).step = "reporting"
        BY Zenon DEF Reporting
      <4> QED BY <3>2, <4>1, Zenon DEF Answered
    <3>4. CoherentNext(j, o)
      BY <3>1, <3>2, <3>3, FailureCoherent, ZenonT(60)
    <3> QED BY <1>5, <3>2, <3>4, ZenonT(60)
  <2> QED
    BY <1>3, <1>6, <2>1, ZenonT(60) DEF HandleManagement, Refuse, FindRunning, FindFinished
<1>7. ASSUME Finish PROVE Goal
  <2>1. PICK o \in ManagementOutcome :
           /\ o.token = op.token
           /\ op.step = "failed" => o.status = "error" /\ o.revision = 0
           /\ op.step = "succeeded" =>
                 /\ o.status = "success"
                 /\ o.revision = IF Kind \in Transitions
                                 THEN RemoteInventoryRevision(Target, op.job) ELSE 0
           /\ \/ JournalSaved(op.job, o) /\ op' = Reporting(op.job, op.token, o)
              \/ JournalFaults(op.job, o) /\ op' = Free
    BY <1>7, FinishOutcome, Zenon DEF Consistent
  <2>2. Answered(op')
    <3>1. Free.step = "free" /\ Reporting(op.job, op.token, o).step = "reporting"
      BY Zenon DEF Free, Reporting
    <3> QED BY <2>1, <3>1, Zenon DEF Answered
  <2>3. op.job \in Jobs
    BY <1>1, <1>7, OperationTypes, ZenonT(60) DEF Finish, ExecutionSteps
  <2>4. CoherentNext(op.job, o)
    BY <1>7, <2>1, <2>2, FinishCoherent, ZenonT(60)
  <2> QED BY <1>5, <2>1, <2>3, <2>4, ZenonT(60)
<1>8. ASSUME SaveReplayed \/ SaveRecovered PROVE Goal
  <2>1. op.step \in {"rebound", "recovered"}
        /\ (JournalSaved(op.job, op.outcome) \/ JournalFaults(op.job, op.outcome))
    BY <1>8, Zenon DEF SaveReplayed, SaveRecovered
  <2>2. op.job \in Jobs /\ op.outcome.token \in Tokens
    BY <1>1, <2>1, OperationTypes, OutcomeParts, ZenonT(60)
  <2>3. OutcomeCoherent(op.job, op.outcome)
    BY <2>1, Zenon DEF Consistent, OutcomesCoherent
  <2>4. CoherentNext(op.job, op.outcome)
    BY <2>2, <2>3, OutcomeStable, ZenonT(60)
  <2> QED BY <1>5, <2>1, <2>2, <2>4, ZenonT(60)
<1>9. ASSUME ExecutionStep PROVE Goal
  BY <1>3, <1>4, <1>7, <1>8, <1>9, ZenonT(60) DEF ExecutionStep, Replay, Announce, ExecutionRefused,
     ExecuteShell, PrepareRollback, Stage, Activate, ActivateFails, Restore,
     CleanupConnectorArtifacts, Remove, RemoveFiles, RemoveOutcome
<1>10. ASSUME RecoveryStep PROVE Goal
  BY <1>3, <1>8, <1>10, ZenonT(60) DEF RecoveryStep, RecoveryBegins, RecoveryEnds, Recover
<1>11. Goal
  BY <1>3, <1>4, <1>6, <1>9, <1>10, ZenonT(60) DEF Next, ServerDelivers, FlushSends, Report,
     FlushEnds, DeliverInventory, StartFailure, LocalStep, Restart
<1> QED BY <1>11, Zenon DEF Goal

\* in the hands of the holder of managementMu before it is journalled,
LEMMA HeldCoherent ==
    ASSUME Consistent, Stepped, Next, op'.step \in {"replaying", "rebound", "recovered"}
    PROVE  op'.outcome.status # "running" /\ CoherentNext(op'.job, op'.outcome)
<1>1. op \in Operation
  BY Zenon DEF Consistent, Typed, TypeOK
<1>2. CASE op' = op
  <2>1. op.job \in Jobs /\ op.outcome.token \in Tokens
    BY <1>1, <1>2, OperationTypes, OutcomeParts, ZenonT(60)
  <2>2. op.outcome.status # "running" /\ OutcomeCoherent(op.job, op.outcome)
    BY <1>2, Zenon DEF Consistent, OutcomesCoherent
  <2> QED BY <1>2, <2>1, <2>2, OutcomeStable, ZenonT(60)
<1>3. CASE /\ op'.job \in Jobs /\ op'.outcome = journal[op'.job]
           /\ journal[op'.job] # None /\ ~Running(op'.job) /\ journal' = journal
  BY <1>3, JournalCoherent, Zenon DEF Running
<1>4. CASE op'.step = "rebound" /\ Replay
  <2>1. op.outcome.status # "running"
    BY <1>4, Zenon DEF Replay, Consistent, OutcomesCoherent
  <2>2. /\ op'.job = op.job /\ op'.outcome.status = op.outcome.status
        /\ CoherentNext(op.job, op'.outcome)
    BY <1>4, ReplayCoherent, Zenon
  <2> QED BY <2>1, <2>2, Zenon
<1>5. CASE op'.step = "recovered" /\ \E j \in Jobs : Recover(j)
  <2>1. PICK j \in Jobs : Recover(j)
    BY <1>5, Zenon
  <2>2. /\ op'.job = j /\ op'.outcome.status # "running"
        /\ CoherentNext(j, op'.outcome)
    BY <1>5, <2>1, RecoverCoherent, Zenon
  <2> QED BY <2>2, Zenon
<1> QED
  BY <1>2, <1>3, <1>4, <1>5, HolderSteps, ZenonT(60) DEF Consistent, HolderStep, ExecutionSteps

\* being reported,
LEMMA ReportedCoherent ==
    ASSUME Consistent, Stepped, Next, op'.step \in {"reporting", "acknowledged"}
    PROVE  CoherentNext(op'.completion.job, op'.completion)
<1>1. op \in Operation
  BY Zenon DEF Consistent, Typed, TypeOK
<1>2. Answered(op')
  BY Zenon DEF Answered
<1>3. ASSUME NEW j, NEW o, op' = Reporting(j, o.token, o), CoherentNext(j, o)
      PROVE  CoherentNext(op'.completion.job, op'.completion)
  <2>1. PICK c : c = [job |-> j, token |-> o.token, status |-> o.status,
                      revision |-> o.revision]
    BY Zenon
  <2>2. op'.completion = c
    BY <1>3, <2>1, Zenon DEF Reporting
  <2>3. c.job = j /\ c.token = o.token /\ c.status = o.status /\ c.revision = o.revision
    BY <2>1, Zenon
  <2>4. CoherentNext(j, c)
    BY <1>3, <2>3, SameOutcome, Zenon
  <2> QED BY <2>2, <2>3, <2>4, Zenon
<1>4. ASSUME NEW j \in Jobs, NEW t \in Tokens,
             Executes(op, j, t) \/ Answers(op, j, t) \/ Admitted(j, t),
             op' = Reporting(j, t, Failure(t, None))
      PROVE  CoherentNext(op'.completion.job, op'.completion)
  <2>1. PICK o : o = Failure(t, None)
    BY Zenon
  <2>2. o.token = t /\ o.status = "error" /\ o.revision = 0
    BY <2>1, Zenon DEF Failure, Outcome
  <2>3. CoherentNext(j, o)
    BY <1>2, <1>4, <2>2, FailureCoherent, ZenonT(60)
  <2>4. op' = Reporting(j, o.token, o)
    BY <1>4, <2>1, <2>2, ZenonT(60)
  <2> QED BY <1>3, <2>3, <2>4, ZenonT(60)
<1>5. ASSUME op.step \in {"reporting", "acknowledged"}, op'.completion = op.completion
      PROVE  CoherentNext(op'.completion.job, op'.completion)
  <2>1. op.completion.job \in Jobs /\ op.completion.token \in Tokens
    BY <1>1, <1>5, OperationTypes, ZenonT(60) DEF Completion
  <2>2. OutcomeCoherent(op.completion.job, op.completion)
    BY <1>5, Zenon DEF Consistent, OutcomesCoherent
  <2>3. CoherentNext(op.completion.job, op.completion)
    BY <2>1, <2>2, OutcomeStable, Zenon
  <2> QED BY <1>5, <2>3, Zenon
<1>6. op' # Free
  <2>1. Free.step = "free"
    BY Zenon DEF Free
  <2> QED BY <2>1, Zenon
<1>7. CASE op' = op
  BY <1>5, <1>7, Zenon
<1>8. CASE Report
  <2>1. op' = [op EXCEPT !.step = "acknowledged"] /\ op.step = "reporting"
    BY <1>6, <1>8, Zenon DEF Report, Go
  <2>2. op' = [step |-> "acknowledged", completion |-> op.completion]
    BY <1>1, <2>1, OperationTypes, Zenon
  <2>3. op'.completion = op.completion
    BY <2>2, Zenon
  <2> QED BY <1>5, <2>1, <2>3, Zenon
<1>9. CASE op'.step = "reporting" /\ \E j \in Jobs, t \in Tokens : HandleManagement(j, t)
  <2>1. PICK j \in Jobs, t \in Tokens : HandleManagement(j, t)
    BY <1>9, Zenon
  <2>2. <<j, t>> \in waiting /\ Admitted(j, t)
    BY <2>1, HandlerAdmitted, Zenon
  <2>3. ASSUME op' = Reporting(j, t, Failure(t, None))
        PROVE  CoherentNext(op'.completion.job, op'.completion)
    BY <1>4, <2>2, <2>3, ZenonT(60)
  <2>4. ASSUME FindRunning(j, t) PROVE FALSE
    <3>1. op'.step = "recovering"
      BY <2>4, Zenon DEF FindRunning
    <3> QED BY <1>9, <3>1, Zenon
  <2>5. ASSUME FindFinished(j, t) PROVE FALSE
    <3>1. op'.step = "replaying"
      BY <2>5, Zenon DEF FindFinished, Replaying
    <3> QED BY <1>9, <3>1, Zenon
  <2>6. ASSUME op' = Executing(j, t, None, "journalled") PROVE FALSE
    <3>1. op'.step = "journalled"
      BY <2>6, Zenon DEF Executing
    <3> QED BY <1>9, <3>1, Zenon
  <2>7. Refuse(j, t) \/ Begin(j, t)
    BY <2>1, <2>4, <2>5, Zenon DEF HandleManagement
  <2>8. op' = Reporting(j, t, Failure(t, None))
    BY <2>6, <2>7, Zenon DEF Refuse, Begin
  <2> QED BY <2>3, <2>8, Zenon
<1>10. CASE op'.step = "reporting" /\ Announce
  <2>1. op.step = "journalled" /\ op.step \in ExecutionSteps
    BY <1>10, Zenon DEF Announce, ExecutionSteps
  <2>2. op.job \in Jobs /\ op.token \in Tokens /\ Executes(op, op.job, op.token)
    BY <1>1, <2>1, OperationTypes, Zenon DEF Executes
  <2>3. ASSUME Go("executing") PROVE FALSE
    <3>1. op'.step = "executing"
      BY <1>1, <2>1, <2>3, GoKeeps, ZenonT(60) DEF ExecutionSteps
    <3> QED BY <1>10, <3>1, Zenon
  <2>4. op' = Reporting(op.job, op.token, Failure(op.token, None))
    BY <1>10, <2>3, Zenon DEF Announce
  <2> QED BY <1>4, <2>2, <2>4, ZenonT(60)
<1>11. CASE op'.step = "reporting" /\ SaveReplayed
  <2>1. op.step = "rebound" /\ op' = Reporting(op.job, op.outcome.token, op.outcome)
    BY <1>6, <1>11, Zenon DEF SaveReplayed
  <2>2. op.job \in Jobs /\ op.outcome.token \in Tokens
    BY <1>1, <2>1, OperationTypes, OutcomeParts, ZenonT(60)
  <2>3. OutcomeCoherent(op.job, op.outcome)
    BY <2>1, Zenon DEF Consistent, OutcomesCoherent
  <2>4. CoherentNext(op.job, op.outcome)
    BY <2>2, <2>3, OutcomeStable, ZenonT(60)
  <2> QED BY <1>3, <2>1, <2>4, ZenonT(60)
<1>12. CASE op'.step = "reporting" /\ Finish
  <2>1. PICK o \in ManagementOutcome :
           /\ o.token = op.token
           /\ op.step = "failed" => o.status = "error" /\ o.revision = 0
           /\ op.step = "succeeded" =>
                 /\ o.status = "success"
                 /\ o.revision = IF Kind \in Transitions
                                 THEN RemoteInventoryRevision(Target, op.job) ELSE 0
           /\ op' = Reporting(op.job, op.token, o) \/ op' = Free
    BY <1>12, FinishOutcome, Zenon DEF Consistent
  <2>2. CoherentNext(op.job, o)
    BY <1>2, <1>12, <2>1, FinishCoherent, ZenonT(60)
  <2>3. op' = Reporting(op.job, o.token, o)
    BY <1>6, <2>1, ZenonT(60)
  <2> QED BY <1>3, <2>2, <2>3, ZenonT(60)
<1> QED
  BY <1>7, <1>8, <1>9, <1>10, <1>11, <1>12, HolderSteps, ZenonT(60)
     DEF Consistent, HolderStep, ExecutionSteps

\* being sent by flushManagementOutcomes,
LEMMA SentCoherent ==
    ASSUME Consistent, Stepped, Next, sending' # None
    PROVE  CoherentNext(sending'.job, sending')
<1>1. sending \in Completion \cup {None}
  BY Zenon DEF Consistent, Typed, TypeOK
<1>2. CASE sending' = sending
  <2>1. sending.job \in Jobs /\ sending.token \in Tokens
    BY <1>1, <1>2, Zenon DEF Completion
  <2>2. OutcomeCoherent(sending.job, sending)
    BY <1>2, Zenon DEF Consistent, OutcomesCoherent
  <2> QED BY <1>2, <2>1, <2>2, OutcomeStable, ZenonT(60)
<1>3. CASE \E j \in Jobs : FlushSends(j)
  <2>1. PICK j \in Jobs : FlushSends(j)
    BY <1>3, Zenon
  <2>2. CoherentNext(j, journal[j])
    <3>1. journal' = journal /\ journal[j] # None
      BY <2>1, Zenon DEF FlushSends
    <3> QED BY <3>1, JournalCoherent, Zenon
  <2>3. sending' = [job |-> j, token |-> journal[j].token, status |-> journal[j].status,
                    revision |-> journal[j].revision]
    BY <2>1, Zenon DEF FlushSends, Reporting
  <2>4. /\ sending'.job = j /\ sending'.token = journal[j].token
        /\ sending'.status = journal[j].status /\ sending'.revision = journal[j].revision
    BY <2>3, ZenonT(60)
  <2> QED BY <2>2, <2>4, SameOutcome, Zenon
<1> QED
  BY <1>2, <1>3, ZenonT(60) DEF Next, ServerDelivers, HandleManagement, ExecutionStep,
     RecoveryStep, Report, FlushEnds, DeliverInventory, StartFailure, LocalStep, Restart,
     sessionVars

\* and accepted by the server.
LEMMA CompletedCoherent ==
    ASSUME Consistent, Stepped, Next, NEW j \in Jobs, completed'[j] # None
    PROVE  completed'[j].token = attempt'[j] /\ CoherentNext(j, completed'[j])
<1>1. /\ sending \in Completion \cup {None} /\ op \in Operation
      /\ completed \in [Jobs -> Completion \cup {None}]
  BY Zenon DEF Consistent, Typed, TypeOK
<1>2. CASE completed'[j] = completed[j]
  <2>1. completed[j].token \in Tokens
    BY <1>1, <1>2, Zenon DEF Completion
  <2>2. completed[j].token = attempt[j] /\ OutcomeCoherent(j, completed[j])
    BY <1>2, Zenon DEF Consistent, OutcomesCoherent
  <2>3. attempt'[j] = attempt[j]
    BY <1>2, Zenon DEF Stepped, AttemptStep
  <2>4. CoherentNext(j, completed[j])
    BY <2>1, <2>2, OutcomeStable, Zenon
  <2> QED BY <1>2, <2>2, <2>3, <2>4, ZenonT(60)
<1>3. ASSUME NEW c \in Completion, ServerCompletes(c), attempt' = attempt,
             OutcomeCoherent(c.job, c)
      PROVE  completed'[j].token = attempt'[j] /\ CoherentNext(j, completed'[j])
  <2>1. c.job \in Jobs /\ c.token \in Tokens
    BY <1>3, Zenon DEF Completion
  <2>2. CASE j = c.job
    <3>1. completed'[j] = c /\ c.token = attempt[j]
      BY <1>1, <1>3, <2>2, Zenon DEF ServerCompletes, Accepts
    <3>2. CoherentNext(j, c)
      BY <1>3, <2>1, <2>2, OutcomeStable, ZenonT(60)
    <3> QED BY <1>3, <3>1, <3>2, Zenon
  <2>3. CASE j # c.job
    <3>1. completed'[j] = completed[j]
      BY <1>1, <1>3, <2>3, ZenonT(60) DEF ServerCompletes
    <3> QED BY <1>2, <3>1, Zenon
  <2> QED BY <2>2, <2>3, Zenon
<1>4. CASE Report
  <2>1. op.completion \in Completion /\ attempt' = attempt
    BY <1>1, <1>4, OperationTypes, ZenonT(60) DEF Report
  <2>2. OutcomeCoherent(op.completion.job, op.completion)
    BY <1>4, Zenon DEF Report, Consistent, OutcomesCoherent
  <2> QED BY <1>2, <1>3, <1>4, <2>1, <2>2, ZenonT(60) DEF Report
<1>5. CASE FlushEnds
  <2>1. sending \in Completion /\ attempt' = attempt
    BY <1>1, <1>5, Zenon DEF FlushEnds
  <2>2. OutcomeCoherent(sending.job, sending)
    BY <1>5, Zenon DEF FlushEnds, Consistent, OutcomesCoherent
  <2> QED BY <1>2, <1>3, <1>5, <2>1, <2>2, ZenonT(60) DEF FlushEnds
<1> QED
  BY <1>2, <1>4, <1>5, ZenonT(60) DEF Next, ServerDelivers, FlushSends, HandleManagement,
     ExecutionStep, RecoveryStep, DeliverInventory, StartFailure, LocalStep, Restart, sessionVars

\* OutcomesCoherent, of the next state.
OutcomesNext ==
    /\ \A j \in Jobs : journal'[j] # None => CoherentNext(j, journal'[j])
    /\ op'.step \in {"replaying", "rebound", "recovered"} =>
          op'.outcome.status # "running" /\ CoherentNext(op'.job, op'.outcome)
    /\ op'.step \in {"reporting", "acknowledged"} =>
          CoherentNext(op'.completion.job, op'.completion)
    /\ sending' # None => CoherentNext(sending'.job, sending')
    /\ \A j \in Jobs :
          completed'[j] # None =>
              completed'[j].token = attempt'[j] /\ CoherentNext(j, completed'[j])

\* The two say the same.
LEMMA OutcomesOfNext ==
    ASSUME OutcomesNext, scenario' = scenario
    PROVE  OutcomesCoherent'
<1>1. ASSUME NEW j \in Jobs, CoherentNext(j, journal'[j]) PROVE OutcomeCoherent(j, journal[j])'
  BY <1>1, Zenon DEF CoherentNext, OutcomeCoherent, Reported, BoundTo, Work, Executes, Answers
<1>2. ASSUME CoherentNext(op'.job, op'.outcome) PROVE OutcomeCoherent(op.job, op.outcome)'
  BY <1>2, Zenon DEF CoherentNext, OutcomeCoherent, Reported, BoundTo, Work, Executes, Answers
<1>3. ASSUME CoherentNext(op'.completion.job, op'.completion)
      PROVE  OutcomeCoherent(op.completion.job, op.completion)'
  BY <1>3, Zenon DEF CoherentNext, OutcomeCoherent, Reported, BoundTo, Work, Executes, Answers
<1>4. ASSUME CoherentNext(sending'.job, sending') PROVE OutcomeCoherent(sending.job, sending)'
  BY <1>4, ZenonT(60) DEF CoherentNext, OutcomeCoherent, Reported, BoundTo, Work, Executes, Answers
<1>5. ASSUME NEW j \in Jobs, CoherentNext(j, completed'[j])
      PROVE  OutcomeCoherent(j, completed[j])'
  BY <1>5, Zenon DEF CoherentNext, OutcomeCoherent, Reported, BoundTo, Work, Executes, Answers
<1> QED BY <1>1, <1>2, <1>3, <1>4, <1>5, ZenonT(60) DEF OutcomesNext, OutcomesCoherent

\* So OutcomesCoherent is preserved.
LEMMA OutcomesStayCoherent ==
    ASSUME Consistent, Stepped, Next
    PROVE  OutcomesCoherent'
<1>1. scenario' = scenario
  BY Zenon DEF Next
<1>2. OutcomesNext
  BY JournalCoherent, HeldCoherent, ReportedCoherent, SentCoherent, CompletedCoherent, ZenonT(60)
     DEF OutcomesNext
<1> QED BY <1>1, <1>2, OutcomesOfNext, ZenonT(60)

----------------------------------------------------------------------------
(* The invariant.                                                          *)

\* Before the first session nothing has been delivered, and no inventory is bound.
LEMMA InitInvariant ==
    ASSUME Init
    PROVE  ManagementInvariant
<1>1. /\ scenario \in Scenarios /\ mem = scenario.state /\ disk = mem
      /\ journal = [j \in Jobs |-> None] /\ waiting = {} /\ sending = None
      /\ attempt = [j \in Jobs |-> 0] /\ completed = [j \in Jobs |-> None]
      /\ applied = [j \in Jobs |-> 0] /\ children = [id \in Ids |-> None]
      /\ phase = "starting" /\ faults = 0
  BY Zenon DEF Init
<1>2. op = Free /\ op.step = "free"
  BY Zenon DEF Init, Free
<1>3. /\ mem \in PersistedState /\ Loadable(mem)
      /\ \A id \in PendingIds(mem) : mem.pending[id].attempt = None
  BY <1>1, ManagementAssumption, Zenon DEF Scenario
<1>4. files \in [Ids -> SUBSET Artifacts]
  <2>1. ASSUME NEW id \in Ids
        PROVE  (IF mem.connectors[id] = None THEN {}
                ELSE [i \in Ids |-> Artifacts][id] \cap Named(mem.connectors[id]))
                  \in SUBSET Artifacts
    BY <2>1, Zenon
  <2>2. files = CleanedUp(mem, [id \in Ids |-> Artifacts])
    BY Zenon DEF Init
  <2> QED BY <2>1, <2>2, Zenon DEF CleanedUp
<1>5. 0 \in 0..MaxAttempts /\ 0 \in 0..MaxFaults /\ 0 \in Nat /\ ~(0 > 0) /\ 0 <= 1
  BY ManagementAssumption
<1>6. TypeOK
  BY <1>1, <1>2, <1>3, <1>4, <1>5, HolderTypes, ZenonT(60) DEF TypeOK
<1>7. \A id \in Ids : \A j : ~BoundTo(mem, id, j)
  BY <1>3, Zenon DEF BoundTo, PendingIds
<1>8. InventoryBound
  BY <1>1, <1>7, Zenon DEF InventoryBound, Bound, BoundOnce
<1>9. ChildrenCurrent /\ ChildrenOnDisk
  BY <1>1, <1>2, Zenon DEF ChildrenCurrent, ChildrenOnDisk
<1>10. \A j, u : ~Executes(op, j, u) /\ ~Answers(op, j, u)
  BY <1>2, Zenon DEF Executes, Answers, ExecutionSteps
<1>11. AttemptsInOrder
  BY <1>1, <1>10, Zenon DEF AttemptsInOrder
<1>12. OutcomesCoherent
  BY <1>1, <1>2, Zenon DEF OutcomesCoherent
<1>13. JournalKept
  BY <1>1, <1>2, <1>5, ZenonT(60) DEF JournalKept
<1>14. ExecutionCoherent /\ TransitionHasInventory
  BY <1>2, Zenon DEF ExecutionCoherent, TransitionHasInventory, ExecutionSteps
<1>15. AppliedOnce
  <2>1. \A j \in DOMAIN Work : j \in Jobs
    BY <1>1, WorkTypes, Zenon
  <2> QED BY <1>1, <1>5, <2>1, ZenonT(60) DEF AppliedOnce
<1> QED
  BY <1>1, <1>3, <1>6, <1>8, <1>9, <1>11, <1>12, <1>13, <1>14, <1>15, ZenonT(60) DEF ManagementInvariant

\* Every step, of the server, a handler, recovery, a flush, a local command or the end
\* of the process, preserves the invariant.
LEMMA NextInvariant ==
    ASSUME ManagementInvariant, Next
    PROVE  ManagementInvariant'
<1>1. /\ Consistent /\ Typed /\ TypeOK /\ ChildrenCurrent /\ ChildrenOnDisk /\ AttemptsInOrder
      /\ OutcomesCoherent /\ ExecutionCoherent /\ AppliedOnce
  BY Zenon DEF ManagementInvariant, Consistent, Typed
<1>2. Typed' /\ ChildrenCurrent' /\ ChildrenOnDisk' /\ AttemptsInOrder'
  BY <1>1, TypedStep, ChildrenStayOnDisk, Zenon
<1>3. Stepped
  <2>1. AttemptStep /\ AppliedStep /\ JournalStep
    BY <1>1, AttemptSteps, AppliedSteps, JournalSteps, ZenonT(60)
  <2>2. BindingStep
    BY <1>1, <2>1, BindingSteps, Zenon
  <2>3. /\ attempt' \in [Jobs -> 0..MaxAttempts]
        /\ mem' \in PersistedState /\ disk' \in PersistedState
    BY <1>2, Zenon DEF Typed, TypeOK
  <2> QED BY <2>1, <2>2, <2>3, Zenon DEF Stepped
<1>4. scenario' = scenario
  BY Zenon DEF Next
<1>5. InventoryBound'
  BY <1>1, <1>3, <1>4, InventoryStaysBound, ZenonT(60)
<1>6. OutcomesCoherent' /\ JournalKept' /\ ExecutionCoherent' /\ AppliedOnce'
  BY <1>1, <1>3, OutcomesStayCoherent, JournalStaysKept, ExecutionStaysCoherent,
     AppliedStaysOnce, ZenonT(60)
<1>7. TransitionHasInventory'
  BY <1>2, <1>6, InventoryIsThere, PTL
<1> QED BY <1>2, <1>5, <1>6, <1>7, ZenonT(60) DEF ManagementInvariant, Typed

\* A state that stays as it is stays coherent.
LEMMA StutterInvariant ==
    ASSUME ManagementInvariant, UNCHANGED vars
    PROVE  ManagementInvariant'
<1>1. /\ mem' = mem /\ disk' = disk /\ files' = files /\ children' = children
      /\ journal' = journal /\ phase' = phase /\ waiting' = waiting /\ op' = op
      /\ sending' = sending /\ attempt' = attempt /\ completed' = completed
      /\ applied' = applied /\ faults' = faults /\ scenario' = scenario
  BY Zenon DEF vars
<1> USE <1>1
<1>2. TypeOK' /\ ChildrenCurrent' /\ Loadable(mem)' /\ Loadable(disk)'
  BY Zenon DEF ManagementInvariant, TypeOK, ChildrenCurrent, Loadable, PendingIds
<1>3. AttemptsInOrder'
  BY ZenonT(60) DEF ManagementInvariant, AttemptsInOrder, Executes, Answers, Work
<1>4. InventoryBound'
  <2>1. ASSUME NEW id \in Ids, NEW j \in Jobs
        PROVE  Bound(mem, id, j)' /\ Bound(disk, id, j)' /\ BoundOnce(id, j)'
    <3>1. Bound(mem, id, j) /\ Bound(disk, id, j) /\ BoundOnce(id, j)
      BY <2>1, Zenon DEF ManagementInvariant, InventoryBound
    <3>2. Bound(mem, id, j)'
      BY <3>1, ZenonT(60) DEF Bound, BoundTo, Running, Executes, Answers, Work
    <3>3. Bound(disk, id, j)'
      BY <3>1, ZenonT(60) DEF Bound, BoundTo, Running, Executes, Answers, Work
    <3>4. BoundOnce(id, j)'
      BY <3>1, ZenonT(60) DEF BoundOnce, BoundTo
    <3> QED BY <3>2, <3>3, <3>4, Zenon
  <2> QED BY <2>1, ZenonT(60) DEF InventoryBound
<1>5. ASSUME NEW j, NEW o, OutcomeCoherent(j, o) PROVE CoherentNext(j, o)
  BY <1>5, Zenon DEF CoherentNext, OutcomeCoherent
<1>6. OutcomesCoherent'
  <2>1. OutcomesCoherent
    BY Zenon DEF ManagementInvariant
  <2>2. OutcomesNext
    BY <1>5, <2>1, ZenonT(60) DEF OutcomesCoherent, OutcomesNext
  <2> QED BY <2>2, OutcomesOfNext, Zenon
<1>7. JournalKept'
  BY Zenon DEF ManagementInvariant, JournalKept, Running
<1>8. ExecutionCoherent'
  BY Zenon DEF ManagementInvariant, ExecutionCoherent, Running, BoundTo, Kind, Target, Work
<1>9. AppliedOnce' /\ TransitionHasInventory' /\ ChildrenOnDisk'
  BY Zenon DEF ManagementInvariant, AppliedOnce, TransitionHasInventory, Kind, Target, Work,
     RemoteInventoryRevision, ChildrenOnDisk
<1> QED BY <1>2, <1>3, <1>4, <1>6, <1>7, <1>8, <1>9, ZenonT(60) DEF ManagementInvariant

\* The invariant holds in every state: memory, host.json and the journal are well
\* formed and can be loaded, and journal, completions, attempts and pending inventory
\* agree on what was done, whatever the crashes, failed writes and redeliveries.
THEOREM ManagementCorrect == Spec => []ManagementInvariant
<1>1. Init => ManagementInvariant
  BY InitInvariant, Zenon
<1>2. ManagementInvariant /\ [Next]_vars => ManagementInvariant'
  BY NextInvariant, StutterInvariant, Zenon
<1> QED BY <1>1, <1>2, PTL DEF Spec

\* README "without reapplying the lifecycle operation": however often a job is
\* delivered, interrupted and recovered, its command is run and its candidate written
\* at most once (handleManagement, recoverInterruptedManagement).
THEOREM AppliedOnceCorrect == Spec => []AppliedOnce
<1>1. ManagementInvariant => AppliedOnce
  BY ZenonT(60) DEF ManagementInvariant
<1> QED BY <1>1, ManagementCorrect, PTL

\* A running child runs the active slot of the installed record when no operation
\* holds managementMu.
THEOREM RunsActiveSlotCorrect == Spec => []RunsActiveSlot
<1>1. ManagementInvariant => RunsActiveSlot
  BY Zenon DEF ManagementInvariant, ChildrenCurrent, RunsActiveSlot
<1> QED BY <1>1, ManagementCorrect, PTL

\* README "Completion acknowledgement precedes inventory delivery": the inventory of a
\* transition is delivered after the completion of its job, and under the very attempt
\* and revision a successful completion names (flushInventoryMutations).
THEOREM InventoryFollowsCompletionCorrect == Spec => InventoryFollowsCompletion
<1>1. ManagementInvariant => DeliveredAfterCompletion
  <2> SUFFICES ASSUME ManagementInvariant, NEW id \in Ids, DeliverInventory(id),
                      mem.pending[id].attempt # None
               PROVE  LET m == mem.pending[id]
                      IN  /\ completed[m.attempt.job] # None
                          /\ completed[m.attempt.job].status = "success" =>
                                /\ completed[m.attempt.job].token = m.attempt.token
                                /\ completed[m.attempt.job].revision = m.revision
    BY Zenon DEF DeliveredAfterCompletion
  <2>1. PICK j : j = mem.pending[id].attempt.job
    BY Zenon
  <2>2. mem.pending[id] # None /\ journal[j] = None
    BY <2>1, Zenon DEF DeliverInventory, Fenced
  <2>3. j \in Jobs /\ mem.pending[id].attempt.token \in Nat
    <3>1. mem.pending[id] \in InventoryMutation
      BY <2>2, Zenon DEF ManagementInvariant, TypeOK, PersistedState
    <3>2. mem.pending[id].attempt \in ActiveAttempt
      BY <3>1, Zenon DEF InventoryMutation
    <3> QED BY <2>1, <3>2, TokenTypes, ZenonT(60) DEF ActiveAttempt
  <2>4. BoundTo(mem, id, j)
    BY <2>1, <2>2, ZenonT(60) DEF BoundTo
  <2>5. applied[j] > 0 /\ mem.pending[id].attempt.token <= attempt[j]
    BY <2>3, <2>4, ZenonT(60) DEF ManagementInvariant, InventoryBound, Bound
  <2>6. completed[j] # None
    BY <2>2, <2>3, <2>5, ZenonT(60) DEF ManagementInvariant, JournalKept
  <2>7. completed[j].token = attempt[j] /\ attempt[j] \in Nat
    BY <2>3, <2>6, TokenTypes, ZenonT(60) DEF ManagementInvariant, OutcomesCoherent, TypeOK
  <2>8. ~(completed[j].token < mem.pending[id].attempt.token)
    <3>1. \A m, n \in Nat : m <= n => ~(n < m)
      OBVIOUS
    <3> QED BY <2>3, <2>5, <2>7, <3>1, Zenon
  <2>9. completed[j].status = "success" => Reported(mem, id, j, completed[j])
    BY <2>3, <2>6, ZenonT(60) DEF ManagementInvariant, OutcomesCoherent, OutcomeCoherent
  <2> QED BY <2>1, <2>4, <2>6, <2>8, <2>9, ZenonT(60) DEF Reported
<1>2. ManagementInvariant /\ [Next]_vars => [DeliveredAfterCompletion]_vars
  BY <1>1, Zenon
<1> QED BY <1>2, ManagementCorrect, PTL DEF Spec, InventoryFollowsCompletion

----------------------------------------------------------------------------
(* The Ledger.                                                             *)

LedgerStep == Promise!Next \/ UNCHANGED <<Work, attempt, applied, completed>>

\* The operation in hand is executed for the first time, and while its job is open.
LEMMA Executed ==
    ASSUME ManagementInvariant, scenario' = scenario, op.step \in {"executing", "staged"},
           Apply, UNCHANGED <<attempt, completed>>
    PROVE  LedgerStep
<1>1. TypeOK /\ AttemptsInOrder /\ OutcomesCoherent /\ ExecutionCoherent
  BY Zenon DEF ManagementInvariant
<1>2. PICK j, t : j = op.job /\ t = op.token
  BY Zenon
<1>3. op.step \in ExecutionSteps
  BY Zenon DEF ExecutionSteps
<1>4. j \in Jobs /\ t \in Tokens /\ t <= attempt[j] /\ applied[j] = 0
  BY <1>1, <1>2, <1>3, JobInHand, ZenonT(60) DEF ExecutionCoherent
<1>5. t \in 1..MaxAttempts /\ attempt[j] \in Nat
  BY <1>1, <1>4, TokenTypes, Zenon DEF TypeOK
<1>6. attempt[j] > 0 /\ ~(attempt[j] < t)
  BY <1>4, <1>5
<1>7. completed[j] = None
  <2>1. ASSUME completed[j] # None PROVE FALSE
    <3>1. completed[j].token = attempt[j] /\ OutcomeCoherent(j, completed[j])
      BY <1>1, <1>4, <2>1, ZenonT(60) DEF OutcomesCoherent
    <3>2. completed[j].status # "running"
      BY <1>1, <1>4, <2>1, ZenonT(60) DEF TypeOK, Completion
    <3>3. Executes(op, j, t)
      BY <1>2, <1>3, Zenon DEF Executes
    <3> QED BY <1>4, <1>6, <3>1, <3>2, <3>3, ZenonT(60) DEF OutcomeCoherent
  <2> QED BY <2>1, Zenon
<1>8. Promise!Execute(j)
  BY <1>2, <1>4, <1>6, <1>7, ZenonT(60) DEF Promise!Execute, Apply, Work
<1> QED BY <1>4, <1>8, Zenon DEF LedgerStep, Promise!Next

\* Recovery repeats a removal.
LEMMA RemovalExecuted ==
    ASSUME ManagementInvariant, scenario' = scenario, NEW j \in Jobs, Running(j),
           Work[j].kind = "remove", applied' = [applied EXCEPT ![j] = @ + 1],
           UNCHANGED <<attempt, completed>>
    PROVE  LedgerStep
<1>1. TypeOK /\ OutcomesCoherent
  BY Zenon DEF ManagementInvariant
<1>2. journal[j].token \in Tokens /\ journal[j].token <= attempt[j]
  BY <1>1, JobRunning, Zenon DEF Running, ManagementOutcome, OutcomeCoherent
<1>3. journal[j].token \in 1..MaxAttempts /\ attempt[j] \in Nat
  BY <1>1, <1>2, TokenTypes, ZenonT(60) DEF TypeOK
<1>4. attempt[j] > 0
  BY <1>2, <1>3
<1>5. Promise!Execute(j)
  BY <1>4, Zenon DEF Promise!Execute, Work
<1> QED BY <1>5, Zenon DEF LedgerStep, Promise!Next

\* What the server is told is true, and it keeps the first completion of a job.
LEMMA Completed ==
    ASSUME ManagementInvariant, scenario' = scenario, NEW c \in Completion,
           OutcomeCoherent(c.job, c), ServerCompletes(c), UNCHANGED <<attempt, applied>>
    PROVE  LedgerStep
<1>1. TypeOK /\ AppliedOnce
  BY Zenon DEF ManagementInvariant
<1>2. PICK j \in Jobs : j = c.job
  BY Zenon DEF Completion
<1>3. /\ c.token = attempt[j] /\ completed[j] \in {None, c}
      /\ completed' = [completed EXCEPT ![j] = c]
  BY <1>2, Zenon DEF ServerCompletes, Accepts
<1>4. CASE completed[j] = None
  <2>1. ASSUME c.status = "success", Work[j].kind \in {"shell", "update", "rollback"}
        PROVE  applied[j] = 1
    <3>1. /\ Work[j].kind \in Transitions \cup {"shell"} /\ Work[j].kind # "remove"
          /\ j \in DOMAIN Work
      BY <1>2, <2>1, Zenon DEF Transitions, OutcomeCoherent
    <3>2. applied[j] > 0 /\ applied[j] <= 1 /\ applied[j] \in Nat
      BY <1>1, <1>2, <2>1, <3>1, ZenonT(60) DEF OutcomeCoherent, AppliedOnce, TypeOK
    <3> QED BY <3>2
  <2>2. Promise!Complete(j, c)
    BY <1>3, <1>4, <2>1, Zenon DEF Promise!Complete, Work
  <2> QED BY <2>2, Zenon DEF LedgerStep, Promise!Next
<1>5. CASE completed[j] = c
  <2>1. completed' = completed
    <3>1. DOMAIN completed = Jobs /\ completed = [k \in Jobs |-> completed[k]]
      BY <1>1, Zenon DEF TypeOK
    <3>2. completed' = [k \in Jobs |-> completed[k]]
      BY <1>3, <1>5, <3>1, Zenon
    <3> QED BY <3>1, <3>2, Zenon
  <2> QED BY <2>1, Zenon DEF LedgerStep, Work
<1> QED BY <1>3, <1>4, <1>5, Zenon

\* Every step of Management is a step of the Ledger, or none.
LEMMA LedgerSteps ==
    ASSUME ManagementInvariant, Next
    PROVE  LedgerStep
<1>1. scenario' = scenario /\ TypeOK /\ op \in Operation /\ OutcomesCoherent
  BY Zenon DEF Next, ManagementInvariant, TypeOK
<1>2. ASSUME UNCHANGED <<attempt, applied, completed>> PROVE LedgerStep
  BY <1>1, <1>2, Zenon DEF LedgerStep, Work
<1>3. ASSUME NEW j \in Jobs, ServerDelivers(j) PROVE LedgerStep
  <2>1. Promise!Deliver(j)
    BY <1>1, <1>3, ZenonT(60) DEF ServerDelivers, Promise!Deliver, Work
  <2> QED BY <1>3, <2>1, Zenon DEF LedgerStep, Promise!Next
<1>4. ASSUME ExecutionStep PROVE LedgerStep
  <2>1. UNCHANGED <<attempt, completed>>
    BY <1>4, ZenonT(60) DEF ExecutionStep, sessionVars
  <2>2. applied' = applied \/ (op.step \in {"executing", "staged"} /\ Apply)
    BY <1>4, ZenonT(60) DEF ExecutionStep, Replay, SaveReplayed, Announce,
       ExecutionRefused, ExecuteShell, PrepareRollback, Stage, Activate, ActivateFails,
       Activatable, Restore, CleanupConnectorArtifacts, Remove, RemoveFiles, Finish,
       RemoveOutcome, ApplyIfWritten
  <2> QED BY <1>1, <1>2, <2>1, <2>2, Executed, ZenonT(60)
<1>5. ASSUME RecoveryStep PROVE LedgerStep
  <2>1. UNCHANGED <<attempt, completed>>
    BY <1>5, ZenonT(60) DEF RecoveryStep
  <2>2. \/ applied' = applied
        \/ \E j \in Jobs : /\ Running(j) /\ Work[j].kind = "remove"
                           /\ applied' = [applied EXCEPT ![j] = @ + 1]
    BY <1>5, ZenonT(60) DEF RecoveryStep, RecoveryBegins, SaveRecovered, RecoveryEnds,
       Recover, RecoverRestores, RecoverRemovesInstall, RecoverNothing, RecoverRemove,
       RecoverCommits
  <2> QED BY <1>1, <1>2, <2>1, <2>2, RemovalExecuted, ZenonT(60)
<1>6. ASSUME Report PROVE LedgerStep
  <2>1. /\ op.completion \in Completion /\ OutcomeCoherent(op.completion.job, op.completion)
        /\ UNCHANGED <<attempt, applied>>
    BY <1>1, <1>6, OperationTypes, ZenonT(60) DEF Report, OutcomesCoherent
  <2> QED BY <1>1, <1>2, <1>6, <2>1, Completed, ZenonT(60) DEF Report
<1>7. ASSUME FlushEnds PROVE LedgerStep
  <2>1. /\ sending \in Completion /\ OutcomeCoherent(sending.job, sending)
        /\ UNCHANGED <<attempt, applied>>
    BY <1>1, <1>7, ZenonT(60) DEF FlushEnds, OutcomesCoherent, TypeOK
  <2> QED BY <1>1, <1>2, <1>7, <2>1, Completed, ZenonT(60) DEF FlushEnds
<1>8. ASSUME \/ \E j \in Jobs : FlushSends(j)
             \/ \E j \in Jobs, t \in Tokens : HandleManagement(j, t)
             \/ \E id \in Ids : DeliverInventory(id) \/ StartFailure(id)
             \/ \E id \in scenario.local : LocalStep(id)
             \/ Restart
      PROVE  LedgerStep
  BY <1>2, <1>8, ZenonT(60) DEF FlushSends, HandleManagement, DeliverInventory, StartFailure,
     LocalStep, Restart, sessionVars
<1> QED BY <1>3, <1>4, <1>5, <1>6, <1>7, <1>8, ZenonT(60) DEF Next

\* The journal implements the Ledger: through crashes, redelivery, recovery and failed
\* writes a job is executed at most once and only while it is open, and what Airlock
\* accepts of it is of the latest attempt and, of a shell, update or rollback that
\* succeeded, true (handleManagement, recoverInterruptedManagement,
\* flushManagementOutcomes).
THEOREM LedgerImplemented == Spec => ImplementsLedger
<1>1. Init => Promise!Init
  BY Zenon DEF Init, Promise!Init
<1>2. ManagementInvariant /\ [Next]_vars =>
         [Promise!Next]_<<Work, attempt, applied, completed>>
  <2>1. UNCHANGED vars => UNCHANGED <<Work, attempt, applied, completed>>
    BY ZenonT(60) DEF vars, Work
  <2> QED BY <2>1, LedgerSteps, Zenon DEF LedgerStep
<1> QED BY <1>1, <1>2, ManagementCorrect, PTL DEF Spec, ImplementsLedger, Promise!Spec

\* A connector child always runs an artifact that is in its directory: no cleanup of a
\* candidate, a failed staging, a finished update or a removal takes it away
\* (cleanupFailedCandidate, cleanupStagingFailure, CleanupConnectorArtifacts).
THEOREM ChildrenOnDiskCorrect == Spec => []ChildrenOnDisk
<1>1. ManagementInvariant => ChildrenOnDisk
  BY Zenon DEF ManagementInvariant
<1> QED BY <1>1, ManagementCorrect, PTL
============================================================================
