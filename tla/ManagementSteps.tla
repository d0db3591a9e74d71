-------------------------- MODULE ManagementSteps --------------------------
(***************************************************************************)
(* What the steps of Management keep and change: every state is well       *)
(* formed, a step moves attempts, effects, bindings, journals and the      *)
(* holder of managementMu only in the ways stated here, and pending        *)
(* inventory and the job in execution stay coherent.                       *)
(***************************************************************************)
EXTENDS Management, StoreProofs

----------------------------------------------------------------------------
(* The parts of the state.                                                 *)

\* Attempts are numbered.
LEMMA TokenTypes ==
    /\ \A t \in Tokens : t \in Nat /\ t \in 1..MaxAttempts
    /\ \A n \in 0..MaxAttempts : n \in Nat
    /\ \A n \in 1..MaxAttempts : n \in Tokens
BY ManagementAssumption

\* A job of the scenario has a kind and a connector.
LEMMA WorkTypes ==
    ASSUME scenario \in Scenarios, NEW j \in DOMAIN Work
    PROVE  j \in Jobs /\ Work[j].id \in Ids /\ Work[j].kind \in Kinds
<1>1. scenario.work \in UNION {[jobs -> [kind : Kinds, id : Ids]] : jobs \in SUBSET Jobs}
  BY ManagementAssumption, Zenon DEF Scenario
<1>2. PICK jobs \in SUBSET Jobs : scenario.work \in [jobs -> [kind : Kinds, id : Ids]]
  BY <1>1, Zenon
<1>3. DOMAIN Work = jobs /\ Work[j] \in [kind : Kinds, id : Ids]
  BY <1>2, Zenon DEF Work
<1> QED BY <1>3, Zenon

\* What the holder of managementMu keeps, by its step.
LEMMA OperationTypes ==
    ASSUME NEW h \in Operation
    PROVE  /\ h.step \in ExecutionSteps =>
                 /\ h.job \in Jobs /\ h.token \in Tokens
                 /\ h.record \in ConnectorRecord \cup {None}
                 /\ \A s : [h EXCEPT !.step = s] = Executing(h.job, h.token, h.record, s)
           /\ h.step = "replaying" =>
                 h.job \in Jobs /\ h.token \in Tokens /\ h.outcome \in ManagementOutcome
           /\ h.step = "rebound" => h.job \in Jobs /\ h.outcome \in ManagementOutcome
           /\ h.step \in {"reporting", "acknowledged"} =>
                 /\ h.completion \in Completion
                 /\ \A s : [h EXCEPT !.step = s] = [step |-> s, completion |-> h.completion]
           /\ h.step \in {"recovering", "recovered"} => h.caller \in Caller
           /\ h.step = "recovered" => h.job \in Jobs /\ h.outcome \in ManagementOutcome
<1>1. CASE h = Free
  BY <1>1, Zenon DEF Free, ExecutionSteps
<1>2. CASE h \in [step : {"journalled", "executing", "staged", "restoring", "activated",
                  "removing", "succeeded", "failed"},
          job : Jobs, token : Tokens, record : ConnectorRecord \cup {None}]
  BY <1>2 DEF ExecutionSteps, Executing
<1>3. CASE h \in [step : {"replaying"}, job : Jobs, token : Tokens, outcome : ManagementOutcome]
  BY <1>3 DEF ExecutionSteps
<1>4. CASE h \in [step : {"rebound"}, job : Jobs, outcome : ManagementOutcome]
  BY <1>4 DEF ExecutionSteps
<1>5. CASE h \in [step : {"reporting", "acknowledged"}, completion : Completion]
  BY <1>5 DEF ExecutionSteps
<1>6. CASE h \in [step : {"recovering"}, caller : Caller]
  BY <1>6 DEF ExecutionSteps
<1>7. CASE h \in [step : {"recovered"}, caller : Caller, job : Jobs, outcome : ManagementOutcome]
  BY <1>7 DEF ExecutionSteps
<1> QED BY <1>1, <1>2, <1>3, <1>4, <1>5, <1>6, <1>7, Zenon DEF Operation

----------------------------------------------------------------------------
(* The handlers: who waits for managementMu and who holds it.              *)

\* A step of the operation in execution keeps its job and attempt.
LEMMA GoKeeps ==
    ASSUME op \in Operation, op.step \in ExecutionSteps, NEW s, Go(s)
    PROVE  /\ op' = Executing(op.job, op.token, op.record, s)
           /\ op'.step = s /\ op'.job = op.job /\ op'.token = op.token
           /\ op'.record = op.record
<1>1. op' = Executing(op.job, op.token, op.record, s)
  BY OperationTypes, Zenon DEF Go
<1> QED BY <1>1, Zenon DEF Executing

\* Holders that belong to no attempt still to be answered.
Answered(h) == h.step \in {"free", "rebound", "reporting", "acknowledged"}

\* An operation in execution moves on under the same attempt, or is over.
OperationMoves ==
    \/ Answered(op')
    \/ /\ op.step \in ExecutionSteps /\ op'.step \in ExecutionSteps
       /\ op'.job = op.job /\ op'.token = op.token

\* ExecutionStep: an attempt ends as an outcome, and never becomes another one.
LEMMA ExecutionMoves ==
    ASSUME op \in Operation, ExecutionStep
    PROVE  OperationMoves
<1> USE DEF OperationMoves
<1>1. ASSUME NEW s \in ExecutionSteps, op.step \in ExecutionSteps, Go(s)
      PROVE  OperationMoves
  BY <1>1, GoKeeps, Zenon
<1>2. ASSUME op' = Free PROVE OperationMoves
  BY <1>2, Zenon DEF Answered, Free
<1>3. ASSUME NEW j, NEW t, NEW o, op' = Reporting(j, t, o) PROVE OperationMoves
  BY <1>3, Zenon DEF Answered, Reporting
<1>4. ASSUME NEW n, op' = Rebound(n) PROVE OperationMoves
  BY <1>4, Zenon DEF Answered, Rebound
<1>5. ASSUME NEW r, op.step \in ExecutionSteps, op' = Executing(op.job, op.token, r, "staged")
      PROVE  OperationMoves
  BY <1>5, Zenon DEF Executing, ExecutionSteps
<1> HIDE DEF OperationMoves
<1>6. /\ op.step \in {"journalled", "executing", "staged", "restoring", "activated",
                      "removing"} => op.step \in ExecutionSteps
      /\ {"executing", "succeeded", "failed", "activated", "restoring", "removing"}
            \subseteq ExecutionSteps
  BY Zenon DEF ExecutionSteps
<1>7. ASSUME Replay \/ SaveReplayed \/ Finish \/ RemoveOutcome PROVE OperationMoves
  BY <1>7, <1>2, <1>3, <1>4, Zenon DEF Replay, SaveReplayed, Finish, RemoveOutcome
<1>8. ASSUME Announce PROVE OperationMoves
  BY <1>8, <1>1, <1>3, <1>6, Zenon DEF Announce
<1>9. ASSUME ExecutionRefused \/ ExecuteShell PROVE OperationMoves
  BY <1>9, <1>1, <1>6, Zenon DEF ExecutionRefused, ExecuteShell
<1>10. ASSUME NEW slot \in Slot, Stage(slot) \/ PrepareRollback PROVE OperationMoves
  BY <1>10, <1>1, <1>5, <1>6, Zenon DEF Stage, PrepareRollback
<1>11. ASSUME Activate \/ ActivateFails \/ Restore PROVE OperationMoves
  BY <1>11, <1>1, <1>6, Zenon DEF Activate, ActivateFails, Activatable, Restore
<1>12. ASSUME CleanupConnectorArtifacts \/ Remove \/ RemoveFiles PROVE OperationMoves
  BY <1>12, <1>1, <1>6, Zenon DEF CleanupConnectorArtifacts, Remove, RemoveFiles
<1>13. ASSUME PrepareRollback PROVE OperationMoves
  BY <1>13, <1>5, <1>6, Zenon DEF PrepareRollback
<1> QED
  BY <1>7, <1>8, <1>9, <1>10, <1>11, <1>12, <1>13, Zenon DEF ExecutionStep

\* The attempt that holds managementMu after the step held it before.
HandlerKept ==
    \A j \in Jobs, u \in Tokens :
        /\ Executes(op', j, u) => Executes(op, j, u)
        /\ Answers(op', j, u) => Answers(op, j, u)

\* No step but the admission of a waiting handler gives managementMu to another attempt.
LEMMA HandlersKept ==
    ASSUME op \in Operation,
           \/ ExecutionStep \/ Report \/ RecoveryStep \/ Restart \/ op' = op
    PROVE  HandlerKept
<1>1. ASSUME OperationMoves PROVE HandlerKept
  <2>1. CASE Answered(op')
    BY <2>1, Zenon DEF HandlerKept, Answered, Executes, Answers, ExecutionSteps
  <2>2. CASE ~Answered(op')
    <3>1. /\ op.step \in ExecutionSteps /\ op'.step \in ExecutionSteps
          /\ op'.job = op.job /\ op'.token = op.token
      BY <1>1, <2>2, Zenon DEF OperationMoves
    <3>2. op'.step \notin {"replaying", "recovering", "recovered"}
      BY <3>1, Zenon DEF ExecutionSteps
    <3> QED BY <3>1, <3>2, Zenon DEF HandlerKept, Executes, Answers
  <2> QED BY <2>1, <2>2, Zenon
<1>2. ASSUME op' = Free PROVE OperationMoves
  BY <1>2, Zenon DEF OperationMoves, Answered, Free
<1>3. ASSUME op.step \in {"reporting", "acknowledged"}, Go("acknowledged") PROVE OperationMoves
  <2>1. op' = [step |-> "acknowledged", completion |-> op.completion]
    BY <1>3, OperationTypes, Zenon DEF Go
  <2> QED BY <2>1, Zenon DEF OperationMoves, Answered
<1>4. ASSUME Report PROVE HandlerKept
  BY <1>1, <1>2, <1>3, <1>4, Zenon DEF Report
<1>5. ASSUME RecoveryStep PROVE HandlerKept
  <2>1. ASSUME RecoveryBegins PROVE HandlerKept
    <3>1. Startup \notin Jobs \X Tokens /\ Worker \notin Jobs \X Tokens
      BY DEF Startup, Worker
    <3>2. /\ op'.step = "recovering"
          /\ op'.caller = Startup \/ op'.caller = Worker
      BY <2>1 DEF RecoveryBegins
    <3>3. \A j \in Jobs, u \in Tokens : op'.caller # <<j, u>>
      BY <3>1, <3>2
    <3> QED BY <3>2, <3>3, Zenon DEF HandlerKept, Executes, Answers, ExecutionSteps
  <2>2. ASSUME op.step \in {"recovering", "recovered"},
               op'.step \in {"recovering", "recovered"}, op'.caller = op.caller
        PROVE  HandlerKept
    BY <2>2, Zenon DEF HandlerKept, Executes, Answers, ExecutionSteps
  <2>3. ASSUME RecoveryFails PROVE HandlerKept
    BY <2>3, <1>1, <1>2, Zenon DEF RecoveryFails
  <2>4. ASSUME SaveRecovered PROVE HandlerKept
    <3>1. CASE op' = [step |-> "recovering", caller |-> op.caller]
      <4>1. op'.step = "recovering" /\ op'.caller = op.caller
        BY <3>1, Zenon
      <4> QED BY <2>4, <4>1, <2>2, Zenon DEF SaveRecovered
    <3> QED BY <2>4, <3>1, <2>3, Zenon DEF SaveRecovered
  <2>5. ASSUME RecoveryEnds PROVE HandlerKept
    <3>1. CASE op' = Free
      BY <3>1, <1>1, <1>2, Zenon
    <3>2. CASE /\ op.step = "recovering" /\ op.caller \in Jobs \X Tokens
               /\ op' = Replaying(op.caller[1], op.caller[2])
      <4>1. op'.step = "replaying" /\ op'.job = op.caller[1] /\ op'.token = op.caller[2]
        BY <3>2, Zenon DEF Replaying
      <4>2. op.caller = <<op.caller[1], op.caller[2]>>
        BY <3>2
      <4> QED BY <3>2, <4>1, <4>2, Zenon DEF HandlerKept, Executes, Answers, ExecutionSteps
    <3> QED BY <2>5, <3>1, <3>2, Zenon DEF RecoveryEnds, RecoveryFails
  <2>6. ASSUME NEW j \in Jobs, NEW status, NEW n, op.step = "recovering",
               Recovered(j, status, n)
        PROVE  HandlerKept
    BY <2>6, <2>2, Zenon DEF Recovered
  <2>7. ASSUME NEW j \in Jobs, Recover(j) PROVE HandlerKept
    BY <2>7, <2>3, <2>6, Zenon DEF Recover, RecoverRestores, RecoverRemovesInstall,
       RecoverNothing, RecoverRemove, RecoverCommits
  <2> QED BY <1>5, <2>1, <2>4, <2>5, <2>7, Zenon DEF RecoveryStep
<1>6. ASSUME Restart PROVE HandlerKept
  BY <1>1, <1>2, <1>6, Zenon DEF Restart
<1>7. ASSUME op' = op PROVE HandlerKept
  BY <1>7, Zenon DEF HandlerKept
<1> QED BY <1>1, <1>4, <1>5, <1>6, <1>7, ExecutionMoves, Zenon

\* The attempt took managementMu from the head of those waiting for it.
Admitted(j, u) ==
    /\ <<j, u>> \in waiting
    /\ \A v \in Tokens : <<j, v>> \in waiting' => u < v

\* What a step does to the attempts: the server numbers new ones upwards, while it has
\* no completion, and each waits before it holds managementMu.
AttemptStep ==
    \A j \in Jobs :
        /\ attempt[j] <= attempt'[j]
        /\ completed[j] # None => attempt'[j] = attempt[j]
        /\ \A u \in Tokens :
              /\ <<j, u>> \in waiting' =>
                    \/ <<j, u>> \in waiting
                    \/ j \in DOMAIN Work /\ attempt[j] < u /\ u <= attempt'[j]
              /\ Executes(op', j, u) => Executes(op, j, u) \/ Admitted(j, u)
              /\ Answers(op', j, u) => Answers(op, j, u) \/ Admitted(j, u)

\* Every step is such a step.
LEMMA AttemptSteps ==
    ASSUME TypeOK, Next
    PROVE  AttemptStep
<1>1. /\ op \in Operation /\ waiting \in SUBSET (Jobs \X Tokens)
      /\ attempt \in [Jobs -> 0..MaxAttempts]
  BY Zenon DEF TypeOK
<1>2. \A j \in Jobs : attempt[j] \in Nat /\ attempt[j] <= attempt[j]
  BY <1>1, TokenTypes, Reflexive, Zenon
<1>3. ASSUME waiting' \subseteq waiting, attempt' = attempt, HandlerKept
      PROVE  AttemptStep
  BY <1>2, <1>3, Zenon DEF AttemptStep, HandlerKept
<1>4. ASSUME NEW j \in Jobs, ServerDelivers(j) PROVE AttemptStep
  <2>1. /\ HandlerKept
        /\ j \in DOMAIN Work /\ completed[j] = None /\ attempt[j] < MaxAttempts
        /\ attempt' = [attempt EXCEPT ![j] = attempt[j] + 1]
        /\ waiting' = waiting \cup {<<j, attempt[j] + 1>>}
    BY <1>1, <1>4, HandlersKept, Zenon DEF ServerDelivers
  <2>2. /\ attempt'[j] = attempt[j] + 1
        /\ \A k \in Jobs : k # j => attempt'[k] = attempt[k]
    BY <1>1, <2>1, Zenon
  <2>3. attempt[j] <= attempt[j] + 1 /\ attempt[j] < attempt[j] + 1
        /\ attempt[j] + 1 <= attempt[j] + 1
    BY <1>2
  <2>4. \A k \in Jobs, u \in Tokens :
           <<k, u>> \in waiting' => <<k, u>> \in waiting \/ (k = j /\ u = attempt[j] + 1)
    BY <2>1
  <2> QED BY <1>2, <2>1, <2>2, <2>3, <2>4, Zenon DEF AttemptStep, HandlerKept
<1>5. ASSUME NEW j \in Jobs, NEW t \in Tokens, HandleManagement(j, t) PROVE AttemptStep
  <2>1. /\ op = Free /\ <<j, t>> \in waiting /\ attempt' = attempt
        /\ waiting' = waiting \ {<<j, t>>}
        /\ \A u \in Tokens : <<j, u>> \in waiting => t <= u
    BY <1>5, Zenon DEF HandleManagement
  <2>2. \A v \in Tokens : <<j, v>> \in waiting' => t < v
    BY <2>1, TokenTypes
  <2>3. \A k \in Jobs, u \in Tokens :
           Executes(op', k, u) \/ Answers(op', k, u) => k = j /\ u = t
    <3> SUFFICES ASSUME NEW k \in Jobs, NEW u \in Tokens,
                        Executes(op', k, u) \/ Answers(op', k, u)
                 PROVE  k = j /\ u = t
      BY Zenon
    <3>1. CASE Refuse(j, t)
      <4>1. op'.step = "reporting"
        BY <3>1, Zenon DEF Refuse, Reporting
      <4> QED BY <4>1, Zenon DEF Executes, Answers, ExecutionSteps
    <3>2. CASE FindRunning(j, t)
      <4>1. op'.step = "recovering" /\ op'.caller = <<j, t>>
        BY <3>2, Zenon DEF FindRunning
      <4>2. <<j, t>> = <<k, u>>
        BY <4>1, Zenon DEF Executes, Answers, ExecutionSteps
      <4> QED BY <4>2
    <3>3. CASE FindFinished(j, t)
      <4>1. op'.step = "replaying" /\ op'.job = j /\ op'.token = t
        BY <3>3, Zenon DEF FindFinished, Replaying
      <4> QED BY <4>1, Zenon DEF Executes, Answers, ExecutionSteps
    <3>4. CASE Begin(j, t)
      <4>1. \/ op'.step = "journalled" /\ op'.job = j /\ op'.token = t
            \/ op'.step = "reporting"
        BY <3>4 DEF Begin, Executing, Reporting
      <4> QED BY <4>1, Zenon DEF Executes, Answers, ExecutionSteps
    <3> QED BY <1>5, <3>1, <3>2, <3>3, <3>4, Zenon DEF HandleManagement
  <2> QED BY <1>2, <2>1, <2>2, <2>3, Zenon DEF AttemptStep, Admitted
<1>6. ASSUME ExecutionStep \/ RecoveryStep \/ Report PROVE AttemptStep
  BY <1>1, <1>3, <1>6, HandlersKept, Zenon
     DEF ExecutionStep, RecoveryStep, Report, sessionVars
<1>7. ASSUME Restart PROVE AttemptStep
  BY <1>1, <1>3, <1>7, HandlersKept, Zenon DEF Restart
<1>8. ASSUME NEW j \in Jobs, FlushSends(j) PROVE AttemptStep
  BY <1>1, <1>3, <1>8, HandlersKept, Zenon DEF FlushSends
<1>9. ASSUME FlushEnds PROVE AttemptStep
  BY <1>1, <1>3, <1>9, HandlersKept, Zenon DEF FlushEnds
<1>10. ASSUME NEW id \in Ids, DeliverInventory(id) \/ StartFailure(id) \/ LocalStep(id)
       PROVE  AttemptStep
  BY <1>1, <1>3, <1>10, HandlersKept, Zenon
     DEF DeliverInventory, StartFailure, LocalStep, sessionVars
<1>11. \A id \in scenario.local : id \in Ids
  BY ManagementAssumption, Zenon DEF TypeOK, Scenario
<1> QED
  BY <1>4, <1>5, <1>6, <1>7, <1>8, <1>9, <1>10, <1>11, Zenon DEF Next

\* Handlers are admitted in the order of their attempts.
LEMMA AttemptsStayInOrder ==
    ASSUME TypeOK, AttemptsInOrder, AttemptStep, scenario' = scenario,
           attempt' \in [Jobs -> 0..MaxAttempts]
    PROVE  AttemptsInOrder'
<1>1. \A j \in Jobs : attempt[j] \in Nat /\ attempt'[j] \in Nat
  BY TokenTypes, Zenon DEF TypeOK
<1> SUFFICES ASSUME NEW j \in Jobs, NEW t \in Tokens
             PROVE  /\ <<j, t>> \in waiting' => j \in DOMAIN Work /\ t <= attempt'[j]
                    /\ Executes(op', j, t) \/ Answers(op', j, t) =>
                          /\ j \in DOMAIN Work
                          /\ t <= attempt'[j]
                          /\ \A u \in Tokens : <<j, u>> \in waiting' => t < u
  BY Zenon DEF AttemptsInOrder, Executes, Answers, Work
<1>2. <<j, t>> \in waiting => j \in DOMAIN Work /\ t <= attempt'[j]
  <2>1. <<j, t>> \in waiting => j \in DOMAIN Work /\ t <= attempt[j]
    BY Zenon DEF AttemptsInOrder
  <2>2. attempt[j] <= attempt'[j]
    BY Zenon DEF AttemptStep
  <2> QED BY <1>1, <2>1, <2>2, TokenTypes, Transitive, Zenon
<1>3. <<j, t>> \in waiting' => j \in DOMAIN Work /\ t <= attempt'[j]
  BY <1>2, Zenon DEF AttemptStep
<1>4. ASSUME Executes(op, j, t) \/ Answers(op, j, t)
      PROVE  /\ j \in DOMAIN Work
             /\ t <= attempt'[j]
             /\ \A u \in Tokens : <<j, u>> \in waiting' => t < u
  <2>1. /\ j \in DOMAIN Work
        /\ t <= attempt[j]
        /\ \A u \in Tokens : <<j, u>> \in waiting => t < u
    BY <1>4, Zenon DEF AttemptsInOrder
  <2>2. /\ attempt[j] <= attempt'[j]
        /\ \A u \in Tokens : <<j, u>> \in waiting' => <<j, u>> \in waiting \/ attempt[j] < u
    BY Zenon DEF AttemptStep
  <2>3. \A u \in Tokens : attempt[j] < u => t < u
    BY <1>1, <2>1, TokenTypes
  <2> QED BY <1>1, <2>1, <2>2, <2>3, TokenTypes, Transitive, Zenon
<1>5. Executes(op', j, t) \/ Answers(op', j, t) =>
         Executes(op, j, t) \/ Answers(op, j, t) \/ Admitted(j, t)
  BY Zenon DEF AttemptStep
<1> QED BY <1>2, <1>3, <1>4, <1>5, Zenon DEF Admitted

----------------------------------------------------------------------------
(* Every state is well formed, and load accepts memory and disk.           *)

Typed == TypeOK /\ Loadable(mem) /\ Loadable(disk)

\* The job in hand is one of the scenario's.
LEMMA JobInHand ==
    ASSUME TypeOK, AttemptsInOrder
    PROVE  /\ op.step \in ExecutionSteps \/ op.step = "replaying" =>
                 /\ op.job \in Jobs /\ op.token \in Tokens /\ op.job \in DOMAIN Work
                 /\ Work[op.job].id \in Ids /\ Work[op.job].kind \in Kinds
                 /\ op.token <= attempt[op.job]
                 /\ \A u \in Tokens : <<op.job, u>> \in waiting => op.token < u
           /\ op.step \in ExecutionSteps => Target \in Ids /\ Kind \in Kinds
<1>1. ASSUME op.step \in ExecutionSteps \/ op.step = "replaying"
      PROVE  /\ op.job \in Jobs /\ op.token \in Tokens /\ op.job \in DOMAIN Work
             /\ op.token <= attempt[op.job]
             /\ \A u \in Tokens : <<op.job, u>> \in waiting => op.token < u
  <2>1. op.job \in Jobs /\ op.token \in Tokens
    BY <1>1, OperationTypes, Zenon DEF TypeOK
  <2>2. Executes(op, op.job, op.token) \/ Answers(op, op.job, op.token)
    BY <1>1, Zenon DEF Executes, Answers
  <2> QED BY <2>1, <2>2, Zenon DEF AttemptsInOrder
<1> QED BY <1>1, WorkTypes, Zenon DEF TypeOK, Target, Kind

\* A job journalled as running is one of the scenario's.
LEMMA JobRunning ==
    ASSUME TypeOK, OutcomesCoherent, NEW j \in Jobs, journal[j] # None
    PROVE  /\ j \in DOMAIN Work /\ Work[j].id \in Ids /\ Work[j].kind \in Kinds
           /\ OutcomeCoherent(j, journal[j]) /\ journal[j] \in ManagementOutcome
<1>1. OutcomeCoherent(j, journal[j])
  BY Zenon DEF OutcomesCoherent
<1>2. j \in DOMAIN Work
  BY <1>1, Zenon DEF OutcomeCoherent
<1>3. journal[j] \in ManagementOutcome
  BY Zenon DEF TypeOK
<1> QED BY <1>1, <1>2, <1>3, WorkTypes, Zenon DEF TypeOK

\* The records of the lifecycle operations are well formed.
LEMMA LifecycleRecords ==
    ASSUME NEW old \in ConnectorRecord, NEW slot \in Slot
    PROVE  /\ FirstRecord(slot) \in ConnectorRecord
           /\ UpdatedRecord(old, slot) \in ConnectorRecord
           /\ old.previous # None => RolledBackRecord(old) \in ConnectorRecord
           /\ old.active \in Slot /\ old.previous \in Slot \cup {None}
<1>1. old.active \in Slot /\ old.previous \in Slot \cup {None} /\ old.acknowledged \in BOOLEAN
  BY Zenon DEF ConnectorRecord
<1>2. FirstRecord(slot) \in ConnectorRecord
  BY Zenon DEF FirstRecord, ConnectorRecord
<1>3. UpdatedRecord(old, slot) \in ConnectorRecord
  BY <1>1, Zenon DEF UpdatedRecord, ConnectorRecord
<1>4. old.previous # None => RolledBackRecord(old) \in ConnectorRecord
  BY <1>1, Zenon DEF RolledBackRecord, ConnectorRecord
<1> QED BY <1>1, <1>2, <1>3, <1>4, Zenon

\* A save leaves memory and disk with states load accepts, whether or not it fails.
LEMMA SaveTyped ==
    ASSUME Typed, NEW next \in PersistedState, Loadable(next), Saved(next) \/ SaveFaults(next)
    PROVE  /\ mem' \in PersistedState /\ Loadable(mem')
           /\ disk' \in PersistedState /\ Loadable(disk')
           /\ faults' \in 0..MaxFaults
<1>1. CASE Saved(next)
  BY <1>1, Zenon DEF Saved, Typed, TypeOK
<1>2. CASE SaveFaults(next)
  <2>1. faults' \in 0..MaxFaults
    BY <1>2, ManagementAssumption DEF SaveFaults, Fault, Typed, TypeOK
  <2> QED BY <1>2, <2>1, Zenon DEF SaveFaults, Typed, TypeOK
<1> QED BY <1>1, <1>2, Zenon

\* The candidates of Replay and Activate are states load accepts.
LEMMA TransitionTyped ==
    ASSUME Typed, NEW id \in Ids, NEW record \in ConnectorRecord, NEW a \in ActiveAttempt \cup {None},
           CanRevise(mem), CanEnqueueInventoryMutation(mem, id),
           Saved(PutInventoryConnector(mem, id, record, a))
              \/ SaveFaults(PutInventoryConnector(mem, id, record, a))
    PROVE  /\ mem' \in PersistedState /\ Loadable(mem')
           /\ disk' \in PersistedState /\ Loadable(disk')
           /\ faults' \in 0..MaxFaults
<1> DEFINE next == PutInventoryConnector(mem, id, record, a)
<1>1. mem \in PersistedState /\ Loadable(mem) /\ SaveAccepts(mem, next)
  BY Zenon DEF Typed, TypeOK, Saved, SaveFaults
<1>2. next \in PersistedState /\ Loadable(next)
  BY <1>1, PutInventoryType, PutInventoryLoadable, Zenon
<1> HIDE DEF next
<1>3. Saved(next) \/ SaveFaults(next)
  BY Zenon DEF next
<1> QED BY <1>2, <1>3, SaveTyped, Zenon

\* So are those of PutRemoteConnector
LEMMA PutRemoteTyped ==
    ASSUME Typed, NEW id \in Ids, NEW record \in ConnectorRecord,
           Saved(PutRemoteConnector(mem, id, record))
              \/ SaveFaults(PutRemoteConnector(mem, id, record))
    PROVE  /\ mem' \in PersistedState /\ Loadable(mem')
           /\ disk' \in PersistedState /\ Loadable(disk')
           /\ faults' \in 0..MaxFaults
<1> DEFINE next == PutRemoteConnector(mem, id, record)
<1>1. mem \in PersistedState /\ Loadable(mem) /\ SaveAccepts(mem, next)
  BY Zenon DEF Typed, TypeOK, Saved, SaveFaults
<1>2. next \in PersistedState /\ Loadable(next)
  BY <1>1, PutRemoteType, PutRemoteLoadable, Zenon
<1> HIDE DEF next
<1>3. Saved(next) \/ SaveFaults(next)
  BY Zenon DEF next
<1> QED BY <1>2, <1>3, SaveTyped, Zenon

\* and RemoveRemoteConnector.
LEMMA RemoveRemoteTyped ==
    ASSUME Typed, NEW id \in Ids,
           Saved(RemoveRemoteConnector(mem, id)) \/ SaveFaults(RemoveRemoteConnector(mem, id))
    PROVE  /\ mem' \in PersistedState /\ Loadable(mem')
           /\ disk' \in PersistedState /\ Loadable(disk')
           /\ faults' \in 0..MaxFaults
<1> DEFINE next == RemoveRemoteConnector(mem, id)
<1>1. mem \in PersistedState /\ Loadable(mem) /\ SaveAccepts(mem, next)
  BY Zenon DEF Typed, TypeOK, Saved, SaveFaults
<1>2. next \in PersistedState /\ Loadable(next)
  BY <1>1, RemoveRemoteType, RemoveRemoteLoadable, Zenon
<1> HIDE DEF next
<1>3. Saved(next) \/ SaveFaults(next)
  BY Zenon DEF next
<1> QED BY <1>2, <1>3, SaveTyped, Zenon

\* What the writes of a step leave in memory and on disk.
StoreTyped ==
    /\ mem \in PersistedState /\ Loadable(mem)
    /\ disk \in PersistedState /\ Loadable(disk)
    /\ faults \in 0..MaxFaults

\* The operations of handleManagement keep both states loadable,
LEMMA ExecutionStoreTyped ==
    ASSUME Typed, AttemptsInOrder, ExecutionCoherent, ExecutionStep
    PROVE  StoreTyped'
<1>1. StoreTyped
  BY Zenon DEF Typed, TypeOK, StoreTyped
<1>2. ASSUME UNCHANGED <<mem, disk, faults>> PROVE StoreTyped'
  BY <1>1, <1>2, Zenon DEF StoreTyped
<1>3. ASSUME Fault PROVE faults' \in 0..MaxFaults
  BY <1>1, <1>3, ManagementAssumption DEF StoreTyped, Fault
<1>4. ASSUME NEW j, NEW o, JournalSaved(j, o) \/ JournalFaults(j, o), UNCHANGED storeVars
      PROVE  StoreTyped'
  BY <1>1, <1>3, <1>4, Zenon DEF StoreTyped, JournalSaved, JournalFaults, storeVars
<1>5. ASSUME Replay PROVE StoreTyped'
  <2>1. op.step = "replaying"
    BY <1>5, Zenon DEF Replay
  <2>2. CASE UNCHANGED <<storeVars, faults>>
    BY <2>2, <1>2, Zenon DEF storeVars
  <2>3. CASE CanRebind /\ (Saved(Rebinding) \/ SaveFaults(Rebinding))
    <3> DEFINE id == Work[op.job].id
               a == [job |-> op.job, token |-> op.token]
    <3>1. id \in Ids /\ a \in ActiveAttempt
      BY <2>1, JobInHand, Zenon DEF Typed, ActiveAttempt
    <3>2. mem.connectors[id] \in ConnectorRecord /\ CanRevise(mem)
          /\ CanEnqueueInventoryMutation(mem, id)
      BY <2>3, <3>1, Zenon DEF CanRebind, Typed, TypeOK, PersistedState
    <3>3. Rebinding = PutInventoryConnector(mem, id, mem.connectors[id], a)
      BY Zenon DEF Rebinding
    <3> HIDE DEF id, a
    <3> QED BY <2>3, <3>1, <3>2, <3>3, TransitionTyped, Zenon DEF StoreTyped
  <2> QED BY <1>5, <2>2, <2>3, Zenon DEF Replay
<1>6. ASSUME SaveReplayed \/ Finish PROVE StoreTyped'
  BY <1>4, <1>6, Zenon DEF SaveReplayed, Finish
<1>7. ASSUME Activatable, Saved(Candidate) \/ SaveFaults(Candidate) PROVE StoreTyped'
  <2>1. op.step = "staged" /\ op.step \in ExecutionSteps
    BY <1>7, Zenon DEF Activatable, ExecutionSteps
  <2>2. /\ Target \in Ids /\ op.record \in ConnectorRecord
        /\ [job |-> op.job, token |-> op.token] \in ActiveAttempt
        /\ Kind \in {"install", "update", "rollback"}
    BY <2>1, JobInHand, OperationTypes, Zenon DEF Typed, TypeOK, ActiveAttempt, ExecutionCoherent
  <2>3. CASE Kind = "install"
    BY <1>7, <2>2, <2>3, PutRemoteTyped, Zenon DEF Candidate, StoreTyped
  <2>4. CASE Kind # "install"
    <3>1. CanEnqueueInventoryMutation(mem, Target) /\ CanRevise(mem)
      BY <1>7, <2>2, <2>4, Zenon DEF Activatable, Transitions
    <3> QED
      BY <1>7, <2>2, <2>4, <3>1, TransitionTyped, Zenon DEF Candidate, StoreTyped
  <2> QED BY <2>3, <2>4, Zenon
<1>8. ASSUME Activate \/ ActivateFails PROVE StoreTyped'
  BY <1>2, <1>7, <1>8, Zenon DEF Activate, ActivateFails, storeVars
<1>9. ASSUME Restore PROVE StoreTyped'
  BY <1>1, <1>3, <1>9, Zenon DEF Restore, RewriteCurrentState, StoreTyped
<1>10. ASSUME Remove PROVE StoreTyped'
  <2>1. Target \in Ids
    BY <1>10, JobInHand, Zenon DEF Remove, ExecutionSteps, Typed
  <2> QED BY <1>2, <1>10, <2>1, RemoveRemoteTyped, Zenon DEF Remove, storeVars, StoreTyped
<1>11. ASSUME NEW slot \in Slot,
              \/ Announce \/ ExecutionRefused \/ ExecuteShell \/ PrepareRollback \/ Stage(slot)
              \/ CleanupConnectorArtifacts \/ RemoveFiles \/ RemoveOutcome
       PROVE  StoreTyped'
  BY <1>2, <1>11, Zenon DEF Announce, ExecutionRefused, ExecuteShell, PrepareRollback, Stage,
     CleanupConnectorArtifacts, RemoveFiles, RemoveOutcome, storeVars
<1>12. ASSUME \/ Announce \/ ExecutionRefused \/ ExecuteShell \/ PrepareRollback
              \/ CleanupConnectorArtifacts \/ RemoveFiles \/ RemoveOutcome
       PROVE  StoreTyped'
  BY <1>2, <1>12, Zenon DEF Announce, ExecutionRefused, ExecuteShell, PrepareRollback,
     CleanupConnectorArtifacts, RemoveFiles, RemoveOutcome, storeVars
<1> QED
  BY <1>5, <1>6, <1>8, <1>9, <1>10, <1>11, <1>12, Zenon DEF ExecutionStep

\* so does recovery,
LEMMA RecoveryStoreTyped ==
    ASSUME Typed, OutcomesCoherent, RecoveryStep
    PROVE  StoreTyped'
<1>1. StoreTyped
  BY Zenon DEF Typed, TypeOK, StoreTyped
<1>2. ASSUME UNCHANGED <<mem, disk, faults>> PROVE StoreTyped'
  BY <1>1, <1>2, Zenon DEF StoreTyped
<1>3. ASSUME Fault PROVE faults' \in 0..MaxFaults
  BY <1>1, <1>3, ManagementAssumption DEF StoreTyped, Fault
<1>4. ASSUME SaveRecovered PROVE StoreTyped'
  BY <1>1, <1>3, <1>4, Zenon
     DEF SaveRecovered, StoreTyped, JournalSaved, JournalFaults, storeVars
<1>5. ASSUME RecoveryBegins \/ RecoveryEnds PROVE StoreTyped'
  BY <1>2, <1>5, Zenon DEF RecoveryBegins, RecoveryEnds, storeVars
<1>6. ASSUME NEW j \in Jobs, Recover(j) PROVE StoreTyped'
  <2>1. Work[j].id \in Ids /\ journal[j] \in ManagementOutcome
    BY <1>6, JobRunning, Zenon DEF Recover, Running, Typed
  <2>2. CASE RecoverRestores(j)
    <3>1. journal[j].before # None => journal[j].before \in ConnectorRecord
      BY <2>1, Zenon DEF ManagementOutcome
    <3> QED
      BY <1>2, <2>1, <2>2, <3>1, PutRemoteTyped, Zenon DEF RecoverRestores, StoreTyped, storeVars
  <2>3. CASE RecoverRemovesInstall(j)
    BY <2>1, <2>3, RemoveRemoteTyped, Zenon DEF RecoverRemovesInstall, StoreTyped
  <2>4. CASE RecoverNothing(j) \/ RecoverCommits(j)
    BY <1>2, <2>4, Zenon DEF RecoverNothing, RecoverCommits, storeVars
  <2>5. CASE RecoverRemove(j)
    BY <1>2, <2>1, <2>5, RemoveRemoteTyped, Zenon DEF RecoverRemove, StoreTyped, storeVars
  <2> QED BY <1>6, <2>2, <2>3, <2>4, <2>5, Zenon DEF Recover
<1> QED BY <1>4, <1>5, <1>6, Zenon DEF RecoveryStep

\* and so does everything else.
LEMMA StoreStaysTyped ==
    ASSUME Typed, AttemptsInOrder, OutcomesCoherent, ExecutionCoherent, Next
    PROVE  StoreTyped'
<1>1. StoreTyped
  BY Zenon DEF Typed, TypeOK, StoreTyped
<1>2. ASSUME UNCHANGED <<mem, disk, faults>> PROVE StoreTyped'
  BY <1>1, <1>2, Zenon DEF StoreTyped
<1>3. ASSUME Fault PROVE faults' \in 0..MaxFaults
  BY <1>1, <1>3, ManagementAssumption DEF StoreTyped, Fault
<1>4. ASSUME NEW j \in Jobs, NEW t \in Tokens, HandleManagement(j, t) PROVE StoreTyped'
  BY <1>1, <1>3, <1>4, Zenon DEF HandleManagement, Refuse, FindRunning, FindFinished, Begin,
     JournalSaved, JournalFaults, StoreTyped, storeVars
<1>5. ASSUME NEW j \in Jobs, ServerDelivers(j) \/ FlushSends(j) PROVE StoreTyped'
  BY <1>2, <1>5, Zenon DEF ServerDelivers, FlushSends, storeVars
<1>6. ASSUME Report \/ FlushEnds PROVE StoreTyped'
  BY <1>2, <1>6, Zenon DEF Report, FlushEnds, storeVars
<1>7. ASSUME NEW id \in Ids, StartFailure(id) PROVE StoreTyped'
  BY <1>2, <1>7, Zenon DEF StartFailure, storeVars
<1>8. ASSUME NEW id \in Ids, DeliverInventory(id) PROVE StoreTyped'
  <2>1. PICK origins \in Origins :
           Saved(AcknowledgeInventoryMutation(mem, id, mem.pending[id], origins))
    BY <1>8, Zenon DEF DeliverInventory
  <2> DEFINE next == AcknowledgeInventoryMutation(mem, id, mem.pending[id], origins)
  <2>2. /\ mem \in PersistedState /\ Loadable(mem) /\ SaveAccepts(mem, next)
        /\ mem.pending[id] \in InventoryMutation
        /\ Acknowledgeable(mem, id, mem.pending[id])
    BY <1>1, <1>8, <2>1, Zenon
       DEF StoreTyped, Saved, DeliverInventory, PersistedState, Acknowledgeable
  <2>3. next \in PersistedState /\ Loadable(next)
    BY <2>2, AcknowledgeType, AcknowledgeLoadable, Zenon
  <2> HIDE DEF next
  <2>4. Saved(next)
    BY <2>1, Zenon DEF next
  <2> QED BY <2>3, <2>4, SaveTyped, Zenon DEF StoreTyped
<1>9. ASSUME NEW id \in Ids, LocalStep(id) PROVE StoreTyped'
  <2>1. /\ mem \in PersistedState /\ Loadable(mem) /\ None \in ActiveAttempt \cup {None}
        /\ CanRevise(mem) /\ CanEnqueueInventoryMutation(mem, id)
    BY <1>1, <1>9, Zenon DEF StoreTyped, LocalStep
  <2>2. ASSUME LocalRemove(id) PROVE StoreTyped'
    <3> DEFINE next == RemoveLocalConnector(mem, id)
    <3>1. SaveAccepts(mem, next)
      BY <2>2, Zenon DEF LocalRemove, Saved
    <3>2. next \in PersistedState /\ Loadable(next)
      BY <2>1, <3>1, RemoveLocalType, RemoveLocalLoadable, Zenon
    <3> HIDE DEF next
    <3>3. Saved(next)
      BY <2>2, Zenon DEF next, LocalRemove
    <3> QED BY <3>2, <3>3, SaveTyped, Zenon DEF StoreTyped
  <2>3. ASSUME NEW slot \in Slot, LocalUpdate(id, slot) PROVE StoreTyped'
    <3>1. UpdatedRecord(mem.connectors[id], slot) \in ConnectorRecord
      BY <2>1, <2>3, LifecycleRecords, Zenon DEF LocalUpdate, PersistedState
    <3> QED BY <2>1, <2>3, <3>1, TransitionTyped, Zenon DEF LocalUpdate, StoreTyped
  <2> QED BY <1>9, <2>2, <2>3, Zenon DEF LocalStep
<1>10. ASSUME Restart PROVE StoreTyped'
  BY <1>1, <1>10, Zenon DEF Restart, StoreTyped
<1>11. \A id \in scenario.local : id \in Ids
  BY ManagementAssumption, Zenon DEF Typed, TypeOK, Scenario
<1> QED
  BY <1>4, <1>5, <1>6, <1>7, <1>8, <1>9, <1>10, <1>11, ExecutionStoreTyped,
     RecoveryStoreTyped, ZenonT(60) DEF Next

\* What the code builds from well-formed parts is well formed: outcomes,
LEMMA OutcomeTypes ==
    ASSUME NEW t \in Tokens, NEW before \in ConnectorRecord \cup {None}
    PROVE  /\ \A status \in Statuses, n \in 0..MaxRevision :
                 Outcome(t, status, before, n) \in ManagementOutcome
           /\ Failure(t, before) \in ManagementOutcome
           /\ Failure(t, before).status # "running"
<1>1. 0 \in 0..MaxRevision
  BY StoreAssumption
<1>2. \A status \in Statuses, n \in 0..MaxRevision :
         Outcome(t, status, before, n) \in ManagementOutcome
  BY Zenon DEF Outcome, ManagementOutcome
<1> QED BY <1>1, <1>2, Zenon DEF Failure, Outcome, Statuses

\* the revision an outcome reports,
LEMMA ReportedRevisionTypes ==
    ASSUME mem \in PersistedState, NEW id \in Ids, NEW j
    PROVE  RemoteInventoryRevision(id, j) \in 0..MaxRevision
<1>1. 0 \in 0..MaxRevision /\ \A n \in 1..MaxRevision : n \in 0..MaxRevision
  BY StoreAssumption
<1>2. mem.pending[id] # None => mem.pending[id].revision \in 1..MaxRevision
  BY Zenon DEF PersistedState, InventoryMutation
<1> QED BY <1>1, <1>2, Zenon DEF RemoteInventoryRevision

\* and holders of managementMu.
LEMMA HolderTypes ==
    /\ Free \in Operation
    /\ \A j \in Jobs, t \in Tokens, r \in ConnectorRecord \cup {None}, s \in ExecutionSteps :
          Executing(j, t, r, s) \in Operation
    /\ \A c \in Completion, s \in {"reporting", "acknowledged"} :
          [step |-> s, completion |-> c] \in Operation
    /\ \A j \in Jobs, t \in Tokens, o \in ManagementOutcome :
          /\ [step |-> "replaying", job |-> j, token |-> t, outcome |-> o] \in Operation
          /\ [step |-> "rebound", job |-> j, outcome |-> o] \in Operation
          /\ o.status # "running" =>
                /\ Reporting(j, t, o) \in Operation
                /\ Reporting(j, t, o).completion \in Completion
    /\ \A c \in Caller :
          /\ [step |-> "recovering", caller |-> c] \in Operation
          /\ \A j \in Jobs, o \in ManagementOutcome :
                [step |-> "recovered", caller |-> c, job |-> j, outcome |-> o] \in Operation
<1>1. Free \in Operation
  BY Zenon DEF Operation
<1>2. \A j \in Jobs, t \in Tokens, r \in ConnectorRecord \cup {None}, s \in ExecutionSteps :
         Executing(j, t, r, s) \in Operation
  BY Zenon DEF Operation, Executing, ExecutionSteps
<1>3. \A c \in Completion, s \in {"reporting", "acknowledged"} :
         [step |-> s, completion |-> c] \in Operation
  BY Zenon DEF Operation
<1>4. \A j \in Jobs, t \in Tokens, o \in ManagementOutcome :
         /\ [step |-> "replaying", job |-> j, token |-> t, outcome |-> o] \in Operation
         /\ [step |-> "rebound", job |-> j, outcome |-> o] \in Operation
  BY Zenon DEF Operation
<1>5. ASSUME NEW j \in Jobs, NEW t \in Tokens, NEW o \in ManagementOutcome, o.status # "running"
      PROVE  /\ Reporting(j, t, o) \in Operation
             /\ Reporting(j, t, o).completion \in Completion
  <2>1. o.status \in Statuses /\ o.revision \in 0..MaxRevision
    BY Zenon DEF ManagementOutcome
  <2>2. [job |-> j, token |-> t, status |-> o.status, revision |-> o.revision] \in Completion
    BY <1>5, <2>1, Zenon DEF Completion
  <2> QED BY <2>2, <1>3, Zenon DEF Reporting
<1>6. \A c \in Caller :
         /\ [step |-> "recovering", caller |-> c] \in Operation
         /\ \A j \in Jobs, o \in ManagementOutcome :
               [step |-> "recovered", caller |-> c, job |-> j, outcome |-> o] \in Operation
  BY Zenon DEF Operation
<1> QED BY <1>1, <1>2, <1>3, <1>4, <1>5, <1>6, Zenon

\* The journal and the holder of managementMu after a step.
HolderTyped ==
    /\ op \in Operation
    /\ journal \in [Jobs -> ManagementOutcome \cup {None}]

\* The parts of an outcome.
LEMMA OutcomeParts ==
    ASSUME NEW o \in ManagementOutcome
    PROVE  /\ o.token \in Tokens /\ o.status \in Statuses
           /\ o.before \in ConnectorRecord \cup {None} /\ o.revision \in 0..MaxRevision
BY Zenon DEF ManagementOutcome

\* A write of the journal, whether or not it fails.
LEMMA JournalTyped ==
    ASSUME journal \in [Jobs -> ManagementOutcome \cup {None}],
           NEW j \in Jobs, NEW o \in ManagementOutcome, JournalSaved(j, o) \/ JournalFaults(j, o)
    PROVE  journal' \in [Jobs -> ManagementOutcome \cup {None}]
<1>1. [journal EXCEPT ![j] = o] \in [Jobs -> ManagementOutcome \cup {None}]
  BY Zenon
<1> QED BY <1>1, Zenon DEF JournalSaved, JournalFaults

\* The outcome an executed job ends with.
LEMMA FinishOutcome ==
    ASSUME Typed, AttemptsInOrder, ExecutionCoherent, Finish
    PROVE  \E o \in ManagementOutcome :
              /\ o.token = op.token /\ o.status # "running"
              /\ op.step = "failed" => o.status = "error" /\ o.revision = 0
              /\ op.step = "succeeded" =>
                    /\ o.status = "success"
                    /\ o.revision = IF Kind \in Transitions
                                    THEN RemoteInventoryRevision(Target, op.job) ELSE 0
              /\ \/ JournalSaved(op.job, o) /\ op' = Reporting(op.job, op.token, o)
                 \/ JournalFaults(op.job, o) /\ op' = Free
<1>1. /\ op \in Operation /\ journal \in [Jobs -> ManagementOutcome \cup {None}]
      /\ mem \in PersistedState
  BY Zenon DEF Typed, TypeOK
<1>2. op.step \in ExecutionSteps
  BY Zenon DEF Finish, ExecutionSteps
<1>3. op.job \in Jobs /\ op.token \in Tokens /\ Target \in Ids /\ journal[op.job] # None
  BY <1>2, JobInHand, Zenon DEF Typed, ExecutionCoherent, Running
<1>4. journal[op.job].before \in ConnectorRecord \cup {None}
  BY <1>1, <1>3, OutcomeParts, Zenon
<1>5. PICK before, revision, outcome :
         /\ before = journal[op.job].before
         /\ revision = IF Kind \in Transitions
                       THEN RemoteInventoryRevision(Target, op.job) ELSE 0
         /\ outcome = IF op.step = "failed" THEN Failure(op.token, before)
                      ELSE Outcome(op.token, "success", before, revision)
         /\ \/ /\ JournalSaved(op.job, outcome)
               /\ op' = Reporting(op.job, op.token, outcome)
            \/ JournalFaults(op.job, outcome) /\ op' = Free
  BY Zenon DEF Finish
<1>6. revision \in 0..MaxRevision
  <2>1. 0 \in 0..MaxRevision
    BY StoreAssumption
  <2> QED BY <1>1, <1>3, <1>5, <2>1, ReportedRevisionTypes, Zenon
<1>7. CASE op.step = "failed"
  <2>1. outcome = Failure(op.token, before)
    BY <1>5, <1>7, Zenon
  <2>2. outcome.token = op.token /\ outcome.status = "error" /\ outcome.revision = 0
    BY <2>1, Zenon DEF Failure, Outcome
  <2>3. outcome \in ManagementOutcome
    BY <1>3, <1>4, <1>5, <2>1, OutcomeTypes, Zenon
  <2> QED BY <1>5, <1>7, <2>2, <2>3, Zenon
<1>8. CASE op.step = "succeeded"
  <2>1. outcome = Outcome(op.token, "success", before, revision)
    BY <1>5, <1>8, Zenon
  <2>2. outcome.token = op.token /\ outcome.status = "success" /\ outcome.revision = revision
    BY <2>1, Zenon DEF Outcome
  <2>3. outcome \in ManagementOutcome
    BY <1>3, <1>4, <1>5, <1>6, <2>1, OutcomeTypes, Zenon DEF Statuses
  <2> QED BY <1>5, <1>8, <2>2, <2>3, Zenon
<1> QED BY <1>7, <1>8, Zenon DEF Finish

\* The operations of handleManagement keep them well formed,
LEMMA ExecutionHolderTyped ==
    ASSUME Typed, AttemptsInOrder, OutcomesCoherent, ExecutionCoherent, ExecutionStep
    PROVE  HolderTyped'
<1>1. /\ op \in Operation /\ journal \in [Jobs -> ManagementOutcome \cup {None}]
      /\ mem \in PersistedState
  BY Zenon DEF Typed, TypeOK
<1>2. ASSUME op' = Free PROVE op' \in Operation
  BY <1>2, HolderTypes, Zenon
<1>3. ASSUME op.step \in ExecutionSteps, NEW s \in ExecutionSteps, Go(s) PROVE op' \in Operation
  <2>1. op' = Executing(op.job, op.token, op.record, s)
    BY <1>1, <1>3, GoKeeps, Zenon
  <2> QED BY <1>1, <1>3, <2>1, OperationTypes, HolderTypes, Zenon
<1>4. ASSUME Replay PROVE HolderTyped'
  <2>1. op.step = "replaying" /\ op.job \in Jobs /\ op.token \in Tokens
        /\ op.outcome \in ManagementOutcome
    BY <1>1, <1>4, OperationTypes, Zenon DEF Replay
  <2>2. ASSUME NEW n \in 0..MaxRevision PROVE Rebound(n) \in Operation
    BY <2>1, <2>2, OutcomeParts, OutcomeTypes, HolderTypes, Zenon DEF Rebound
  <2>3. op.outcome.revision \in 0..MaxRevision
    BY <2>1, OutcomeParts, Zenon
  <2>4. CanRebind => mem.revision + 1 \in 0..MaxRevision
    <3>1. mem.revision \in 0..MaxRevision
      BY <1>1, Zenon DEF PersistedState
    <3> QED BY <3>1, StoreAssumption DEF CanRebind, CanRevise
  <2> QED BY <1>1, <1>2, <1>4, <2>2, <2>3, <2>4, Zenon DEF Replay, HolderTyped
<1>5. ASSUME SaveReplayed PROVE HolderTyped'
  <2>1. op.step = "rebound" /\ op.job \in Jobs /\ op.outcome \in ManagementOutcome
    BY <1>1, <1>5, OperationTypes, Zenon DEF SaveReplayed
  <2>2. op.outcome.token \in Tokens /\ op.outcome.status # "running"
    BY <2>1, OutcomeParts, Zenon DEF OutcomesCoherent
  <2>3. Reporting(op.job, op.outcome.token, op.outcome) \in Operation
    BY <2>1, <2>2, HolderTypes, Zenon
  <2> QED BY <1>1, <1>2, <1>5, <2>1, <2>3, JournalTyped, Zenon DEF SaveReplayed, HolderTyped
<1>6. ASSUME op.step \in ExecutionSteps
      PROVE  /\ op.job \in Jobs /\ op.token \in Tokens /\ Target \in Ids
             /\ journal[op.job] \in ManagementOutcome
             /\ journal[op.job].before \in ConnectorRecord \cup {None}
  <2>1. op.job \in Jobs /\ op.token \in Tokens /\ Target \in Ids /\ journal[op.job] # None
    BY <1>6, JobInHand, Zenon DEF Typed, ExecutionCoherent, Running
  <2>2. journal[op.job] \in ManagementOutcome
    BY <1>1, <2>1, Zenon
  <2> QED BY <2>1, <2>2, OutcomeParts, Zenon
<1>7. ASSUME Finish PROVE HolderTyped'
  <2>1. op.step \in ExecutionSteps
    BY <1>7, Zenon DEF Finish, ExecutionSteps
  <2>2. PICK o \in ManagementOutcome :
           /\ o.status # "running"
           /\ \/ JournalSaved(op.job, o) /\ op' = Reporting(op.job, op.token, o)
              \/ JournalFaults(op.job, o) /\ op' = Free
    BY <1>7, FinishOutcome, Zenon
  <2>3. Reporting(op.job, op.token, o) \in Operation
    BY <1>6, <2>1, <2>2, HolderTypes, Zenon
  <2> QED BY <1>1, <1>2, <1>6, <2>1, <2>2, <2>3, JournalTyped, Zenon DEF HolderTyped
<1>8. ASSUME Announce PROVE HolderTyped'
  <2>1. op.step \in ExecutionSteps /\ "executing" \in ExecutionSteps
    BY <1>8, Zenon DEF Announce, ExecutionSteps
  <2>2. Reporting(op.job, op.token, Failure(op.token, None)) \in Operation
    BY <1>6, <2>1, OutcomeTypes, HolderTypes, Zenon
  <2>3. [journal EXCEPT ![op.job] = None] \in [Jobs -> ManagementOutcome \cup {None}]
    BY <1>1, Zenon
  <2> QED BY <1>1, <1>3, <1>8, <2>1, <2>2, <2>3, Zenon DEF Announce, HolderTyped
<1>9. ASSUME NEW r \in ConnectorRecord, op.step \in ExecutionSteps,
             op' = Executing(op.job, op.token, r, "staged")
      PROVE  op' \in Operation
  <2>1. "staged" \in ExecutionSteps
    BY Zenon DEF ExecutionSteps
  <2> QED BY <1>6, <1>9, <2>1, HolderTypes, Zenon
<1>10. /\ op.step \in {"journalled", "executing", "staged", "restoring", "activated",
                       "removing"} => op.step \in ExecutionSteps
       /\ {"executing", "succeeded", "failed", "activated", "restoring", "removing"}
             \subseteq ExecutionSteps
  BY Zenon DEF ExecutionSteps
<1>11. op.step \in ExecutionSteps /\ Old # None => Old \in ConnectorRecord
  BY <1>1, <1>6, Zenon DEF Old, PersistedState
<1>12. ASSUME NEW slot \in Slot, Stage(slot) PROVE HolderTyped'
  <2>1. op.step \in ExecutionSteps
    BY <1>10, <1>12, Zenon DEF Stage
  <2>2. (IF Old = None THEN FirstRecord(slot) ELSE UpdatedRecord(Old, slot)) \in ConnectorRecord
    <3>1. FirstRecord(slot) \in ConnectorRecord
      BY Zenon DEF FirstRecord, ConnectorRecord
    <3> QED BY <1>11, <2>1, <3>1, LifecycleRecords, Zenon
  <2> QED BY <1>1, <1>3, <1>9, <1>10, <1>12, <2>1, <2>2, Zenon DEF Stage, HolderTyped
<1>13. ASSUME PrepareRollback PROVE HolderTyped'
  <2>1. op.step \in ExecutionSteps /\ Old \in ConnectorRecord /\ Old.previous # None
    BY <1>10, <1>11, <1>13, Zenon DEF PrepareRollback
  <2>2. RolledBackRecord(Old) \in ConnectorRecord
    <3>1. Old.active \in Slot /\ Old.previous \in Slot \cup {None}
      BY <2>1, Zenon DEF ConnectorRecord
    <3> QED BY <2>1, <3>1, LifecycleRecords, Zenon
  <2> QED BY <1>1, <1>9, <1>13, <2>1, <2>2, Zenon DEF PrepareRollback, HolderTyped
<1>14. ASSUME ExecutionRefused \/ ExecuteShell PROVE HolderTyped'
  BY <1>1, <1>3, <1>10, <1>14, Zenon DEF ExecutionRefused, ExecuteShell, HolderTyped
<1>15. ASSUME Activate \/ ActivateFails \/ Restore PROVE HolderTyped'
  BY <1>1, <1>3, <1>10, <1>15, Zenon DEF Activate, ActivateFails, Activatable, Restore, HolderTyped
<1>16. ASSUME CleanupConnectorArtifacts \/ Remove \/ RemoveFiles PROVE HolderTyped'
  BY <1>1, <1>3, <1>10, <1>16, Zenon DEF CleanupConnectorArtifacts, Remove, RemoveFiles, HolderTyped
<1>17. ASSUME RemoveOutcome PROVE HolderTyped'
  <2>1. [journal EXCEPT ![op.completion.job] = None] \in [Jobs -> ManagementOutcome \cup {None}]
    BY <1>1, Zenon
  <2> QED BY <1>2, <1>17, <2>1, Zenon DEF RemoveOutcome, HolderTyped
<1> QED
  BY <1>4, <1>5, <1>7, <1>8, <1>12, <1>13, <1>14, <1>15, <1>16, <1>17, ZenonT(60) DEF ExecutionStep

\* recovery does,
LEMMA RecoveryHolderTyped ==
    ASSUME Typed, OutcomesCoherent, RecoveryStep
    PROVE  HolderTyped'
<1>1. /\ op \in Operation /\ journal \in [Jobs -> ManagementOutcome \cup {None}]
      /\ mem \in PersistedState
  BY Zenon DEF Typed, TypeOK
<1>2. ASSUME op' = Free PROVE op' \in Operation
  BY <1>2, HolderTypes, Zenon
<1>3. Startup \in Caller /\ Worker \in Caller
  BY Zenon DEF Caller
<1>4. ASSUME RecoveryBegins PROVE HolderTyped'
  BY <1>1, <1>3, <1>4, HolderTypes, Zenon DEF RecoveryBegins, HolderTyped
<1>5. ASSUME SaveRecovered PROVE HolderTyped'
  <2>1. op.caller \in Caller /\ op.job \in Jobs /\ op.outcome \in ManagementOutcome
    BY <1>1, <1>5, OperationTypes, Zenon DEF SaveRecovered
  <2> QED
    BY <1>1, <1>2, <1>5, <2>1, JournalTyped, HolderTypes, Zenon
       DEF SaveRecovered, RecoveryFails, HolderTyped
<1>6. ASSUME RecoveryEnds PROVE HolderTyped'
  <2>1. ASSUME op.caller \in Jobs \X Tokens, journal[op.caller[1]] # None
        PROVE  Replaying(op.caller[1], op.caller[2]) \in Operation
    <3>1. op.caller[1] \in Jobs /\ op.caller[2] \in Tokens
      BY <2>1
    <3>2. journal[op.caller[1]] \in ManagementOutcome
      BY <1>1, <2>1, <3>1, Zenon
    <3> QED BY <3>1, <3>2, HolderTypes, Zenon DEF Replaying
  <2> QED BY <1>1, <1>2, <1>6, <2>1, Zenon DEF RecoveryEnds, RecoveryFails, HolderTyped
<1>7. ASSUME NEW j \in Jobs, Recover(j) PROVE HolderTyped'
  <2>1. op.caller \in Caller /\ journal[j] \in ManagementOutcome /\ Work[j].id \in Ids
    BY <1>1, <1>7, OperationTypes, JobRunning, Zenon DEF Recover, Running, Typed
  <2>2. ASSUME NEW status \in Statuses, NEW n \in 0..MaxRevision, Recovered(j, status, n)
        PROVE  op' \in Operation
    BY <2>1, <2>2, OutcomeParts, OutcomeTypes, HolderTypes, Zenon DEF Recovered
  <2>3. 0 \in 0..MaxRevision
    BY StoreAssumption
  <2>4. RemoteInventoryRevision(Work[j].id, j) \in 0..MaxRevision
    BY <1>1, <2>1, ReportedRevisionTypes, Zenon
  <2>5. "success" \in Statuses /\ "error" \in Statuses
    BY Zenon DEF Statuses
  <2>6. op' \in Operation
    BY <1>2, <1>7, <2>2, <2>3, <2>4, <2>5, ZenonT(60) DEF Recover, RecoverRestores,
       RecoverRemovesInstall, RecoverNothing, RecoverRemove, RecoverCommits, RecoveryFails
  <2> QED BY <1>1, <1>7, <2>6, Zenon DEF Recover, HolderTyped
<1> QED BY <1>4, <1>5, <1>6, <1>7, Zenon DEF RecoveryStep

\* The outcome a new job is journalled with.
LEMMA BeginOutcome ==
    ASSUME Typed, AttemptsInOrder, NEW j \in Jobs, NEW t \in Tokens,
           <<j, t>> \in waiting, Begin(j, t)
    PROVE  \E o \in ManagementOutcome :
              /\ o.token = t /\ o.status = "running" /\ o.revision = 0
              /\ \/ JournalSaved(j, o) /\ op' = Executing(j, t, None, "journalled")
                 \/ JournalFaults(j, o) /\ op' = Reporting(j, t, Failure(t, None))
<1>1. PICK before, o :
         /\ before = IF Work[j].kind = "shell" THEN None ELSE mem.connectors[Work[j].id]
         /\ o = Outcome(t, "running", before, 0)
         /\ \/ JournalSaved(j, o) /\ op' = Executing(j, t, None, "journalled")
            \/ JournalFaults(j, o) /\ op' = Reporting(j, t, Failure(t, None))
  BY Zenon DEF Begin
<1>2. j \in DOMAIN Work
  BY Zenon DEF AttemptsInOrder
<1>3. before \in ConnectorRecord \cup {None}
  BY <1>1, <1>2, WorkTypes, Zenon DEF PersistedState, Typed, TypeOK
<1>4. 0 \in 0..MaxRevision
  BY StoreAssumption
<1>5. o \in ManagementOutcome
  BY <1>1, <1>3, <1>4, OutcomeTypes, Zenon DEF Statuses
<1>6. o.token = t /\ o.status = "running" /\ o.revision = 0
  BY <1>1, Zenon DEF Outcome
<1> QED BY <1>1, <1>5, <1>6, Zenon

\* and everything else does.
LEMMA HolderStaysTyped ==
    ASSUME Typed, AttemptsInOrder, OutcomesCoherent, ExecutionCoherent, Next
    PROVE  HolderTyped'
<1>1. /\ op \in Operation /\ journal \in [Jobs -> ManagementOutcome \cup {None}]
      /\ mem \in PersistedState /\ HolderTyped
  BY Zenon DEF Typed, TypeOK, HolderTyped
<1>2. ASSUME NEW j \in Jobs, NEW t \in Tokens, HandleManagement(j, t) PROVE HolderTyped'
  <2>1. <<j, t>> \in waiting
    BY <1>2, Zenon DEF HandleManagement
  <2>2. Reporting(j, t, Failure(t, None)) \in Operation
    BY OutcomeTypes, HolderTypes, Zenon
  <2>3. CASE Refuse(j, t)
    BY <1>1, <2>2, <2>3, Zenon DEF Refuse, HolderTyped
  <2>4. CASE FindRunning(j, t)
    <3>1. <<j, t>> \in Caller
      BY DEF Caller
    <3> QED BY <1>1, <2>4, <3>1, HolderTypes, Zenon DEF FindRunning, HolderTyped
  <2>5. CASE FindFinished(j, t)
    BY <1>1, <2>5, HolderTypes, Zenon DEF FindFinished, Replaying, HolderTyped
  <2>6. CASE Begin(j, t)
    <3>1. PICK o \in ManagementOutcome :
             \/ JournalSaved(j, o) /\ op' = Executing(j, t, None, "journalled")
             \/ JournalFaults(j, o) /\ op' = Reporting(j, t, Failure(t, None))
      BY <2>1, <2>6, BeginOutcome, Zenon
    <3>2. Executing(j, t, None, "journalled") \in Operation
      BY HolderTypes, Zenon DEF ExecutionSteps
    <3>3. journal' \in [Jobs -> ManagementOutcome \cup {None}]
      BY <1>1, <3>1, JournalTyped, Zenon
    <3> QED BY <2>2, <3>1, <3>2, <3>3, Zenon DEF HolderTyped
  <2> QED BY <1>2, <2>3, <2>4, <2>5, <2>6, Zenon DEF HandleManagement
<1>3. ASSUME UNCHANGED <<op, journal>> PROVE HolderTyped'
  BY <1>1, <1>3, Zenon DEF HolderTyped
<1>4. ASSUME NEW j \in Jobs, ServerDelivers(j) \/ FlushSends(j) PROVE HolderTyped'
  BY <1>3, <1>4, Zenon DEF ServerDelivers, FlushSends
<1>5. ASSUME Report PROVE HolderTyped'
  <2>1. op.completion \in Completion
        /\ [op EXCEPT !.step = "acknowledged"]
              = [step |-> "acknowledged", completion |-> op.completion]
    BY <1>1, <1>5, OperationTypes, Zenon DEF Report
  <2> QED BY <1>1, <1>5, <2>1, HolderTypes, Zenon DEF Report, Go, HolderTyped
<1>6. ASSUME FlushEnds PROVE HolderTyped'
  <2>1. [journal EXCEPT ![sending.job] = None] \in [Jobs -> ManagementOutcome \cup {None}]
    BY <1>1, Zenon
  <2> QED BY <1>1, <1>6, <2>1, Zenon DEF FlushEnds, HolderTyped
<1>7. ASSUME NEW id \in Ids, DeliverInventory(id) \/ StartFailure(id) PROVE HolderTyped'
  BY <1>3, <1>7, Zenon DEF DeliverInventory, StartFailure
<1>8. ASSUME NEW id, LocalStep(id) PROVE HolderTyped'
  BY <1>3, <1>8, Zenon DEF LocalStep
<1>9. ASSUME Restart PROVE HolderTyped'
  BY <1>1, <1>9, HolderTypes, Zenon DEF Restart, HolderTyped
<1> QED
  BY <1>2, <1>4, <1>5, <1>6, <1>7, <1>8, <1>9, ExecutionHolderTyped, RecoveryHolderTyped,
     ZenonT(60) DEF Next

\* The artifact directories stay well formed,
LEMMA FilesStayTyped ==
    ASSUME Typed, AttemptsInOrder, Next
    PROVE  files' \in [Ids -> SUBSET Artifacts]
<1>1. files \in [Ids -> SUBSET Artifacts]
  BY Zenon DEF Typed, TypeOK
<1>2. ASSUME NEW id, NEW f \in SUBSET Artifacts, files' = [files EXCEPT ![id] = f]
      PROVE  files' \in [Ids -> SUBSET Artifacts]
  BY <1>1, <1>2, Zenon
<1>3. ASSUME UNCHANGED files PROVE files' \in [Ids -> SUBSET Artifacts]
  BY <1>1, <1>3, Zenon
<1>4. \A id \in Ids : files[id] \in SUBSET Artifacts
  BY <1>1, Zenon
<1>5. \A st : \A id \in Ids : CleanedUp(st, files)[id] \in SUBSET Artifacts
  BY <1>4, Zenon DEF CleanedUp
<1>6. \A slot \in Slot : slot.artifact \in Artifacts
  BY Zenon DEF Slot
<1>7. op.step \in {"executing", "restoring", "activated", "removing"} => Target \in Ids
  BY JobInHand, Zenon DEF ExecutionSteps, Typed
<1>8. {} \in SUBSET Artifacts
  BY Zenon
<1>9. ASSUME ExecutionStep PROVE files' \in [Ids -> SUBSET Artifacts]
  <2>1. ASSUME NEW slot \in Slot, Stage(slot) PROVE files' \in [Ids -> SUBSET Artifacts]
    <3>1. files[Target] \cup {slot.artifact} \in SUBSET Artifacts
      BY <1>4, <1>6, <1>7, <2>1, Zenon DEF Stage
    <3>2. Target \in Ids
      BY <1>7, <2>1, Zenon DEF Stage
    <3> QED BY <1>2, <1>5, <2>1, <3>1, <3>2, ZenonT(60) DEF Stage
  <2>2. ASSUME Restore PROVE files' \in [Ids -> SUBSET Artifacts]
    <3>1. WithoutCandidate \in SUBSET Artifacts
      BY <1>4, <1>7, <2>2, Zenon DEF Restore, WithoutCandidate
    <3> QED BY <1>2, <2>2, <3>1, Zenon DEF Restore
  <2>3. ASSUME CleanupConnectorArtifacts PROVE files' \in [Ids -> SUBSET Artifacts]
    <3>1. files[Target] \cap Named(op.record) \in SUBSET Artifacts
      BY <1>4, <1>7, <2>3, Zenon DEF CleanupConnectorArtifacts
    <3> QED BY <1>2, <2>3, <3>1, Zenon DEF CleanupConnectorArtifacts
  <2>4. ASSUME RemoveFiles PROVE files' \in [Ids -> SUBSET Artifacts]
    BY <1>2, <1>3, <1>8, <2>4, Zenon DEF RemoveFiles
  <2>5. ASSUME \/ Replay \/ SaveReplayed \/ Announce \/ ExecutionRefused \/ ExecuteShell
               \/ PrepareRollback \/ Activate \/ ActivateFails \/ Remove \/ Finish
               \/ RemoveOutcome
        PROVE  files' \in [Ids -> SUBSET Artifacts]
    BY <1>3, <2>5, Zenon DEF Replay, SaveReplayed, Announce, ExecutionRefused, ExecuteShell,
       PrepareRollback, Activate, ActivateFails, Remove, Finish, RemoveOutcome, childVars
  <2> QED BY <1>9, <2>1, <2>2, <2>3, <2>4, <2>5, Zenon DEF ExecutionStep
<1>10. ASSUME RecoveryStep PROVE files' \in [Ids -> SUBSET Artifacts]
  BY <1>2, <1>3, <1>8, <1>10, Zenon DEF RecoveryStep, RecoveryBegins, SaveRecovered,
     RecoveryEnds, Recover, RecoverRestores, RecoverRemovesInstall, RecoverNothing,
     RecoverRemove, RecoverCommits, childVars
<1>11. ASSUME NEW id \in Ids, LocalStep(id) PROVE files' \in [Ids -> SUBSET Artifacts]
  <2>1. ASSUME NEW slot \in Slot, LocalUpdate(id, slot) PROVE files' \in [Ids -> SUBSET Artifacts]
    <3>1. (files[id] \cup {slot.artifact}) \cap Named(UpdatedRecord(mem.connectors[id], slot))
             \in SUBSET Artifacts
      BY <1>4, <1>6, Zenon
    <3> QED BY <1>2, <2>1, <3>1, Zenon DEF LocalUpdate
  <2> QED BY <1>2, <1>8, <1>11, <2>1, Zenon DEF LocalStep, LocalRemove
<1>12. ASSUME Restart PROVE files' \in [Ids -> SUBSET Artifacts]
  BY <1>4, <1>12, Zenon DEF Restart, CleanedUp
<1>13. ASSUME NEW j \in Jobs, \/ ServerDelivers(j) \/ FlushSends(j)
                              \/ \E t \in Tokens : HandleManagement(j, t)
       PROVE  files' \in [Ids -> SUBSET Artifacts]
  BY <1>3, <1>13, Zenon DEF ServerDelivers, FlushSends, HandleManagement, childVars
<1>14. ASSUME NEW id \in Ids, DeliverInventory(id) \/ StartFailure(id)
       PROVE  files' \in [Ids -> SUBSET Artifacts]
  BY <1>3, <1>14, Zenon DEF DeliverInventory, StartFailure
<1>15. ASSUME Report \/ FlushEnds PROVE files' \in [Ids -> SUBSET Artifacts]
  BY <1>3, <1>15, Zenon DEF Report, FlushEnds, childVars
<1>16. \A id \in scenario.local : id \in Ids
  BY ManagementAssumption, Zenon DEF Typed, TypeOK, Scenario
<1> QED
  BY <1>9, <1>10, <1>11, <1>12, <1>13, <1>14, <1>15, <1>16, ZenonT(60) DEF Next

\* and so does what the server and the session keep.
LEMMA SessionStaysTyped ==
    ASSUME Typed, AttemptsInOrder, OutcomesCoherent, Next
    PROVE  /\ phase' \in {"starting", "up", "failed"}
           /\ waiting' \in SUBSET (Jobs \X Tokens)
           /\ sending' \in Completion \cup {None}
           /\ attempt' \in [Jobs -> 0..MaxAttempts]
           /\ completed' \in [Jobs -> Completion \cup {None}]
           /\ applied' \in [Jobs -> Nat]
           /\ scenario' \in Scenarios
<1>1. /\ phase \in {"starting", "up", "failed"}
      /\ waiting \in SUBSET (Jobs \X Tokens)
      /\ sending \in Completion \cup {None}
      /\ attempt \in [Jobs -> 0..MaxAttempts]
      /\ completed \in [Jobs -> Completion \cup {None}]
      /\ applied \in [Jobs -> Nat]
      /\ scenario \in Scenarios /\ op \in Operation
      /\ journal \in [Jobs -> ManagementOutcome \cup {None}]
  BY Zenon DEF Typed, TypeOK
<1>2. phase' \in {"starting", "up", "failed"}
  <2>1. ASSUME phase' = phase \/ phase' = "up" \/ phase' = "failed" \/ phase' = "starting"
        PROVE  phase' \in {"starting", "up", "failed"}
    BY <1>1, <2>1, Zenon
  <2>2. ASSUME RecoveryStep PROVE phase' = phase \/ phase' = "up" \/ phase' = "failed"
    BY <2>2, ZenonT(60) DEF RecoveryStep, RecoveryBegins, SaveRecovered, RecoveryEnds, Recover,
       RecoverRestores, RecoverRemovesInstall, RecoverNothing, RecoverRemove, RecoverCommits,
       RecoveryFails, Recovered
  <2> QED
    BY <2>1, <2>2, Zenon DEF Next, ServerDelivers, FlushSends, HandleManagement, ExecutionStep,
       Report, FlushEnds, DeliverInventory, StartFailure, LocalStep, Restart, sessionVars
<1>3. waiting' \in SUBSET (Jobs \X Tokens) /\ attempt' \in [Jobs -> 0..MaxAttempts]
  <2>1. ASSUME NEW j \in Jobs, ServerDelivers(j)
        PROVE  waiting' \in SUBSET (Jobs \X Tokens) /\ attempt' \in [Jobs -> 0..MaxAttempts]
    <3>1. attempt[j] + 1 \in Tokens /\ attempt[j] + 1 \in 0..MaxAttempts
      <4>1. attempt[j] \in 0..MaxAttempts /\ attempt[j] < MaxAttempts
        BY <1>1, <2>1, Zenon DEF ServerDelivers
      <4> QED BY <4>1, ManagementAssumption
    <3>2. <<j, attempt[j] + 1>> \in Jobs \X Tokens
      BY <3>1
    <3> QED BY <1>1, <2>1, <3>1, <3>2, Zenon DEF ServerDelivers
  <2>2. ASSUME waiting' \subseteq waiting, attempt' = attempt
        PROVE  waiting' \in SUBSET (Jobs \X Tokens) /\ attempt' \in [Jobs -> 0..MaxAttempts]
    BY <1>1, <2>2, Zenon
  <2>3. ASSUME NEW j \in Jobs, NEW t \in Tokens, HandleManagement(j, t)
        PROVE  waiting' \subseteq waiting /\ attempt' = attempt
    BY <2>3, Zenon DEF HandleManagement
  <2>4. ASSUME ExecutionStep \/ RecoveryStep \/ Report \/ FlushEnds \/ Restart
        PROVE  waiting' \subseteq waiting /\ attempt' = attempt
    BY <2>4, Zenon DEF ExecutionStep, RecoveryStep, Report, FlushEnds, Restart, sessionVars
  <2>5. ASSUME NEW id, DeliverInventory(id) \/ StartFailure(id) \/ LocalStep(id) \/ FlushSends(id)
        PROVE  waiting' \subseteq waiting /\ attempt' = attempt
    BY <2>5, Zenon DEF DeliverInventory, StartFailure, LocalStep, FlushSends, sessionVars
  <2> QED BY <2>1, <2>2, <2>3, <2>4, <2>5, Zenon DEF Next
<1>4. ASSUME NEW j \in Jobs, FlushSends(j) PROVE sending' \in Completion
  <2>1. journal[j] \in ManagementOutcome /\ journal[j].status # "running"
    BY <1>1, <1>4, Zenon DEF FlushSends, Running
  <2>2. journal[j].token \in Tokens
    BY <2>1, OutcomeParts, Zenon
  <2>3. Reporting(j, journal[j].token, journal[j]).completion \in Completion
    BY <2>1, <2>2, HolderTypes, Zenon
  <2> QED BY <1>4, <2>3, Zenon DEF FlushSends
<1>5. sending' \in Completion \cup {None}
  <2>1. ASSUME sending' = sending \/ sending' = None PROVE sending' \in Completion \cup {None}
    BY <1>1, <2>1, Zenon
  <2> QED
    BY <1>4, <2>1, Zenon DEF Next, ServerDelivers, HandleManagement, ExecutionStep,
       RecoveryStep, Report, FlushEnds, DeliverInventory, StartFailure, LocalStep, Restart,
       sessionVars
<1>6. ASSUME NEW c \in Completion, ServerCompletes(c)
      PROVE  completed' \in [Jobs -> Completion \cup {None}]
  BY <1>1, <1>6, Zenon DEF ServerCompletes
<1>7. completed' \in [Jobs -> Completion \cup {None}]
  <2>1. ASSUME Report PROVE completed' \in [Jobs -> Completion \cup {None}]
    <3>1. op.completion \in Completion
      BY <1>1, <2>1, OperationTypes, Zenon DEF Report
    <3> QED BY <1>1, <1>6, <2>1, <3>1, Zenon DEF Report
  <2>2. ASSUME FlushEnds PROVE completed' \in [Jobs -> Completion \cup {None}]
    BY <1>1, <1>6, <2>2, Zenon DEF FlushEnds
  <2>3. ASSUME completed' = completed PROVE completed' \in [Jobs -> Completion \cup {None}]
    BY <1>1, <2>3, Zenon
  <2> QED
    BY <2>1, <2>2, <2>3, Zenon DEF Next, ServerDelivers, FlushSends, HandleManagement,
       ExecutionStep, RecoveryStep, DeliverInventory, StartFailure, LocalStep, Restart, sessionVars
<1>8. applied' \in [Jobs -> Nat]
  <2>1. ASSUME NEW j, applied' = [applied EXCEPT ![j] = @ + 1] PROVE applied' \in [Jobs -> Nat]
    <3>1. \A n \in Nat : n + 1 \in Nat
      OBVIOUS
    <3> QED BY <1>1, <2>1, <3>1, Zenon
  <2>2. ASSUME applied' = applied PROVE applied' \in [Jobs -> Nat]
    BY <1>1, <2>2, Zenon
  <2>3. ASSUME ExecutionStep PROVE applied' \in [Jobs -> Nat]
    <3>1. ASSUME Apply \/ ApplyIfWritten PROVE applied' \in [Jobs -> Nat]
      BY <2>1, <2>2, <3>1, Zenon DEF Apply, ApplyIfWritten
    <3> QED
      BY <2>2, <2>3, <3>1, ZenonT(60) DEF ExecutionStep, Replay, SaveReplayed, Announce,
         ExecutionRefused, ExecuteShell, PrepareRollback, Stage, Activate, ActivateFails, Restore,
         CleanupConnectorArtifacts, Remove, RemoveFiles, Finish, RemoveOutcome
  <2>4. ASSUME RecoveryStep PROVE applied' \in [Jobs -> Nat]
    BY <2>1, <2>2, <2>4, Zenon DEF RecoveryStep, RecoveryBegins, SaveRecovered, RecoveryEnds,
       Recover, RecoverRestores, RecoverRemovesInstall, RecoverNothing, RecoverRemove,
       RecoverCommits
  <2> QED
    BY <2>2, <2>3, <2>4, ZenonT(60) DEF Next, ServerDelivers, FlushSends, HandleManagement,
       Report, FlushEnds, DeliverInventory, StartFailure, LocalStep, Restart
<1> QED BY <1>1, <1>2, <1>3, <1>5, <1>7, <1>8, Zenon DEF Next

\* Where the holder of managementMu after a step comes from.
HolderStep ==
    \/ op' = op
    \/ op'.step \in ExecutionSteps \cup {"free", "recovering"}
    \/ /\ op'.step = "replaying" /\ op'.job \in Jobs /\ op'.outcome = journal[op'.job]
       /\ journal[op'.job] # None /\ ~Running(op'.job) /\ journal' = journal
    \/ op'.step = "rebound" /\ Replay
    \/ op'.step = "recovered" /\ \E j \in Jobs : Recover(j)
    \/ op'.step = "reporting" /\ \E j \in Jobs, t \in Tokens : HandleManagement(j, t)
    \/ op'.step = "reporting" /\ (Announce \/ SaveReplayed \/ Finish)
    \/ op'.step = "acknowledged" /\ Report

\* Every step is such a step.
LEMMA HolderSteps ==
    ASSUME Typed, Next
    PROVE  HolderStep
<1> USE DEF HolderStep
<1>1. op \in Operation
  BY Zenon DEF Typed, TypeOK
<1>2. ASSUME op' = Free PROVE HolderStep
  <2>1. op'.step = "free"
    BY <1>2, Zenon DEF Free
  <2> QED BY <2>1, Zenon
<1>3. ASSUME op'.step \in ExecutionSteps \cup {"recovering"} PROVE HolderStep
  BY <1>3, Zenon
<1>4. ASSUME NEW j \in Jobs, NEW t, journal[j] # None, ~Running(j), op' = Replaying(j, t),
             journal' = journal
      PROVE  HolderStep
  <2>1. op'.step = "replaying" /\ op'.job = j /\ op'.outcome = journal[j]
    BY <1>4, Zenon DEF Replaying
  <2> QED BY <1>4, <2>1, Zenon
<1>5. \A j, t, o : Reporting(j, t, o).step = "reporting"
  BY Zenon DEF Reporting
<1>6. ASSUME Announce \/ SaveReplayed \/ Finish, \E j, t, o : op' = Reporting(j, t, o)
      PROVE  HolderStep
  BY <1>5, <1>6, Zenon
<1>7. ASSUME Replay, \E n : op' = Rebound(n) PROVE HolderStep
  <2>1. \A n : Rebound(n).step = "rebound"
    BY Zenon DEF Rebound
  <2> QED BY <1>7, <2>1, Zenon
<1>8. ASSUME op'.step = "reporting", \E j \in Jobs, t \in Tokens : HandleManagement(j, t)
      PROVE  HolderStep
  BY <1>8, Zenon
<1>9. ASSUME NEW j \in Jobs, Recover(j), op'.step = "recovered" PROVE HolderStep
  BY <1>9, Zenon
<1>10. ASSUME Report, op'.step = "acknowledged" PROVE HolderStep
  BY <1>10, Zenon
<1>11. ASSUME op' = op PROVE HolderStep
  BY <1>11, Zenon
<1> HIDE DEF HolderStep
<1>12. ASSUME NEW j \in Jobs, NEW t \in Tokens, HandleManagement(j, t) PROVE HolderStep
  <2>1. CASE Refuse(j, t)
    BY <1>5, <1>8, <1>12, <2>1, Zenon DEF Refuse
  <2>2. CASE FindRunning(j, t)
    <3>1. op'.step = "recovering"
      BY <2>2, Zenon DEF FindRunning
    <3> QED BY <1>3, <3>1, Zenon
  <2>3. CASE FindFinished(j, t)
    BY <1>4, <2>3, Zenon DEF FindFinished
  <2>4. CASE Begin(j, t)
    <3>1. op' = Executing(j, t, None, "journalled") \/ op' = Reporting(j, t, Failure(t, None))
      BY <2>4, Zenon DEF Begin
    <3>2. Executing(j, t, None, "journalled").step \in ExecutionSteps
      BY Zenon DEF Executing, ExecutionSteps
    <3> QED BY <1>3, <1>5, <1>8, <1>12, <3>1, <3>2, Zenon
  <2> QED BY <1>12, <2>1, <2>2, <2>3, <2>4, Zenon DEF HandleManagement
<1>13. ASSUME ExecutionStep PROVE HolderStep
  <2>1. ASSUME op.step \in ExecutionSteps, NEW s \in ExecutionSteps, Go(s) PROVE HolderStep
    BY <1>1, <1>3, <2>1, GoKeeps, Zenon
  <2>2. ASSUME NEW r, op' = Executing(op.job, op.token, r, "staged") PROVE HolderStep
    <3>1. op'.step \in ExecutionSteps
      BY <2>2, Zenon DEF Executing, ExecutionSteps
    <3> QED BY <1>3, <3>1, Zenon
  <2>3. /\ op.step \in {"journalled", "executing", "staged", "restoring", "activated",
                        "removing"} => op.step \in ExecutionSteps
        /\ {"executing", "succeeded", "failed", "activated", "restoring", "removing"}
              \subseteq ExecutionSteps
    BY Zenon DEF ExecutionSteps
  <2>4. ASSUME Replay \/ SaveReplayed \/ Finish \/ RemoveOutcome PROVE HolderStep
    BY <1>2, <1>6, <1>7, <2>4, Zenon DEF Replay, SaveReplayed, Finish, RemoveOutcome
  <2>5. ASSUME Announce PROVE HolderStep
    BY <1>6, <2>1, <2>3, <2>5, Zenon DEF Announce
  <2>6. ASSUME ExecutionRefused \/ ExecuteShell PROVE HolderStep
    BY <2>1, <2>3, <2>6, Zenon DEF ExecutionRefused, ExecuteShell
  <2>7. ASSUME (\E slot \in Slot : Stage(slot)) \/ PrepareRollback PROVE HolderStep
    BY <2>1, <2>2, <2>3, <2>7, Zenon DEF Stage, PrepareRollback
  <2>8. ASSUME Activate \/ ActivateFails \/ Restore PROVE HolderStep
    BY <2>1, <2>3, <2>8, Zenon DEF Activate, ActivateFails, Activatable, Restore
  <2>9. ASSUME CleanupConnectorArtifacts \/ Remove \/ RemoveFiles PROVE HolderStep
    BY <2>1, <2>3, <2>9, Zenon DEF CleanupConnectorArtifacts, Remove, RemoveFiles
  <2> QED BY <1>13, <2>4, <2>5, <2>6, <2>7, <2>8, <2>9, ZenonT(60) DEF ExecutionStep
<1>14. ASSUME RecoveryStep PROVE HolderStep
  <2>1. ASSUME NEW c, op' = [step |-> "recovering", caller |-> c] PROVE HolderStep
    <3>1. op'.step = "recovering"
      BY <2>1, Zenon
    <3> QED BY <1>3, <3>1, Zenon
  <2>2. ASSUME RecoveryFails PROVE HolderStep
    BY <1>2, <2>2, Zenon DEF RecoveryFails
  <2>3. ASSUME NEW j \in Jobs, Recover(j) PROVE HolderStep
    <3>1. RecoveryFails \/ \E status, n : Recovered(j, status, n)
      BY <2>3, Zenon DEF Recover, RecoverRestores, RecoverRemovesInstall, RecoverNothing,
         RecoverRemove, RecoverCommits
    <3>2. \A status, n : Recovered(j, status, n) => op'.step = "recovered"
      <4> SUFFICES ASSUME NEW status, NEW n, Recovered(j, status, n)
                   PROVE  op'.step = "recovered"
        BY Zenon
      <4>1. op' = [step |-> "recovered", caller |-> op.caller, job |-> j,
                   outcome |-> Outcome(journal[j].token, status, journal[j].before, n)]
        BY Zenon DEF Recovered
      <4> QED BY <4>1, Zenon
    <3> QED BY <1>9, <2>2, <2>3, <3>1, <3>2, Zenon
  <2>4. ASSUME RecoveryEnds, op.caller \in Jobs \X Tokens, journal[op.caller[1]] # None,
               op' = Replaying(op.caller[1], op.caller[2])
        PROVE  HolderStep
    <3>1. op.caller[1] \in Jobs
      BY <2>4
    <3> QED BY <1>4, <2>4, <3>1, Zenon DEF RecoveryEnds
  <2> QED
    BY <1>2, <1>14, <2>1, <2>2, <2>3, <2>4, ZenonT(60)
       DEF RecoveryStep, RecoveryBegins, SaveRecovered, RecoveryEnds
<1>15. ASSUME Report PROVE HolderStep
  <2>1. ASSUME Go("acknowledged") PROVE HolderStep
    <3>1. op' = [step |-> "acknowledged", completion |-> op.completion]
      BY <1>1, <1>15, <2>1, OperationTypes, Zenon DEF Report, Go
    <3>2. op'.step = "acknowledged"
      BY <3>1, Zenon
    <3> QED BY <1>10, <1>15, <3>2, Zenon
  <2> QED BY <1>2, <1>15, <2>1, Zenon DEF Report
<1> QED
  BY <1>2, <1>11, <1>12, <1>13, <1>14, <1>15, ZenonT(60) DEF Next, ServerDelivers, FlushSends,
     FlushEnds, DeliverInventory, StartFailure, LocalStep, Restart

----------------------------------------------------------------------------
(* A child runs the active slot of the installed record.                   *)

\* PutInventoryConnector installs the record's active slot,
LEMMA InventoryConnectors ==
    ASSUME NEW st \in PersistedState, NEW id \in Ids, NEW record \in ConnectorRecord,
           NEW a \in ActiveAttempt \cup {None}, CanRevise(st)
    PROVE  /\ PutInventoryConnector(st, id, record, a).connectors[id] # None
           /\ PutInventoryConnector(st, id, record, a).connectors[id].active = record.active
           /\ \A k \in Ids : k # id =>
                 PutInventoryConnector(st, id, record, a).connectors[k] = st.connectors[k]
<1>1. InventoryRecord(st, id, record, a) \in ConnectorRecord
  BY PutInventoryType, Zenon
<1>2. InventoryRecord(st, id, record, a).active = record.active
  BY Zenon DEF InventoryRecord
<1>3. InventoryRecord(st, id, record, a) # None
  BY <1>1, StoreAssumption, Zenon
<1>4. PutInventoryConnector(st, id, record, a).connectors
         = [st.connectors EXCEPT ![id] = InventoryRecord(st, id, record, a)]
  BY Zenon DEF PutInventoryConnector
<1>5. st.connectors \in [Ids -> ConnectorRecord \cup {None}]
  BY Zenon DEF PersistedState
<1> QED BY <1>2, <1>3, <1>4, <1>5, Zenon

\* and so does PutRemoteConnector.
LEMMA RemoteConnectors ==
    ASSUME NEW st \in PersistedState, NEW id \in Ids, NEW record \in ConnectorRecord
    PROVE  /\ PutRemoteConnector(st, id, record).connectors[id] # None
           /\ PutRemoteConnector(st, id, record).connectors[id].active = record.active
           /\ \A k \in Ids : k # id =>
                 PutRemoteConnector(st, id, record).connectors[k] = st.connectors[k]
<1>1. PICK r : r = [active |-> record.active, previous |-> record.previous, acknowledged |-> TRUE]
  BY Zenon
<1>2. r \in ConnectorRecord
  BY <1>1, Zenon DEF ConnectorRecord
<1>3. r.active = record.active
  BY <1>1, Zenon
<1>4. r # None
  BY <1>2, StoreAssumption, Zenon
<1>5. PutRemoteConnector(st, id, record).connectors = [st.connectors EXCEPT ![id] = r]
  BY <1>1, Zenon DEF PutRemoteConnector
<1>6. st.connectors \in [Ids -> ConnectorRecord \cup {None}]
  BY Zenon DEF PersistedState
<1> QED BY <1>3, <1>4, <1>5, <1>6

\* A removal leaves the other connectors alone.
LEMMA RemovedConnectors ==
    ASSUME NEW st \in PersistedState, NEW id \in Ids
    PROVE  \A k \in Ids : k # id =>
              /\ RemoveRemoteConnector(st, id).connectors[k] = st.connectors[k]
              /\ RemoveLocalConnector(st, id).connectors[k] = st.connectors[k]
<1>1. st.connectors \in [Ids -> ConnectorRecord \cup {None}]
  BY Zenon DEF PersistedState
<1>2. RemoveRemoteConnector(st, id).connectors = [st.connectors EXCEPT ![id] = None]
  BY Zenon DEF RemoveRemoteConnector
<1>3. RemoveLocalConnector(st, id).connectors = [st.connectors EXCEPT ![id] = None]
  BY Zenon DEF RemoveLocalConnector
<1> QED BY <1>1, <1>2, <1>3, Zenon

ChildrenTyped == children \in [Ids -> Slot \cup {None}] /\ ChildrenCurrent

\* A step that changes one connector keeps its child at the active slot, or has none.
LEMMA OneChild ==
    ASSUME ChildrenTyped, mem' \in PersistedState, NEW id \in Ids,
           \A k \in Ids : k # id => mem'.connectors[k] = mem.connectors[k],
           NEW slot, children' = [children EXCEPT ![id] = slot],
           slot # None => mem'.connectors[id] # None /\ slot = mem'.connectors[id].active
    PROVE  ChildrenTyped'
<1>1. \A k \in Ids : mem'.connectors[k] # None => mem'.connectors[k].active \in Slot
  BY Zenon DEF PersistedState, ConnectorRecord
<1>2. slot \in Slot \cup {None}
  BY <1>1, Zenon
<1>3. children \in [Ids -> Slot \cup {None}]
  BY Zenon DEF ChildrenTyped
<1>4. children' \in [Ids -> Slot \cup {None}]
  BY <1>2, <1>3, Zenon
<1>5. ASSUME NEW k \in Ids, children'[k] # None
      PROVE  mem'.connectors[k] # None /\ children'[k] = mem'.connectors[k].active
  <2>1. CASE k = id
    BY <1>3, <1>5, <2>1, Zenon
  <2>2. CASE k # id
    BY <1>3, <1>5, <2>2, Zenon DEF ChildrenTyped, ChildrenCurrent
  <2> QED BY <2>1, <2>2, Zenon
<1> QED BY <1>4, <1>5, Zenon DEF ChildrenTyped, ChildrenCurrent

\* Start launches the active slot, or fails.
LEMMA StartedChild ==
    ASSUME ChildrenTyped, mem' \in PersistedState, NEW id \in Ids,
           \A k \in Ids : k # id => mem'.connectors[k] = mem.connectors[k],
           NEW record, Start(id, record), mem'.connectors[id] # None,
           mem'.connectors[id].active = record.active
    PROVE  ChildrenTyped'
BY OneChild, Zenon DEF Start

\* A connector's child survives a write that keeps its active slot.
LEMMA KeptChildren ==
    ASSUME ChildrenTyped, children' = children,
           \A k \in Ids : mem.connectors[k] # None =>
              mem'.connectors[k] # None /\ mem'.connectors[k].active = mem.connectors[k].active
    PROVE  ChildrenTyped'
BY Zenon DEF ChildrenTyped, ChildrenCurrent

\* The operations of handleManagement keep every child at the active slot,
LEMMA ExecutionChildren ==
    ASSUME Typed, ChildrenTyped, AttemptsInOrder, ExecutionCoherent, StoreTyped', ExecutionStep
    PROVE  ChildrenTyped'
<1>1. mem \in PersistedState /\ mem' \in PersistedState /\ op \in Operation
  BY Zenon DEF Typed, TypeOK, StoreTyped
<1>2. ASSUME mem' = mem, children' = children PROVE ChildrenTyped'
  BY <1>2, KeptChildren, Zenon
<1>3. ASSUME mem' = mem, NEW id \in Ids, Stop(id) PROVE ChildrenTyped'
  BY <1>1, <1>3, OneChild, Zenon DEF Stop
<1>4. op.step \in ExecutionSteps =>
         /\ Target \in Ids /\ op.job \in Jobs /\ op.token \in Tokens
         /\ (Old # None => Old \in ConnectorRecord)
  BY <1>1, JobInHand, Zenon DEF Typed, Old, PersistedState
<1>5. /\ op.step \in {"executing", "staged", "restoring"} => op.step \in ExecutionSteps
  BY Zenon DEF ExecutionSteps
<1>6. ASSUME Replay PROVE ChildrenTyped'
  <2>1. CASE mem' = mem
    BY <1>2, <1>6, <2>1, Zenon DEF Replay, childVars
  <2>2. CASE mem' # mem
    <3>1. CanRebind /\ mem' = Rebinding /\ children' = children /\ op.step = "replaying"
      BY <1>6, <2>2, Zenon DEF Replay, Saved, SaveFaults, storeVars, childVars
    <3> DEFINE id == Work[op.job].id
               a == [job |-> op.job, token |-> op.token]
    <3>2. id \in Ids /\ a \in ActiveAttempt
      BY <3>1, JobInHand, Zenon DEF Typed, ActiveAttempt
    <3>3. mem.connectors[id] \in ConnectorRecord /\ CanRevise(mem)
      BY <1>1, <3>1, <3>2, Zenon DEF CanRebind, PersistedState
    <3>4. mem' = PutInventoryConnector(mem, id, mem.connectors[id], a)
      BY <3>1, Zenon DEF Rebinding
    <3> HIDE DEF id, a
    <3>5. /\ mem'.connectors[id] # None
          /\ mem'.connectors[id].active = mem.connectors[id].active
          /\ \A k \in Ids : k # id => mem'.connectors[k] = mem.connectors[k]
      BY <1>1, <3>2, <3>3, <3>4, InventoryConnectors
    <3>6. \A k \in Ids : mem.connectors[k] # None =>
             mem'.connectors[k] # None /\ mem'.connectors[k].active = mem.connectors[k].active
      BY <3>5, Zenon
    <3> QED BY <3>1, <3>6, KeptChildren, Zenon
  <2> QED BY <2>1, <2>2, Zenon
<1>7. ASSUME Activate PROVE ChildrenTyped'
  <2>1. /\ Target \in Ids /\ op.record \in ConnectorRecord
        /\ [job |-> op.job, token |-> op.token] \in ActiveAttempt
    BY <1>1, <1>4, <1>5, <1>7, OperationTypes, ZenonT(60)
       DEF Activate, Activatable, ActiveAttempt, ExecutionCoherent
  <2>2. mem' = Candidate /\ children' = [children EXCEPT ![Target] = op.record.active]
    BY <1>7, Zenon DEF Activate, Saved
  <2>3. /\ mem'.connectors[Target] # None
        /\ mem'.connectors[Target].active = op.record.active
        /\ \A k \in Ids : k # Target => mem'.connectors[k] = mem.connectors[k]
    <3>1. CASE Kind = "install"
      BY <1>1, <2>1, <2>2, <3>1, RemoteConnectors DEF Candidate
    <3>2. CASE Kind # "install"
      <4>1. op.step \in ExecutionSteps /\ Kind \in {"install", "update", "rollback"}
        BY <1>5, <1>7, Zenon DEF Activate, Activatable, ExecutionCoherent
      <4>2. CanRevise(mem)
        BY <1>7, <3>2, <4>1, Zenon DEF Activate, Activatable, Transitions
      <4> QED BY <1>1, <2>1, <2>2, <3>2, <4>2, InventoryConnectors DEF Candidate
    <3> QED BY <3>1, <3>2, Zenon
  <2> QED BY <1>1, <2>1, <2>2, <2>3, OneChild, Zenon
<1>8. ASSUME ActivateFails PROVE ChildrenTyped'
  <2>1. mem' = mem /\ (Stop(Target) \/ children' = children) /\ op.step = "staged"
    BY <1>8, Zenon DEF ActivateFails, Activatable, SaveFaults, storeVars
  <2> QED BY <1>2, <1>3, <1>4, <1>5, <2>1, Zenon
<1>9. ASSUME mem' = mem, op.step \in ExecutionSteps, Old # None, Start(Target, Old)
      PROVE  ChildrenTyped'
  BY <1>1, <1>4, <1>9, StartedChild, Zenon DEF Old
<1>10. ASSUME Restore PROVE ChildrenTyped'
  BY <1>3, <1>4, <1>5, <1>9, <1>10, Zenon DEF Restore
<1>11. ASSUME Remove PROVE ChildrenTyped'
  <2>1. op.step \in ExecutionSteps /\ Target \in Ids
    BY <1>4, <1>5, <1>11, Zenon DEF Remove
  <2>2. CASE Saved(RemoveRemoteConnector(mem, Target)) /\ Stop(Target)
    <3>1. mem' = RemoveRemoteConnector(mem, Target)
      BY <2>2, Zenon DEF Saved
    <3>2. \A k \in Ids : k # Target => mem'.connectors[k] = mem.connectors[k]
      BY <1>1, <2>1, <3>1, RemovedConnectors, Zenon
    <3> QED BY <1>1, <2>1, <2>2, <3>2, OneChild, Zenon DEF Stop
  <2> QED BY <1>3, <1>9, <1>11, <2>1, <2>2, Zenon DEF Remove, SaveFaults, storeVars
<1>12. ASSUME \/ SaveReplayed \/ Announce \/ ExecutionRefused \/ ExecuteShell
              \/ PrepareRollback \/ (\E slot \in Slot : Stage(slot))
              \/ CleanupConnectorArtifacts \/ RemoveFiles \/ Finish \/ RemoveOutcome
       PROVE  ChildrenTyped'
  BY <1>2, <1>12, Zenon DEF SaveReplayed, Announce, ExecutionRefused, ExecuteShell,
     PrepareRollback, Stage, CleanupConnectorArtifacts, RemoveFiles, Finish, RemoveOutcome,
     storeVars, childVars
<1> QED BY <1>6, <1>7, <1>8, <1>10, <1>11, <1>12, Zenon DEF ExecutionStep

\* recovery does,
LEMMA RecoveryChildren ==
    ASSUME Typed, ChildrenTyped, OutcomesCoherent, StoreTyped', RecoveryStep
    PROVE  ChildrenTyped'
<1>1. mem \in PersistedState /\ mem' \in PersistedState /\ op \in Operation
  BY Zenon DEF Typed, TypeOK, StoreTyped
<1>2. ASSUME mem' = mem, children' = children PROVE ChildrenTyped'
  BY <1>2, KeptChildren, Zenon
<1>3. ASSUME mem' = mem, NEW id \in Ids, Stop(id) PROVE ChildrenTyped'
  BY <1>1, <1>3, OneChild, Zenon DEF Stop
<1>4. ASSUME NEW id \in Ids, Saved(RemoveRemoteConnector(mem, id)), Stop(id) PROVE ChildrenTyped'
  <2>1. mem' = RemoveRemoteConnector(mem, id)
    BY <1>4, Zenon DEF Saved
  <2>2. \A k \in Ids : k # id => mem'.connectors[k] = mem.connectors[k]
    BY <1>1, <2>1, RemovedConnectors, Zenon
  <2> QED BY <1>1, <1>4, <2>2, OneChild, Zenon DEF Stop
<1>5. ASSUME RecoveryEnds PROVE ChildrenTyped'
  <2>1. CASE children' = [id \in Ids |-> IF mem.connectors[id] = None THEN None
                                         ELSE mem.connectors[id].active]
    <3>1. \A k \in Ids : mem.connectors[k] # None => mem.connectors[k].active \in Slot
      BY <1>1, Zenon DEF PersistedState, ConnectorRecord
    <3>2. mem' = mem
      BY <1>5, Zenon DEF RecoveryEnds, storeVars
    <3> QED BY <2>1, <3>1, <3>2, Zenon DEF ChildrenTyped, ChildrenCurrent
  <2> QED BY <1>2, <1>5, <2>1, Zenon DEF RecoveryEnds, storeVars
<1>6. ASSUME RecoveryBegins \/ SaveRecovered PROVE ChildrenTyped'
  BY <1>2, <1>6, Zenon DEF RecoveryBegins, SaveRecovered, storeVars, childVars
<1>7. ASSUME NEW j \in Jobs, Recover(j) PROVE ChildrenTyped'
  <2> DEFINE id == Work[j].id
  <2>1. id \in Ids /\ journal[j] \in ManagementOutcome
    BY <1>7, JobRunning, Zenon DEF Recover, Running, Typed
  <2>2. CASE RecoverRestores(j)
    <3>1. journal[j].before \in ConnectorRecord
      BY <2>1, <2>2, OutcomeParts, Zenon DEF RecoverRestores
    <3>2. CASE Saved(PutRemoteConnector(mem, id, journal[j].before)) /\ Start(id, journal[j].before)
      <4>1. mem' = PutRemoteConnector(mem, id, journal[j].before)
        BY <3>2, Zenon DEF Saved
      <4> HIDE DEF id
      <4>2. /\ mem'.connectors[id] # None
            /\ mem'.connectors[id].active = journal[j].before.active
            /\ \A k \in Ids : k # id => mem'.connectors[k] = mem.connectors[k]
        BY <1>1, <2>1, <3>1, <4>1, RemoteConnectors
      <4> QED BY <1>1, <2>1, <3>2, <4>2, StartedChild, Zenon
    <3>3. CASE mem' = mem /\ (Stop(id) \/ children' = children)
      BY <1>2, <1>3, <2>1, <3>3, Zenon
    <3> QED BY <2>2, <3>2, <3>3, ZenonT(60) DEF RecoverRestores, SaveFaults, storeVars
  <2>3. CASE RecoverRemovesInstall(j)
    BY <1>3, <1>4, <2>1, <2>3, Zenon DEF RecoverRemovesInstall, SaveFaults
  <2>4. CASE RecoverNothing(j)
    BY <1>2, <2>4, Zenon DEF RecoverNothing, storeVars, childVars
  <2>5. ASSUME mem' = mem, mem.connectors[id] # None, Start(id, mem.connectors[id])
        PROVE  ChildrenTyped'
    <3> HIDE DEF id
    <3> QED BY <1>1, <2>1, <2>5, StartedChild, Zenon
  <2>6. CASE RecoverRemove(j)
    BY <1>2, <1>4, <2>1, <2>5, <2>6, Zenon DEF RecoverRemove, SaveFaults, storeVars
  <2>7. CASE RecoverCommits(j)
    <3>1. /\ mem' = mem /\ mem.connectors[id] # None
          /\ children' = [children EXCEPT ![id] = mem.connectors[id].active]
      BY <2>7, Zenon DEF RecoverCommits, TookEffect, storeVars
    <3> HIDE DEF id
    <3> QED BY <1>1, <2>1, <3>1, OneChild, Zenon
  <2> QED BY <1>7, <2>2, <2>3, <2>4, <2>6, <2>7, ZenonT(60) DEF Recover
<1> QED BY <1>5, <1>6, <1>7, Zenon DEF RecoveryStep

\* and everything else does.
LEMMA ChildrenStayCurrent ==
    ASSUME Typed, ChildrenTyped, AttemptsInOrder, OutcomesCoherent, ExecutionCoherent,
           StoreTyped', Next
    PROVE  ChildrenTyped'
<1>1. mem \in PersistedState /\ mem' \in PersistedState
  BY Zenon DEF Typed, TypeOK, StoreTyped
<1>2. ASSUME mem' = mem, children' = children PROVE ChildrenTyped'
  BY <1>2, KeptChildren, Zenon
<1>3. ASSUME NEW j \in Jobs, \/ ServerDelivers(j) \/ FlushSends(j)
                             \/ \E t \in Tokens : HandleManagement(j, t)
      PROVE  ChildrenTyped'
  BY <1>2, <1>3, Zenon DEF ServerDelivers, FlushSends, HandleManagement, storeVars, childVars
<1>4. ASSUME Report \/ FlushEnds PROVE ChildrenTyped'
  BY <1>2, <1>4, Zenon DEF Report, FlushEnds, storeVars, childVars
<1>5. ASSUME NEW id \in Ids, StartFailure(id) PROVE ChildrenTyped'
  <2>1. mem' = mem /\ mem.connectors[id] # None /\ Start(id, mem.connectors[id])
    BY <1>5, Zenon DEF StartFailure, storeVars
  <2> QED BY <1>1, <2>1, StartedChild, Zenon
<1>6. ASSUME NEW id \in Ids, DeliverInventory(id) PROVE ChildrenTyped'
  <2>1. PICK origins \in Origins :
           /\ mem' = AcknowledgeInventoryMutation(mem, id, mem.pending[id], origins)
           /\ IF mem'.connectors[id] # None
                    /\ mem'.connectors[id].active # mem.connectors[id].active
              THEN Start(id, mem'.connectors[id])
              ELSE UNCHANGED children
    BY <1>6, Zenon DEF DeliverInventory, Saved
  <2>2. mem.connectors \in [Ids -> ConnectorRecord \cup {None}]
    BY <1>1, Zenon DEF PersistedState
  <2>3. \A k \in Ids : k # id => mem'.connectors[k] = mem.connectors[k]
    BY <2>1, <2>2, Zenon DEF AcknowledgeInventoryMutation
  <2>4. mem.connectors[id] # None => mem'.connectors[id] # None
    <3>1. CASE mem.pending[id].kind = "upsert"
      <4>1. mem'.connectors[id] = [active |-> WithOrigins(mem.connectors[id].active, origins),
                                   previous |-> mem.connectors[id].previous,
                                   acknowledged |-> TRUE]
        BY <2>1, <2>2, <3>1, Zenon DEF AcknowledgeInventoryMutation
      <4>2. \A slot \in Slot : WithOrigins(slot, origins) \in Slot
        BY Zenon DEF Slot, WithOrigins
      <4>3. \A r \in ConnectorRecord :
               [active |-> WithOrigins(r.active, origins), previous |-> r.previous,
                acknowledged |-> TRUE] \in ConnectorRecord
        BY <4>2, Zenon DEF ConnectorRecord
      <4>4. mem.connectors[id] # None => mem'.connectors[id] \in ConnectorRecord
        BY <2>2, <4>1, <4>3, Zenon
      <4> QED BY <4>4, StoreAssumption, Zenon
    <3>2. CASE mem.pending[id].kind # "upsert"
      BY <2>1, <3>2, Zenon DEF AcknowledgeInventoryMutation
    <3> QED BY <3>1, <3>2, Zenon
  <2>5. CASE mem'.connectors[id] # None /\ mem'.connectors[id].active # mem.connectors[id].active
    BY <1>1, <2>1, <2>3, <2>5, StartedChild, Zenon
  <2>6. CASE ~(mem'.connectors[id] # None /\ mem'.connectors[id].active # mem.connectors[id].active)
    <3>1. \A k \in Ids : mem.connectors[k] # None =>
             mem'.connectors[k] # None /\ mem'.connectors[k].active = mem.connectors[k].active
      BY <2>3, <2>4, <2>6, Zenon
    <3> QED BY <2>1, <2>6, <3>1, KeptChildren, Zenon
  <2> QED BY <2>5, <2>6, Zenon
<1>7. ASSUME NEW id \in Ids, LocalStep(id) PROVE ChildrenTyped'
  <2>1. CASE LocalRemove(id)
    <3>1. mem' = RemoveLocalConnector(mem, id) /\ children' = [children EXCEPT ![id] = None]
      BY <2>1, Zenon DEF LocalRemove, Saved, Stop
    <3>2. \A k \in Ids : k # id => mem'.connectors[k] = mem.connectors[k]
      BY <1>1, <3>1, RemovedConnectors, Zenon
    <3> QED BY <1>1, <3>1, <3>2, OneChild, Zenon
  <2>2. ASSUME NEW slot \in Slot, LocalUpdate(id, slot) PROVE ChildrenTyped'
    <3>1. /\ mem' = PutInventoryConnector(mem, id, UpdatedRecord(mem.connectors[id], slot), None)
          /\ children' = [children EXCEPT ![id] = slot]
          /\ UpdatedRecord(mem.connectors[id], slot) \in ConnectorRecord
          /\ CanRevise(mem)
      BY <1>1, <1>7, <2>2, LifecycleRecords, Zenon DEF LocalStep, LocalUpdate, Saved, PersistedState
    <3>2. UpdatedRecord(mem.connectors[id], slot).active = slot
      BY Zenon DEF UpdatedRecord
    <3>3. /\ mem'.connectors[id] # None
          /\ mem'.connectors[id].active = slot
          /\ \A k \in Ids : k # id => mem'.connectors[k] = mem.connectors[k]
      BY <1>1, <3>1, <3>2, InventoryConnectors
    <3> QED BY <1>1, <3>1, <3>3, OneChild, Zenon
  <2> QED BY <1>7, <2>1, <2>2, Zenon DEF LocalStep
<1>8. ASSUME Restart PROVE ChildrenTyped'
  BY <1>8, Zenon DEF Restart, ChildrenTyped, ChildrenCurrent
<1>9. \A id \in scenario.local : id \in Ids
  BY ManagementAssumption, Zenon DEF Typed, TypeOK, Scenario
<1> QED
  BY <1>3, <1>4, <1>5, <1>6, <1>7, <1>8, <1>9, ExecutionChildren, RecoveryChildren, ZenonT(60) DEF Next

\* The types, the children and the order of the attempts are preserved together.
LEMMA TypedStep ==
    ASSUME Typed, ChildrenCurrent, AttemptsInOrder, OutcomesCoherent, ExecutionCoherent, Next
    PROVE  Typed' /\ ChildrenCurrent' /\ AttemptsInOrder'
<1>1. ChildrenTyped
  BY Zenon DEF ChildrenTyped, Typed, TypeOK
<1>2. StoreTyped'
  BY StoreStaysTyped, Zenon
<1>3. HolderTyped'
  BY HolderStaysTyped, Zenon
<1>4. files' \in [Ids -> SUBSET Artifacts]
  BY FilesStayTyped, Zenon
<1>5. ChildrenTyped'
  BY <1>1, <1>2, ChildrenStayCurrent, Zenon
<1>6. /\ phase' \in {"starting", "up", "failed"}
      /\ waiting' \in SUBSET (Jobs \X Tokens)
      /\ sending' \in Completion \cup {None}
      /\ attempt' \in [Jobs -> 0..MaxAttempts]
      /\ completed' \in [Jobs -> Completion \cup {None}]
      /\ applied' \in [Jobs -> Nat]
      /\ scenario' \in Scenarios
  BY SessionStaysTyped, Zenon
<1>7. scenario' = scenario
  BY Zenon DEF Next
<1>8. AttemptsInOrder'
  BY <1>6, <1>7, AttemptSteps, AttemptsStayInOrder, Zenon DEF Typed
<1> QED
  BY <1>2, <1>3, <1>4, <1>5, <1>6, <1>8, ZenonT(60)
     DEF Typed, TypeOK, StoreTyped, HolderTyped, ChildrenTyped

----------------------------------------------------------------------------
(* What a step applies, and the inventory it binds.                        *)

\* Operations are counted as applied by their execution, and removals by recovery.
AppliedStep ==
    \A j \in Jobs :
        \/ applied'[j] = applied[j]
        \/ /\ applied'[j] = applied[j] + 1
           /\ journal' = journal
           /\ \/ op.step \in {"executing", "staged"} /\ op.job = j
              \/ op.step = "recovering" /\ Running(j) /\ Work[j].kind = "remove"

\* Every step is such a step.
LEMMA AppliedSteps ==
    ASSUME Typed, Next
    PROVE  AppliedStep
<1>1. applied \in [Jobs -> Nat]
  BY Zenon DEF Typed, TypeOK
<1>2. ASSUME applied' = applied PROVE AppliedStep
  BY <1>2, Zenon DEF AppliedStep
<1>3. ASSUME NEW j, applied' = [applied EXCEPT ![j] = @ + 1], journal' = journal,
             \/ op.step \in {"executing", "staged"} /\ op.job = j
             \/ op.step = "recovering" /\ Running(j) /\ Work[j].kind = "remove"
      PROVE  AppliedStep
  <2>1. \A k \in Jobs : applied'[k] = IF k = j THEN applied[k] + 1 ELSE applied[k]
    BY <1>1, <1>3, Zenon
  <2> QED BY <1>3, <2>1, Zenon DEF AppliedStep
<1>4. ASSUME op.step \in {"executing", "staged"}, journal' = journal, Apply \/ ApplyIfWritten
      PROVE  AppliedStep
  BY <1>2, <1>3, <1>4, Zenon DEF Apply, ApplyIfWritten
<1>5. ASSUME ExecutionStep PROVE AppliedStep
  BY <1>2, <1>4, <1>5, ZenonT(60) DEF ExecutionStep, Replay, SaveReplayed, Announce,
     ExecutionRefused, ExecuteShell, PrepareRollback, Stage, Activate, ActivateFails,
     Activatable, Restore, CleanupConnectorArtifacts, Remove, RemoveFiles, Finish, RemoveOutcome
<1>6. ASSUME RecoveryStep PROVE AppliedStep
  BY <1>2, <1>3, <1>6, ZenonT(60) DEF RecoveryStep, RecoveryBegins, SaveRecovered, RecoveryEnds,
     Recover, RecoverRestores, RecoverRemovesInstall, RecoverNothing, RecoverRemove,
     RecoverCommits
<1> QED
  BY <1>2, <1>5, <1>6, ZenonT(60) DEF Next, ServerDelivers, FlushSends, HandleManagement,
     Report, FlushEnds, DeliverInventory, StartFailure, LocalStep, Restart

\* What was applied stays so.
LEMMA AppliedStays ==
    ASSUME Typed, AppliedStep, NEW j \in Jobs
    PROVE  applied[j] > 0 => applied'[j] > 0
<1>1. applied[j] \in Nat
  BY Zenon DEF Typed, TypeOK
<1>2. applied'[j] = applied[j] \/ applied'[j] = applied[j] + 1
  BY Zenon DEF AppliedStep
<1> QED BY <1>1, <1>2

\* A pending mutation of a job is one that was pending, or was bound by this step to the
\* attempt that holds managementMu.
Kept(st, id) == st.pending[id] \in {mem.pending[id], disk.pending[id]}

Fresh(st, id) ==
    /\ op.step \in {"staged", "replaying"}
    /\ id = Work[op.job].id
    /\ Work[op.job].kind \in Transitions
    /\ st.pending[id].attempt.job = op.job
    /\ st.pending[id].attempt.token = op.token
    /\ st.pending[id].revision = mem.revision + 1
    /\ applied'[op.job] > 0
    /\ op'.step \notin {"replaying", "recovering", "recovered"}

BindingStep ==
    /\ \A id \in Ids : \A st \in {mem', disk'} :
          st.pending[id] # None /\ st.pending[id].attempt # None => Kept(st, id) \/ Fresh(st, id)
    /\ mem' \in {mem, disk} \/ disk' = mem'

NoNewBinding(next) ==
    \A k \in Ids :
        \/ next.pending[k] = mem.pending[k]
        \/ next.pending[k] = None
        \/ next.pending[k].attempt = None

\* Only a transition binds inventory to an attempt.
LEMMA CandidatesBindNothing ==
    ASSUME mem \in PersistedState, NEW id \in Ids
    PROVE  /\ \A r : NoNewBinding(PutRemoteConnector(mem, id, r))
           /\ NoNewBinding(RemoveRemoteConnector(mem, id))
           /\ NoNewBinding(RemoveLocalConnector(mem, id))
           /\ \A m, origins : NoNewBinding(AcknowledgeInventoryMutation(mem, id, m, origins))
           /\ \A r : NoNewBinding(PutInventoryConnector(mem, id, r, None))
<1>1. mem.pending \in [Ids -> InventoryMutation \cup {None}]
  BY Zenon DEF PersistedState
<1>2. ASSUME NEW next, NEW m, next.pending = [mem.pending EXCEPT ![id] = m],
             m = None \/ m.attempt = None
      PROVE  NoNewBinding(next)
  BY <1>1, <1>2, Zenon DEF NoNewBinding
<1>3. ASSUME NEW r PROVE NoNewBinding(PutRemoteConnector(mem, id, r))
  <2>1. PutRemoteConnector(mem, id, r).pending = [mem.pending EXCEPT ![id] = None]
    BY Zenon DEF PutRemoteConnector
  <2> QED BY <1>2, <2>1, Zenon
<1>4. NoNewBinding(RemoveRemoteConnector(mem, id))
  <2>1. RemoveRemoteConnector(mem, id).pending = [mem.pending EXCEPT ![id] = None]
    BY Zenon DEF RemoveRemoteConnector
  <2> QED BY <1>2, <2>1, Zenon
<1>5. NoNewBinding(RemoveLocalConnector(mem, id))
  <2>1. PICK m : m = InventoryRemoveMutation(mem.revision + 1)
    BY Zenon
  <2>2. m.attempt = None
    BY <2>1, Zenon DEF InventoryRemoveMutation
  <2>3. RemoveLocalConnector(mem, id).pending = [mem.pending EXCEPT ![id] = m]
    BY <2>1, Zenon DEF RemoveLocalConnector
  <2> QED BY <1>2, <2>2, <2>3, Zenon
<1>6. ASSUME NEW m, NEW origins
      PROVE  NoNewBinding(AcknowledgeInventoryMutation(mem, id, m, origins))
  <2>1. AcknowledgeInventoryMutation(mem, id, m, origins).pending = [mem.pending EXCEPT ![id] = None]
    BY Zenon DEF AcknowledgeInventoryMutation
  <2> QED BY <1>2, <2>1, Zenon
<1>7. ASSUME NEW r PROVE NoNewBinding(PutInventoryConnector(mem, id, r, None))
  <2>1. PICK m : m = InventoryUpsertMutation(InventoryRecord(mem, id, r, None),
                                             mem.revision + 1, None)
    BY Zenon
  <2>2. m.attempt = None
    BY <2>1, Zenon DEF InventoryUpsertMutation
  <2>3. PutInventoryConnector(mem, id, r, None).pending = [mem.pending EXCEPT ![id] = m]
    BY <2>1, Zenon DEF PutInventoryConnector
  <2> QED BY <1>2, <2>2, <2>3, Zenon
<1> QED BY <1>3, <1>4, <1>5, <1>6, <1>7, Zenon

\* A save that binds nothing,
LEMMA SaveBindsNothing ==
    ASSUME NEW next, NoNewBinding(next), Saved(next) \/ SaveFaults(next)
    PROVE  BindingStep
<1>1. \A id \in Ids : next.pending[id] # None /\ next.pending[id].attempt # None =>
         Kept(next, id)
  BY Zenon DEF NoNewBinding, Kept
<1>2. \A id \in Ids : Kept(mem, id) /\ Kept(disk, id)
  BY Zenon DEF Kept
<1>3. CASE Saved(next)
  BY <1>1, <1>3, Zenon DEF Saved, BindingStep
<1>4. CASE SaveFaults(next)
  <2>1. mem' = mem /\ (disk' = disk \/ disk' = next)
    BY <1>4, Zenon DEF SaveFaults
  <2> QED BY <1>1, <1>2, <2>1, Zenon DEF BindingStep
<1> QED BY <1>3, <1>4, Zenon

\* and one that binds the connector of the job in hand.
LEMMA SaveBinds ==
    ASSUME mem \in PersistedState, op.step \in {"staged", "replaying"},
           Work[op.job].id \in Ids, Work[op.job].kind \in Transitions, NEW r,
           LET next == PutInventoryConnector(mem, Work[op.job].id, r,
                                             [job |-> op.job, token |-> op.token])
           IN  Saved(next) \/ SaveFaults(next),
           disk' # disk => applied'[op.job] > 0,
           op'.step \notin {"replaying", "recovering", "recovered"}
    PROVE  BindingStep
<1>1. PICK id, a, next, m :
         /\ id = Work[op.job].id
         /\ a = [job |-> op.job, token |-> op.token]
         /\ next = PutInventoryConnector(mem, id, r, a)
         /\ m = InventoryUpsertMutation(InventoryRecord(mem, id, r, a), mem.revision + 1, a)
  BY Zenon
<1>2. /\ m.attempt.job = op.job /\ m.attempt.token = op.token
      /\ m.revision = mem.revision + 1
  BY <1>1, Zenon DEF InventoryUpsertMutation
<1>3. next.pending = [mem.pending EXCEPT ![id] = m]
  BY <1>1, Zenon DEF PutInventoryConnector
<1>4. mem.pending \in [Ids -> InventoryMutation \cup {None}]
  BY Zenon DEF PersistedState
<1>5. \A k \in Ids : next.pending[k] = IF k = id THEN m ELSE mem.pending[k]
  BY <1>3, <1>4, Zenon
<1>6. \A k \in Ids : Kept(mem, k) /\ Kept(disk, k)
  BY Zenon DEF Kept
<1>7. ASSUME applied'[op.job] > 0, NEW k \in Ids PROVE Kept(next, k) \/ Fresh(next, k)
  BY <1>1, <1>2, <1>5, <1>7, Zenon DEF Kept, Fresh
<1>8. Saved(next) \/ SaveFaults(next)
  BY <1>1, Zenon
<1>9. (mem' = next /\ disk' = next) \/ (mem' = mem /\ (disk' = disk \/ disk' = next))
  BY <1>8, Zenon DEF Saved, SaveFaults
<1>10. CASE disk' = disk
  BY <1>6, <1>9, <1>10, Zenon DEF BindingStep
<1>11. CASE disk' # disk
  BY <1>6, <1>7, <1>9, <1>11, Zenon DEF BindingStep
<1> QED BY <1>10, <1>11, Zenon

\* handleManagement binds inventory by the activation and the replay of a transition,
LEMMA ExecutionBinds ==
    ASSUME Typed, AttemptsInOrder, OutcomesCoherent, ExecutionCoherent, AppliedStep, ExecutionStep
    PROVE  BindingStep
<1>1. mem \in PersistedState /\ op \in Operation /\ applied \in [Jobs -> Nat]
  BY Zenon DEF Typed, TypeOK
<1>2. \A id \in Ids : Kept(mem, id) /\ Kept(disk, id)
  BY Zenon DEF Kept
<1>3. ASSUME mem' = mem, disk' = disk \/ disk' = mem PROVE BindingStep
  BY <1>2, <1>3, Zenon DEF BindingStep
<1> op'.step \notin {"replaying", "recovering", "recovered"}
  BY <1>1, ExecutionMoves, Zenon DEF OperationMoves, Answered, ExecutionSteps
<1>4. ASSUME Replay PROVE BindingStep
  <2>1. CASE mem' = mem /\ disk' = disk
    BY <1>3, <2>1, Zenon
  <2>2. CASE MustRebind /\ (Saved(Rebinding) \/ SaveFaults(Rebinding))
    <3>1. /\ op.step = "replaying" /\ op.job \in Jobs /\ Work[op.job].id \in Ids
          /\ OutcomeCoherent(op.job, op.outcome)
      BY <1>4, JobInHand, Zenon DEF Replay, OutcomesCoherent, Typed
    <3>2. op.outcome.status = "success" /\ op.outcome.revision # 0
      BY <2>2, Zenon DEF MustRebind
    <3>3. Work[op.job].kind \in Transitions /\ applied[op.job] > 0
      BY <3>1, <3>2, Zenon DEF OutcomeCoherent
    <3>4. applied'[op.job] > 0
      BY <3>1, <3>3, AppliedStays, Zenon
    <3>5. PICK r : Rebinding = PutInventoryConnector(mem, Work[op.job].id, r,
                                                     [job |-> op.job, token |-> op.token])
      BY Zenon DEF Rebinding
    <3> QED BY <1>1, <2>2, <3>1, <3>3, <3>4, <3>5, SaveBinds, ZenonT(60)
  <2> QED BY <1>4, <2>1, <2>2, Zenon DEF Replay, storeVars
<1>5. ASSUME Activatable, Saved(Candidate) \/ SaveFaults(Candidate), disk' # disk => Apply
      PROVE  BindingStep
  <2>1. op.step = "staged" /\ op.step \in ExecutionSteps
    BY <1>5, Zenon DEF Activatable, ExecutionSteps
  <2>2. op.job \in Jobs /\ Target \in Ids /\ Kind \in {"install", "update", "rollback"}
    BY <2>1, JobInHand, Zenon DEF Typed, ExecutionCoherent
  <2>3. CASE Kind = "install"
    <3>1. Candidate = PutRemoteConnector(mem, Target, op.record)
      BY <2>3, Zenon DEF Candidate
    <3> QED BY <1>1, <1>5, <2>2, <3>1, CandidatesBindNothing, SaveBindsNothing, Zenon
  <2>4. CASE Kind # "install"
    <3>1. Candidate = PutInventoryConnector(mem, Work[op.job].id, op.record,
                                            [job |-> op.job, token |-> op.token])
      BY <2>4, Zenon DEF Candidate, Target
    <3>2. Work[op.job].kind \in Transitions /\ Work[op.job].id \in Ids
      BY <2>2, <2>4, Zenon DEF Kind, Target, Transitions
    <3>3. ASSUME Apply PROVE applied'[op.job] > 0
      <4>1. applied'[op.job] = applied[op.job] + 1 /\ applied[op.job] \in Nat
        BY <1>1, <2>2, <3>3, Zenon DEF Apply
      <4> QED BY <4>1
    <3> QED BY <1>1, <1>5, <2>1, <3>1, <3>2, <3>3, SaveBinds, ZenonT(60)
  <2> QED BY <2>3, <2>4, Zenon
<1>6. ASSUME Activate PROVE BindingStep
  BY <1>5, <1>6, Zenon DEF Activate
<1>7. ASSUME ActivateFails PROVE BindingStep
  BY <1>3, <1>5, <1>7, Zenon DEF ActivateFails, ApplyIfWritten, storeVars
<1>8. ASSUME Restore PROVE BindingStep
  BY <1>3, <1>8, Zenon DEF Restore, RewriteCurrentState
<1>9. ASSUME Remove PROVE BindingStep
  <2>1. Target \in Ids
    BY <1>9, JobInHand, Zenon DEF Remove, ExecutionSteps, Typed
  <2> QED
    BY <1>1, <1>3, <1>9, <2>1, CandidatesBindNothing, SaveBindsNothing, ZenonT(60) DEF Remove, storeVars
<1>10. ASSUME \/ SaveReplayed \/ Announce \/ ExecutionRefused \/ ExecuteShell
              \/ PrepareRollback \/ (\E slot \in Slot : Stage(slot))
              \/ CleanupConnectorArtifacts \/ RemoveFiles \/ Finish \/ RemoveOutcome
       PROVE  BindingStep
  BY <1>3, <1>10, Zenon DEF SaveReplayed, Announce, ExecutionRefused, ExecuteShell,
     PrepareRollback, Stage, CleanupConnectorArtifacts, RemoveFiles, Finish, RemoveOutcome,
     storeVars
<1> QED BY <1>4, <1>6, <1>7, <1>8, <1>9, <1>10, ZenonT(60) DEF ExecutionStep

\* and nothing else does.
LEMMA BindingSteps ==
    ASSUME Typed, AttemptsInOrder, OutcomesCoherent, ExecutionCoherent, AppliedStep, Next
    PROVE  BindingStep
<1>1. mem \in PersistedState
  BY Zenon DEF Typed, TypeOK
<1>2. ASSUME mem' \in {mem, disk}, disk' = disk PROVE BindingStep
  BY <1>2, Zenon DEF BindingStep, Kept
<1>3. ASSUME NEW j \in Jobs, Recover(j) PROVE BindingStep
  <2>1. Work[j].id \in Ids
    BY <1>3, JobRunning, Zenon DEF Recover, Running, Typed
  <2> QED
    BY <1>1, <1>2, <1>3, <2>1, CandidatesBindNothing, SaveBindsNothing, ZenonT(60)
       DEF Recover, RecoverRestores, RecoverRemovesInstall, RecoverNothing, RecoverRemove,
           RecoverCommits, storeVars
<1>4. ASSUME RecoveryStep PROVE BindingStep
  BY <1>2, <1>3, <1>4, Zenon DEF RecoveryStep, RecoveryBegins, SaveRecovered, RecoveryEnds, storeVars
<1>5. ASSUME NEW id \in Ids, DeliverInventory(id) PROVE BindingStep
  BY <1>1, <1>5, CandidatesBindNothing, SaveBindsNothing, Zenon DEF DeliverInventory
<1>6. ASSUME NEW id \in Ids, LocalStep(id) PROVE BindingStep
  BY <1>1, <1>6, CandidatesBindNothing, SaveBindsNothing, Zenon
     DEF LocalStep, LocalRemove, LocalUpdate
<1>7. ASSUME Restart PROVE BindingStep
  BY <1>2, <1>7, Zenon DEF Restart
<1>8. ASSUME NEW j \in Jobs, \/ ServerDelivers(j) \/ FlushSends(j)
                             \/ \E t \in Tokens : HandleManagement(j, t)
      PROVE  BindingStep
  BY <1>2, <1>8, Zenon DEF ServerDelivers, FlushSends, HandleManagement, storeVars
<1>9. ASSUME Report \/ FlushEnds PROVE BindingStep
  BY <1>2, <1>9, Zenon DEF Report, FlushEnds, storeVars
<1>10. ASSUME NEW id \in Ids, StartFailure(id) PROVE BindingStep
  BY <1>2, <1>10, Zenon DEF StartFailure, storeVars
<1>11. \A id \in scenario.local : id \in Ids
  BY ManagementAssumption, Zenon DEF Typed, TypeOK, Scenario
<1> QED
  BY <1>4, <1>5, <1>6, <1>7, <1>8, <1>9, <1>10, <1>11, ExecutionBinds, ZenonT(60) DEF Next

----------------------------------------------------------------------------
(* The journal.                                                            *)

Consistent ==
    /\ Typed
    /\ AttemptsInOrder
    /\ InventoryBound
    /\ OutcomesCoherent
    /\ JournalKept
    /\ ExecutionCoherent

\* A job is journalled as running when its handler takes managementMu and finds no
\* outcome.  An outcome goes when the job is refused before it is executed, or once the
\* server has a completion.
JournalStep ==
    \A j \in Jobs :
        /\ \/ journal'[j] = None
           \/ journal'[j] = journal[j]
           \/ journal'[j].status # "running"
           \/ /\ journal[j] = None /\ op = Free
              /\ journal'[j].token \in Tokens /\ <<j, journal'[j].token>> \in waiting
        /\ journal'[j] = None =>
              \/ journal[j] = None
              \/ op.step = "journalled" /\ op.job = j
              \/ completed'[j] # None

\* Every step is such a step.
LEMMA JournalSteps ==
    ASSUME Consistent, Next
    PROVE  JournalStep
<1>1. /\ op \in Operation /\ journal \in [Jobs -> ManagementOutcome \cup {None}]
      /\ sending \in Completion \cup {None} /\ completed \in [Jobs -> Completion \cup {None}]
  BY Zenon DEF Consistent, Typed, TypeOK
<1>2. ASSUME journal' = journal PROVE JournalStep
  BY <1>2, Zenon DEF JournalStep
<1>3. ASSUME NEW j, NEW o, o # None, o.status # "running", JournalSaved(j, o) \/ JournalFaults(j, o)
      PROVE  JournalStep
  <2>1. journal' = journal \/ journal' = [journal EXCEPT ![j] = o]
    BY <1>3, Zenon DEF JournalSaved, JournalFaults
  <2>2. CASE journal' = [journal EXCEPT ![j] = o]
    <3>1. \A k \in Jobs : journal'[k] = IF k = j THEN o ELSE journal[k]
      BY <1>1, <2>2, Zenon
    <3> QED BY <1>3, <3>1, Zenon DEF JournalStep
  <2> QED BY <1>2, <2>1, <2>2, Zenon
<1>4. ASSUME NEW j, journal' = [journal EXCEPT ![j] = None],
             (op.step = "journalled" /\ op.job = j) \/ completed'[j] # None
      PROVE  JournalStep
  <2>1. \A k \in Jobs : journal'[k] = IF k = j THEN None ELSE journal[k]
    BY <1>1, <1>4, Zenon
  <2> QED BY <1>4, <2>1, Zenon DEF JournalStep
<1>5. \A o \in ManagementOutcome : o # None
  BY JournalAssumption, Zenon
<1>6. ASSUME NEW j \in Jobs, NEW t \in Tokens, HandleManagement(j, t) PROVE JournalStep
  <2>1. CASE Begin(j, t)
    <3>1. journal[j] = None /\ op = Free /\ <<j, t>> \in waiting
      BY <1>6, <2>1, Zenon DEF Begin, HandleManagement
    <3>2. PICK o \in ManagementOutcome :
             o.token = t /\ (JournalSaved(j, o) \/ JournalFaults(j, o))
      BY <2>1, <3>1, BeginOutcome, Zenon DEF Consistent
    <3>3. CASE journal' = [journal EXCEPT ![j] = o]
      <4>1. \A k \in Jobs : journal'[k] = IF k = j THEN o ELSE journal[k]
        BY <1>1, <3>3, Zenon
      <4>2. \A k \in Jobs : journal'[k] = None => journal[k] = None
        BY <3>1, <4>1, Zenon
      <4>3. \A k \in Jobs : k = j => journal'[k].token = t
        BY <3>2, <4>1, Zenon
      <4> QED BY <3>1, <4>1, <4>2, <4>3, Zenon DEF JournalStep
    <3> QED BY <1>2, <3>2, <3>3, Zenon DEF JournalSaved, JournalFaults
  <2> QED BY <1>2, <1>6, <2>1, Zenon DEF HandleManagement, Refuse, FindRunning, FindFinished
<1>7. ASSUME SaveReplayed PROVE JournalStep
  <2>1. op.outcome \in ManagementOutcome /\ op.outcome.status # "running"
    BY <1>1, <1>7, OperationTypes, Zenon DEF SaveReplayed, Consistent, OutcomesCoherent
  <2> QED BY <1>3, <1>5, <1>7, <2>1, Zenon DEF SaveReplayed
<1>8. ASSUME SaveRecovered PROVE JournalStep
  <2>1. op.outcome \in ManagementOutcome /\ op.outcome.status # "running"
    BY <1>1, <1>8, OperationTypes, Zenon DEF SaveRecovered, Consistent, OutcomesCoherent
  <2> QED BY <1>3, <1>5, <1>8, <2>1, Zenon DEF SaveRecovered
<1>9. ASSUME Finish PROVE JournalStep
  <2>1. PICK o \in ManagementOutcome :
           o.status # "running" /\ (JournalSaved(op.job, o) \/ JournalFaults(op.job, o))
    BY <1>9, FinishOutcome, Zenon DEF Consistent
  <2> QED BY <1>3, <1>5, <2>1, Zenon
<1>10. ASSUME ExecutionStep PROVE JournalStep
  <2>1. op.step = "acknowledged" => completed'[op.completion.job] # None
    BY <1>10, Zenon DEF Consistent, JournalKept, ExecutionStep, sessionVars
  <2>2. ASSUME Announce \/ RemoveOutcome PROVE JournalStep
    BY <1>2, <1>4, <2>1, <2>2, Zenon DEF Announce, RemoveOutcome
  <2>3. ASSUME \/ Replay \/ ExecutionRefused \/ ExecuteShell \/ PrepareRollback
               \/ (\E slot \in Slot : Stage(slot)) \/ Activate \/ ActivateFails \/ Restore
               \/ CleanupConnectorArtifacts \/ Remove \/ RemoveFiles
        PROVE  JournalStep
    BY <1>2, <2>3, Zenon DEF Replay, ExecutionRefused, ExecuteShell, PrepareRollback, Stage,
       Activate, ActivateFails, Restore, CleanupConnectorArtifacts, Remove, RemoveFiles
  <2> QED BY <1>7, <1>9, <1>10, <2>2, <2>3, ZenonT(60) DEF ExecutionStep
<1>11. ASSUME RecoveryStep PROVE JournalStep
  BY <1>2, <1>8, <1>11, Zenon DEF RecoveryStep, RecoveryBegins, RecoveryEnds, Recover
<1>12. ASSUME FlushEnds PROVE JournalStep
  <2>1. ASSUME ServerCompletes(sending) PROVE completed'[sending.job] # None
    <3>1. sending \in Completion
      BY <1>1, <1>12, Zenon DEF FlushEnds
    <3>2. sending.job \in Jobs
      BY <3>1, Zenon DEF Completion
    <3>3. completed'[sending.job] = sending
      BY <1>1, <2>1, <3>2, Zenon DEF ServerCompletes
    <3> QED BY <1>12, <3>3, Zenon DEF FlushEnds
  <2> QED BY <1>2, <1>4, <1>12, <2>1, Zenon DEF FlushEnds
<1> QED
  BY <1>2, <1>6, <1>10, <1>11, <1>12, ZenonT(60) DEF Next, ServerDelivers, FlushSends, Report,
     DeliverInventory, StartFailure, LocalStep, Restart

\* The server keeps a completion.
LEMMA CompletedStays ==
    ASSUME Typed, Next, NEW j \in Jobs, completed[j] # None
    PROVE  completed'[j] # None
<1>1. /\ completed \in [Jobs -> Completion \cup {None}] /\ op \in Operation
      /\ sending \in Completion \cup {None}
  BY Zenon DEF Typed, TypeOK
<1>2. ASSUME NEW c \in Completion, ServerCompletes(c) PROVE completed'[j] # None
  <2>1. completed'[j] = c \/ completed'[j] = completed[j]
    BY <1>1, <1>2, Zenon DEF ServerCompletes
  <2> QED BY <1>2, <2>1, JournalAssumption, Zenon
<1>3. ASSUME Report PROVE completed'[j] # None
  <2>1. op.completion \in Completion
    BY <1>1, <1>3, OperationTypes, Zenon DEF Report
  <2> QED BY <1>2, <1>3, <2>1, Zenon DEF Report
<1>4. ASSUME FlushEnds PROVE completed'[j] # None
  BY <1>1, <1>2, <1>4, Zenon DEF FlushEnds
<1> QED
  BY <1>3, <1>4, ZenonT(60) DEF Next, ServerDelivers, FlushSends, HandleManagement, ExecutionStep,
     RecoveryStep, DeliverInventory, StartFailure, LocalStep, Restart, sessionVars

\* A handler waits only for a job the server has no completion of.
LEMMA WaitingIsOpen ==
    ASSUME Consistent, NEW j \in Jobs, NEW t \in Tokens, <<j, t>> \in waiting
    PROVE  completed[j] = None
<1>1. t <= attempt[j]
  BY Zenon DEF Consistent, AttemptsInOrder
<1>2. completed[j] # None => completed[j].token = attempt[j] /\ completed[j].token < t
  BY Zenon DEF Consistent, OutcomesCoherent, OutcomeCoherent
<1>3. attempt[j] \in Nat /\ t \in Nat
  BY TokenTypes, Zenon DEF Consistent, Typed, TypeOK
<1> QED BY <1>1, <1>2, <1>3

\* A job that begins has not been applied.
LEMMA BeginsUnapplied ==
    ASSUME Consistent, NEW j \in Jobs, NEW t \in Tokens, <<j, t>> \in waiting, journal[j] = None
    PROVE  applied[j] = 0
<1>1. completed[j] = None
  BY WaitingIsOpen, Zenon
<1>2. ~(applied[j] > 0)
  BY <1>1, Zenon DEF Consistent, JournalKept
<1>3. applied[j] \in Nat
  BY Zenon DEF Consistent, Typed, TypeOK
<1> QED BY <1>2, <1>3

----------------------------------------------------------------------------
(* The artifacts of the children.                                          *)

\* Every child runs an artifact of its directory.
OnDisk == \A id \in Ids : children[id] # None => children[id].artifact \in files[id]

\* What is known of the child of the connector in hand.
ChildInHand ==
    /\ op.step = "activated" => children[Target] = op.record.active
    /\ op.step = "removing" => children[Target] = None

\* A step that changes the child and the directory of one connector, or neither.
LEMMA OneOnDisk ==
    ASSUME TypeOK, OnDisk, NEW id \in Ids, NEW child, NEW dir,
           \/ children' = [children EXCEPT ![id] = child]
           \/ children' = children /\ child = children[id],
           \/ files' = [files EXCEPT ![id] = dir]
           \/ files' = files /\ dir = files[id],
           child # None => child.artifact \in dir
    PROVE  OnDisk'
<1>1. DOMAIN children = Ids /\ DOMAIN files = Ids
  BY Zenon DEF TypeOK
<1>2. children'[id] = child /\ files'[id] = dir
  BY <1>1, Zenon
<1>3. \A k \in Ids : k # id => children'[k] = children[k] /\ files'[k] = files[k]
  BY <1>1, Zenon
<1> QED BY <1>2, <1>3, Zenon DEF OnDisk

\* Start runs an artifact of the directory.
LEMMA StartedOnDisk ==
    ASSUME TypeOK, OnDisk, NEW id \in Ids, NEW record, Start(id, record), files' = files
    PROVE  OnDisk'
BY OneOnDisk, Zenon DEF Start

\* A record names its active slot's artifact.
LEMMA ActiveIsNamed ==
    ASSUME NEW record, record.active # None
    PROVE  record.active.artifact \in Named(record)
BY Zenon DEF Named

\* The operations of handleManagement keep the artifact of every child,
LEMMA ExecutionOnDisk ==
    ASSUME Typed, ChildrenCurrent, OnDisk, ChildInHand, AttemptsInOrder, ExecutionCoherent,
           ExecutionStep
    PROVE  OnDisk'
<1>1. TypeOK /\ op \in Operation /\ \A slot \in Slot : slot # None
  BY StoreAssumption, Zenon DEF Typed, TypeOK
<1>2. ASSUME children' = children, files' = files PROVE OnDisk'
  BY <1>2, Zenon DEF OnDisk
<1>3. ASSUME NEW id \in Ids, Stop(id), files' = files PROVE OnDisk'
  BY <1>1, <1>3, OneOnDisk, Zenon DEF Stop
<1>4. op.step \in {"executing", "staged", "restoring", "activated", "removing"} =>
         /\ Target \in Ids
         /\ Old # None => Old.active \in Slot
         /\ op.record # None => op.record.active \in Slot
  <2>1. op.step \in {"executing", "staged", "restoring", "activated", "removing"} =>
           op.step \in ExecutionSteps
    BY Zenon DEF ExecutionSteps
  <2>2. op.step \in ExecutionSteps => Target \in Ids /\ op.record \in ConnectorRecord \cup {None}
    BY <1>1, JobInHand, OperationTypes, Zenon DEF Typed
  <2>3. \A id \in Ids : mem.connectors[id] \in ConnectorRecord \cup {None}
    BY <1>1, Zenon DEF TypeOK, PersistedState
  <2>4. \A r \in ConnectorRecord : r.active \in Slot
    BY Zenon DEF ConnectorRecord
  <2> QED BY <2>1, <2>2, <2>3, <2>4, Zenon DEF Old
<1>5. ASSUME NEW slot \in Slot, Stage(slot) PROVE OnDisk'
  <2>1. children' = children /\ Target \in Ids
    BY <1>4, <1>5, Zenon DEF Stage
  <2>2. CASE files' = [files EXCEPT ![Target] = @ \cup {slot.artifact}]
    <3>1. children[Target] # None => children[Target].artifact \in files[Target] \cup {slot.artifact}
      BY <2>1, Zenon DEF OnDisk
    <3> QED BY <1>1, <2>1, <2>2, <3>1, OneOnDisk, Zenon
  <2>3. CASE files' = [files EXCEPT ![Target] = CleanedUp(mem, files)[Target]]
    <3>1. ASSUME children[Target] # None
          PROVE  children[Target].artifact \in CleanedUp(mem, files)[Target]
      <4>1. Old # None /\ children[Target] = Old.active /\ Old.active # None
            /\ children[Target].artifact \in files[Target]
        BY <2>1, <3>1, Zenon DEF ChildrenCurrent, OnDisk, Old
      <4>2. CleanedUp(mem, files)[Target] = files[Target] \cap Named(Old)
        BY <2>1, <4>1, Zenon DEF CleanedUp, Old
      <4> QED BY <4>1, <4>2, ActiveIsNamed, Zenon
    <3> QED BY <1>1, <2>1, <2>3, <3>1, OneOnDisk, Zenon
  <2> QED BY <1>5, <2>2, <2>3, Zenon DEF Stage
<1>6. ASSUME Activate PROVE OnDisk'
  <2>1. /\ children' = [children EXCEPT ![Target] = op.record.active] /\ files' = files
        /\ op.record.active.artifact \in files[Target] /\ Target \in Ids
    BY <1>4, <1>6, Zenon DEF Activate, Activatable
  <2> QED BY <1>1, <2>1, OneOnDisk, Zenon
<1>7. ASSUME ActivateFails PROVE OnDisk'
  <2>1. (Stop(Target) \/ children' = children) /\ files' = files /\ Target \in Ids
    BY <1>4, <1>7, Zenon DEF ActivateFails, Activatable
  <2> QED BY <1>2, <1>3, <2>1, Zenon
<1>8. ASSUME Restore PROVE OnDisk'
  <2>1. /\ Target \in Ids /\ files' = [files EXCEPT ![Target] = WithoutCandidate]
        /\ Old # None => Old.active # None
    BY <1>1, <1>4, <1>8, Zenon DEF Restore
  <2>2. CASE Stop(Target)
    BY <1>1, <2>1, <2>2, OneOnDisk, Zenon DEF Stop
  <2>3. CASE /\ Old # None /\ Old.active.artifact \in files[Target]
             /\ children' = [children EXCEPT ![Target] = Old.active]
    <3>1. Old.active.artifact \in WithoutCandidate
      BY <2>1, <2>3, ActiveIsNamed, Zenon DEF WithoutCandidate
    <3> QED BY <1>1, <2>1, <2>3, <3>1, OneOnDisk, ZenonT(60)
  <2> QED BY <1>8, <2>2, <2>3, Zenon DEF Restore, Start, Stop
<1>9. ASSUME CleanupConnectorArtifacts PROVE OnDisk'
  <2>1. /\ Target \in Ids /\ children' = children /\ children[Target] = op.record.active
        /\ files' = [files EXCEPT ![Target] = files[Target] \cap Named(op.record)]
    BY <1>4, <1>9, Zenon DEF CleanupConnectorArtifacts, ChildInHand
  <2>2. children[Target] # None => children[Target].artifact \in files[Target] \cap Named(op.record)
    BY <2>1, ActiveIsNamed, Zenon DEF OnDisk
  <2> QED BY <1>1, <2>1, <2>2, OneOnDisk, Zenon
<1>10. ASSUME Remove PROVE OnDisk'
  <2>1. (Stop(Target) \/ Start(Target, Old)) /\ files' = files /\ Target \in Ids
    BY <1>4, <1>10, Zenon DEF Remove
  <2> QED BY <1>1, <1>3, <2>1, StartedOnDisk, Zenon
<1>11. ASSUME RemoveFiles PROVE OnDisk'
  <2>1. /\ Target \in Ids /\ children' = children /\ children[Target] = None
        /\ files' = [files EXCEPT ![Target] = {}] \/ files' = files
    BY <1>4, <1>11, Zenon DEF RemoveFiles, ChildInHand
  <2> QED BY <1>1, <1>2, <2>1, OneOnDisk, Zenon
<1>12. ASSUME \/ Replay \/ SaveReplayed \/ Announce \/ ExecutionRefused \/ ExecuteShell
              \/ PrepareRollback \/ Finish \/ RemoveOutcome
       PROVE  OnDisk'
  BY <1>2, <1>12, Zenon DEF Replay, SaveReplayed, Announce, ExecutionRefused, ExecuteShell,
     PrepareRollback, Finish, RemoveOutcome, childVars
<1> QED
  BY <1>5, <1>6, <1>7, <1>8, <1>9, <1>10, <1>11, <1>12, ZenonT(60) DEF ExecutionStep

\* recovery does,
LEMMA RecoveryOnDisk ==
    ASSUME Typed, ChildrenCurrent, OnDisk, OutcomesCoherent, RecoveryStep
    PROVE  OnDisk'
<1>1. TypeOK
  BY Zenon DEF Typed
<1>2. ASSUME children' = children, files' = files PROVE OnDisk'
  BY <1>2, Zenon DEF OnDisk
<1>3. ASSUME NEW id \in Ids, Stop(id), files' = files \/ files' = [files EXCEPT ![id] = {}]
      PROVE  OnDisk'
  BY <1>1, <1>3, OneOnDisk, Zenon DEF Stop
<1>4. ASSUME RecoveryEnds PROVE OnDisk'
  <2>1. CASE /\ \A id \in Installed(mem) : mem.connectors[id].active.artifact \in files[id]
             /\ children' = [id \in Ids |-> IF mem.connectors[id] = None THEN None
                                            ELSE mem.connectors[id].active]
    <3>1. \A id \in Ids : mem.connectors[id] # None => id \in Installed(mem)
      BY Zenon DEF Installed
    <3>2. files' = files
      BY <1>4, Zenon DEF RecoveryEnds
    <3> QED BY <2>1, <3>1, <3>2, Zenon DEF OnDisk
  <2> QED BY <1>2, <1>4, <2>1, Zenon DEF RecoveryEnds
<1>5. ASSUME RecoveryBegins \/ SaveRecovered PROVE OnDisk'
  BY <1>2, <1>5, Zenon DEF RecoveryBegins, SaveRecovered, childVars
<1>6. ASSUME NEW j \in Jobs, Recover(j) PROVE OnDisk'
  <2>1. PICK id \in Ids : id = Work[j].id
    BY <1>6, JobRunning, Zenon DEF Recover, Running, Typed
  <2>2. CASE RecoverRestores(j)
    <3>1. files' = files /\ (Stop(id) \/ children' = children \/ Start(id, journal[j].before))
      BY <2>1, <2>2, Zenon DEF RecoverRestores
    <3> QED BY <1>1, <1>2, <1>3, <3>1, StartedOnDisk, ZenonT(60)
  <2>3. CASE RecoverRemovesInstall(j)
    BY <1>3, <2>1, <2>3, Zenon DEF RecoverRemovesInstall
  <2>4. CASE RecoverNothing(j)
    BY <1>2, <2>4, Zenon DEF RecoverNothing, childVars
  <2>5. CASE RecoverRemove(j)
    <3>1. CASE /\ mem.connectors[id] = None /\ children' = children
               /\ files' = [files EXCEPT ![id] = {}]
      <4>1. children[id] = None
        BY <3>1, Zenon DEF ChildrenCurrent
      <4> QED BY <1>1, <3>1, <4>1, OneOnDisk, Zenon
    <3>2. CASE Start(id, mem.connectors[id]) /\ files' = files
      BY <1>1, <3>2, StartedOnDisk, Zenon
    <3> QED BY <1>3, <2>1, <2>5, <3>1, <3>2, ZenonT(60) DEF RecoverRemove
  <2>6. CASE RecoverCommits(j)
    <3>1. /\ mem.connectors[id].active.artifact \in files[id] /\ files' = files
          /\ children' = [children EXCEPT ![id] = mem.connectors[id].active]
      BY <2>1, <2>6, Zenon DEF RecoverCommits
    <3> QED BY <1>1, <3>1, OneOnDisk, Zenon
  <2> QED BY <1>6, <2>2, <2>3, <2>4, <2>5, <2>6, ZenonT(60) DEF Recover
<1> QED BY <1>4, <1>5, <1>6, Zenon DEF RecoveryStep

\* and everything else does.
LEMMA StaysOnDisk ==
    ASSUME Typed, ChildrenCurrent, OnDisk, ChildInHand, AttemptsInOrder, OutcomesCoherent,
           ExecutionCoherent, Next
    PROVE  OnDisk'
<1>1. TypeOK
  BY Zenon DEF Typed
<1>2. ASSUME children' = children, files' = files PROVE OnDisk'
  BY <1>2, Zenon DEF OnDisk
<1>3. ASSUME \/ Report \/ FlushEnds \/ \E j \in Jobs : ServerDelivers(j) \/ FlushSends(j)
             \/ \E j \in Jobs, t \in Tokens : HandleManagement(j, t)
      PROVE  OnDisk'
  BY <1>2, <1>3, Zenon DEF ServerDelivers, FlushSends, HandleManagement, Report, FlushEnds,
     childVars
<1>4. ASSUME NEW id \in Ids, StartFailure(id) \/ DeliverInventory(id) PROVE OnDisk'
  <2>1. files' = files /\ (children' = children \/ \E r : Start(id, r))
    BY <1>4, Zenon DEF StartFailure, DeliverInventory
  <2> QED BY <1>1, <1>2, <1>4, <2>1, StartedOnDisk, ZenonT(60)
<1>5. ASSUME NEW id \in Ids, LocalStep(id) PROVE OnDisk'
  <2>1. CASE LocalRemove(id)
    BY <1>1, <1>5, <2>1, OneOnDisk, Zenon DEF LocalRemove, Stop
  <2>2. ASSUME NEW slot \in Slot, LocalUpdate(id, slot) PROVE OnDisk'
    <3>1. PICK r : r = UpdatedRecord(mem.connectors[id], slot)
      BY Zenon
    <3>2. r.active = slot /\ slot # None
      BY <2>2, <3>1, StoreAssumption, Zenon DEF UpdatedRecord
    <3>3. /\ files' = [files EXCEPT ![id] = (files[id] \cup {slot.artifact}) \cap Named(r)]
          /\ children' = [children EXCEPT ![id] = slot]
      BY <2>2, <3>1, Zenon DEF LocalUpdate
    <3>4. slot.artifact \in (files[id] \cup {slot.artifact}) \cap Named(r)
      BY <3>2, ActiveIsNamed, Zenon
    <3> QED BY <1>1, <1>5, <3>3, <3>4, OneOnDisk, ZenonT(60)
  <2> QED BY <1>5, <2>1, <2>2, Zenon DEF LocalStep
<1>6. ASSUME Restart PROVE OnDisk'
  BY <1>6, Zenon DEF Restart, OnDisk
<1>7. \A id \in scenario.local : id \in Ids
  BY <1>1, ManagementAssumption, Zenon DEF TypeOK, Scenario
<1> QED
  BY <1>3, <1>4, <1>5, <1>6, <1>7, ExecutionOnDisk, RecoveryOnDisk, ZenonT(60) DEF Next

\* An operation is activated with its child running, and removing with none.
LEMMA ChildStaysInHand ==
    ASSUME Typed, ChildInHand, AttemptsInOrder, Next
    PROVE  ChildInHand'
<1>1. TypeOK /\ op \in Operation /\ DOMAIN children = Ids
  BY Zenon DEF Typed, TypeOK
<1>2. ASSUME op'.step \notin {"activated", "removing"} PROVE ChildInHand'
  BY <1>2, Zenon DEF ChildInHand
<1>3. ASSUME op' = op, children' = children PROVE ChildInHand'
  BY <1>3, Zenon DEF ChildInHand, Target, Work, Next
<1>4. ASSUME op' = Free PROVE ChildInHand'
  BY <1>2, <1>4, Zenon DEF Free
<1>5. ASSUME op = Free, op' = op PROVE ChildInHand'
  BY <1>4, <1>5, Zenon
<1>6. ASSUME \E j, t, o : op' = Reporting(j, t, o) PROVE ChildInHand'
  <2>1. \A j, t, o : Reporting(j, t, o).step = "reporting"
    BY Zenon DEF Reporting
  <2> QED BY <1>2, <1>6, <2>1, Zenon
<1>7. ASSUME \E j, t : op' = Replaying(j, t) PROVE ChildInHand'
  <2>1. \A j, t : Replaying(j, t).step = "replaying"
    BY Zenon DEF Replaying
  <2> QED BY <1>2, <1>7, <2>1, Zenon
<1>8. ASSUME NEW j, NEW t, NEW r, \/ op' = Executing(j, t, r, "journalled")
                                  \/ op' = Executing(j, t, r, "staged")
      PROVE  ChildInHand'
  <2>1. op'.step \in {"journalled", "staged"}
    <3>1. Executing(j, t, r, "journalled").step = "journalled"
          /\ Executing(j, t, r, "staged").step = "staged"
      BY Zenon DEF Executing
    <3> QED BY <1>8, <3>1, Zenon
  <2>2. op'.step \notin {"activated", "removing"}
    BY <2>1, Zenon
  <2> QED BY <1>2, <2>2, Zenon
<1>9. ASSUME NEW c, op' = [step |-> "recovering", caller |-> c] PROVE ChildInHand'
  <2>1. op'.step = "recovering"
    BY <1>9, Zenon
  <2> QED BY <1>2, <2>1, Zenon
<1>10. ASSUME op.step \in ExecutionSteps, NEW s, Go(s)
       PROVE  /\ op'.step = s /\ Target' = Target /\ op'.record = op.record
              /\ s \in {"executing", "restoring", "succeeded", "failed"} => ChildInHand'
  <2>1. op'.step = s /\ op'.job = op.job /\ op'.record = op.record
    BY <1>1, <1>10, GoKeeps, Zenon
  <2>2. Target' = Target
    BY <2>1, Zenon DEF Target, Work, Next
  <2>3. s \in {"executing", "restoring", "succeeded", "failed"} =>
           op'.step \notin {"activated", "removing"}
    BY <2>1, Zenon
  <2> QED BY <1>2, <2>1, <2>2, <2>3, Zenon
<1>11. ASSUME ExecutionStep PROVE ChildInHand'
  <2>1. {"journalled", "executing", "staged", "restoring", "activated", "removing"}
           \subseteq ExecutionSteps
    BY Zenon DEF ExecutionSteps
  <2>2. op.step \in ExecutionSteps => Target \in Ids
    BY <1>1, JobInHand, Zenon
  <2>3. CASE Activate
    <3>1. op.step \in ExecutionSteps /\ Go("activated")
          /\ children' = [children EXCEPT ![Target] = op.record.active]
      BY <2>1, <2>3, Zenon DEF Activate, Activatable
    <3>2. children'[Target] = op.record.active
      BY <1>1, <2>2, <3>1, Zenon
    <3>3. op'.step = "activated" /\ Target' = Target /\ op'.record = op.record
      BY <1>10, <3>1, Zenon
    <3> QED BY <3>2, <3>3, Zenon DEF ChildInHand
  <2>4. CASE Remove
    <3>1. op.step \in ExecutionSteps
      BY <2>1, <2>4, Zenon DEF Remove
    <3>2. CASE Go("removing") /\ Stop(Target)
      <4>1. children'[Target] = None
        BY <1>1, <2>2, <3>1, <3>2, Zenon DEF Stop
      <4>2. op'.step = "removing" /\ Target' = Target
        BY <1>10, <3>1, <3>2, Zenon
      <4> QED BY <4>1, <4>2, Zenon DEF ChildInHand
    <3>3. CASE \E s \in {"succeeded", "failed"} : Go(s)
      BY <1>10, <3>1, <3>3, Zenon
    <3> QED BY <2>4, <3>2, <3>3, Zenon DEF Remove
  <2>5. ASSUME Replay \/ SaveReplayed \/ Finish \/ RemoveOutcome PROVE ChildInHand'
    <3>1. ASSUME NEW n, op' = Rebound(n) PROVE ChildInHand'
      <4>1. op'.step = "rebound"
        BY <3>1, Zenon DEF Rebound
      <4> QED BY <1>2, <4>1, Zenon
    <3> QED BY <1>4, <1>6, <2>5, <3>1, ZenonT(60) DEF Replay, SaveReplayed, Finish, RemoveOutcome
  <2>6. ASSUME \/ Announce \/ ExecutionRefused \/ ExecuteShell \/ PrepareRollback
               \/ (\E slot \in Slot : Stage(slot)) \/ ActivateFails \/ Restore
               \/ CleanupConnectorArtifacts \/ RemoveFiles
        PROVE  ChildInHand'
    <3>1. \/ op.step \in ExecutionSteps /\ \E s \in {"executing", "succeeded", "failed",
                                                     "restoring"} : Go(s)
          \/ \E r : op' = Executing(op.job, op.token, r, "staged")
          \/ \E o : op' = Reporting(op.job, op.token, o)
      BY <2>1, <2>6, Zenon DEF Announce, ExecutionRefused, ExecuteShell, PrepareRollback, Stage,
         ActivateFails, Activatable, Restore, CleanupConnectorArtifacts, RemoveFiles
    <3> QED BY <1>6, <1>8, <1>10, <3>1, ZenonT(60)
  <2> QED BY <1>11, <2>3, <2>4, <2>5, <2>6, ZenonT(60) DEF ExecutionStep
<1>12. ASSUME RecoveryStep PROVE ChildInHand'
  <2>1. ASSUME NEW j \in Jobs, NEW status, NEW n, Recovered(j, status, n) PROVE ChildInHand'
    <3>1. PICK o : op' = [step |-> "recovered", caller |-> op.caller, job |-> j, outcome |-> o]
      BY <2>1, Zenon DEF Recovered
    <3>2. op'.step = "recovered"
      BY <3>1, Zenon
    <3> QED BY <1>2, <3>2, Zenon
  <2>2. ASSUME NEW j \in Jobs, Recover(j) PROVE ChildInHand'
    <3>1. RecoveryFails \/ \E status, n : Recovered(j, status, n)
      BY <2>2, Zenon DEF Recover, RecoverRestores, RecoverRemovesInstall, RecoverNothing,
         RecoverRemove, RecoverCommits
    <3> QED BY <1>4, <2>1, <3>1, Zenon DEF RecoveryFails
  <2> QED
    BY <1>4, <1>7, <1>9, <1>12, <2>2, ZenonT(60)
       DEF RecoveryStep, RecoveryBegins, SaveRecovered, RecoveryEnds, RecoveryFails
<1>13. ASSUME Report PROVE ChildInHand'
  <2>1. ASSUME Go("acknowledged") PROVE ChildInHand'
    <3>1. op' = [step |-> "acknowledged", completion |-> op.completion]
      BY <1>1, <1>13, <2>1, OperationTypes, Zenon DEF Report, Go
    <3>2. op'.step = "acknowledged"
      BY <3>1, Zenon
    <3> QED BY <1>2, <3>2, Zenon
  <2> QED BY <1>4, <1>13, <2>1, Zenon DEF Report
<1>14. ASSUME NEW j \in Jobs, NEW t \in Tokens, HandleManagement(j, t) PROVE ChildInHand'
  BY <1>6, <1>7, <1>8, <1>9, <1>14, ZenonT(60)
     DEF HandleManagement, Refuse, FindRunning, FindFinished, Begin
<1>15. ASSUME FlushEnds \/ \E j \in Jobs : ServerDelivers(j) \/ FlushSends(j) PROVE ChildInHand'
  BY <1>3, <1>15, Zenon DEF FlushEnds, ServerDelivers, FlushSends, childVars
<1>16. ASSUME \/ \E id \in Ids : DeliverInventory(id) \/ StartFailure(id)
              \/ \E id \in scenario.local : LocalStep(id)
       PROVE  ChildInHand'
  BY <1>5, <1>16, Zenon DEF DeliverInventory, StartFailure, LocalStep
<1> QED
  BY <1>4, <1>11, <1>12, <1>13, <1>14, <1>15, <1>16, ZenonT(60) DEF Next, Restart

\* Together: no step takes the artifact of a running child away.
LEMMA ChildrenStayOnDisk ==
    ASSUME Typed, ChildrenCurrent, ChildrenOnDisk, AttemptsInOrder, OutcomesCoherent,
           ExecutionCoherent, Next
    PROVE  ChildrenOnDisk'
<1>1. OnDisk /\ ChildInHand
  BY Zenon DEF ChildrenOnDisk, OnDisk, ChildInHand
<1>2. OnDisk' /\ ChildInHand'
  BY <1>1, StaysOnDisk, ChildStaysInHand, Zenon
<1> QED BY <1>2, Zenon DEF ChildrenOnDisk, OnDisk, ChildInHand

----------------------------------------------------------------------------
(* Pending inventory stays bound to the attempt that wrote it.             *)

\* What the lemmas above say of a step.
Stepped ==
    /\ AttemptStep /\ AppliedStep /\ BindingStep /\ JournalStep
    /\ attempt' \in [Jobs -> 0..MaxAttempts]
    /\ mem' \in PersistedState /\ disk' \in PersistedState

\* The attempt of a pending mutation.
LEMMA BindingTypes ==
    ASSUME NEW st \in PersistedState, NEW id \in Ids, NEW j, BoundTo(st, id, j)
    PROVE  /\ st.pending[id].attempt.token \in Tokens
           /\ st.pending[id].attempt.token \in Nat
           /\ st.pending[id].revision \in Nat /\ st.pending[id].revision # 0
<1>1. st.pending[id] \in InventoryMutation /\ st.pending[id].attempt # None
  BY Zenon DEF PersistedState, BoundTo
<1>2. st.pending[id].attempt \in ActiveAttempt
  BY <1>1, Zenon DEF InventoryMutation
<1> QED BY <1>1, <1>2, TokenTypes, RevisionTypes, Zenon DEF ActiveAttempt

\* Bound, of the next state.
BoundNext(st, id, j) ==
    BoundTo(st, id, j) =>
        LET t == st.pending[id].attempt.token
        IN  /\ j \in DOMAIN Work
            /\ Work[j].kind \in Transitions
            /\ Work[j].id = id
            /\ applied'[j] > 0
            /\ t <= attempt'[j]
            /\ \A u \in Tokens :
                  /\ <<j, u>> \in waiting' \/ Answers(op', j, u) => t < u
                  /\ Executes(op', j, u) => t <= u
            /\ journal'[j] # None /\ journal'[j].status = "running" => journal'[j].token = t

\* A mutation that was pending stays bound,
LEMMA KeptStaysBound ==
    ASSUME Consistent, Stepped, NEW st \in {mem', disk'}, NEW id \in Ids, NEW j \in Jobs,
           Kept(st, id)
    PROVE  BoundNext(st, id, j)
<1> SUFFICES ASSUME BoundTo(st, id, j) PROVE BoundNext(st, id, j)
  BY Zenon DEF BoundNext
<1>1. PICK t : t = st.pending[id].attempt.token
  BY Zenon
<1>2. /\ attempt[j] \in Nat /\ attempt'[j] \in Nat /\ t \in Nat
      /\ \A u \in Tokens : u \in Nat
  BY <1>1, BindingTypes, TokenTypes, Zenon DEF Stepped, Consistent, Typed, TypeOK
<1>3. PICK old \in {mem, disk} : old.pending[id] = st.pending[id]
  BY Zenon DEF Kept
<1>4. BoundTo(old, id, j) /\ Bound(old, id, j) /\ old.pending[id].attempt.token = t
  BY <1>1, <1>3, Zenon DEF BoundTo, Consistent, InventoryBound
<1>5. /\ j \in DOMAIN Work
      /\ Work[j].kind \in Transitions
      /\ Work[j].id = id
      /\ applied[j] > 0
      /\ t <= attempt[j]
      /\ \A u \in Tokens :
            /\ <<j, u>> \in waiting \/ Answers(op, j, u) => t < u
            /\ Executes(op, j, u) => t <= u
      /\ Running(j) => journal[j].token = t
  BY <1>4, Zenon DEF Bound
<1>6. applied'[j] > 0
  BY <1>5, AppliedStays, Zenon DEF Consistent, Stepped
<1>7. attempt[j] <= attempt'[j]
  BY Zenon DEF Stepped, AttemptStep
<1>8. t <= attempt'[j]
  BY <1>2, <1>5, <1>7, Transitive, Zenon
<1>9. \A u \in Tokens : (attempt[j] < u => t < u) /\ (t < u => t <= u)
  BY <1>2, <1>5
<1>10. \A u \in Tokens :
          /\ <<j, u>> \in waiting' => <<j, u>> \in waiting \/ attempt[j] < u
          /\ Executes(op', j, u) => Executes(op, j, u) \/ <<j, u>> \in waiting
          /\ Answers(op', j, u) => Answers(op, j, u) \/ <<j, u>> \in waiting
  BY Zenon DEF Stepped, AttemptStep, Admitted
<1>11. \A u \in Tokens :
          /\ <<j, u>> \in waiting' \/ Answers(op', j, u) => t < u
          /\ Executes(op', j, u) => t <= u
  BY <1>5, <1>9, <1>10, Zenon
<1>12. ASSUME journal'[j] # None, journal'[j].status = "running" PROVE journal'[j].token = t
  <2>1. CASE journal'[j] = journal[j]
    BY <1>5, <1>12, <2>1, Zenon DEF Running
  <2>2. CASE journal[j] = None /\ journal'[j].token \in Tokens /\ <<j, journal'[j].token>> \in waiting
    <3>1. applied[j] = 0
      BY <2>2, BeginsUnapplied, Zenon
    <3> QED BY <1>5, <3>1
  <2> QED BY <1>12, <2>1, <2>2, Zenon DEF Stepped, JournalStep
<1> QED BY <1>1, <1>5, <1>6, <1>8, <1>11, <1>12, Zenon DEF BoundNext

\* and one bound by the step is bound to the attempt in hand.
LEMMA FreshIsBound ==
    ASSUME Consistent, Stepped, NEW st \in {mem', disk'}, NEW id \in Ids, NEW j \in Jobs,
           Fresh(st, id)
    PROVE  BoundNext(st, id, j)
<1> SUFFICES ASSUME BoundTo(st, id, j) PROVE BoundNext(st, id, j)
  BY Zenon DEF BoundNext
<1>1. PICK t : t = st.pending[id].attempt.token
  BY Zenon
<1>2. t = op.token /\ j = op.job
  BY <1>1, Zenon DEF Fresh, BoundTo
<1>3. /\ attempt[j] \in Nat /\ attempt'[j] \in Nat /\ t \in Nat
      /\ \A u \in Tokens : u \in Nat
  BY <1>1, BindingTypes, TokenTypes, Zenon DEF Stepped, Consistent, Typed, TypeOK
<1>4. op.step \in ExecutionSteps \/ op.step = "replaying"
  BY Zenon DEF Fresh, ExecutionSteps
<1>5. /\ j \in DOMAIN Work /\ Work[j].kind \in Transitions /\ Work[j].id = id
      /\ applied'[j] > 0
      /\ t <= attempt[j]
      /\ \A u \in Tokens : <<j, u>> \in waiting => t < u
  BY <1>2, <1>4, JobInHand, Zenon DEF Fresh, Consistent, Typed
<1>6. attempt[j] <= attempt'[j]
  BY Zenon DEF Stepped, AttemptStep
<1>7. t <= attempt'[j]
  BY <1>3, <1>5, <1>6, Transitive, Zenon
<1>8. \A u \in Tokens : (attempt[j] < u => t < u) /\ (t < u => t <= u) /\ t <= t
  BY <1>3, <1>5
<1>9. \A u \in Tokens :
         /\ <<j, u>> \in waiting' => <<j, u>> \in waiting \/ attempt[j] < u
         /\ Executes(op', j, u) => Executes(op, j, u) \/ <<j, u>> \in waiting
         /\ ~Answers(op', j, u)
  BY Zenon DEF Stepped, AttemptStep, Admitted, Fresh, Answers
<1>10. \A u \in Tokens : Executes(op, j, u) => u = t
  BY <1>2, Zenon DEF Executes
<1>11. \A u \in Tokens :
          /\ <<j, u>> \in waiting' \/ Answers(op', j, u) => t < u
          /\ Executes(op', j, u) => t <= u
  BY <1>5, <1>8, <1>9, <1>10, Zenon
<1>12. ASSUME journal'[j] # None, journal'[j].status = "running" PROVE journal'[j].token = t
  <2>1. op # Free
    <3>1. Free.step = "free"
      BY Zenon DEF Free
    <3>2. op.step # "free"
      BY Zenon DEF Fresh
    <3> QED BY <3>1, <3>2, Zenon
  <2>2. journal'[j] = journal[j]
    BY <1>12, <2>1, Zenon DEF Stepped, JournalStep
  <2>3. Running(j)
    BY <1>12, <2>2, Zenon DEF Running
  <2>4. op.step \in ExecutionSteps
    BY <1>2, <1>4, <2>3, Zenon DEF Consistent, JournalKept
  <2> QED BY <1>2, <2>2, <2>4, Zenon DEF Consistent, ExecutionCoherent
<1> QED BY <1>1, <1>5, <1>7, <1>11, <1>12, ZenonT(60) DEF BoundNext

\* Every pending mutation of a job is one or the other.
LEMMA BindingsStayBound ==
    ASSUME Consistent, Stepped, NEW st \in {mem', disk'}, NEW id \in Ids, NEW j \in Jobs
    PROVE  BoundNext(st, id, j)
<1>1. BoundTo(st, id, j) => Kept(st, id) \/ Fresh(st, id)
  BY Zenon DEF BoundTo, Stepped, BindingStep
<1>2. CASE ~BoundTo(st, id, j)
  BY <1>2, Zenon DEF BoundNext
<1>3. CASE Kept(st, id)
  BY <1>3, KeptStaysBound, Zenon
<1>4. CASE Fresh(st, id)
  BY <1>4, FreshIsBound, Zenon
<1> QED BY <1>1, <1>2, <1>3, <1>4, Zenon

\* An attempt binds inventory once, also when its write fails and is redone.
LEMMA BoundStaysOnce ==
    ASSUME Consistent, Stepped, NEW id \in Ids, NEW j \in Jobs,
           BoundTo(mem', id, j), BoundTo(disk', id, j),
           mem'.pending[id].attempt.token = disk'.pending[id].attempt.token
    PROVE  mem'.pending[id].revision = disk'.pending[id].revision
<1>1. BoundOnce(id, j) /\ Bound(mem, id, j) /\ Bound(disk, id, j)
  BY Zenon DEF Consistent, InventoryBound
<1>2. (Kept(mem', id) \/ Fresh(mem', id)) /\ (Kept(disk', id) \/ Fresh(disk', id))
  BY Zenon DEF BoundTo, Stepped, BindingStep
<1>3. CASE Kept(mem', id) /\ Kept(disk', id)
  BY <1>1, <1>3, Zenon DEF Kept, BoundOnce, BoundTo
<1>4. CASE Fresh(mem', id) /\ Fresh(disk', id)
  BY <1>4, Zenon DEF Fresh
<1>5. ASSUME NEW old \in {mem, disk}, NEW st \in {mem', disk'}, Fresh(st, id), BoundTo(st, id, j),
             BoundTo(old, id, j), old.pending[id].attempt.token = st.pending[id].attempt.token
      PROVE  FALSE
  <2>1. j = op.job /\ st.pending[id].attempt.token = op.token
    BY <1>5, Zenon DEF Fresh, BoundTo
  <2>2. Bound(old, id, j)
    BY <1>1, <1>5, Zenon
  <2>3. CASE op.step = "staged"
    <3>1. applied[j] = 0
      BY <2>1, <2>3, Zenon DEF Consistent, ExecutionCoherent, ExecutionSteps
    <3>2. applied[j] > 0
      BY <1>5, <2>2, Zenon DEF Bound
    <3> QED BY <3>1, <3>2
  <2>4. CASE op.step = "replaying"
    <3>1. op.token \in Tokens /\ op.token \in Nat
      BY <2>4, JobInHand, TokenTypes, Zenon DEF Consistent, Typed
    <3>2. Answers(op, j, op.token)
      BY <2>1, <2>4, Zenon DEF Answers
    <3>3. op.token < op.token
      BY <1>5, <2>1, <2>2, <3>1, <3>2, ZenonT(60) DEF Bound
    <3> QED BY <3>1, <3>3
  <2> QED BY <1>5, <2>3, <2>4, Zenon DEF Fresh
<1>6. CASE Kept(mem', id) /\ Fresh(disk', id)
  <2>1. PICK old \in {mem, disk} : old.pending[id] = mem'.pending[id]
    BY <1>6, Zenon DEF Kept
  <2>2. BoundTo(old, id, j) /\ old.pending[id].attempt.token = disk'.pending[id].attempt.token
    BY <2>1, Zenon DEF BoundTo
  <2> QED BY <1>5, <1>6, <2>2, Zenon
<1>7. CASE Fresh(mem', id) /\ Kept(disk', id)
  <2>1. PICK old \in {mem, disk} : old.pending[id] = disk'.pending[id]
    BY <1>7, Zenon DEF Kept
  <2>2. BoundTo(old, id, j) /\ old.pending[id].attempt.token = mem'.pending[id].attempt.token
    BY <2>1, Zenon DEF BoundTo
  <2> QED BY <1>5, <1>7, <2>2, Zenon
<1> QED BY <1>2, <1>3, <1>4, <1>6, <1>7, Zenon

\* So InventoryBound is preserved.
LEMMA InventoryStaysBound ==
    ASSUME Consistent, Stepped, scenario' = scenario
    PROVE  InventoryBound'
<1>1. ASSUME NEW id \in Ids, NEW j \in Jobs PROVE Bound(mem, id, j)'
  <2>1. BoundNext(mem', id, j)
    BY BindingsStayBound, Zenon
  <2> QED BY <2>1, Zenon DEF BoundNext, Bound, BoundTo, Work, Running, Executes, Answers
<1>2. ASSUME NEW id \in Ids, NEW j \in Jobs PROVE Bound(disk, id, j)'
  <2>1. BoundNext(disk', id, j)
    BY BindingsStayBound, Zenon
  <2> QED BY <2>1, Zenon DEF BoundNext, Bound, BoundTo, Work, Running, Executes, Answers
<1>3. ASSUME NEW id \in Ids, NEW j \in Jobs PROVE BoundOnce(id, j)'
  BY BoundStaysOnce, Zenon DEF BoundOnce, BoundTo
<1> QED BY <1>1, <1>2, <1>3, Zenon DEF InventoryBound

----------------------------------------------------------------------------
(* The job in execution.                                                   *)

\* What ExecutionCoherent asks of an operation that moves on under its attempt.
MovesOn ==
    /\ op.step \in ExecutionSteps
    /\ op'.job = op.job /\ op'.token = op.token
    /\ journal' = journal
    /\ op'.step \in {"journalled", "executing", "staged"} => applied'[op.job] = 0
    /\ op'.step \in {"staged", "restoring", "activated"} =>
          op'.record # None /\ Kind \in {"install", "update", "rollback"}
    /\ op'.step = "removing" => Kind = "remove"
    /\ op'.step \in {"activated", "succeeded"} /\ Kind \in Transitions \cup {"shell"} =>
          applied'[op.job] > 0
    /\ op'.step \in {"activated", "succeeded"} /\ Kind \in Transitions =>
          /\ BoundTo(mem', Target, op.job)
          /\ mem'.pending[Target].attempt.token = op.token
          /\ disk' = mem'

\* That is enough.
LEMMA MovedOn ==
    ASSUME ExecutionCoherent, scenario' = scenario, MovesOn
    PROVE  ExecutionCoherent'
<1>1. Running(op.job) /\ journal[op.job].token = op.token
  BY Zenon DEF ExecutionCoherent, MovesOn
<1>2. Kind' = Kind /\ Target' = Target
  BY Zenon DEF MovesOn, Kind, Target, Work
<1>3. Running(op.job)' /\ (journal[op.job].token = op.token)'
  BY <1>1, Zenon DEF MovesOn, Running
<1>4. BoundTo(mem', Target, op.job) =>  BoundTo(mem, Target, op.job)'
  BY <1>2, Zenon DEF MovesOn, BoundTo
<1> QED BY <1>2, <1>3, <1>4, Zenon DEF ExecutionCoherent, MovesOn

\* An activation that was saved has its inventory, in memory and on disk.
LEMMA ActivatedIsBound ==
    ASSUME Typed, AttemptsInOrder, ExecutionCoherent, Activate, Kind \in Transitions
    PROVE  /\ BoundTo(mem', Target, op.job)
           /\ mem'.pending[Target].attempt.token = op.token
           /\ disk' = mem'
<1>1. Target \in Ids /\ op.job \in Jobs /\ op.token \in Tokens
  BY JobInHand, Zenon DEF Activate, Activatable, ExecutionSteps, Typed
<1>2. PICK a, m : /\ a = [job |-> op.job, token |-> op.token]
                  /\ m = InventoryUpsertMutation(InventoryRecord(mem, Target, op.record, a),
                                                 mem.revision + 1, a)
  BY Zenon
<1>3. m.attempt = a /\ a.job = op.job /\ a.token = op.token
  BY <1>2, Zenon DEF InventoryUpsertMutation
<1>4. Candidate = PutInventoryConnector(mem, Target, op.record, a)
  BY <1>2, Zenon DEF Candidate, Transitions
<1>5. Candidate.pending = [mem.pending EXCEPT ![Target] = m]
  BY <1>2, <1>4, Zenon DEF PutInventoryConnector
<1>6. mem.pending \in [Ids -> InventoryMutation \cup {None}]
  BY Zenon DEF Typed, TypeOK, PersistedState
<1>7. Candidate.pending[Target] = m
  BY <1>1, <1>5, <1>6, Zenon
<1>8. mem' = Candidate /\ disk' = Candidate
  BY Zenon DEF Activate, Saved
<1>9. mem'.pending[Target] = m
  BY <1>7, <1>8, Zenon
<1>10. a \in ActiveAttempt
  BY <1>1, <1>2, Zenon DEF ActiveAttempt
<1>11. a # None
  BY <1>10, StoreAssumption, Zenon
<1>12. m # None
  <2>1. m.kind = "upsert"
    BY <1>2, Zenon DEF InventoryUpsertMutation
  <2>2. op.record \in ConnectorRecord /\ CanRevise(mem) /\ mem \in PersistedState
    BY OperationTypes, Zenon
       DEF Activate, Activatable, ExecutionSteps, ExecutionCoherent, Typed, TypeOK
  <2>3. m \in InventoryMutation
    BY <1>1, <1>2, <1>10, <2>2, PutInventoryType, Zenon
  <2> QED BY <2>3, StoreAssumption, Zenon
<1> QED BY <1>3, <1>8, <1>9, <1>11, <1>12, ZenonT(60) DEF BoundTo

\* The operations keep ExecutionCoherent,
LEMMA ExecutionMovesOn ==
    ASSUME Consistent, Stepped, ExecutionStep, op'.step \in ExecutionSteps
    PROVE  MovesOn
<1>1. /\ op \in Operation /\ applied \in [Jobs -> Nat] /\ ExecutionCoherent
  BY Zenon DEF Consistent, Typed, TypeOK
<1>2. op.step \in ExecutionSteps /\ op'.job = op.job /\ op'.token = op.token
  <2>1. ~Answered(op')
    BY Zenon DEF Answered, ExecutionSteps
  <2> QED BY <1>1, <2>1, ExecutionMoves, Zenon DEF OperationMoves
<1>3. /\ op.step \in {"journalled", "executing", "staged"} => applied[op.job] = 0
      /\ op.step \in {"staged", "restoring", "activated"} =>
            op.record # None /\ Kind \in {"install", "update", "rollback"}
      /\ op.step = "removing" => Kind = "remove"
      /\ op.step \in {"activated", "succeeded"} /\ Kind \in Transitions \cup {"shell"} =>
            applied[op.job] > 0
      /\ op.step \in {"activated", "succeeded"} /\ Kind \in Transitions =>
            /\ BoundTo(mem, Target, op.job)
            /\ mem.pending[Target].attempt.token = op.token
            /\ disk = mem
  BY <1>1, <1>2, Zenon DEF ExecutionCoherent
<1>4. ASSUME NEW s, Go(s) PROVE op'.step = s /\ op'.record = op.record
  BY <1>1, <1>2, <1>4, GoKeeps, Zenon
<1>5. ASSUME Go("failed"), journal' = journal PROVE MovesOn
  <2>1. op'.step = "failed"
    BY <1>4, <1>5, Zenon
  <2> QED BY <1>2, <1>5, <2>1, Zenon DEF MovesOn
<1>6. ASSUME Announce PROVE MovesOn
  <2>1. CASE Go("executing") /\ journal' = journal
    <3>1. op'.step = "executing" /\ applied'[op.job] = 0
      BY <1>3, <1>4, <1>6, <2>1, Zenon DEF Announce
    <3> QED BY <1>2, <2>1, <3>1, Zenon DEF MovesOn
  <2>2. CASE op' = Reporting(op.job, op.token, Failure(op.token, None))
    BY <2>2, Zenon DEF Reporting, ExecutionSteps
  <2> QED BY <1>6, <2>1, <2>2, Zenon DEF Announce
<1>7. ASSUME Apply PROVE applied'[op.job] > 0
  <2>1. applied'[op.job] = applied[op.job] + 1 /\ applied[op.job] \in Nat
    BY <1>1, <1>2, <1>7, OperationTypes, Zenon DEF Apply
  <2> QED BY <2>1
<1>8. ASSUME ExecuteShell, ~Go("failed") PROVE MovesOn
  <2>1. op'.step = "succeeded" /\ Kind = "shell" /\ Kind \notin Transitions /\ applied'[op.job] > 0
        /\ journal' = journal
    BY <1>4, <1>7, <1>8, Zenon DEF ExecuteShell, Transitions
  <2> QED BY <1>2, <2>1, Zenon DEF MovesOn
<1>9. ASSUME NEW r \in ConnectorRecord, op' = Executing(op.job, op.token, r, "staged"),
             op.step = "executing", Kind \in {"install", "update", "rollback"},
             UNCHANGED <<journal, applied>>
      PROVE  MovesOn
  <2>1. op'.step = "staged" /\ op'.record # None
    BY <1>9, StoreAssumption, Zenon DEF Executing
  <2> QED BY <1>2, <1>3, <1>9, <2>1, Zenon DEF MovesOn
<1>10. Target \in Ids /\ (Old # None => Old \in ConnectorRecord)
  BY <1>2, JobInHand, Zenon DEF Consistent, Typed, TypeOK, Old, PersistedState
<1>11. ASSUME NEW slot \in Slot, Stage(slot), ~Go("failed") PROVE MovesOn
  <2>1. FirstRecord(slot) \in ConnectorRecord
    BY Zenon DEF FirstRecord, ConnectorRecord
  <2>2. (IF Old = None THEN FirstRecord(slot) ELSE UpdatedRecord(Old, slot)) \in ConnectorRecord
    BY <1>10, <2>1, LifecycleRecords, Zenon
  <2> QED BY <1>9, <1>11, <2>2, Zenon DEF Stage
<1>12. ASSUME PrepareRollback PROVE MovesOn
  <2>1. Old \in ConnectorRecord /\ Old.previous # None
    BY <1>10, <1>12, Zenon DEF PrepareRollback
  <2>2. Old.active \in Slot
    BY <2>1, Zenon DEF ConnectorRecord
  <2>3. RolledBackRecord(Old) \in ConnectorRecord
    BY <2>1, <2>2, LifecycleRecords, Zenon
  <2> QED BY <1>9, <1>12, <2>3, Zenon DEF PrepareRollback
<1>13. ASSUME Activate PROVE MovesOn
  <2>1. op'.step = "activated" /\ op'.record # None /\ Kind \in {"install", "update", "rollback"}
        /\ journal' = journal /\ applied'[op.job] > 0
    BY <1>3, <1>4, <1>7, <1>13, Zenon DEF Activate, Activatable
  <2>2. Kind \in Transitions =>
           /\ BoundTo(mem', Target, op.job)
           /\ mem'.pending[Target].attempt.token = op.token
           /\ disk' = mem'
    BY <1>13, ActivatedIsBound, Zenon DEF Consistent
  <2> QED BY <1>2, <2>1, <2>2, Zenon DEF MovesOn
<1>14. ASSUME ActivateFails PROVE MovesOn
  <2>1. op'.step = "restoring" /\ op'.record # None /\ Kind \in {"install", "update", "rollback"}
        /\ journal' = journal
    BY <1>3, <1>4, <1>14, Zenon DEF ActivateFails, Activatable
  <2> QED BY <1>2, <2>1, Zenon DEF MovesOn
<1>15. ASSUME CleanupConnectorArtifacts PROVE MovesOn
  <2>1. /\ op'.step = "succeeded" /\ op.step = "activated" /\ journal' = journal
        /\ mem' = mem /\ disk' = disk /\ applied' = applied
    BY <1>4, <1>15, Zenon DEF CleanupConnectorArtifacts, storeVars
  <2> QED BY <1>2, <1>3, <2>1, Zenon DEF MovesOn
<1>16. ASSUME Remove \/ RemoveFiles, ~Go("failed") PROVE MovesOn
  <2>1. Kind = "remove" /\ op'.step \in {"removing", "succeeded"} /\ journal' = journal
    BY <1>3, <1>4, <1>16, Zenon DEF Remove, RemoveFiles
  <2>2. Kind \notin Transitions \cup {"shell"}
    BY <2>1, Zenon DEF Transitions
  <2> QED BY <1>2, <2>1, <2>2, Zenon DEF MovesOn
<1>17. ASSUME \/ ExecutionRefused \/ Restore
              \/ /\ ExecuteShell \/ (\E slot \in Slot : Stage(slot)) \/ Remove \/ RemoveFiles
                 /\ Go("failed")
       PROVE  MovesOn
  BY <1>5, <1>17, Zenon DEF ExecutionRefused, Restore, ExecuteShell, Stage, Remove, RemoveFiles
<1>18. ASSUME Replay \/ SaveReplayed \/ Finish \/ RemoveOutcome PROVE FALSE
  <2>1. op.step \in {"succeeded", "failed"}
    BY <1>2, <1>18, Zenon DEF Replay, SaveReplayed, Finish, RemoveOutcome, ExecutionSteps
  <2>2. Finish
    BY <1>18, <2>1, Zenon DEF Replay, SaveReplayed, Finish, RemoveOutcome
  <2>3. op' = Free \/ \E o : op' = Reporting(op.job, op.token, o)
    BY <2>2, Zenon DEF Finish
  <2>4. op'.step \in {"free", "reporting"}
    <3>1. Free.step = "free" /\ \A j, t, o : Reporting(j, t, o).step = "reporting"
      BY Zenon DEF Free, Reporting
    <3> QED BY <2>3, <3>1, ZenonT(60)
  <2> QED BY <2>4, Zenon DEF ExecutionSteps
<1> QED
  BY <1>6, <1>8, <1>11, <1>12, <1>13, <1>14, <1>15, <1>16, <1>17, <1>18, ZenonT(60) DEF ExecutionStep

\* and so does every step.
LEMMA ExecutionStaysCoherent ==
    ASSUME Consistent, Stepped, Next
    PROVE  ExecutionCoherent'
<1>1. /\ op \in Operation /\ ExecutionCoherent /\ scenario' = scenario
      /\ journal \in [Jobs -> ManagementOutcome \cup {None}]
      /\ applied \in [Jobs -> Nat] /\ sending \in Completion \cup {None}
  BY Zenon DEF Consistent, Typed, TypeOK, Next
<1>2. ASSUME op'.step \notin ExecutionSteps PROVE ExecutionCoherent'
  BY <1>2, Zenon DEF ExecutionCoherent
<1>3. ASSUME op.step \in ExecutionSteps, UNCHANGED <<mem, disk, op, applied>>,
             journal'[op.job] = journal[op.job]
      PROVE  ExecutionCoherent'
  <2>1. Kind' = Kind /\ Target' = Target
    BY <1>1, <1>3, Zenon DEF Kind, Target, Work
  <2> QED BY <1>1, <1>3, <2>1, Zenon DEF ExecutionCoherent, Running, BoundTo
<1>4. ASSUME ExecutionStep PROVE ExecutionCoherent'
  BY <1>1, <1>2, <1>4, ExecutionMovesOn, MovedOn, Zenon
<1>5. ASSUME NEW j \in Jobs, NEW t \in Tokens, HandleManagement(j, t) PROVE ExecutionCoherent'
  <2>1. CASE Refuse(j, t)
    <3>1. op'.step = "reporting"
      BY <2>1, Zenon DEF Refuse, Reporting
    <3> QED BY <1>2, <3>1, Zenon DEF ExecutionSteps
  <2>2. CASE FindRunning(j, t)
    <3>1. op'.step = "recovering"
      BY <2>2, Zenon DEF FindRunning
    <3> QED BY <1>2, <3>1, Zenon DEF ExecutionSteps
  <2>3. CASE FindFinished(j, t)
    <3>1. op'.step = "replaying"
      BY <2>3, Zenon DEF FindFinished, Replaying
    <3> QED BY <1>2, <3>1, Zenon DEF ExecutionSteps
  <2>4. CASE Begin(j, t)
    <3>1. journal[j] = None /\ <<j, t>> \in waiting /\ applied' = applied
      BY <1>5, <2>4, Zenon DEF HandleManagement, Begin
    <3>2. PICK o \in ManagementOutcome :
             /\ o.token = t /\ o.status = "running"
             /\ \/ JournalSaved(j, o) /\ op' = Executing(j, t, None, "journalled")
                \/ op' = Reporting(j, t, Failure(t, None))
      BY <2>4, <3>1, BeginOutcome, Zenon DEF Consistent
    <3>3. CASE op' = Reporting(j, t, Failure(t, None))
      <4>1. op'.step = "reporting"
        BY <3>3, Zenon DEF Reporting
      <4> QED BY <1>2, <4>1, Zenon DEF ExecutionSteps
    <3>4. CASE JournalSaved(j, o) /\ op' = Executing(j, t, None, "journalled")
      <4>1. op'.step = "journalled" /\ op'.job = j /\ op'.token = t
        BY <3>4, Zenon DEF Executing
      <4>2. journal'[j] = o /\ o # None
        BY <1>1, <3>4, JournalAssumption, Zenon DEF JournalSaved
      <4>3. applied'[j] = 0
        BY <3>1, BeginsUnapplied, Zenon
      <4> QED BY <3>2, <4>1, <4>2, <4>3, ZenonT(60) DEF ExecutionCoherent, Running
    <3> QED BY <3>2, <3>3, <3>4, Zenon
  <2> QED BY <1>5, <2>1, <2>2, <2>3, <2>4, Zenon DEF HandleManagement
<1>6. ASSUME FlushEnds PROVE ExecutionCoherent'
  <2>1. CASE op.step \in ExecutionSteps
    <3>1. sending # None /\ Running(op.job) /\ op.job \in Jobs
      BY <1>1, <1>6, <2>1, OperationTypes, ZenonT(60) DEF FlushEnds, ExecutionCoherent
    <3>2. sending.job # op.job
      BY <3>1, Zenon DEF Consistent, JournalKept
    <3>3. journal'[op.job] = journal[op.job]
      BY <1>1, <1>6, <3>1, <3>2, Zenon DEF FlushEnds
    <3> QED BY <1>3, <1>6, <2>1, <3>3, Zenon DEF FlushEnds, storeVars
  <2> QED BY <1>2, <1>6, <2>1, Zenon DEF FlushEnds
<1>7. ASSUME NEW j \in Jobs, ServerDelivers(j) \/ FlushSends(j) PROVE ExecutionCoherent'
  BY <1>2, <1>3, <1>7, Zenon DEF ServerDelivers, FlushSends, storeVars
<1>8. ASSUME Report \/ RecoveryStep \/ Restart PROVE ExecutionCoherent'
  <2>1. ASSUME op'.step \in ExecutionSteps PROVE FALSE
    <3>1. op'.job \in Jobs /\ op'.token \in Tokens
      <4>1. HolderTyped'
        BY HolderStaysTyped, Zenon DEF Consistent
      <4> QED BY <2>1, <4>1, OperationTypes, Zenon DEF HolderTyped
    <3>2. Executes(op', op'.job, op'.token)
      BY <2>1, Zenon DEF Executes
    <3>3. Executes(op, op'.job, op'.token)
      BY <1>1, <1>8, <3>1, <3>2, HandlersKept, ZenonT(60) DEF HandlerKept
    <3>4. op.step \in ExecutionSteps
      BY <3>3, Zenon DEF Executes
    <3>5. Free.step \notin ExecutionSteps
      BY Zenon DEF Free, ExecutionSteps
    <3>6. Restart
      BY <1>8, <3>4, <3>5, Zenon DEF ExecutionSteps, Report, RecoveryStep, RecoveryBegins,
         SaveRecovered, RecoveryEnds, Recover
    <3> QED BY <2>1, <3>5, <3>6, Zenon DEF Restart
  <2> QED BY <1>2, <2>1, Zenon
<1>9. ASSUME NEW id, DeliverInventory(id) \/ StartFailure(id) \/ LocalStep(id)
      PROVE  ExecutionCoherent'
  <2>1. op' = Free
    BY <1>9, Zenon DEF DeliverInventory, StartFailure, LocalStep
  <2>2. Free.step \notin ExecutionSteps
    BY Zenon DEF Free, ExecutionSteps
  <2> QED BY <1>2, <2>1, <2>2, Zenon
<1> QED BY <1>4, <1>5, <1>6, <1>7, <1>8, <1>9, Zenon DEF Next

\* handleManagement's branch for a transition without a revision is never taken.
LEMMA InventoryIsThere ==
    ASSUME Typed, AttemptsInOrder, ExecutionCoherent
    PROVE  TransitionHasInventory
<1> SUFFICES ASSUME op.step = "succeeded", Kind \in Transitions
             PROVE  RemoteInventoryRevision(Target, op.job) # 0
  BY Zenon DEF TransitionHasInventory
<1>1. op.step \in ExecutionSteps
  BY Zenon DEF ExecutionSteps
<1>2. BoundTo(mem, Target, op.job) /\ Target \in Ids /\ mem \in PersistedState
  BY <1>1, JobInHand, Zenon DEF ExecutionCoherent, Typed, TypeOK
<1>3. mem.pending[Target].revision # 0
  BY <1>2, BindingTypes, Zenon
<1> QED BY <1>2, <1>3, Zenon DEF RemoteInventoryRevision, BoundTo

\* A job is executed once.
LEMMA AppliedStaysOnce ==
    ASSUME Consistent, Stepped, AppliedOnce, Next
    PROVE  AppliedOnce'
<1>1. scenario' = scenario /\ DOMAIN Work \subseteq Jobs
  BY WorkTypes, Zenon DEF Consistent, Typed, TypeOK, Next
<1>2. ASSUME NEW j \in DOMAIN Work, Work[j].kind # "remove" PROVE applied'[j] <= 1
  <2>1. j \in Jobs
    BY <1>1, Zenon
  <2>2. CASE applied'[j] = applied[j]
    BY <1>2, <2>2, Zenon DEF AppliedOnce
  <2>3. CASE applied'[j] = applied[j] + 1 /\ op.step \in {"executing", "staged"} /\ op.job = j
    <3>1. applied[j] = 0
      BY <2>3, Zenon DEF Consistent, ExecutionCoherent, ExecutionSteps
    <3> QED BY <2>3, <3>1
  <2> QED BY <1>2, <2>1, <2>2, <2>3, Zenon DEF Stepped, AppliedStep
<1> QED BY <1>1, <1>2, Zenon DEF AppliedOnce, Work
============================================================================
