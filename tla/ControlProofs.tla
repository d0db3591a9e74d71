--------------------------- MODULE ControlProofs ---------------------------
(* The safety properties of Control, for every set of commands.            *)
EXTENDS Control, TLAPS

\* The service manager's wish and the credentials signal are Booleans.
LEMMA FlagsStep ==
    ASSUME FlagsOK, Next
    PROVE  FlagsOK'
<1>1. CASE HostStep
  BY <1>1, Zenon DEF FlagsOK, HostStep, hostVars, HostOpens, HostListens, HostCannotListen,
     ReadsCredentials, Blocks, Wakes, HostStops, HostExits, HostKilled, ServiceStarted,
     ServiceStopped, ProcessEnds
<1>2. ASSUME NEW c \in Commands, CommandStep(c)
      PROVE  FlagsOK'
  BY <1>2, Zenon DEF FlagsOK, CommandStep, hostVars, AsksStatus, OpensToCheck,
     ChecksUnenrolled, StartsService, SeesReady, NotReady, EnrollOpens, Resolves, CallFails,
     CallReturns, EnrollReturns, Answered, OpensDirectly, FindsLocked, RunsDirectly,
     SendsUpload, Closes
<1>3. ASSUME NEW c \in Commands, NEW k \in Kinds[c], Begin(c, k)
      PROVE  FlagsOK'
  BY <1>3, Zenon DEF FlagsOK, hostVars, Begin
<1>4. ASSUME NEW c \in Commands, Interrupted(c) \/ Accepts(c) \/ HandlerStep(c)
                                 \/ ExchangeStep(c) \/ AirlockApproves(c)
      PROVE  FlagsOK'
  BY <1>4, Zenon DEF FlagsOK, hostVars, Interrupted, Accepts, HandlerStep, ExchangeStep, Handles, HandlesUpload,
     LocalEnroll, AsksForCode, EnrollmentFails, EnrollmentApproved, EnrollmentHalfSaved,
     AirlockApproves, Signalled
<1> QED BY <1>1, <1>2, <1>3, <1>4, Zenon DEF Next

\* No exchange runs while nobody holds the lock: an exchange is the host's or a
\* command's that opened the store.
LEMMA NoExchange ==
    ASSUME ControlInvariant, lock = None
    PROVE  \A d \in Commands : stage[d] = "none"
BY CommandAssumption DEF ControlInvariant, TypeOK, LockHeld, CallCoherent, EnrollmentCoherent

\* The host opens the store nobody holds.
LEMMA OpensKeeps ==
    ASSUME ControlInvariant, FlagsOK',
           HostOpens
    PROVE  ControlInvariant'
<1>1. TypeOK'
  BY Zenon DEF ControlInvariant, TypeOK, HostOpens, CreatedBy, hostVars, fileVars, cmdVars,
     callVars
<1>2. LockHeld'
  BY CommandAssumption, Zenon
  DEF ControlInvariant, TypeOK, LockHeld, HostOpens, CreatedBy, hostVars, fileVars,
      cmdVars, callVars
<1>3. HostCoherent'
  BY CommandAssumption, Zenon
  DEF ControlInvariant, TypeOK, LockHeld, HostCoherent, ServerIsNamed, SignalNotLost,
      HostOpens, CreatedBy, hostVars, fileVars, cmdVars, callVars
<1>4. (\A e \in Commands : CallCoherent(e))'
  BY CommandAssumption
  DEF ControlInvariant, TypeOK, LockHeld, CallCoherent, HostOpens, CreatedBy,
      hostVars, fileVars, cmdVars, callVars
<1>5. EnrollmentCoherent'
  BY NoExchange, CommandAssumption, Zenon
  DEF ControlInvariant, TypeOK, LockHeld, HostCoherent, CallCoherent,
      EnrollmentCoherent, HostOpens, CreatedBy, hostVars, fileVars, cmdVars, callVars
<1> QED BY <1>1, <1>2, <1>3, <1>4, <1>5, Zenon DEF ControlInvariant

\* The host publishes its descriptor.
LEMMA ListensKeeps ==
    ASSUME ControlInvariant, FlagsOK',
           HostListens
    PROVE  ControlInvariant'
<1>1. TypeOK'
  BY Zenon DEF ControlInvariant, TypeOK, HostListens, hostVars, fileVars, cmdVars, callVars
<1>2. LockHeld'
  BY CommandAssumption, Zenon
  DEF ControlInvariant, TypeOK, LockHeld, HostListens, hostVars, fileVars, cmdVars,
      callVars
<1>3. HostCoherent'
  BY CommandAssumption, Zenon
  DEF ControlInvariant, TypeOK, LockHeld, HostCoherent, ServerIsNamed, SignalNotLost,
      HostListens, hostVars, fileVars, cmdVars, callVars
<1>4. (\A e \in Commands : CallCoherent(e))'
  BY CommandAssumption
  DEF ControlInvariant, TypeOK, LockHeld, CallCoherent, HostListens, hostVars,
      fileVars, cmdVars, callVars
<1>5. EnrollmentCoherent'
  BY CommandAssumption
  DEF ControlInvariant, TypeOK, LockHeld, HostCoherent, CallCoherent,
      EnrollmentCoherent, HostListens, hostVars, fileVars, cmdVars, callVars
<1> QED BY <1>1, <1>2, <1>3, <1>4, <1>5 DEF ControlInvariant

\* The host takes its descriptor away.
LEMMA StopsKeeps ==
    ASSUME ControlInvariant, FlagsOK',
           HostStops
    PROVE  ControlInvariant'
<1>1. TypeOK'
  BY Zenon DEF ControlInvariant, TypeOK, HostStops, CleanedDescriptor, hostVars, fileVars,
     cmdVars, callVars
<1>2. LockHeld'
  BY CommandAssumption, Zenon
  DEF ControlInvariant, TypeOK, LockHeld, HostStops, CleanedDescriptor, hostVars,
      fileVars, cmdVars, callVars
<1>3. HostCoherent'
  BY CommandAssumption, Zenon
  DEF ControlInvariant, TypeOK, LockHeld, HostCoherent, ServerIsNamed, SignalNotLost,
      HostStops, CleanedDescriptor, hostVars, fileVars, cmdVars, callVars
<1>4. (\A e \in Commands : CallCoherent(e))'
  BY CommandAssumption
  DEF ControlInvariant, TypeOK, LockHeld, CallCoherent, HostStops, CleanedDescriptor,
      hostVars, fileVars, cmdVars, callVars
<1>5. EnrollmentCoherent'
  BY CommandAssumption
  DEF ControlInvariant, TypeOK, LockHeld, HostCoherent, CallCoherent,
      EnrollmentCoherent, HostStops, CleanedDescriptor, hostVars, fileVars, cmdVars,
      callVars
<1> QED BY <1>1, <1>2, <1>3, <1>4, <1>5 DEF ControlInvariant

\* The host's process ends: its lock, memory and handlers go together.
LEMMA EndsKeeps ==
    ASSUME ControlInvariant, FlagsOK',
           HostCannotListen \/ HostExits \/ HostKilled
    PROVE  ControlInvariant'
<1>1. TypeOK'
  BY DEF ControlInvariant, TypeOK, HostCannotListen, HostExits, HostKilled,
     ProcessEnds, Aged, Answer, hostVars, fileVars, cmdVars, callVars
<1>2. LockHeld'
  BY CommandAssumption
  DEF ControlInvariant, TypeOK, LockHeld, HostCannotListen, HostExits, HostKilled,
      ProcessEnds, Aged, Answer, hostVars, fileVars, cmdVars, callVars
<1>3. HostCoherent'
  BY CommandAssumption, Zenon
  DEF ControlInvariant, TypeOK, LockHeld, HostCoherent, ServerIsNamed, SignalNotLost,
      HostCannotListen, HostExits, HostKilled, ProcessEnds, Aged, Answer, hostVars,
      fileVars, cmdVars, callVars
<1>4. (\A e \in Commands : CallCoherent(e))'
  BY CommandAssumption
  DEF ControlInvariant, TypeOK, LockHeld, CallCoherent, HostCannotListen, HostExits,
      HostKilled, ProcessEnds, Aged, Answer, hostVars, fileVars, cmdVars, callVars
<1>5. EnrollmentCoherent'
  BY CommandAssumption
  DEF ControlInvariant, TypeOK, LockHeld, HostCoherent, CallCoherent,
      EnrollmentCoherent, HostCannotListen, HostExits, HostKilled, ProcessEnds, Aged,
      Answer, hostVars, fileVars, cmdVars, callVars
<1> QED BY <1>1, <1>2, <1>3, <1>4, <1>5, Zenon DEF ControlInvariant

\* The host waits for credentials; the service is started or stopped.
LEMMA WaitsKeeps ==
    ASSUME ControlInvariant, FlagsOK',
           ReadsCredentials \/ Blocks \/ Wakes \/ ServiceStarted \/ ServiceStopped
    PROVE  ControlInvariant'
<1>1. TypeOK'
  BY DEF ControlInvariant, TypeOK, ReadsCredentials, Blocks, Wakes, ServiceStarted,
     ServiceStopped, hostVars, fileVars, cmdVars, callVars
<1>2. LockHeld'
  BY CommandAssumption, Zenon
  DEF ControlInvariant, TypeOK, LockHeld, ReadsCredentials, Blocks, Wakes,
      ServiceStarted, ServiceStopped, hostVars, fileVars, cmdVars, callVars
<1>3. HostCoherent'
  BY CommandAssumption, Zenon
  DEF ControlInvariant, TypeOK, LockHeld, HostCoherent, ServerIsNamed, SignalNotLost,
      ReadsCredentials, Blocks, Wakes, ServiceStarted, ServiceStopped, hostVars,
      fileVars, cmdVars, callVars
<1>4. (\A e \in Commands : CallCoherent(e))'
  BY CommandAssumption
  DEF ControlInvariant, TypeOK, LockHeld, CallCoherent, ReadsCredentials, Blocks,
      Wakes, ServiceStarted, ServiceStopped, hostVars, fileVars, cmdVars, callVars
<1>5. EnrollmentCoherent'
  BY CommandAssumption
  DEF ControlInvariant, TypeOK, LockHeld, HostCoherent, CallCoherent,
      EnrollmentCoherent, ReadsCredentials, Blocks, Wakes, ServiceStarted,
      ServiceStopped, hostVars, fileVars, cmdVars, callVars
<1> QED BY <1>1, <1>2, <1>3, <1>4, <1>5, Zenon DEF ControlInvariant

\* A command begins.
LEMMA BeginsKeeps ==
    ASSUME ControlInvariant, FlagsOK', NEW c \in Commands, NEW k \in Kinds[c],
           Begin(c, k)
    PROVE  ControlInvariant'
<1>0. k \in Kind
  BY KindAssumption, Zenon
<1>1. TypeOK'
  BY <1>0, EntryAssumption
  DEF ControlInvariant, TypeOK, Begin, Goto, Kind, hostVars, fileVars, cmdVars, callVars
<1>2. LockHeld'
  BY EntryAssumption, CommandAssumption
  DEF ControlInvariant, TypeOK, LockHeld, Begin, Goto, hostVars, fileVars, cmdVars,
      callVars
<1>3. HostCoherent'
  BY CommandAssumption, Zenon
  DEF ControlInvariant, TypeOK, LockHeld, HostCoherent, ServerIsNamed, SignalNotLost,
      Begin, Goto, hostVars, fileVars, cmdVars, callVars
<1>4. (\A e \in Commands : CallCoherent(e))'
  BY <1>0, EntryAssumption, CommandAssumption, KindAssumption
  DEF ControlInvariant, TypeOK, CallCoherent, Begin, Goto, hostVars, fileVars, cmdVars, callVars
<1>5. EnrollmentCoherent'
  BY EntryAssumption, CommandAssumption
  DEF ControlInvariant, TypeOK, LockHeld, HostCoherent, CallCoherent,
      EnrollmentCoherent, Begin, Goto, hostVars, fileVars, cmdVars, callVars
<1> QED BY <1>1, <1>2, <1>3, <1>4, <1>5, Zenon DEF ControlInvariant

\* A command moves on without the lock.
LEMMA MovesKeeps ==
    ASSUME ControlInvariant, FlagsOK', NEW c \in Commands,
           AsksStatus(c) \/ StartsService(c) \/ SeesReady(c) \/ NotReady(c) \/ Resolves(c) \/ FindsLocked(c)
    PROVE  ControlInvariant'
<1>1. TypeOK'
  BY RetryAssumption
  DEF ControlInvariant, TypeOK, AsksStatus, StartsService, SeesReady, NotReady,
      Resolves, FindsLocked, Goto, Report, hostVars, fileVars, cmdVars, callVars
<1>2. LockHeld'
  BY CommandAssumption, SMTT(60)
  DEF ControlInvariant, TypeOK, LockHeld, AsksStatus, StartsService, SeesReady,
      NotReady, Resolves, FindsLocked, Goto, Report, hostVars, fileVars, cmdVars,
      callVars
<1>3. HostCoherent'
  BY CommandAssumption, Zenon
  DEF ControlInvariant, TypeOK, LockHeld, HostCoherent, ServerIsNamed, SignalNotLost,
      AsksStatus, StartsService, SeesReady, NotReady, Resolves, FindsLocked, Goto,
      Report, hostVars, fileVars, cmdVars, callVars
<1>4. (\A e \in Commands : CallCoherent(e))'
  BY CommandAssumption, SMTT(60)
  DEF ControlInvariant, TypeOK, LockHeld, CallCoherent, AsksStatus, StartsService,
      SeesReady, NotReady, Resolves, FindsLocked, Goto, Report, hostVars, fileVars,
      cmdVars, callVars
<1>5. EnrollmentCoherent'
  BY CommandAssumption
  DEF ControlInvariant, TypeOK, LockHeld, HostCoherent, CallCoherent,
      EnrollmentCoherent, AsksStatus, StartsService, SeesReady, NotReady, Resolves,
      FindsLocked, Goto, Report, hostVars, fileVars, cmdVars, callVars
<1> QED BY <1>1, <1>2, <1>3, <1>4, <1>5, Zenon DEF ControlInvariant

\* A command opens the store, to check it or in place of a call.
LEMMA LocksKeeps ==
    ASSUME ControlInvariant, FlagsOK', NEW c \in Commands,
           OpensToCheck(c) \/ ChecksUnenrolled(c) \/ OpensDirectly(c)
    PROVE  ControlInvariant'
<1>1. TypeOK'
  BY RetryAssumption, SMTT(60)
  DEF ControlInvariant, TypeOK, OpensToCheck, ChecksUnenrolled, OpensDirectly, Goto, Report,
      CreatedBy, hostVars, fileVars, cmdVars, callVars
<1>2. LockHeld'
  BY CommandAssumption, SMTT(60)
  DEF ControlInvariant, TypeOK, LockHeld, OpensToCheck, ChecksUnenrolled,
      OpensDirectly, Goto, Report, CreatedBy, hostVars, fileVars, cmdVars, callVars
<1>3. HostCoherent'
  BY CommandAssumption, SMTT(60)
  DEF ControlInvariant, TypeOK, LockHeld, HostCoherent, ServerIsNamed, SignalNotLost,
      OpensToCheck, ChecksUnenrolled, OpensDirectly, Goto, Report, CreatedBy,
      hostVars, fileVars, cmdVars, callVars
<1>4. (\A e \in Commands : CallCoherent(e))'
  BY CommandAssumption, SMTT(60)
  DEF ControlInvariant, TypeOK, LockHeld, CallCoherent, OpensToCheck,
      ChecksUnenrolled, OpensDirectly, Goto, Report, CreatedBy, hostVars, fileVars,
      cmdVars, callVars
<1>5. EnrollmentCoherent'
  BY CommandAssumption
  DEF ControlInvariant, TypeOK, LockHeld, HostCoherent, CallCoherent,
      EnrollmentCoherent, OpensToCheck, ChecksUnenrolled, OpensDirectly, Goto, Report,
      CreatedBy, hostVars, fileVars, cmdVars, callVars
<1> QED BY <1>1, <1>2, <1>3, <1>4, <1>5, Zenon DEF ControlInvariant

\* An enroll command opens the store: with the lock it finds out that no
\* exchange runs and that none was completed.
LEMMA EnrollOpensKeeps ==
    ASSUME ControlInvariant, FlagsOK', NEW c \in Commands,
           EnrollOpens(c)
    PROVE  ControlInvariant'
<1>1. TypeOK'
  BY DEF ControlInvariant, TypeOK, EnrollOpens, Goto, CreatedBy, hostVars, fileVars,
     cmdVars, callVars
<1>2. LockHeld'
  BY CommandAssumption
  DEF ControlInvariant, TypeOK, LockHeld, EnrollOpens, Goto, CreatedBy, hostVars,
      fileVars, cmdVars, callVars
<1>3. HostCoherent'
  BY CommandAssumption, Zenon
  DEF ControlInvariant, TypeOK, LockHeld, HostCoherent, ServerIsNamed, SignalNotLost,
      EnrollOpens, Goto, CreatedBy, hostVars, fileVars, cmdVars, callVars
<1>4. (\A e \in Commands : CallCoherent(e))'
  BY CommandAssumption
  DEF ControlInvariant, TypeOK, LockHeld, CallCoherent, EnrollOpens, Goto, CreatedBy,
      hostVars, fileVars, cmdVars, callVars
<1>5. EnrollmentCoherent'
  <2>1. CASE lock # None
    BY <2>1, CommandAssumption
    DEF ControlInvariant, TypeOK, CallCoherent, EnrollmentCoherent, EnrollOpens, hostVars, Goto
  <2>2. CASE lock = None /\ identity = None
    <3>1. \A d \in Commands : ~(kind[d] = "enroll" /\ (result[d] = "ok" \/ handler[d] = "ok"))
      BY <2>2, CommandAssumption, Zenon DEF ControlInvariant, EnrollmentCoherent
    <3>2. handler' = handler /\ mem' = mem /\ mem = None /\ kind' = kind
      BY <2>2, CommandAssumption, Zenon
      DEF ControlInvariant, TypeOK, LockHeld, HostCoherent, EnrollOpens, hostVars
    <3>3. kind[c] = "enroll" /\ pc'[c] = "direct" /\ result' = result
      BY <2>2, SMTT(60) DEF ControlInvariant, TypeOK, CallCoherent, EnrollOpens, Goto
    <3>4. \A d \in Commands : stage'[d] = IF d = c THEN "ask" ELSE "none"
      BY <2>2, NoExchange, SMTT(60) DEF ControlInvariant, TypeOK, EnrollOpens
    <3> QED BY <3>1, <3>2, <3>3, <3>4, Zenon DEF EnrollmentCoherent
  <2>3. CASE lock = None /\ identity # None
    BY <2>3, NoExchange, CommandAssumption
    DEF ControlInvariant, TypeOK, LockHeld, HostCoherent, CallCoherent, EnrollmentCoherent,
        EnrollOpens, hostVars, Goto
  <2> QED BY <2>1, <2>2, <2>3, Zenon
<1> QED BY <1>1, <1>2, <1>3, <1>4, <1>5, Zenon DEF ControlInvariant

\* A command closes the store, or ends with its lock.
LEMMA UnlocksKeeps ==
    ASSUME ControlInvariant, FlagsOK', NEW c \in Commands,
           Closes(c) \/ Interrupted(c)
    PROVE  ControlInvariant'
<1>1. TypeOK'
  BY RetryAssumption
  DEF ControlInvariant, TypeOK, Closes, Interrupted, Goto, Report, hostVars, fileVars,
      cmdVars, callVars
<1>2. LockHeld'
  BY CommandAssumption
  DEF ControlInvariant, TypeOK, LockHeld, Closes, Interrupted, Goto, Report, hostVars,
      fileVars, cmdVars, callVars
<1>3. HostCoherent'
  BY CommandAssumption, SMTT(60)
  DEF ControlInvariant, TypeOK, LockHeld, HostCoherent, ServerIsNamed, SignalNotLost,
      Closes, Interrupted, Goto, Report, hostVars, fileVars, cmdVars, callVars
<1>4. (\A e \in Commands : CallCoherent(e))'
  BY CommandAssumption, SMTT(60)
  DEF ControlInvariant, TypeOK, LockHeld, CallCoherent, Closes, Interrupted, Goto,
      Report, hostVars, fileVars, cmdVars, callVars
<1>5. EnrollmentCoherent'
  BY CommandAssumption
  DEF ControlInvariant, TypeOK, LockHeld, HostCoherent, CallCoherent,
      EnrollmentCoherent, Closes, Interrupted, Goto, Report, hostVars, fileVars,
      cmdVars, callVars
<1> QED BY <1>1, <1>2, <1>3, <1>4, <1>5, Zenon DEF ControlInvariant

\* A call is accepted, answered or given up.
LEMMA CallsKeeps ==
    ASSUME ControlInvariant, FlagsOK', NEW c \in Commands,
           CallFails(c) \/ CallReturns(c) \/ EnrollReturns(c) \/ Accepts(c) \/ SendsUpload(c)
    PROVE  ControlInvariant'
<1>1. TypeOK'
  BY RetryAssumption, SMTT(60)
  DEF ControlInvariant, TypeOK, CallFails, CallReturns, EnrollReturns, Accepts, SendsUpload,
      Answered, Goto, Report, hostVars, fileVars, cmdVars, callVars
<1>2. LockHeld'
  BY CommandAssumption, SMTT(60)
  DEF ControlInvariant, TypeOK, LockHeld, CallFails, CallReturns, EnrollReturns,
      Accepts, SendsUpload, Answered, Goto, Report, hostVars, fileVars, cmdVars,
      callVars
<1>3. HostCoherent'
  BY CommandAssumption, ZenonT(60)
  DEF ControlInvariant, TypeOK, LockHeld, HostCoherent, ServerIsNamed, SignalNotLost,
      CallFails, CallReturns, EnrollReturns, Accepts, SendsUpload, Answered, Goto,
      Report, hostVars, fileVars, cmdVars, callVars
<1>4. (\A e \in Commands : CallCoherent(e))'
  BY CommandAssumption, SMTT(60)
  DEF ControlInvariant, TypeOK, LockHeld, CallCoherent, CallFails, CallReturns,
      EnrollReturns, Accepts, SendsUpload, Answered, Goto, Report, hostVars, fileVars,
      cmdVars, callVars
<1>5. EnrollmentCoherent'
  BY CommandAssumption
  DEF ControlInvariant, TypeOK, LockHeld, HostCoherent, CallCoherent,
      EnrollmentCoherent, CallFails, CallReturns, EnrollReturns, Accepts, SendsUpload,
      Answered, Goto, Report, hostVars, fileVars, cmdVars, callVars
<1> QED BY <1>1, <1>2, <1>3, <1>4, <1>5, Zenon DEF ControlInvariant

\* A command's change is carried out, under its own lock or in the host: it
\* was not before, and no call is left that would carry it out again.
LEMMA ChangesKeeps ==
    ASSUME ControlInvariant, FlagsOK', NEW c \in Commands, NEW outcome \in Outcome,
           RunsDirectly(c, outcome) \/ Handles(c, outcome) \/ HandlesUpload(c, outcome)
    PROVE  ControlInvariant'
<1>1. TypeOK'
  BY SMTT(60) DEF ControlInvariant, TypeOK, CallCoherent, RunsDirectly, Handles, HandlesUpload,
     Carried, SavedBy, Answer, Goto, Outcome, hostVars, fileVars, cmdVars, callVars
<1>2. LockHeld'
  BY CommandAssumption
  DEF ControlInvariant, TypeOK, LockHeld, RunsDirectly, Handles, HandlesUpload,
      Carried, SavedBy, Answer, Goto, Outcome, hostVars, fileVars, cmdVars, callVars
<1>3. HostCoherent'
  BY CommandAssumption, Zenon
  DEF ControlInvariant, TypeOK, LockHeld, HostCoherent, ServerIsNamed, SignalNotLost,
      RunsDirectly, Handles, HandlesUpload, Carried, SavedBy, Answer, Goto, Outcome,
      hostVars, fileVars, cmdVars, callVars
<1>4. (\A e \in Commands : CallCoherent(e))'
  <2>1. SUFFICES ASSUME NEW e \in Commands PROVE CallCoherent(e)'
    BY Zenon
  <2>2. CASE e = c
    <3>1. /\ phase' = phase /\ kind' = kind
          /\ applied'[c] \in {0, 1}
          /\ kind[c] = "read" => applied'[c] = 0
          /\ applied'[c] = 0 => kind[c] = "read" \/ outcome = "error"
          /\ kind[c] = "upload" /\ applied'[c] = 1 => c \in whole'
          /\ kind[c] \in {"read", "write", "upload"} /\ kind[c] # None
      <4>1. applied[c] = 0 /\ kind[c] \in {"read", "write", "upload"}
        BY KindAssumption, SMTT(60) DEF ControlInvariant, TypeOK, CallCoherent, RunsDirectly, Handles,
           HandlesUpload, Kind
      <4> QED
        BY <4>1, KindAssumption, SMTT(60) DEF ControlInvariant, TypeOK, RunsDirectly, Handles,
           HandlesUpload, Carried, Kind, hostVars, cmdVars
    <3>2. CASE RunsDirectly(c, outcome)
      <4>1. pc'[c] = "closing" /\ handler'[c] = "none" /\ result'[c] = outcome
        BY <3>2 DEF ControlInvariant, TypeOK, CallCoherent, RunsDirectly, Goto
      <4>2. kind'[c] # None /\ kind'[c] # "enroll" /\ kind'[c] = kind[c]
        BY <3>1, Zenon
      <4>3. applied'[c] <= 1 /\ (applied'[c] > 0 => applied'[c] = 1)
        BY <3>1
      <4>4. kind'[c] \in {"write", "upload"} /\ (result'[c] = "ok" \/ handler'[c] = "ok") => applied'[c] = 1
        BY <3>1, <4>1, <4>2, Zenon
      <4>5. kind'[c] \in {None, "read", "enroll"} => applied'[c] = 0
        BY <3>1, <4>2, Zenon
      <4>6. kind'[c] = "upload" /\ applied'[c] > 0 => c \in whole'
        BY <3>1, <4>2, <4>3, Zenon
      <4> QED BY <2>2, <4>1, <4>2, <4>3, <4>4, <4>5, <4>6, ZenonT(60) DEF CallCoherent
    <3>3. CASE Handles(c, outcome) \/ HandlesUpload(c, outcome)
      <4>1. /\ pc'[c] = pc[c] /\ pc[c] \in {"call", "done"} /\ result'[c] = result[c]
            /\ handler'[c] = IF pc[c] = "call" THEN outcome ELSE "none"
            /\ kind[c] \in {"write", "upload"} => result[c] # "ok"
            /\ result[c] # "none" => pc[c] = "done"
        BY <3>3, SMTT(60) DEF ControlInvariant, TypeOK, CallCoherent, Handles, HandlesUpload,
           Answer, cmdVars
      <4>2. CASE pc[c] = "call"
        <5>1. /\ phase' = phase /\ pc'[c] = "call" /\ handler'[c] = outcome /\ result'[c] = "none"
              /\ outcome \in {"ok", "error"}
          BY <4>1, <4>2, <3>1, ZenonT(60) DEF Outcome
        <5>2. kind'[c] # None /\ kind'[c] # "enroll" /\ kind'[c] = kind[c]
          BY <3>1, Zenon
        <5>3. applied'[c] <= 1 /\ (applied'[c] > 0 => applied'[c] = 1)
          BY <3>1
        <5>4. kind'[c] \in {"write", "upload"} /\ (result'[c] = "ok" \/ handler'[c] = "ok") => applied'[c] = 1
          BY <3>1, <5>1, <5>2, Zenon
        <5>5. kind'[c] \in {None, "read", "enroll"} => applied'[c] = 0
          BY <3>1, <5>2
        <5>6. kind'[c] = "upload" /\ applied'[c] > 0 => c \in whole'
          BY <3>1, <5>2, <5>3
        <5> QED BY <2>2, <5>1, <5>2, <5>3, <5>4, <5>5, <5>6, ZenonT(60) DEF CallCoherent
      <4>3. CASE pc[c] = "done"
        <5>1. pc'[c] = "done" /\ handler'[c] = "none" /\ result'[c] = result[c]
          BY <4>1, <4>3, Zenon
        <5>2. kind'[c] # None /\ kind'[c] # "enroll" /\ kind'[c] = kind[c]
          BY <3>1, Zenon
        <5>3. applied'[c] <= 1 /\ (applied'[c] > 0 => applied'[c] = 1)
          BY <3>1
        <5>4. kind'[c] \in {"write", "upload"} /\ (result'[c] = "ok" \/ handler'[c] = "ok") => applied'[c] = 1
          BY <3>1, <4>1, <5>1, <5>2, Zenon
        <5>5. kind'[c] \in {None, "read", "enroll"} => applied'[c] = 0
          BY <3>1, <5>2
        <5>6. kind'[c] = "upload" /\ applied'[c] > 0 => c \in whole'
          BY <3>1, <5>2, <5>3
        <5> QED BY <2>2, <5>1, <5>2, <5>3, <5>4, <5>5, <5>6, ZenonT(60) DEF CallCoherent
      <4> QED BY <4>1, <4>2, <4>3, ZenonT(30)
    <3> QED BY <3>2, <3>3, Zenon
  <2>3. CASE e # c
    <3>1. /\ phase' = phase /\ kind' = kind
          /\ handler'[e] = handler[e] /\ applied'[e] = applied[e]
          /\ pc'[e] = pc[e] /\ result'[e] = result[e]
          /\ e \in whole' <=> e \in whole
      BY <2>3, ZenonT(60) DEF ControlInvariant, TypeOK, RunsDirectly, Handles, HandlesUpload, Carried, Goto,
         hostVars, cmdVars
    <3> QED BY <3>1, ZenonT(60) DEF ControlInvariant, CallCoherent
  <2> QED BY <2>2, <2>3, Zenon
<1>5. EnrollmentCoherent'
  <2>1. kind' = kind /\ stage' = stage /\ mem' = mem /\ phase' = phase /\ identity' = identity
    BY ZenonT(30) DEF RunsDirectly, Handles, HandlesUpload, hostVars, cmdVars
  <2>2. kind[c] # "enroll" /\ stage[c] = "none"
    BY ZenonT(30) DEF ControlInvariant, TypeOK, EnrollmentCoherent, RunsDirectly, Handles,
       HandlesUpload
  <2>3. \A e \in Commands \ {c} :
           handler'[e] = handler[e] /\ pc'[e] = pc[e] /\ result'[e] = result[e]
    BY Zenon DEF ControlInvariant, TypeOK, RunsDirectly, Handles, HandlesUpload, Goto, cmdVars
  <2> QED BY <2>1, <2>2, <2>3, ZenonT(30) DEF ControlInvariant, EnrollmentCoherent
<1> QED BY <1>1, <1>2, <1>3, <1>4, <1>5, Zenon DEF ControlInvariant

\* An exchange starts in the host under enrollmentMu, or moves on.
LEMMA AsksKeeps ==
    ASSUME ControlInvariant, FlagsOK', NEW c \in Commands,
           LocalEnroll(c) \/ AsksForCode(c) \/ AirlockApproves(c)
    PROVE  ControlInvariant'
<1>1. TypeOK'
  BY SMTT(60) DEF ControlInvariant, TypeOK, LocalEnroll, AsksForCode, AirlockApproves,
     EnrollmentMuHeld, Answer, hostVars, fileVars, cmdVars, callVars
<1>2. LockHeld'
  BY CommandAssumption, Zenon
  DEF ControlInvariant, TypeOK, LockHeld, LocalEnroll, AsksForCode, AirlockApproves,
      EnrollmentMuHeld, Answer, hostVars, fileVars, cmdVars, callVars
<1>3. HostCoherent'
  BY CommandAssumption, ZenonT(60)
  DEF ControlInvariant, TypeOK, LockHeld, HostCoherent, ServerIsNamed, SignalNotLost,
      LocalEnroll, AsksForCode, AirlockApproves, EnrollmentMuHeld, Answer, hostVars,
      fileVars, cmdVars, callVars
<1>4. (\A e \in Commands : CallCoherent(e))'
  BY CommandAssumption, SMTT(60)
  DEF ControlInvariant, TypeOK, LockHeld, CallCoherent, LocalEnroll, AsksForCode,
      AirlockApproves, EnrollmentMuHeld, Answer, hostVars, fileVars, cmdVars, callVars
<1>5. EnrollmentCoherent'
  BY CommandAssumption, SMTT(60)
  DEF ControlInvariant, TypeOK, LockHeld, HostCoherent, CallCoherent,
      EnrollmentCoherent, LocalEnroll, AsksForCode, AirlockApproves, EnrollmentMuHeld,
      Answer, hostVars, fileVars, cmdVars, callVars
<1> QED BY <1>1, <1>2, <1>3, <1>4, <1>5 DEF ControlInvariant

\* The exchange ends: it is the only one, so an identity it stores replaces
\* none that was reported.
LEMMA EnrollsKeeps ==
    ASSUME ControlInvariant, FlagsOK', NEW c \in Commands,
           EnrollmentFails(c) \/ EnrollmentApproved(c) \/ EnrollmentHalfSaved(c)
    PROVE  ControlInvariant'
<1>1. TypeOK'
  BY DEF ControlInvariant, TypeOK, EnrollmentFails, EnrollmentApproved,
     EnrollmentHalfSaved, Ends, Answer, SavedBy, Signalled, Goto, hostVars, fileVars,
     cmdVars, callVars
<1>2. LockHeld'
  BY CommandAssumption
  DEF ControlInvariant, TypeOK, LockHeld, CallCoherent, EnrollmentCoherent,
      EnrollmentFails, EnrollmentApproved, EnrollmentHalfSaved, Ends, Answer, SavedBy,
      Signalled, Goto, hostVars, fileVars, cmdVars, callVars
<1>3. HostCoherent'
  BY CommandAssumption, ZenonT(60)
  DEF ControlInvariant, TypeOK, LockHeld, HostCoherent, ServerIsNamed, SignalNotLost,
      CallCoherent, EnrollmentCoherent, EnrollmentFails, EnrollmentApproved,
      EnrollmentHalfSaved, Ends, Answer, SavedBy, Signalled, Goto, hostVars, fileVars,
      cmdVars, callVars
<1>4. (\A e \in Commands : CallCoherent(e))'
  <2>1. CASE EnrollmentFails(c)
    BY <2>1, CommandAssumption, SMTT(60)
    DEF ControlInvariant, TypeOK, LockHeld, CallCoherent, EnrollmentCoherent, EnrollmentFails,
        Ends, Answer, SavedBy, Signalled, Goto, hostVars, fileVars, cmdVars, callVars
  <2>2. CASE EnrollmentApproved(c)
    BY <2>2, CommandAssumption, SMTT(60)
    DEF ControlInvariant, TypeOK, LockHeld, CallCoherent, EnrollmentCoherent, EnrollmentApproved,
        Ends, Answer, SavedBy, Signalled, Goto, hostVars, fileVars, cmdVars, callVars
  <2>3. CASE EnrollmentHalfSaved(c)
    BY <2>3, CommandAssumption, SMTT(60)
    DEF ControlInvariant, TypeOK, LockHeld, CallCoherent, EnrollmentCoherent, EnrollmentHalfSaved,
        Ends, Answer, SavedBy, Signalled, Goto, hostVars, fileVars, cmdVars, callVars
  <2> QED BY <2>1, <2>2, <2>3, Zenon
<1>5. EnrollmentCoherent'
  <2>1. CASE EnrollmentFails(c)
    BY <2>1, CommandAssumption, SMTT(60)
    DEF ControlInvariant, TypeOK, LockHeld, HostCoherent, CallCoherent, EnrollmentCoherent, EnrollmentFails,
        Ends, Answer, SavedBy, Signalled, Goto, hostVars, fileVars, cmdVars, callVars
  <2>2. CASE EnrollmentApproved(c)
    BY <2>2, CommandAssumption, SMTT(60)
    DEF ControlInvariant, TypeOK, LockHeld, HostCoherent, CallCoherent, EnrollmentCoherent, EnrollmentApproved,
        Ends, Answer, SavedBy, Signalled, Goto, hostVars, fileVars, cmdVars, callVars
  <2>3. CASE EnrollmentHalfSaved(c)
    BY <2>3, CommandAssumption, SMTT(60)
    DEF ControlInvariant, TypeOK, LockHeld, HostCoherent, CallCoherent, EnrollmentCoherent, EnrollmentHalfSaved,
        Ends, Answer, SavedBy, Signalled, Goto, hostVars, fileVars, cmdVars, callVars
  <2> QED BY <2>1, <2>2, <2>3, Zenon
<1> QED BY <1>1, <1>2, <1>3, <1>4, <1>5 DEF ControlInvariant

\* Every step keeps ControlInvariant.
LEMMA ControlStep ==
    ASSUME ControlInvariant, [Next]_vars
    PROVE  ControlInvariant'
<1>0. CASE UNCHANGED vars
  BY <1>0 DEF ControlInvariant, TypeOK, FlagsOK, LockHeld, HostCoherent, CallCoherent,
     EnrollmentCoherent, ServerIsNamed, SignalNotLost, vars, hostVars, fileVars, cmdVars,
     callVars
<1> SUFFICES ASSUME Next PROVE ControlInvariant'
  BY <1>0, Zenon
<1>5. FlagsOK'
  BY FlagsStep, Zenon DEF ControlInvariant, TypeOK
<1>1. CASE HostStep
  BY <1>1, <1>5, OpensKeeps, ListensKeeps, StopsKeeps, EndsKeeps, WaitsKeeps, Zenon DEF HostStep
<1>2. ASSUME NEW c \in Commands, CommandStep(c) \/ Interrupted(c) \/ Accepts(c)
      PROVE  ControlInvariant'
  BY <1>2, <1>5, MovesKeeps, LocksKeeps, EnrollOpensKeeps, UnlocksKeeps, CallsKeeps, ChangesKeeps, Zenon
  DEF CommandStep
<1>3. ASSUME NEW c \in Commands, HandlerStep(c) \/ ExchangeStep(c) \/ AirlockApproves(c)
      PROVE  ControlInvariant'
  BY <1>3, <1>5, ChangesKeeps, AsksKeeps, EnrollsKeeps, Zenon DEF HandlerStep, ExchangeStep
<1>4. ASSUME NEW c \in Commands, NEW k \in Kinds[c], Begin(c, k)
      PROVE  ControlInvariant'
  BY <1>4, <1>5, BeginsKeeps, ZenonT(30)
<1> QED BY <1>1, <1>2, <1>3, <1>4, ZenonT(30) DEF Next

\* The lock, the calls and the enrollments are coherent at every step, whatever
\* commands run and wherever they or the host are killed.
THEOREM ControlCoherent == Spec => []ControlInvariant
<1>1. Init => ControlInvariant
  <2>1. Init => FlagsOK
    BY Zenon DEF Init, FlagsOK
  <2> QED
    BY <2>1, CommandAssumption, RetryAssumption
    DEF Init, ControlInvariant, TypeOK, LockHeld, HostCoherent, CallCoherent,
        EnrollmentCoherent, ServerIsNamed, SignalNotLost
<1> QED BY <1>1, ControlStep, PTL DEF Spec

\* A change is made at most once, and once when its command reports success
\* (controlFirst).
THEOREM CommandChangesOnce == Spec => []ChangedAtMostOnce
<1>1. ControlInvariant => ChangedAtMostOnce
  BY Zenon DEF ControlInvariant, CallCoherent, ChangedAtMostOnce
<1> QED BY <1>1, ControlCoherent, PTL

\* A reported enrollment is never replaced (LocalEnroll, enrollHost).
THEOREM EnrollmentKept == Spec => []ReportedEnrollmentKept
<1>1. ControlInvariant => ReportedEnrollmentKept
  BY Zenon DEF ControlInvariant, EnrollmentCoherent, ReportedEnrollmentKept
<1> QED BY <1>1, ControlCoherent, PTL

\* The credentials signal is never lost (waitForCredentials).
THEOREM CredentialsSignalKept == Spec => []SignalNotLost
<1>1. ControlInvariant => SignalNotLost
  BY Zenon DEF ControlInvariant, HostCoherent
<1> QED BY <1>1, ControlCoherent, PTL
============================================================================
