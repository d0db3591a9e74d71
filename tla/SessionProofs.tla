--------------------------- MODULE SessionProofs ---------------------------
(***************************************************************************)
(* One session at a time, and every reply to its own call, for any number  *)
(* of calls, sessions and request slots: SessionInvariant is inductive.    *)
(***************************************************************************)
EXTENDS Session, FiniteSetTheorems, TLAPS

\* A message names its call and carries a reply.
LEMMA MessageFields ==
    ASSUME NEW m \in Message
    PROVE  m[1] \in Calls /\ m[2] \in Replies /\ m = <<m[1], m[2]>> /\ m # None
BY SessionAssumption DEF Message

\* What is on its way to the host are messages.
LEMMA ArrivingType ==
    ASSUME SessionInvariant, NEW s \in Sessions
    PROVE  Arriving(s) \subseteq Message
BY Zenon DEF SessionInvariant, TypeOK, Arriving

\* Connecting opens a session that nothing has used, when no other runs.
LEMMA ConnectKeeps ==
    ASSUME SessionInvariant, NEW s \in Sessions, Connect(s)
    PROVE  SessionInvariant'
<1>1. TypeOK'
  BY SessionAssumption, MessageFields, Zenon
  DEF SessionInvariant, TypeOK, Connect, callVars, serverVars
<1>2. SoleSession'
  BY SessionAssumption
  DEF SessionInvariant, TypeOK, SoleSession, LifetimeCoherent, Connect, callVars,
      serverVars
<1>3. \A t \in Sessions : LifetimeCoherent(t)'
  BY SessionAssumption
  DEF SessionInvariant, TypeOK, SoleSession, LifetimeCoherent, Connect, callVars,
      serverVars
<1>4. \A e \in Calls : CallCoherent(e)'
  BY SessionAssumption, MessageFields
  DEF SessionInvariant, TypeOK, LifetimeCoherent, ExchangeCoherent, CallCoherent,
      Arriving, Outstanding, Connect, callVars, serverVars
<1>5. \A t \in Sessions : ExchangeCoherent(t)'
  <2>1. \A e \in Calls : on[e] # s
    BY SessionAssumption, ZenonT(30) DEF SessionInvariant, CallCoherent, Connect
  <2>2. requests[s] = {} /\ Arriving(s) = {}
    <3>1. \A e \in requests[s] : e \in Calls /\ on[e] = s
      BY Zenon DEF SessionInvariant, TypeOK, ExchangeCoherent, Outstanding
    <3>2. \A m \in Arriving(s) : m[1] \in Calls /\ on[m[1]] = s
      BY ArrivingType, MessageFields, ZenonT(30) DEF SessionInvariant, ExchangeCoherent, Outstanding
    <3> QED BY <2>1, <3>1, <3>2, Zenon
  <2> SUFFICES ASSUME NEW t \in Sessions PROVE ExchangeCoherent(t)'
    BY Zenon
  <2>3. CASE t = s
    BY <2>2, <2>3, Zenon
    DEF SessionInvariant, ExchangeCoherent, Arriving, Connect, serverVars, callVars
  <2>4. CASE t # s
    <3>1. socket'[t] = socket[t]
      BY <2>4, Zenon DEF SessionInvariant, TypeOK, Connect
    <3> QED
      BY <3>1
      DEF SessionInvariant, ExchangeCoherent, Arriving, Outstanding, Connect,
          serverVars,
         callVars
  <2> QED BY <2>3, <2>4, Zenon
<1>6. CapacityReturned'
  <2>1. \A e \in Calls : on[e] # s
    BY SessionAssumption, ZenonT(30) DEF SessionInvariant, CallCoherent, Connect
  <2>2. pending[s] = {}
    BY <2>1, ZenonT(30) DEF SessionInvariant, TypeOK, CallCoherent
  <2> QED
    BY <2>2 DEF SessionInvariant, TypeOK, CapacityReturned, Connect, callVars
<1>7. AnswerIsOwn'
  BY SessionAssumption, Zenon
  DEF SessionInvariant, TypeOK, CallCoherent, AnswerIsOwn, Connect, callVars,
      serverVars
<1>8. ReplyExpected'
  BY <1>1, <1>5, MessageFields, ZenonT(30)
  DEF TypeOK, ExchangeCoherent, Arriving, Outstanding, ReplyExpected
<1> QED BY <1>1, <1>2, <1>3, <1>4, <1>5, <1>6, <1>7, <1>8, Zenon DEF SessionInvariant

\* Closing the client closes the connection and leaves the rest to the reader.
LEMMA CloseKeeps ==
    ASSUME SessionInvariant, Close \/ CloseReturns
    PROVE  SessionInvariant'
<1>1. TypeOK'
  BY SessionAssumption, MessageFields
  DEF SessionInvariant, TypeOK, Close, CloseReturns, CloseNow, readVars, callVars,
      serverVars
<1>2. SoleSession'
  BY SessionAssumption, Zenon
  DEF SessionInvariant, TypeOK, SoleSession, LifetimeCoherent, Close, CloseReturns,
      CloseNow, readVars, callVars, serverVars
<1>3. \A t \in Sessions : LifetimeCoherent(t)'
  BY SessionAssumption
  DEF SessionInvariant, TypeOK, SoleSession, LifetimeCoherent, Close, CloseReturns,
      CloseNow, readVars, callVars, serverVars
<1>4. \A e \in Calls : CallCoherent(e)'
  BY SessionAssumption, MessageFields
  DEF SessionInvariant, TypeOK, LifetimeCoherent, ExchangeCoherent, CallCoherent,
      Arriving, Outstanding, Close, CloseReturns, CloseNow, readVars, callVars,
      serverVars
<1>5. \A t \in Sessions : ExchangeCoherent(t)'
  BY SessionAssumption, MessageFields
  DEF SessionInvariant, TypeOK, LifetimeCoherent, ExchangeCoherent, CallCoherent,
      Arriving, Outstanding, Close, CloseReturns, CloseNow, readVars, callVars,
      serverVars
<1>6. CapacityReturned'
  BY SessionAssumption, MessageFields
  DEF SessionInvariant, TypeOK, LifetimeCoherent, CapacityReturned, CallCoherent,
      Close, CloseReturns, CloseNow, readVars, callVars, serverVars
<1>7. AnswerIsOwn'
  BY SessionAssumption, Zenon
  DEF SessionInvariant, TypeOK, CallCoherent, AnswerIsOwn, Close, CloseReturns,
      CloseNow, readVars, callVars, serverVars
<1>8. ReplyExpected'
  BY <1>1, <1>5, MessageFields, ZenonT(30)
  DEF TypeOK, ExchangeCoherent, Arriving, Outstanding, ReplyExpected
<1> QED BY <1>1, <1>2, <1>3, <1>4, <1>5, <1>6, <1>7, <1>8, Zenon DEF SessionInvariant

\* The reader takes a message off the socket.
LEMMA ReadKeeps ==
    ASSUME SessionInvariant, NEW s \in Sessions, Read(s)
    PROVE  SessionInvariant'
<1>1. TypeOK'
  BY SessionAssumption, MessageFields DEF SessionInvariant, TypeOK, Read, callVars
<1>2. SoleSession'
  BY SessionAssumption, Zenon
  DEF SessionInvariant, TypeOK, SoleSession, LifetimeCoherent, Read, callVars
<1>3. \A t \in Sessions : LifetimeCoherent(t)'
  BY SessionAssumption
  DEF SessionInvariant, TypeOK, SoleSession, LifetimeCoherent, Read, callVars
<1>4. \A e \in Calls : CallCoherent(e)'
  BY SessionAssumption, MessageFields
  DEF SessionInvariant, TypeOK, LifetimeCoherent, ExchangeCoherent, CallCoherent,
      Arriving, Outstanding, Read, callVars
<1>5. \A t \in Sessions : ExchangeCoherent(t)'
  BY SessionAssumption, MessageFields
  DEF SessionInvariant, TypeOK, LifetimeCoherent, ExchangeCoherent, CallCoherent,
      Arriving, Outstanding, Read, callVars
<1>6. CapacityReturned'
  BY SessionAssumption, MessageFields, ZenonT(60)
  DEF SessionInvariant, TypeOK, LifetimeCoherent, CapacityReturned, CallCoherent, Read,
      callVars
<1>7. AnswerIsOwn'
  BY SessionAssumption, Zenon
  DEF SessionInvariant, TypeOK, CallCoherent, AnswerIsOwn, Read, callVars
<1>8. ReplyExpected'
  BY <1>1, <1>5, MessageFields, ZenonT(30)
  DEF TypeOK, ExchangeCoherent, Arriving, Outstanding, ReplyExpected
<1> QED BY <1>1, <1>2, <1>3, <1>4, <1>5, <1>6, <1>7, <1>8 DEF SessionInvariant

\* The message goes to the call that waits for it, whose last message it is.
LEMMA DispatchKeeps ==
    ASSUME SessionInvariant, NEW s \in Sessions, Dispatch(s)
    PROVE  SessionInvariant'
<1>1. TypeOK'
  <2>1. \A t \in Sessions : Cardinality(pending'[t]) <= MaxRequests
    <3> SUFFICES ASSUME NEW t \in Sessions PROVE Cardinality(pending'[t]) <= MaxRequests
      BY Zenon
    <3>1. pending'[t] \subseteq pending[t] /\ IsFiniteSet(pending[t])
      BY DEF SessionInvariant, TypeOK, LifetimeCoherent, Dispatch
    <3>2. Cardinality(pending'[t]) \in Nat /\ Cardinality(pending[t]) \in Nat
          /\ Cardinality(pending'[t]) <= Cardinality(pending[t])
      BY <3>1, FS_Subset, FS_CardinalityType, Zenon
    <3> QED BY <3>2, SessionAssumption DEF SessionInvariant, TypeOK
  <2>2. held[s][1] \in Calls /\ held[s][2] \in Replies
    BY MessageFields, Zenon DEF SessionInvariant, TypeOK, Dispatch
  <2> QED
    BY <2>1, <2>2 DEF SessionInvariant, TypeOK, Dispatch, CloseNow, serverVars
<1>2. SoleSession'
  BY SessionAssumption
  DEF SessionInvariant, TypeOK, SoleSession, LifetimeCoherent, Dispatch, CloseNow,
      serverVars
<1>3. \A t \in Sessions : LifetimeCoherent(t)'
  <2>1. \A t \in Sessions : IsFiniteSet(pending'[t])
    <3> SUFFICES ASSUME NEW t \in Sessions PROVE IsFiniteSet(pending'[t])
      BY Zenon
    <3>1. pending'[t] \subseteq pending[t] /\ IsFiniteSet(pending[t])
      BY DEF SessionInvariant, TypeOK, LifetimeCoherent, Dispatch
    <3> QED BY <3>1, FS_Subset, Zenon
  <2> QED
    BY <2>1 DEF SessionInvariant, TypeOK, LifetimeCoherent, Dispatch, CloseNow
<1>4. \A e \in Calls : CallCoherent(e)'
  BY SessionAssumption, MessageFields, SMTT(30)
  DEF SessionInvariant, TypeOK, LifetimeCoherent, ExchangeCoherent, CallCoherent,
      Arriving, Outstanding, Dispatch, CloseNow, serverVars
<1>5. \A t \in Sessions : ExchangeCoherent(t)'
  <2> DEFINE m == held[s]
  <2>1. m \in Arriving(s) /\ m \in Message /\ m[1] \in Calls
    BY MessageFields, Zenon DEF SessionInvariant, TypeOK, Dispatch, Arriving
  <2> SUFFICES ASSUME NEW t \in Sessions PROVE ExchangeCoherent(t)'
    OBVIOUS
  <2>2. /\ UNCHANGED <<on, step, requests, replies, served>>
        /\ held' = [held EXCEPT ![s] = None]
    BY Zenon DEF Dispatch, serverVars
  <2>3. CASE t = s
    <3>1. Arriving(s)' = replies[s] /\ replies[s] \subseteq Arriving(s) \ {m}
      BY <2>2, Zenon DEF SessionInvariant, TypeOK, ExchangeCoherent, Arriving
    <3>2. \A n \in replies[s] : n[1] # m[1]
      BY <2>1, <3>1, ZenonT(30) DEF SessionInvariant, ExchangeCoherent
    <3>3. m[1] \notin requests[s]
      BY <2>1, ZenonT(30) DEF SessionInvariant, ExchangeCoherent
    <3>4. ASSUME NEW e \in Calls, e # m[1], Outstanding(e, s)
          PROVE  Outstanding(e, s)'
      BY <2>1, <2>2, <3>4 DEF SessionInvariant, TypeOK, Outstanding, Dispatch, CloseNow
    <3>5. \A e \in requests[s] : Outstanding(e, s)'
      BY <3>3, <3>4, Zenon DEF SessionInvariant, TypeOK, ExchangeCoherent
    <3>6. \A n \in replies[s] : Outstanding(n[1], s)'
      BY <3>1, <3>2, <3>4, ArrivingType, MessageFields, ZenonT(30)
      DEF SessionInvariant, ExchangeCoherent
    <3>7. None \notin replies[s]
      BY MessageFields, Zenon DEF SessionInvariant, TypeOK
    <3>8. held'[s] = None
      BY <2>2, Zenon DEF SessionInvariant, TypeOK
    <3> QED
      BY <2>2, <2>3, <3>1, <3>5, <3>6, <3>7, <3>8 DEF SessionInvariant, ExchangeCoherent
  <2>4. CASE t # s
    <3>1. UNCHANGED <<held[t], pending[t], socket[t]>>
      BY <2>4, Zenon DEF SessionInvariant, TypeOK, Dispatch, CloseNow
    <3> QED
      BY <2>2, <3>1 DEF SessionInvariant, ExchangeCoherent, Arriving, Outstanding
  <2> QED BY <2>3, <2>4
<1>6. CapacityReturned'
  BY SessionAssumption, MessageFields
  DEF SessionInvariant, TypeOK, LifetimeCoherent, CapacityReturned, CallCoherent,
      Dispatch, CloseNow, serverVars
<1>7. AnswerIsOwn'
  BY SessionAssumption, Zenon
  DEF SessionInvariant, TypeOK, CallCoherent, AnswerIsOwn, Dispatch, CloseNow,
      serverVars
<1>8. ReplyExpected'
  BY <1>1, <1>5, MessageFields, ZenonT(30)
  DEF TypeOK, ExchangeCoherent, Arriving, Outstanding, ReplyExpected
<1> QED BY <1>1, <1>2, <1>3, <1>4, <1>5, <1>6, <1>7, <1>8 DEF SessionInvariant

\* The reader ends its session.
LEMMA ReadFailsKeeps ==
    ASSUME SessionInvariant, NEW s \in Sessions, ReadFails(s)
    PROVE  SessionInvariant'
<1>1. TypeOK'
  BY SessionAssumption, MessageFields, Zenon
  DEF SessionInvariant, TypeOK, ReadFails, CloseNow, callVars, serverVars
<1>2. SoleSession'
  BY SessionAssumption, Zenon
  DEF SessionInvariant, TypeOK, SoleSession, LifetimeCoherent, ReadFails, CloseNow,
      callVars, serverVars
<1>3. \A t \in Sessions : LifetimeCoherent(t)'
  BY SessionAssumption, SMTT(30)
  DEF SessionInvariant, TypeOK, SoleSession, LifetimeCoherent, ReadFails, CloseNow,
      callVars, serverVars
<1>4. \A e \in Calls : CallCoherent(e)'
  BY SessionAssumption, MessageFields, SMTT(30)
  DEF SessionInvariant, TypeOK, LifetimeCoherent, ExchangeCoherent, CallCoherent,
      Arriving, Outstanding, ReadFails, CloseNow, callVars, serverVars
<1>5. \A t \in Sessions : ExchangeCoherent(t)'
  BY SessionAssumption, MessageFields, SMTT(30)
  DEF SessionInvariant, TypeOK, LifetimeCoherent, ExchangeCoherent, CallCoherent,
      Arriving, Outstanding, ReadFails, CloseNow, callVars, serverVars
<1>6. CapacityReturned'
  BY SessionAssumption, MessageFields
  DEF SessionInvariant, TypeOK, LifetimeCoherent, CapacityReturned, CallCoherent,
      ReadFails, CloseNow, callVars, serverVars
<1>7. AnswerIsOwn'
  BY SessionAssumption, Zenon
  DEF SessionInvariant, TypeOK, CallCoherent, AnswerIsOwn, ReadFails, CloseNow,
      callVars, serverVars
<1>8. ReplyExpected'
  BY <1>1, <1>5, MessageFields, ZenonT(30)
  DEF TypeOK, ExchangeCoherent, Arriving, Outstanding, ReplyExpected
<1> QED BY <1>1, <1>2, <1>3, <1>4, <1>5, <1>6, <1>7, <1>8 DEF SessionInvariant

\* The session that has ended is no longer the current one.
LEMMA ReaderEndsKeeps ==
    ASSUME SessionInvariant, NEW s \in Sessions, ReaderEnds(s)
    PROVE  SessionInvariant'
<1>1. TypeOK'
  BY SessionAssumption, MessageFields, Zenon
  DEF SessionInvariant, TypeOK, ReaderEnds, callVars, serverVars
<1>2. SoleSession'
  BY SessionAssumption, ZenonT(60)
  DEF SessionInvariant, TypeOK, SoleSession, LifetimeCoherent, ReaderEnds, callVars,
      serverVars
<1>3. \A t \in Sessions : LifetimeCoherent(t)'
  BY SessionAssumption, SMTT(30)
  DEF SessionInvariant, TypeOK, SoleSession, LifetimeCoherent, ReaderEnds, callVars,
      serverVars
<1>4. \A e \in Calls : CallCoherent(e)'
  BY SessionAssumption, MessageFields, SMTT(30)
  DEF SessionInvariant, TypeOK, LifetimeCoherent, ExchangeCoherent, CallCoherent,
      Arriving, Outstanding, ReaderEnds, callVars, serverVars
<1>5. \A t \in Sessions : ExchangeCoherent(t)'
  BY SessionAssumption, MessageFields, SMTT(30)
  DEF SessionInvariant, TypeOK, LifetimeCoherent, ExchangeCoherent, CallCoherent,
      Arriving, Outstanding, ReaderEnds, callVars, serverVars
<1>6. CapacityReturned'
  BY SessionAssumption, MessageFields, Zenon
  DEF SessionInvariant, TypeOK, LifetimeCoherent, CapacityReturned, CallCoherent,
      ReaderEnds, callVars, serverVars
<1>7. AnswerIsOwn'
  BY SessionAssumption, Zenon
  DEF SessionInvariant, TypeOK, CallCoherent, AnswerIsOwn, ReaderEnds, callVars,
      serverVars
<1>8. ReplyExpected'
  BY <1>1, <1>5, MessageFields, ZenonT(30)
  DEF TypeOK, ExchangeCoherent, Arriving, Outstanding, ReplyExpected
<1> QED BY <1>1, <1>2, <1>3, <1>4, <1>5, <1>6, <1>7, <1>8 DEF SessionInvariant

\* A registration never takes the map past MaxRequests (call checks under the mutex).
LEMMA RegisterFits ==
    ASSUME SessionInvariant, NEW c \in Calls, Register(c), NEW t \in Sessions
    PROVE  IsFiniteSet(pending'[t]) /\ Cardinality(pending'[t]) <= MaxRequests
<1>1. IsFiniteSet(pending[t]) /\ Cardinality(pending[t]) \in Nat
  BY FS_CardinalityType, Zenon DEF SessionInvariant, LifetimeCoherent
<1>2. CASE pending'[t] = pending[t]
  BY <1>1, <1>2, Zenon DEF SessionInvariant, TypeOK
<1>3. CASE pending'[t] # pending[t]
  <2>1. pending'[t] = pending[t] \cup {c} /\ Cardinality(pending[t]) < MaxRequests
    BY <1>3 DEF SessionInvariant, TypeOK, Register, HasCapacity
  <2>2. /\ IsFiniteSet(pending[t] \cup {c})
        /\ \/ Cardinality(pending[t] \cup {c}) = Cardinality(pending[t])
           \/ Cardinality(pending[t] \cup {c}) = Cardinality(pending[t]) + 1
    BY <1>1, FS_AddElement, ZenonT(30)
  <2> QED BY <1>1, <2>1, <2>2, SessionAssumption
<1> QED BY <1>2, <1>3, Zenon

\* A call takes an entry in the pending map of the current session.
LEMMA RegisterKeeps ==
    ASSUME SessionInvariant, NEW c \in Calls, Register(c)
    PROVE  SessionInvariant'
<1>1. TypeOK'
  <2>1. \A t \in Sessions : Cardinality(pending'[t]) <= MaxRequests
    BY RegisterFits, Zenon
  <2> QED
    BY <2>1, SessionAssumption
    DEF SessionInvariant, TypeOK, Register, Return, serverVars
<1>2. SoleSession'
  BY SessionAssumption, Zenon
  DEF SessionInvariant, TypeOK, SoleSession, LifetimeCoherent, Register, Return,
      HasCapacity, serverVars
<1>3. \A t \in Sessions : LifetimeCoherent(t)'
  <2>1. \A t \in Sessions : IsFiniteSet(pending'[t])
    BY RegisterFits, Zenon
  <2> QED
    BY <2>1, Zenon DEF SessionInvariant, LifetimeCoherent, Register
<1>4. \A e \in Calls : CallCoherent(e)'
  <2>1. CASE session # None /\ HasCapacity(session)
    <3>1. /\ session \in Sessions /\ socket[session] # "unused"
          /\ pending' = [pending EXCEPT ![session] = @ \cup {c}]
          /\ on' = [on EXCEPT ![c] = session]
          /\ step' = [step EXCEPT ![c] = "registered"]
          /\ UNCHANGED <<socket, inbox, served>>
      BY <2>1, SessionAssumption, Zenon
      DEF SessionInvariant, TypeOK, LifetimeCoherent, Register, serverVars
    <3>2. step[c] = "ready" /\ inbox[c] = None /\ \A t \in Sessions : c \notin pending[t]
      BY SessionAssumption, ZenonT(30) DEF SessionInvariant, TypeOK, CallCoherent, Register
    <3> SUFFICES ASSUME NEW e \in Calls PROVE CallCoherent(e)'
      BY Zenon
    <3>3. CASE e = c
      <4>1. on'[c] = session /\ step'[c] = "registered" /\ inbox'[c] = None
        BY <3>1, <3>2, Zenon DEF SessionInvariant, TypeOK
      <4>2. \A t \in Sessions : c \in pending'[t] <=> t = session
        BY <3>1, <3>2, Zenon DEF SessionInvariant, TypeOK
      <4> QED
        BY <2>1, <3>1, <3>3, <4>1, <4>2, Zenon DEF CallCoherent
    <3>4. CASE e # c
      <4>1. on'[e] = on[e] /\ step'[e] = step[e]
        BY <3>1, <3>4, Zenon DEF SessionInvariant, TypeOK
      <4>2. \A t \in Sessions : e \in pending'[t] <=> e \in pending[t]
        BY <3>1, <3>4, Zenon DEF SessionInvariant, TypeOK
      <4> QED
        BY <3>1, <4>1, <4>2 DEF SessionInvariant, TypeOK, CallCoherent
    <3> QED BY <3>3, <3>4, Zenon
  <2>2. CASE ~(session # None /\ HasCapacity(session))
    BY <2>2 DEF SessionInvariant, TypeOK, CallCoherent, Register, Return, serverVars
  <2> QED BY <2>1, <2>2, Zenon
<1>5. \A t \in Sessions : ExchangeCoherent(t)'
  BY SessionAssumption, MessageFields
  DEF SessionInvariant, TypeOK, LifetimeCoherent, ExchangeCoherent, CallCoherent,
      Arriving, Outstanding, Register, Return, HasCapacity, serverVars
<1>6. CapacityReturned'
  BY SessionAssumption, MessageFields, SMTT(30)
  DEF SessionInvariant, TypeOK, LifetimeCoherent, CapacityReturned, CallCoherent,
      Register, Return, HasCapacity, serverVars
<1>7. AnswerIsOwn'
  BY SessionAssumption
  DEF SessionInvariant, TypeOK, CallCoherent, AnswerIsOwn, Register, Return,
      HasCapacity, serverVars
<1>8. ReplyExpected'
  BY <1>1, <1>5, MessageFields, ZenonT(30)
  DEF TypeOK, ExchangeCoherent, Arriving, Outstanding, ReplyExpected
<1> QED BY <1>1, <1>2, <1>3, <1>4, <1>5, <1>6, <1>7, <1>8, Zenon DEF SessionInvariant

\* A request is written for the first time.
LEMMA WriteKeeps ==
    ASSUME SessionInvariant, NEW c \in Calls, Write(c)
    PROVE  SessionInvariant'
<1>1. TypeOK'
  BY SessionAssumption, MessageFields, ZenonT(30) DEF SessionInvariant, TypeOK, Write, readVars
<1>2. SoleSession'
  BY SessionAssumption, Zenon
  DEF SessionInvariant, TypeOK, SoleSession, LifetimeCoherent, Write, readVars
<1>3. \A t \in Sessions : LifetimeCoherent(t)'
  BY SessionAssumption, Zenon
  DEF SessionInvariant, TypeOK, SoleSession, LifetimeCoherent, Write, readVars
<1>4. \A e \in Calls : CallCoherent(e)'
  BY SessionAssumption, MessageFields
  DEF SessionInvariant, TypeOK, LifetimeCoherent, ExchangeCoherent, CallCoherent,
      Arriving, Outstanding, Write, readVars
<1>5. \A t \in Sessions : ExchangeCoherent(t)'
  <2>1. PICK s \in Sessions : s = on[c]
    BY ZenonT(30) DEF SessionInvariant, TypeOK, CallCoherent, Write
  <2>2. /\ step[c] = "registered" /\ c \in pending[s]
        /\ requests' = [requests EXCEPT ![s] = @ \cup {c}]
        /\ step' = [step EXCEPT ![c] = "waiting"]
        /\ UNCHANGED <<on, socket, pending, held, replies, served>>
    BY <2>1, ZenonT(30) DEF SessionInvariant, TypeOK, CallCoherent, Write, readVars
  <2>3. \A e \in Calls : e # c => step'[e] = step[e]
    BY <2>2, Zenon DEF SessionInvariant, TypeOK
  <2>4. \A e \in Calls, t \in Sessions : Outstanding(e, t) => e # c /\ Outstanding(e, t)'
    BY <2>2, <2>3, Zenon DEF Outstanding
  <2>5. Outstanding(c, s)'
    BY <2>1, <2>2, Zenon DEF SessionInvariant, TypeOK, Outstanding
  <2> SUFFICES ASSUME NEW t \in Sessions PROVE ExchangeCoherent(t)'
    BY Zenon
  <2>6. \A e \in requests'[t] : e \in requests[t] \/ (e = c /\ t = s)
    BY <2>2, Zenon DEF SessionInvariant, TypeOK
  <2>7. \A e \in requests[t] : e \in Calls /\ Outstanding(e, t)
    BY Zenon DEF SessionInvariant, TypeOK, ExchangeCoherent
  <2>8. \A m \in Arriving(t) : m[1] \in Calls /\ Outstanding(m[1], t)
    BY ArrivingType, MessageFields, ZenonT(30) DEF SessionInvariant, ExchangeCoherent
  <2>9. \A e \in requests'[t] : Outstanding(e, t)'
    BY <2>4, <2>5, <2>6, <2>7, Zenon
  <2>10. \A m \in Arriving(t) : Outstanding(m[1], t)' /\ m[1] \notin requests'[t]
    BY <2>4, <2>6, <2>8, ZenonT(30) DEF SessionInvariant, ExchangeCoherent
  <2> QED
    BY <2>2, <2>9, <2>10 DEF SessionInvariant, ExchangeCoherent, Arriving
<1>6. CapacityReturned'
  BY SessionAssumption, MessageFields
  DEF SessionInvariant, TypeOK, LifetimeCoherent, CapacityReturned, CallCoherent,
      Write, readVars
<1>7. AnswerIsOwn'
  BY SessionAssumption, SMTT(30)
  DEF SessionInvariant, TypeOK, CallCoherent, AnswerIsOwn, Write, readVars
<1>8. ReplyExpected'
  BY <1>1, <1>5, MessageFields, ZenonT(30)
  DEF TypeOK, ExchangeCoherent, Arriving, Outstanding, ReplyExpected
<1> QED BY <1>1, <1>2, <1>3, <1>4, <1>5, <1>6, <1>7, <1>8 DEF SessionInvariant

\* A write that fails closes the connection, whether or not it was sent.
LEMMA WriteFailsKeeps ==
    ASSUME SessionInvariant, NEW c \in Calls, WriteFails(c)
    PROVE  SessionInvariant'
<1>1. TypeOK'
  <2>1. on[c] \in Sessions
    BY ZenonT(30) DEF SessionInvariant, TypeOK, CallCoherent, WriteFails
  <2>2. requests' \in [Sessions -> SUBSET Calls]
    BY <2>1 DEF SessionInvariant, TypeOK, WriteFails
  <2> QED
    BY <2>1, <2>2, ZenonT(30) DEF SessionInvariant, TypeOK, WriteFails, CloseNow, Return
<1>2. SoleSession'
  BY SessionAssumption, Zenon
  DEF SessionInvariant, TypeOK, SoleSession, LifetimeCoherent, WriteFails, CloseNow,
      Return
<1>3. \A t \in Sessions : LifetimeCoherent(t)'
  <2>1. on[c] \in Sessions /\ socket[on[c]] # "unused"
    BY ZenonT(30) DEF SessionInvariant, TypeOK, CallCoherent, WriteFails
  <2> QED
    BY <2>1, ZenonT(60) DEF SessionInvariant, TypeOK, LifetimeCoherent, WriteFails, CloseNow
<1>4. \A e \in Calls : CallCoherent(e)'
  BY SessionAssumption, MessageFields
  DEF SessionInvariant, TypeOK, LifetimeCoherent, ExchangeCoherent, CallCoherent,
      Arriving, Outstanding, WriteFails, CloseNow, Return
<1>5. \A t \in Sessions : ExchangeCoherent(t)'
  BY SessionAssumption, MessageFields
  DEF SessionInvariant, TypeOK, LifetimeCoherent, ExchangeCoherent, CallCoherent,
      Arriving, Outstanding, WriteFails, CloseNow, Return
<1>6. CapacityReturned'
  BY SessionAssumption, MessageFields, SMTT(30)
  DEF SessionInvariant, TypeOK, LifetimeCoherent, CapacityReturned, CallCoherent,
      WriteFails, CloseNow, Return
<1>7. AnswerIsOwn'
  BY SessionAssumption, Zenon
  DEF SessionInvariant, TypeOK, CallCoherent, AnswerIsOwn, WriteFails, CloseNow, Return
<1>8. ReplyExpected'
  BY <1>1, <1>5, MessageFields, ZenonT(30)
  DEF TypeOK, ExchangeCoherent, Arriving, Outstanding, ReplyExpected
<1> QED BY <1>1, <1>2, <1>3, <1>4, <1>5, <1>6, <1>7, <1>8 DEF SessionInvariant

\* The reply in the channel is of the call itself.
LEMMA TakeReplyKeeps ==
    ASSUME SessionInvariant, NEW c \in Calls, TakeReply(c)
    PROVE  SessionInvariant'
<1>1. TypeOK'
  BY SessionAssumption, MessageFields, Zenon
  DEF SessionInvariant, TypeOK, TakeReply, readVars, serverVars
<1>2. SoleSession'
  BY SessionAssumption, Zenon
  DEF SessionInvariant, TypeOK, SoleSession, LifetimeCoherent, TakeReply, readVars,
      serverVars
<1>3. \A t \in Sessions : LifetimeCoherent(t)'
  BY SessionAssumption, Zenon
  DEF SessionInvariant, TypeOK, SoleSession, LifetimeCoherent, TakeReply, readVars,
      serverVars
<1>4. \A e \in Calls : CallCoherent(e)'
  BY SessionAssumption, MessageFields, SMTT(30)
  DEF SessionInvariant, TypeOK, LifetimeCoherent, ExchangeCoherent, CallCoherent,
      Arriving, Outstanding, TakeReply, readVars, serverVars
<1>5. \A t \in Sessions : ExchangeCoherent(t)'
  BY SessionAssumption, MessageFields
  DEF SessionInvariant, TypeOK, LifetimeCoherent, ExchangeCoherent, CallCoherent,
      Arriving, Outstanding, TakeReply, readVars, serverVars
<1>6. CapacityReturned'
  <2>1. \A s \in Sessions : c \notin pending[s]
    BY ZenonT(30) DEF SessionInvariant, TypeOK, CallCoherent, TakeReply
  <2> QED
    BY <2>1 DEF SessionInvariant, TypeOK, CapacityReturned, TakeReply, readVars
<1>7. AnswerIsOwn'
  BY SessionAssumption, Zenon
  DEF SessionInvariant, TypeOK, CallCoherent, AnswerIsOwn, TakeReply, readVars,
      serverVars
<1>8. ReplyExpected'
  BY <1>1, <1>5, MessageFields, ZenonT(30)
  DEF TypeOK, ExchangeCoherent, Arriving, Outstanding, ReplyExpected
<1> QED BY <1>1, <1>2, <1>3, <1>4, <1>5, <1>6, <1>7, <1>8 DEF SessionInvariant

\* A call that gives up finds its connection closed, or closes it.
LEMMA GivesUpKeeps ==
    ASSUME SessionInvariant, NEW c \in Calls, Cancelled(c) \/ Disconnected(c)
    PROVE  SessionInvariant'
<1>1. TypeOK'
  BY SessionAssumption, MessageFields
  DEF SessionInvariant, TypeOK, Cancelled, Disconnected, CloseNow, Return, readVars,
      serverVars
<1>2. SoleSession'
  BY SessionAssumption, Zenon
  DEF SessionInvariant, TypeOK, SoleSession, LifetimeCoherent, Cancelled, Disconnected,
      CloseNow, Return, readVars, serverVars
<1>3. \A t \in Sessions : LifetimeCoherent(t)'
  <2>1. on[c] \in Sessions /\ socket[on[c]] # "unused"
    BY ZenonT(30) DEF SessionInvariant, TypeOK, CallCoherent, Cancelled, Disconnected
  <2> QED
    BY <2>1
    DEF SessionInvariant, TypeOK, LifetimeCoherent, Cancelled, Disconnected, CloseNow,
        readVars
<1>4. \A e \in Calls : CallCoherent(e)'
  BY SessionAssumption, MessageFields
  DEF SessionInvariant, TypeOK, LifetimeCoherent, ExchangeCoherent, CallCoherent,
      Arriving, Outstanding, Cancelled, Disconnected, CloseNow, Return, readVars,
      serverVars
<1>5. \A t \in Sessions : ExchangeCoherent(t)'
  BY SessionAssumption, MessageFields
  DEF SessionInvariant, TypeOK, LifetimeCoherent, ExchangeCoherent, CallCoherent,
      Arriving, Outstanding, Cancelled, Disconnected, CloseNow, Return, readVars,
      serverVars
<1>6. CapacityReturned'
  BY SessionAssumption, MessageFields, SMTT(30)
  DEF SessionInvariant, TypeOK, LifetimeCoherent, CapacityReturned, CallCoherent,
      Cancelled, Disconnected, CloseNow, Return, readVars, serverVars
<1>7. AnswerIsOwn'
  BY SessionAssumption
  DEF SessionInvariant, TypeOK, CallCoherent, AnswerIsOwn, Cancelled, Disconnected,
      CloseNow, Return, readVars, serverVars
<1>8. ReplyExpected'
  BY <1>1, <1>5, MessageFields, ZenonT(30)
  DEF TypeOK, ExchangeCoherent, Arriving, Outstanding, ReplyExpected
<1> QED BY <1>1, <1>2, <1>3, <1>4, <1>5, <1>6, <1>7, <1>8, Zenon DEF SessionInvariant

\* The server answers a request: the request becomes its reply.
LEMMA ServeKeeps ==
    ASSUME SessionInvariant, NEW s \in Sessions, Serve(s)
    PROVE  SessionInvariant'
<1>1. TypeOK'
  <2>1. PICK c \in requests[s], r \in Replies :
          /\ requests' = [requests EXCEPT ![s] = @ \ {c}]
          /\ served' = served \cup {<<c, s>>}
          /\ replies' = [replies EXCEPT ![s] = @ \cup {<<c, r>>}]
          /\ UNCHANGED <<readVars, callVars, loop>>
    BY ZenonT(30) DEF Serve
  <2>2. c \in Calls /\ <<c, r>> \in Message /\ <<c, s>> \in Calls \X Sessions
    BY Zenon DEF SessionInvariant, TypeOK, Message
  <2> QED
    BY <2>1, <2>2, ZenonT(60) DEF SessionInvariant, TypeOK, readVars, callVars
<1>2. SoleSession'
  BY SessionAssumption, Zenon
  DEF SessionInvariant, TypeOK, SoleSession, LifetimeCoherent, Serve, readVars,
      callVars
<1>3. \A t \in Sessions : LifetimeCoherent(t)'
  BY SessionAssumption, SMTT(30)
  DEF SessionInvariant, TypeOK, SoleSession, LifetimeCoherent, Serve, readVars,
      callVars
<1>4. \A e \in Calls : CallCoherent(e)'
  BY SessionAssumption, MessageFields, SMTT(30)
  DEF SessionInvariant, TypeOK, LifetimeCoherent, ExchangeCoherent, CallCoherent,
      Arriving, Outstanding, Serve, readVars, callVars
<1>5. \A t \in Sessions : ExchangeCoherent(t)'
  <2>1. PICK c \in requests[s], r \in Replies :
          /\ requests' = [requests EXCEPT ![s] = @ \ {c}]
          /\ served' = served \cup {<<c, s>>}
          /\ replies' = [replies EXCEPT ![s] = @ \cup {<<c, r>>}]
          /\ UNCHANGED <<readVars, callVars, loop>>
    BY ZenonT(30) DEF Serve
  <2> DEFINE m == <<c, r>>
  <2>2. c \in Calls /\ m \in Message /\ m[1] = c /\ m # None
    BY MessageFields, Zenon DEF SessionInvariant, TypeOK, Message
  <2> HIDE DEF m
  <2>3. Outstanding(c, s) /\ \A n \in Arriving(s) : n[1] # c
    BY <2>1, ZenonT(30) DEF SessionInvariant, ExchangeCoherent
  <2>4. \A e, t : Outstanding(e, t)' <=> Outstanding(e, t)
    BY <2>1, Zenon DEF Outstanding, readVars, callVars
  <2> SUFFICES ASSUME NEW t \in Sessions PROVE ExchangeCoherent(t)'
    BY Zenon
  <2>5. CASE t = s
    <3>1. /\ Arriving(s)' = Arriving(s) \cup {m}
          /\ requests'[s] = requests[s] \ {c}
          /\ replies'[s] = replies[s] \cup {m}
      BY <2>1, Zenon DEF SessionInvariant, TypeOK, Arriving, readVars, m
    <3>2. held'[s] \notin replies'[s]
      <4>1. held'[s] = held[s] /\ held[s] \notin replies[s]
        BY <2>1, Zenon DEF SessionInvariant, ExchangeCoherent, readVars
      <4>2. held[s] # m
        BY <2>2, <2>3, Zenon DEF Arriving
      <4> QED BY <3>1, <4>1, <4>2, Zenon
    <3> QED
      BY <2>1, <2>2, <2>3, <2>4, <2>5, <3>1, <3>2, Zenon DEF SessionInvariant, ExchangeCoherent
  <2>6. CASE t # s
    <3>1. UNCHANGED <<Arriving(t), requests[t], replies[t], held[t]>>
      BY <2>1, <2>6, ZenonT(60) DEF SessionInvariant, TypeOK, Arriving, readVars
    <3> QED
      BY <2>1, <2>4, <3>1, SMTT(30) DEF SessionInvariant, ExchangeCoherent
  <2> QED BY <2>5, <2>6, Zenon
<1>6. CapacityReturned'
  BY SessionAssumption, MessageFields, SMTT(30)
  DEF SessionInvariant, TypeOK, LifetimeCoherent, CapacityReturned, CallCoherent,
      Serve, readVars, callVars
<1>7. AnswerIsOwn'
  BY SessionAssumption, Zenon
  DEF SessionInvariant, TypeOK, CallCoherent, AnswerIsOwn, Serve, readVars, callVars
<1>8. ReplyExpected'
  BY <1>1, <1>5, MessageFields, ZenonT(30)
  DEF TypeOK, ExchangeCoherent, Arriving, Outstanding, ReplyExpected
<1> QED BY <1>1, <1>2, <1>3, <1>4, <1>5, <1>6, <1>7, <1>8 DEF SessionInvariant

\* Every step keeps the invariant.
LEMMA SessionStep ==
    ASSUME SessionInvariant, [Next]_vars
    PROVE  SessionInvariant'
<1>1. CASE UNCHANGED vars
  BY <1>1, SMTT(30)
  DEF SessionInvariant, TypeOK, SoleSession, CapacityReturned, ReplyExpected,
      AnswerIsOwn, LifetimeCoherent, ExchangeCoherent, CallCoherent, Arriving,
      Outstanding, vars
<1>2. CASE Next
  BY <1>2, ConnectKeeps, CloseKeeps, ReadKeeps, DispatchKeeps, ReadFailsKeeps,
     ReaderEndsKeeps, RegisterKeeps, WriteKeeps, WriteFailsKeeps, TakeReplyKeeps,
     GivesUpKeeps, ServeKeeps, Zenon
  DEF Next, ReaderStep, CallStep
<1> QED BY <1>1, <1>2, ZenonT(60)

\* Nothing is connected, registered or sent at first.
LEMMA InitSession == Init => SessionInvariant
<1> SUFFICES ASSUME Init PROVE SessionInvariant
  BY Zenon
<1>1. TypeOK
  BY SessionAssumption, FS_EmptySet DEF Init, TypeOK
<1>2. \A s \in Sessions : LifetimeCoherent(s) /\ ExchangeCoherent(s)
  BY SessionAssumption, FS_EmptySet, Zenon
  DEF Init, LifetimeCoherent, ExchangeCoherent, Arriving
<1>3. \A c \in Calls : CallCoherent(c)
  BY Zenon DEF Init, CallCoherent
<1>4. SoleSession /\ CapacityReturned /\ ReplyExpected /\ AnswerIsOwn
  BY Zenon DEF Init, SoleSession, CapacityReturned, ReplyExpected, AnswerIsOwn
<1> QED BY <1>1, <1>2, <1>3, <1>4, Zenon DEF SessionInvariant

\* In every state the pending map holds at most MaxHostRequests entries, those of
\* an open connection all of calls that wait, and each request has at most one
\* message on its way, whose entry the reader finds (call, read).
THEOREM SessionCorrect == Spec => []SessionInvariant
BY InitSession, SessionStep, PTL DEF Spec

\* No two sessions ever run: a reader that has not ended is the one of the current
\* session (Connect, Close).
THEOREM SoleSessionCorrect == Spec => []SoleSession
<1>1. SessionInvariant => SoleSession
  BY Zenon DEF SessionInvariant
<1> QED BY <1>1, SessionCorrect, PTL

\* A call that returns without an error was applied by the server, in the session
\* the call was written to, whatever was cancelled, lost or reordered (call).
THEOREM AnswerIsOwnCorrect == Spec => []AnswerIsOwn
<1>1. SessionInvariant => AnswerIsOwn
  BY Zenon DEF SessionInvariant
<1> QED BY <1>1, SessionCorrect, PTL
============================================================================
