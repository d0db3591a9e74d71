------------------------------ MODULE Session ------------------------------
(***************************************************************************)
(* The control session (client.go): one WebSocket at a time, a reader      *)
(* goroutine per session, and any number of goroutines in call, each       *)
(* waiting for the reply with its own request ID.  serveRemote (host.go)   *)
(* connects, and closes the client when the session fails.                 *)
(*                                                                         *)
(* A call is one invocation of ControlClient.call; the atomic sequence     *)
(* makes its request ID unique, so the call stands for its ID.  The server *)
(* is external: it answers every request at most once, in any order, and   *)
(* may apply a request whose session is already closed.                    *)
(***************************************************************************)
EXTENDS Integers, FiniteSets

CONSTANTS
    Calls,        \* invocations of call
    MaxSessions,  \* bound: sessions opened
    MaxRequests,  \* protocol.MaxHostRequests
    None          \* nil, or an empty channel

Sessions == 1..MaxSessions

\* A reply is what the caller expects, or an error or a reply of another kind.
Replies == {"expected", "error"}

Message == Calls \X Replies

ASSUME SessionAssumption ==
    /\ MaxSessions \in Nat
    /\ MaxRequests \in Nat \ {0}
    /\ None \notin Sessions \cup Message \cup Replies

VARIABLES
    session,   \* ControlClient.session
    socket,    \* [Sessions -> the connection of the session]
    reader,    \* [Sessions -> its read goroutine; "ended" closes done]
    pending,   \* [Sessions -> the calls with an entry in its pending map]
    held,      \* [Sessions -> the message the reader took off the socket, or None]
    step,      \* [Calls -> where the call is]
    on,        \* [Calls -> the session it registered with, or None]
    inbox,     \* [Calls -> what is in its reply channel, or None]
    loop,      \* serveRemote: "down", "up" or "closing"
    requests,  \* [Sessions -> the calls the server can still read]
    replies,   \* [Sessions -> the messages on their way to the host]
    served     \* external: the calls the server applied, with their session

readVars   == <<session, socket, reader, pending, held>>
callVars   == <<step, on, inbox>>
serverVars == <<requests, replies, served>>
vars == <<session, socket, reader, pending, held, step, on, inbox, loop, requests,
          replies, served>>

Init ==
    /\ session = None
    /\ socket = [s \in Sessions |-> "unused"]
    /\ reader = [s \in Sessions |-> "unborn"]
    /\ pending = [s \in Sessions |-> {}]
    /\ held = [s \in Sessions |-> None]
    /\ step = [c \in Calls |-> "ready"]
    /\ on = [c \in Calls |-> None]
    /\ inbox = [c \in Calls |-> None]
    /\ loop = "down"
    /\ requests = [s \in Sessions |-> {}]
    /\ replies = [s \in Sessions |-> {}]
    /\ served = {}

----------------------------------------------------------------------------
(* serveRemote and the lifetime of a session.                              *)

\* A dial that fails changes nothing and is tried again.
Connect(s) ==
    /\ loop = "down"
    /\ session = None
    /\ socket[s] = "unused"
    /\ \A earlier \in 1..(s - 1) : socket[earlier] # "unused"
    /\ session' = s
    /\ socket' = [socket EXCEPT ![s] = "open"]
    /\ reader' = [reader EXCEPT ![s] = "reading"]
    /\ loop' = "up"
    /\ UNCHANGED <<pending, held, callVars, serverVars>>

CloseNow(s) == socket' = [socket EXCEPT ![s] = "closed"]

\* runSession ends when a worker's call fails or the host stops; Close then ends
\* whatever session there is.
Close ==
    /\ loop = "up"
    /\ loop' = "closing"
    /\ IF session = None THEN UNCHANGED socket ELSE CloseNow(session)
    /\ UNCHANGED <<session, reader, pending, held, callVars, serverVars>>

\* Mutant: Close does not wait for the reader.
CloseReturnsAtOnce ==
    /\ loop = "closing"
    /\ loop' = "down"
    /\ session' = None
    /\ UNCHANGED <<socket, reader, pending, held, callVars, serverVars>>

CloseReturns ==
    /\ loop = "closing"
    /\ \A s \in Sessions : reader[s] \in {"unborn", "ended"}
    /\ loop' = "down"
    /\ UNCHANGED <<readVars, callVars, serverVars>>

----------------------------------------------------------------------------
(* The reader.                                                             *)

\* Read returns a message; it is looked up in a later step, under the mutex.
Read(s) ==
    /\ reader[s] = "reading"
    /\ held[s] = None
    /\ socket[s] = "open"
    /\ \E m \in replies[s] :
          /\ held' = [held EXCEPT ![s] = m]
          /\ replies' = [replies EXCEPT ![s] = @ \ {m}]
    /\ UNCHANGED <<session, socket, reader, pending, callVars, loop, requests, served>>

\* Mutant: a reply goes to any call that waits.
DispatchToAny(s) ==
    /\ held[s] # None
    /\ \E c \in pending[s] :
          /\ pending' = [pending EXCEPT ![s] = @ \ {c}]
          /\ inbox' = [inbox EXCEPT ![c] = held[s][2]]
    /\ held' = [held EXCEPT ![s] = None]
    /\ UNCHANGED <<session, socket, reader, step, on, loop, serverVars>>

\* A reply that no call waits for ends the session.
Dispatch(s) ==
    /\ held[s] # None
    /\ LET c == held[s][1]
       IN  IF c \in pending[s]
           THEN /\ pending' = [pending EXCEPT ![s] = @ \ {c}]
                /\ inbox' = [inbox EXCEPT ![c] = held[s][2]]
                /\ UNCHANGED <<socket, reader>>
           ELSE /\ reader' = [reader EXCEPT ![s] = "ending"]
                /\ CloseNow(s)
                /\ UNCHANGED <<pending, inbox>>
    /\ held' = [held EXCEPT ![s] = None]
    /\ UNCHANGED <<session, step, on, loop, serverVars>>

\* The connection is closed or lost, or brings something that is no reply.
ReadFails(s) ==
    /\ reader[s] = "reading"
    /\ held[s] = None
    /\ reader' = [reader EXCEPT ![s] = "ending"]
    /\ CloseNow(s)
    /\ UNCHANGED <<session, pending, held, callVars, loop, serverVars>>

\* Mutant: a session that is no longer current does not close done.
ReaderEndsSilently(s) ==
    /\ reader[s] = "ending"
    /\ session = s
    /\ session' = None
    /\ UNCHANGED <<socket, reader, pending, held, callVars, loop, serverVars>>

ReaderEnds(s) ==
    /\ reader[s] = "ending"
    /\ reader' = [reader EXCEPT ![s] = "ended"]
    /\ session' = IF session = s THEN None ELSE session
    /\ UNCHANGED <<socket, pending, held, callVars, loop, serverVars>>

----------------------------------------------------------------------------
(* ControlClient.call.                                                     *)

Return(c) == step' = [step EXCEPT ![c] = "failed"]

HasCapacity(s) == Cardinality(pending[s]) < MaxRequests

Register(c) ==
    /\ step[c] = "ready"
    /\ IF session # None /\ HasCapacity(session)
       THEN /\ pending' = [pending EXCEPT ![session] = @ \cup {c}]
            /\ on' = [on EXCEPT ![c] = session]
            /\ step' = [step EXCEPT ![c] = "registered"]
       ELSE /\ Return(c)
            /\ UNCHANGED <<pending, on>>
    /\ UNCHANGED <<session, socket, reader, held, inbox, loop, serverVars>>

Write(c) ==
    /\ step[c] = "registered"
    /\ socket[on[c]] = "open"
    /\ requests' = [requests EXCEPT ![on[c]] = @ \cup {c}]
    /\ step' = [step EXCEPT ![c] = "waiting"]
    /\ UNCHANGED <<readVars, on, inbox, loop, replies, served>>

\* A write that fails may have reached the server all the same.
WriteFails(c) ==
    /\ step[c] = "registered"
    /\ requests' \in {requests, [requests EXCEPT ![on[c]] = @ \cup {c}]}
    /\ socket[on[c]] = "closed" => UNCHANGED requests
    /\ CloseNow(on[c])
    /\ Return(c)
    /\ UNCHANGED <<session, reader, pending, held, on, inbox, loop, replies, served>>

\* The caller takes any reply but the expected kind for an error.
TakeReply(c) ==
    /\ step[c] = "waiting"
    /\ inbox[c] # None
    /\ step' = [step EXCEPT ![c] =
                   IF inbox[c] = "expected" THEN "answered" ELSE "failed"]
    /\ UNCHANGED <<readVars, on, inbox, loop, serverVars>>

\* Mutant: a call that gives up leaves the session open.
CancelledOpen(c) ==
    /\ step[c] = "waiting"
    /\ Return(c)
    /\ UNCHANGED <<readVars, on, inbox, loop, serverVars>>

\* The context ends: the session is closed and with it every other call's.
Cancelled(c) ==
    /\ step[c] = "waiting"
    /\ CloseNow(on[c])
    /\ Return(c)
    /\ UNCHANGED <<session, reader, pending, held, on, inbox, loop, serverVars>>

\* select takes this branch even when a reply is in the channel.
Disconnected(c) ==
    /\ step[c] = "waiting"
    /\ reader[on[c]] = "ended"
    /\ Return(c)
    /\ UNCHANGED <<readVars, on, inbox, loop, serverVars>>

----------------------------------------------------------------------------

Serve(s) ==
    \E c \in requests[s] : \E r \in Replies :
        /\ requests' = [requests EXCEPT ![s] = @ \ {c}]
        /\ served' = served \cup {<<c, s>>}
        /\ replies' = [replies EXCEPT ![s] = @ \cup {<<c, r>>}]
        /\ UNCHANGED <<readVars, callVars, loop>>

CallStep(c) ==
    Register(c) \/ Write(c) \/ WriteFails(c) \/ TakeReply(c) \/ Cancelled(c)
    \/ Disconnected(c)

ReaderStep(s) == Read(s) \/ Dispatch(s) \/ ReadFails(s) \/ ReaderEnds(s)

Next ==
    \/ Close
    \/ CloseReturns
    \/ \E s \in Sessions : Connect(s) \/ ReaderStep(s) \/ Serve(s)
    \/ \E c \in Calls : CallStep(c)

Spec == Init /\ [][Next]_vars

\* Goroutines keep running.  Nothing makes the server answer, the network fail or a
\* context end; a closed connection fails its Read and its Write.
FairSpec ==
    /\ Spec
    /\ WF_vars(CloseReturns)
    /\ \A s \in Sessions :
          /\ WF_vars(Dispatch(s))
          /\ WF_vars(ReaderEnds(s))
          /\ WF_vars(socket[s] = "closed" /\ ReadFails(s))
    /\ \A c \in Calls :
          /\ WF_vars(Write(c) \/ WriteFails(c))
          /\ WF_vars(TakeReply(c) \/ Disconnected(c))

----------------------------------------------------------------------------
(* Properties.                                                             *)

TypeOK ==
    /\ session \in Sessions \cup {None}
    /\ socket \in [Sessions -> {"unused", "open", "closed"}]
    /\ reader \in [Sessions -> {"unborn", "reading", "ending", "ended"}]
    /\ pending \in [Sessions -> SUBSET Calls]
    /\ \A s \in Sessions : Cardinality(pending[s]) <= MaxRequests
    /\ held \in [Sessions -> Message \cup {None}]
    /\ step \in [Calls -> {"ready", "registered", "waiting", "answered", "failed"}]
    /\ on \in [Calls -> Sessions \cup {None}]
    /\ inbox \in [Calls -> Replies \cup {None}]
    /\ loop \in {"down", "up", "closing"}
    /\ requests \in [Sessions -> SUBSET Calls]
    /\ replies \in [Sessions -> SUBSET Message]
    /\ served \in SUBSET (Calls \X Sessions)

\* client.go "Connect installs the sole outbound session": a session whose reader
\* has not ended is the current one, so no two sessions ever run.
SoleSession ==
    \A s \in Sessions : reader[s] \in {"reading", "ending"} => session = s

\* The entries of the pending map of an open connection all belong to calls that
\* still wait for their reply: calls that gave up take no request capacity.
CapacityReturned ==
    \A s \in Sessions :
        socket[s] = "open" =>
            \A c \in pending[s] : on[c] = s /\ step[c] \in {"registered", "waiting"}

\* A reply to a request of an open session finds its entry: a call that gave up
\* earlier never makes the reader drop the session of the others.
ReplyExpected ==
    \A s \in Sessions :
        socket[s] = "open" /\ held[s] # None => held[s][1] \in pending[s]

\* A call that returns without an error was applied by the server, in the session
\* the call was written to.
AnswerIsOwn ==
    \A c \in Calls : step[c] = "answered" => <<c, on[c]>> \in served

\* Every call whose connection is closed returns, whoever closed it: its own write,
\* another call's timeout, the reader or Close.
ClosedSessionReleasesCalls ==
    \A c \in Calls :
        on[c] # None /\ socket[on[c]] = "closed"
        ~> step[c] \in {"answered", "failed"}

\* Close, which waits for the reader, returns.
CloseEnds == loop = "closing" ~> loop = "down"

----------------------------------------------------------------------------
(* The inductive invariant behind SoleSession and AnswerIsOwn.             *)

\* The connection, the reader and the current session agree; a reader that holds
\* a message reads.
LifetimeCoherent(s) ==
    /\ socket[s] = "unused" <=> reader[s] = "unborn"
    /\ reader[s] \in {"ending", "ended"} => socket[s] = "closed"
    /\ session = s => reader[s] \in {"reading", "ending"}
    /\ held[s] # None => reader[s] = "reading"
    /\ IsFiniteSet(pending[s])

\* The replies the host has yet to dispatch.
Arriving(s) == replies[s] \cup ({held[s]} \ {None})

\* A call that was written to the session and not yet answered: while the
\* connection is open its entry is still in the pending map.
Outstanding(c, s) ==
    /\ on[c] = s
    /\ step[c] \notin {"ready", "registered"}
    /\ socket[s] = "open" => c \in pending[s]

\* Every call is a request, a reply on its way or a reply held, never two of them,
\* so the reply that is dispatched is the last message of its call.
ExchangeCoherent(s) ==
    /\ \A c \in requests[s] : Outstanding(c, s)
    /\ \A m \in Arriving(s) :
          /\ Outstanding(m[1], s)
          /\ m[1] \notin requests[s]
          /\ <<m[1], s>> \in served
          /\ \A n \in Arriving(s) : m[1] = n[1] => m = n
    /\ held[s] \notin replies[s]

\* A call has an entry in the map of its own session only, from its registration
\* until the reply is in its channel.
CallCoherent(c) ==
    /\ step[c] = "ready" => on[c] = None
    /\ step[c] \in {"registered", "waiting", "answered"} => on[c] # None
    /\ on[c] # None => socket[on[c]] # "unused"
    /\ \A s \in Sessions : c \in pending[s] => on[c] = s
    /\ step[c] = "registered" => c \in pending[on[c]]
    /\ inbox[c] # None =>
          /\ step[c] \notin {"ready", "registered"}
          /\ on[c] # None
          /\ <<c, on[c]>> \in served
          /\ c \notin pending[on[c]]

\* In every state the pending map holds at most MaxHostRequests entries, all of
\* calls that wait, and the reader finds the entry of the reply it holds: every
\* request has one reply, which goes to the call that sent it.
SessionInvariant ==
    /\ TypeOK
    /\ SoleSession
    /\ CapacityReturned
    /\ ReplyExpected
    /\ AnswerIsOwn
    /\ \A s \in Sessions : LifetimeCoherent(s) /\ ExchangeCoherent(s)
    /\ \A c \in Calls : CallCoherent(c)
============================================================================
