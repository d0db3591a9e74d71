---------------------------- MODULE MCManagement ---------------------------
EXTENDS Management, TLC

CONSTANTS i1, j1, j2, a1, a2, a3, s1, o0, o1

NoContract == [a \in Artifacts |-> None]

First(a) == [artifact |-> a, settings |-> s1, origins |-> o0]

\* One connector, as a remote installation and a remote update leave it.
RemotelyInstalled == PutRemoteConnector(EmptyState, i1, FirstRecord(First(a1)))

RemotelyUpdated ==
    PutRemoteConnector(EmptyState, i1, UpdatedRecord(FirstRecord(First(a1)), First(a2)))

\* After a remote update to the artifact and settings already installed.
SameSlots ==
    PutRemoteConnector(EmptyState, i1, UpdatedRecord(FirstRecord(First(a1)), First(a1)))

Job(kind) == j1 :> [kind |-> kind, id |-> i1]

Then(kind) == j2 :> [kind |-> kind, id |-> i1]

Starting(states, works, local) == [state : states, work : works, local : {local}]

AnyState == {EmptyState, RemotelyInstalled, RemotelyUpdated}

\* One operation at a time: an update, a rollback, a shell command, or an
\* installation that is removed again.
SingleJobs ==
    Starting(AnyState, {Job("update"), Job("rollback"), Job("shell"),
                        Job("install") @@ Then("remove")}, {})

\* An update followed by a rollback; an update between local commands.
MixedJobs ==
    Starting(AnyState, {Job("update") @@ Then("rollback")}, {})
    \cup Starting(AnyState, {Job("update")}, {i1})

\* A rollback between equal slots.
EqualSlots == Starting({SameSlots}, {Job("rollback")}, {})
============================================================================
