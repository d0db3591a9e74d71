------------------------------ MODULE Registry ------------------------------
(***************************************************************************)
(* What the host promises Airlock about its connectors, without the store, *)
(* the journal, the session or the network: it offers registrations, each  *)
(* newer than all it offered before for the connector, and Airlock moves   *)
(* only forward through them.                                              *)
(***************************************************************************)
EXTENDS Naturals

CONSTANTS
    Ids,        \* connector ids
    NoView      \* the registration of a connector that is not installed

VARIABLES
    offered,    \* every registration offered: [id, revision, view]
    server      \* [Ids -> Airlock's revision and view of the connector]

Init ==
    /\ offered = {}
    /\ server = [id \in Ids |-> [revision |-> 0, view |-> NoView]]

\* The host offers registrations of some connectors, one of each.
Offer ==
    /\ offered \subseteq offered'
    /\ \A n \in offered' \ offered : n.id \in Ids
    /\ \A n \in offered' \ offered, o \in offered' :
          n.id = o.id => o = n \/ o.revision < n.revision
    /\ UNCHANGED server

\* Airlock moves to a newer registration.
Learn(id) ==
    \E o \in offered :
        /\ o.id = id
        /\ o.revision > server[id].revision
        /\ server' = [server EXCEPT ![id] = [revision |-> o.revision, view |-> o.view]]
        /\ UNCHANGED offered

Next == Offer \/ \E id \in Ids : Learn(id)

Spec == Init /\ [][Next]_<<offered, server>>
=============================================================================
