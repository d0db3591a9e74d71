-------------------------- MODULE InventoryProofs --------------------------
(***************************************************************************)
(* The inductive invariant of Inventory, the properties that follow from   *)
(* it, and the refinement of Registry.                                     *)
(***************************************************************************)
EXTENDS Inventory, StoreProofs, FiniteSetTheorems

\* There are finitely many connectors.
LEMMA SizesAreFinite == FiniteSizes
<1>1. ASSUME NEW S \in SUBSET Ids PROVE IsFiniteSet(S) /\ Cardinality(S) \in Nat
  BY <1>1, StoreAssumption, FS_Subset, FS_CardinalityType, Zenon
<1>2. ASSUME NEW S \in SUBSET Ids, NEW T \in SUBSET S PROVE Cardinality(T) <= Cardinality(S)
  BY <1>1, <1>2, FS_Subset, Zenon
<1>3. ASSUME NEW S \in SUBSET Ids, NEW id \in Ids \ S
      PROVE  Cardinality(S \cup {id}) = Cardinality(S) + 1
  BY <1>1, <1>3, FS_AddElement, Zenon
<1> QED BY <1>1, <1>2, <1>3, Zenon DEF FiniteSizes

\* The next revision is newer than all before.
LEMMA NextIsNewer == \A a, b \in Nat : a <= b => a <= b + 1 /\ a # b + 1
BY SMT

\* Revision zero is the oldest.
LEMMA NoneBelowZero == \A a \in Nat : a <= 0 => a = 0
BY SMT

\* What is newer is not as old.
LEMMA NewerIsNotOlder == \A a, b \in Nat : a > b => b <= a /\ ~(a <= b)
BY SMT

\* A pair consists of its two parts.
LEMMA PairParts ==
    \A a, b : <<a, b>>[1] = a /\ <<a, b>>[2] = b
BY Zenon

\* What is pending is a mutation.
LEMMA PendingTypes ==
    \A st \in PersistedState : \A i \in PendingIds(st) :
       i \in Ids /\ st.pending[i] # None /\ st.pending[i] \in InventoryMutation
BY Zenon DEF PendingIds, PersistedState

----------------------------------------------------------------------------
(* What activating a record and removing one do to Coherent.               *)

ServerState == [Ids -> [revision : 0..MaxRevision, view : View \cup {None}]]

\* A deliverable mutation is an installation ID with a mutation.
LEMMA CarriedTypes ==
    \A C \in SUBSET (Ids \X InventoryMutation) : \A c \in C :
       c[1] \in Ids /\ c[2] \in InventoryMutation
BY SMT

\* The revisions the server has are natural numbers.
LEMMA ServerRevisions ==
    \A srv \in ServerState, i \in Ids : srv[i].revision \in Nat
<1>1. \A n \in 0..MaxRevision : n \in Nat
  BY SMT
<1>2. \A srv \in ServerState, i \in Ids : srv[i].revision \in 0..MaxRevision
  BY Zenon DEF ServerState
<1> QED BY <1>1, <1>2, Zenon

\* Coherence against fewer deliverable mutations is weaker.
LEMMA CoherentShrinks ==
    ASSUME NEW st, NEW C, NEW D, NEW srv, D \subseteq C, Coherent(st, C, srv)
    PROVE  Coherent(st, D, srv)
BY Zenon DEF Coherent

\* A connector is known to the server as an upsert describes it, never as None.
LEMMA MutationViewType ==
    ASSUME NEW m \in InventoryMutation
    PROVE  /\ MutationView(m) \in View \cup {None}
           /\ m.kind = "upsert" => MutationView(m) \in View /\ MutationView(m) # None
           /\ m.kind # "upsert" => m.kind = "remove" /\ MutationView(m) = None
BY ViewAssumption, SMTT(30) DEF InventoryMutation, MutationView, View

\* Activating a record with its mutation (putInventoryConnector) keeps the state
\* coherent, the new mutation being deliverable as well.
LEMMA PutInventoryCoherent ==
    ASSUME NEW st \in PersistedState, NEW id \in Ids, NEW record \in ConnectorRecord,
           NEW attempt \in ActiveAttempt \cup {None},
           NEW C \in SUBSET (Ids \X InventoryMutation), NEW srv \in ServerState,
           Coherent(st, C, srv), ~PendingRemoval(st, id),
           st.connectors[id] = None => ~record.acknowledged,
           CanRevise(st), CanEnqueueInventoryMutation(st, id),
           SaveAccepts(st, PutInventoryConnector(st, id, record, attempt)),
           NEW D, D \subseteq C \cup {<<id, PutInventoryConnector(st, id, record, attempt).pending[id]>>}
    PROVE  Coherent(PutInventoryConnector(st, id, record, attempt), D, srv)
<1> DEFINE next == InventoryRecord(st, id, record, attempt)
           m == InventoryUpsertMutation(next, st.revision + 1, attempt)
           cand == PutInventoryConnector(st, id, record, attempt)
<1>1. /\ next \in ConnectorRecord /\ m \in InventoryMutation
      /\ next # None /\ m # None
  BY PutInventoryType, StoreAssumption
<1>2. m.kind = "upsert" /\ m.revision = st.revision + 1 /\ m.attempt = attempt
  BY Zenon DEF InventoryUpsertMutation
<1>3. next.acknowledged =>
         attempt = None /\ st.connectors[id] # None /\ st.connectors[id].acknowledged
  BY ZenonT(60) DEF InventoryRecord
<1>4. /\ cand.connectors = [st.connectors EXCEPT ![id] = next]
      /\ cand.pending = [st.pending EXCEPT ![id] = m]
      /\ cand.revision = st.revision + 1
  BY Zenon DEF PutInventoryConnector
<1>5. Loadable(st)
  BY Zenon DEF Coherent
<1>6. Loadable(cand)
  BY <1>5, PutInventoryLoadable, Zenon
<1>7. /\ cand.pending[id] = m /\ cand.connectors[id] = next
      /\ \A i \in Ids : i # id => /\ cand.pending[i] = st.pending[i]
                                  /\ cand.connectors[i] = st.connectors[i]
  BY <1>4, Zenon DEF PersistedState
<1>8. \A c \in D : c \in C \/ (c[1] = id /\ c[2] = m /\ c = <<id, m>>)
  BY <1>7
<1>9. st.revision \in Nat /\ \A i \in Ids : srv[i].revision \in Nat
  BY RevisionTypes, ServerRevisions, Zenon
<1>10. \A i \in PendingIds(st) :
          st.pending[i].revision \in Nat /\ st.pending[i].revision <= st.revision
  BY <1>5, PendingTypes, RevisionTypes, Zenon DEF Loadable
<1>11. \A c \in C : c[1] \in Ids /\ c[2] \in InventoryMutation /\ c[2].revision \in Nat
  BY CarriedTypes, RevisionTypes, Zenon
<1>12. \A c \in C : c[2].revision <= st.revision
  BY Zenon DEF Coherent
<1> HIDE DEF next, m, cand
<1>13. \A c \in D : c[2].revision <= cand.revision
  BY <1>2, <1>4, <1>8, <1>9, <1>11, <1>12
<1>14. \A c \in D : cand.pending[c[1]] # None =>
          c[2].revision <= cand.pending[c[1]].revision
  <2> SUFFICES ASSUME NEW c \in D, cand.pending[c[1]] # None
               PROVE  c[2].revision <= cand.pending[c[1]].revision
    BY Zenon
  <2>1. CASE c[1] = id /\ c[2] = m
    BY <2>1, <1>2, <1>7, <1>9
  <2>2. CASE c \in C /\ c[1] = id
    BY <2>2, <1>2, <1>7, <1>9, <1>11, <1>12
  <2>3. CASE c \in C /\ c[1] # id
    BY <2>3, <1>7, <1>11, Zenon DEF Coherent
  <2> QED BY <1>8, <2>1, <2>2, <2>3, Zenon
<1>15. \A c \in D : cand.pending[c[1]] = None => c[2].revision <= srv[c[1]].revision
  <2> SUFFICES ASSUME NEW c \in D, cand.pending[c[1]] = None
               PROVE  c[2].revision <= srv[c[1]].revision
    BY Zenon
  <2>1. c \in C /\ c[1] # id
    BY <1>1, <1>7, <1>8, Zenon
  <2> QED BY <2>1, <1>7, <1>11, Zenon DEF Coherent
<1>16. \A c \in D : c[2].kind = "remove" /\ cand.connectors[c[1]] # None =>
          c[2].revision <= srv[c[1]].revision
  <2> SUFFICES ASSUME NEW c \in D, c[2].kind = "remove", cand.connectors[c[1]] # None
               PROVE  c[2].revision <= srv[c[1]].revision
    BY Zenon
  <2>1. c \in C
    BY <1>2, <1>8, Zenon
  <2>2. CASE c[1] # id
    BY <2>1, <2>2, <1>7, <1>11, ZenonT(60) DEF Coherent
  <2>3. CASE c[1] = id /\ st.connectors[id] # None
    BY <2>1, <2>3, Zenon DEF Coherent
  <2>4. CASE c[1] = id /\ st.connectors[id] = None
    <3>1. st.pending[id] = None
      <4> SUFFICES ASSUME st.pending[id] # None PROVE FALSE
        BY Zenon
      <4>1. st.pending[id].kind # "upsert"
        BY <1>5, <2>4, Zenon DEF Loadable, PendingIds
      <4>2. st.pending[id] \in InventoryMutation
        BY Zenon DEF PersistedState
      <4> QED BY <4>1, <4>2, MutationViewType, Zenon DEF PendingRemoval
    <3> QED BY <3>1, <2>1, <2>4, Zenon DEF Coherent
  <2> QED BY <2>2, <2>3, <2>4, Zenon
<1>17. \A c \in D, i \in PendingIds(cand) :
          c[2].revision = cand.pending[i].revision => c = <<i, cand.pending[i]>>
  <2> SUFFICES ASSUME NEW c \in D, NEW i \in PendingIds(cand),
                      c[2].revision = cand.pending[i].revision
               PROVE  c = <<i, cand.pending[i]>>
    BY Zenon
  <2>1. CASE i = id
    <3>1. c \notin C
      BY <2>1, <1>2, <1>7, <1>9, <1>11, <1>12, NextIsNewer, Zenon
    <3> QED BY <2>1, <3>1, <1>7, <1>8, Zenon
  <2>2. CASE i # id
    <3>1. i \in PendingIds(st) /\ cand.pending[i] = st.pending[i]
      BY <2>2, <1>7, Zenon DEF PendingIds
    <3>2. c \in C
      BY <3>1, <1>2, <1>8, <1>9, <1>10, NextIsNewer, ZenonT(60)
    <3>3. c = <<i, st.pending[i]>>
      BY <3>1, <3>2 DEF Coherent
    <3> QED BY <3>1, <3>3, Zenon
  <2> QED BY <2>1, <2>2, Zenon
<1>18. \A i, j \in PendingIds(cand) :
          cand.pending[i].revision = cand.pending[j].revision => i = j
  <2>1. \A i \in PendingIds(cand) : i # id =>
           i \in PendingIds(st) /\ cand.pending[i] = st.pending[i]
    BY <1>7, Zenon DEF PendingIds
  <2>2. \A i \in PendingIds(cand) : i # id => cand.pending[i].revision # cand.pending[id].revision
    BY <2>1, <1>2, <1>7, <1>9, <1>10, NextIsNewer, ZenonT(60)
  <2> QED BY <2>1, <2>2, Zenon DEF Coherent
<1>19. \A i \in Ids : cand.pending[i] = None => srv[i].view = ViewOf(cand, i)
  <2>1. \A i \in Ids : i # id => ViewOf(cand, i) = ViewOf(st, i)
    BY <1>7, Zenon DEF ViewOf
  <2> QED BY <2>1, <1>1, <1>7, Zenon DEF Coherent
<1>20. \A i \in Ids : cand.connectors[i] # None /\ cand.connectors[i].acknowledged =>
          /\ srv[i].view # None
          /\ cand.pending[i] # None => cand.pending[i].attempt = None
  <2> SUFFICES ASSUME NEW i \in Ids, cand.connectors[i] # None,
                      cand.connectors[i].acknowledged
               PROVE  /\ srv[i].view # None
                      /\ cand.pending[i] # None => cand.pending[i].attempt = None
    BY Zenon
  <2>1. CASE i = id
    BY <2>1, <1>2, <1>3, <1>7, Zenon DEF Coherent
  <2>2. CASE i # id
    BY <2>2, <1>7, ZenonT(60) DEF Coherent
  <2> QED BY <2>1, <2>2, Zenon
<1> QED
  BY <1>6, <1>13, <1>14, <1>15, <1>16, <1>17, <1>18, <1>19, <1>20, ZenonT(60) DEF Coherent, cand

\* So does replacing a record by its removal tombstone.
LEMMA RemoveLocalCoherent ==
    ASSUME NEW st \in PersistedState, NEW id \in Ids,
           NEW C \in SUBSET (Ids \X InventoryMutation), NEW srv \in ServerState,
           Coherent(st, C, srv),
           CanRevise(st), CanEnqueueInventoryMutation(st, id),
           SaveAccepts(st, RemoveLocalConnector(st, id)),
           NEW D, D \subseteq C \cup {<<id, RemoveLocalConnector(st, id).pending[id]>>}
    PROVE  Coherent(RemoveLocalConnector(st, id), D, srv)
<1> DEFINE m == InventoryRemoveMutation(st.revision + 1)
           cand == RemoveLocalConnector(st, id)
<1>1. m \in InventoryMutation /\ m # None
  BY RemoveLocalType, StoreAssumption, Zenon
<1>2. m.revision = st.revision + 1
  BY Zenon DEF InventoryRemoveMutation
<1>3. /\ cand.connectors = [st.connectors EXCEPT ![id] = None]
      /\ cand.pending = [st.pending EXCEPT ![id] = m]
      /\ cand.revision = st.revision + 1
  BY Zenon DEF RemoveLocalConnector
<1>4. Loadable(st)
  BY Zenon DEF Coherent
<1>5. Loadable(cand)
  BY <1>4, RemoveLocalLoadable, Zenon
<1>6. /\ cand.pending[id] = m /\ cand.connectors[id] = None
      /\ \A i \in Ids : i # id => /\ cand.pending[i] = st.pending[i]
                                  /\ cand.connectors[i] = st.connectors[i]
  BY <1>3, Zenon DEF PersistedState
<1>7. \A c \in D : c \in C \/ (c[1] = id /\ c[2] = m /\ c = <<id, m>>)
  BY <1>6
<1>8. st.revision \in Nat
  BY RevisionTypes, Zenon
<1>9. \A i \in PendingIds(st) :
          st.pending[i].revision \in Nat /\ st.pending[i].revision <= st.revision
  BY <1>4, PendingTypes, RevisionTypes, Zenon DEF Loadable
<1>10. \A c \in C : c[1] \in Ids /\ c[2] \in InventoryMutation /\ c[2].revision \in Nat
  BY CarriedTypes, RevisionTypes, Zenon
<1>11. \A c \in C : c[2].revision <= st.revision
  BY Zenon DEF Coherent
<1> HIDE DEF m, cand
<1>12. \A c \in D : c[2].revision <= cand.revision
  BY <1>2, <1>3, <1>7, <1>8, <1>10, <1>11
<1>13. \A c \in D : cand.pending[c[1]] # None =>
          c[2].revision <= cand.pending[c[1]].revision
  <2> SUFFICES ASSUME NEW c \in D, cand.pending[c[1]] # None
               PROVE  c[2].revision <= cand.pending[c[1]].revision
    BY Zenon
  <2>1. CASE c[1] = id /\ c[2] = m
    BY <2>1, <1>2, <1>6, <1>8, Reflexive, ZenonT(60)
  <2>2. CASE c \in C /\ c[1] = id
    BY <2>2, <1>2, <1>6, <1>8, <1>10, <1>11
  <2>3. CASE c \in C /\ c[1] # id
    BY <2>3, <1>6, <1>10, Zenon DEF Coherent
  <2> QED BY <1>7, <2>1, <2>2, <2>3, Zenon
<1>14. \A c \in D : cand.pending[c[1]] = None => c[2].revision <= srv[c[1]].revision
  <2> SUFFICES ASSUME NEW c \in D, cand.pending[c[1]] = None
               PROVE  c[2].revision <= srv[c[1]].revision
    BY Zenon
  <2>1. c \in C /\ c[1] # id
    BY <1>1, <1>6, <1>7, Zenon
  <2> QED BY <2>1, <1>6, <1>10, Zenon DEF Coherent
<1>15. \A c \in D : c[2].kind = "remove" /\ cand.connectors[c[1]] # None =>
          c[2].revision <= srv[c[1]].revision
  <2> SUFFICES ASSUME NEW c \in D, c[2].kind = "remove", cand.connectors[c[1]] # None
               PROVE  c[2].revision <= srv[c[1]].revision
    BY Zenon
  <2>1. c \in C /\ c[1] # id
    BY <1>6, <1>7, Zenon
  <2> QED BY <2>1, <1>6, <1>10, ZenonT(60) DEF Coherent
<1>16. \A c \in D, i \in PendingIds(cand) :
          c[2].revision = cand.pending[i].revision => c = <<i, cand.pending[i]>>
  <2> SUFFICES ASSUME NEW c \in D, NEW i \in PendingIds(cand),
                      c[2].revision = cand.pending[i].revision
               PROVE  c = <<i, cand.pending[i]>>
    BY Zenon
  <2>1. CASE i = id
    <3>1. c \notin C
      BY <2>1, <1>2, <1>6, <1>8, <1>10, <1>11, NextIsNewer, Zenon
    <3> QED BY <2>1, <3>1, <1>6, <1>7, Zenon
  <2>2. CASE i # id
    <3>1. i \in PendingIds(st) /\ cand.pending[i] = st.pending[i]
      BY <2>2, <1>6, Zenon DEF PendingIds
    <3>2. c \in C
      BY <3>1, <1>2, <1>7, <1>8, <1>9, NextIsNewer, ZenonT(60)
    <3>3. c = <<i, st.pending[i]>>
      BY <3>1, <3>2 DEF Coherent
    <3> QED BY <3>1, <3>3, Zenon
  <2> QED BY <2>1, <2>2, Zenon
<1>17. \A i, j \in PendingIds(cand) :
          cand.pending[i].revision = cand.pending[j].revision => i = j
  <2>1. \A i \in PendingIds(cand) : i # id =>
           i \in PendingIds(st) /\ cand.pending[i] = st.pending[i]
    BY <1>6, Zenon DEF PendingIds
  <2>2. \A i \in PendingIds(cand) : i # id => cand.pending[i].revision # cand.pending[id].revision
    BY <2>1, <1>2, <1>6, <1>8, <1>9, NextIsNewer, ZenonT(60)
  <2> QED BY <2>1, <2>2, ZenonT(60) DEF Coherent
<1>18. \A i \in Ids : cand.pending[i] = None => srv[i].view = ViewOf(cand, i)
  <2>1. \A i \in Ids : i # id => ViewOf(cand, i) = ViewOf(st, i)
    BY <1>6, Zenon DEF ViewOf
  <2> QED BY <2>1, <1>1, <1>6, Zenon DEF Coherent
<1>19. \A i \in Ids : cand.connectors[i] # None /\ cand.connectors[i].acknowledged =>
          /\ srv[i].view # None
          /\ cand.pending[i] # None => cand.pending[i].attempt = None
  BY <1>6, ZenonT(60) DEF Coherent
<1> QED
  BY <1>5, <1>12, <1>13, <1>14, <1>15, <1>16, <1>17, <1>18, <1>19, ZenonT(60) DEF Coherent, cand

----------------------------------------------------------------------------
(* What acknowledging a mutation, and the server's handling of a request,  *)
(* does to Coherent.                                                       *)

\* Acknowledging the pending revision keeps the state coherent: nothing newer
\* than it was deliverable, so the server's view is exactly what it describes.
LEMMA AcknowledgeCoherent ==
    ASSUME NEW st \in PersistedState, NEW id \in Ids,
           NEW request \in InventoryMutation, NEW origins \in Origins,
           NEW C \in SUBSET (Ids \X InventoryMutation), NEW srv \in ServerState,
           Coherent(st, C, srv), Sourced(srv, id, C),
           Acknowledgeable(st, id, request), request.revision <= srv[id].revision,
           SaveAccepts(st, AcknowledgeInventoryMutation(st, id, request, origins))
    PROVE  Coherent(AcknowledgeInventoryMutation(st, id, request, origins), C, srv)
<1> DEFINE cand == AcknowledgeInventoryMutation(st, id, request, origins)
<1> HIDE DEF cand
<1>1. Loadable(st) /\ st.pending[id] = request /\ id \in PendingIds(st)
  BY Zenon DEF Coherent, Acknowledgeable, PendingIds
<1>2. Loadable(cand)
  BY <1>1, AcknowledgeLoadable, Zenon DEF cand
<1>3. /\ cand.pending[id] = None /\ cand.revision = st.revision
      /\ \A i \in Ids : i # id => /\ cand.pending[i] = st.pending[i]
                                  /\ cand.connectors[i] = st.connectors[i]
      /\ request.kind # "upsert" => cand.connectors[id] = st.connectors[id]
      /\ request.kind = "upsert" => cand.connectors[id] =
            [active |-> WithOrigins(st.connectors[id].active, origins),
             previous |-> st.connectors[id].previous, acknowledged |-> TRUE]
  BY ZenonT(60) DEF cand, AcknowledgeInventoryMutation, PersistedState
<1>4. \A c \in C : c[1] \in Ids /\ c[2] \in InventoryMutation /\ c[2].revision \in Nat
  BY CarriedTypes, RevisionTypes, Zenon
<1>5. request.revision \in Nat /\ request.revision # 0 /\ srv[id].revision \in Nat
  BY RevisionTypes, ServerRevisions, Zenon
<1>6. \A c \in C : c[1] = id => c[2].revision <= srv[c[1]].revision
  <2>1. \A c \in C : c[1] = id => c[2].revision <= request.revision
    BY <1>1, Zenon DEF Coherent, PendingIds
  <2> QED BY <2>1, <1>4, <1>5, Transitive, Zenon
<1>7. srv[id].view = MutationView(request)
  <2>0. srv[id] # [revision |-> 0, view |-> None]
    <3> SUFFICES ASSUME srv[id] = [revision |-> 0, view |-> None] PROVE FALSE
      BY Zenon
    <3>1. srv[id].revision = 0
      OBVIOUS
    <3>2. request.revision = 0
      BY <3>1, <1>5, NoneBelowZero, Zenon
    <3> QED BY <3>2, <1>5, Zenon
  <2>1. PICK c \in C : c[1] = id /\ srv[id] =
                          [revision |-> c[2].revision, view |-> MutationView(c[2])]
    BY <2>0, Zenon DEF Sourced
  <2>2. c[2].revision <= request.revision
    BY <2>1, <1>1, Zenon DEF Coherent, PendingIds
  <2>3. c[2].revision = st.pending[id].revision
    BY <2>1, <2>2, <1>1, <1>4, <1>5
  <2>4. c = <<id, request>>
    BY <2>3, <1>1, Zenon DEF Coherent
  <2> QED BY <2>1, <2>4
<1>8. ViewOf(cand, id) = MutationView(request)
  <2>1. CASE request.kind = "upsert"
    <3>1. st.connectors[id] # None /\ request =
             InventoryUpsertMutation(st.connectors[id], request.revision, request.attempt)
      BY <2>1, <1>1, Zenon DEF Loadable
    <3>2. cand.connectors[id] \in ConnectorRecord
      <4>1. st.connectors[id] \in ConnectorRecord
        BY <3>1, Zenon DEF PersistedState
      <4>2. WithOrigins(st.connectors[id].active, origins) \in Slot
        BY <4>1, Zenon DEF ConnectorRecord, Slot, WithOrigins
      <4>3. cand.connectors[id] =
              [active |-> WithOrigins(st.connectors[id].active, origins),
               previous |-> st.connectors[id].previous, acknowledged |-> TRUE]
        BY <1>3, <2>1, Zenon
      <4> QED BY <4>1, <4>2, <4>3 DEF ConnectorRecord
    <3>3. cand.connectors[id] # None
      BY <3>2, StoreAssumption, Zenon
    <3>4. /\ cand.connectors[id].active.artifact = request.active
          /\ RollbackArtifact(cand.connectors[id]) = request.rollback
      BY <3>1, <1>3, <2>1 DEF InventoryUpsertMutation, RollbackArtifact, WithOrigins
    <3> QED BY <2>1, <3>3, <3>4, Zenon DEF ViewOf, MutationView
  <2>2. CASE request.kind # "upsert"
    BY <2>2, <1>1, <1>3, Zenon DEF Loadable, ViewOf, MutationView
  <2> QED BY <2>1, <2>2, Zenon
<1>9. \A c \in C : c[2].revision <= cand.revision
  BY <1>3, Zenon DEF Coherent
<1>10. \A c \in C : cand.pending[c[1]] # None =>
          c[2].revision <= cand.pending[c[1]].revision
  BY <1>3, <1>4, Zenon DEF Coherent
<1>11. \A c \in C : cand.pending[c[1]] = None => c[2].revision <= srv[c[1]].revision
  BY <1>3, <1>4, <1>6, Zenon DEF Coherent
<1>12. \A c \in C : c[2].kind = "remove" /\ cand.connectors[c[1]] # None =>
          c[2].revision <= srv[c[1]].revision
  BY <1>3, <1>4, <1>6, ZenonT(60) DEF Coherent
<1>13. \A i \in PendingIds(cand) :
          i # id /\ i \in PendingIds(st) /\ cand.pending[i] = st.pending[i]
  BY <1>3 DEF PendingIds
<1>14. \A c \in C, i \in PendingIds(cand) :
          c[2].revision = cand.pending[i].revision => c = <<i, cand.pending[i]>>
  <2>1. \A c \in C, i \in PendingIds(st) :
          c[2].revision = st.pending[i].revision => c = <<i, st.pending[i]>>
    BY Zenon DEF Coherent
  <2> QED BY <1>13, <2>1, ZenonT(60)
<1>15. \A i, j \in PendingIds(cand) :
          cand.pending[i].revision = cand.pending[j].revision => i = j
  BY <1>13, Zenon DEF Coherent
<1>16. \A i \in Ids : cand.pending[i] = None => srv[i].view = ViewOf(cand, i)
  <2>1. \A i \in Ids : i # id => ViewOf(cand, i) = ViewOf(st, i)
    BY <1>3, Zenon DEF ViewOf
  <2> QED BY <2>1, <1>3, <1>7, <1>8, Zenon DEF Coherent
<1>17. \A i \in Ids : cand.connectors[i] # None /\ cand.connectors[i].acknowledged =>
          /\ srv[i].view # None
          /\ cand.pending[i] # None => cand.pending[i].attempt = None
  <2>1. cand.connectors[id] # None => srv[id].view # None
    <3>1. request.kind # "upsert" => cand.connectors[id] = None
      BY <1>1, <1>3, Zenon DEF Loadable
    <3> QED BY <3>1, <1>7, MutationViewType, Zenon
  <2>2. \A i \in Ids : st.connectors[i] # None /\ st.connectors[i].acknowledged =>
           /\ srv[i].view # None
           /\ st.pending[i] # None => st.pending[i].attempt = None
    BY Zenon DEF Coherent
  <2> QED BY <2>1, <2>2, <1>3, Zenon
<1> QED
  BY <1>2, <1>9, <1>10, <1>11, <1>12, <1>14, <1>15, <1>16, <1>17, Zenon DEF Coherent, cand

\* What the server does with a deliverable mutation keeps a state coherent: a
\* request older than its view is ignored, and a newer one is still pending here.
LEMMA ApplyCoherent ==
    ASSUME NEW st \in PersistedState, NEW id \in Ids, NEW m \in InventoryMutation,
           NEW C \in SUBSET (Ids \X InventoryMutation), <<id, m>> \in C,
           server \in ServerState, Coherent(st, C, server)
    PROVE  /\ Apply(id, m) \in ServerState
           /\ Coherent(st, C, Apply(id, m))
<1> DEFINE srv == Apply(id, m)
<1>1. CASE ~(m.revision > server[id].revision)
  BY <1>1, Zenon DEF Apply
<1>2. CASE m.revision > server[id].revision
  <2>1. m.revision \in 1..MaxRevision
    BY Zenon DEF InventoryMutation
  <2>2. srv \in ServerState
    BY <1>2, <2>1, MutationViewType DEF Apply, ServerState
  <2>3. /\ srv[id].revision = m.revision /\ srv[id].view = MutationView(m)
        /\ \A i \in Ids : i # id => srv[i] = server[i]
    BY <1>2, Zenon DEF Apply, ServerState
  <2>4. \A c \in C : c[1] \in Ids /\ c[2].revision \in Nat
    BY CarriedTypes, RevisionTypes, Zenon
  <2>5. server[id].revision \in Nat /\ m.revision \in Nat
    BY RevisionTypes, ServerRevisions, Zenon
  <2>6. st.pending[id] # None
    <3>1. st.pending[id] = None => m.revision <= server[id].revision
      BY PairParts, Zenon DEF Coherent
    <3> QED BY <1>2, <2>5, <3>1, NewerIsNotOlder, Zenon
  <2>7. st.connectors[id] # None => m.kind # "remove"
    <3>1. m.kind = "remove" /\ st.connectors[id] # None => m.revision <= server[id].revision
      BY PairParts, Zenon DEF Coherent
    <3> QED BY <1>2, <2>5, <3>1, NewerIsNotOlder, ZenonT(60)
  <2>8. \A i \in Ids : server[i].revision \in Nat /\ srv[i].revision \in Nat
    BY <2>2, ServerRevisions, Zenon
  <2>9. \A i \in Ids : server[i].revision <= srv[i].revision
    BY <1>2, <2>3, <2>5, <2>8, NewerIsNotOlder, Reflexive, Zenon
  <2> HIDE DEF srv
  <2>10. \A c \in C : st.pending[c[1]] = None => c[2].revision <= srv[c[1]].revision
    <3>1. \A c \in C : st.pending[c[1]] = None => c[2].revision <= server[c[1]].revision
      BY Zenon DEF Coherent
    <3> QED BY <3>1, <2>4, <2>8, <2>9, Transitive, Zenon
  <2>11. \A c \in C : c[2].kind = "remove" /\ st.connectors[c[1]] # None =>
            c[2].revision <= srv[c[1]].revision
    <3>1. \A c \in C : c[2].kind = "remove" /\ st.connectors[c[1]] # None =>
             c[2].revision <= server[c[1]].revision
      BY Zenon DEF Coherent
    <3> QED BY <3>1, <2>4, <2>8, <2>9, Transitive, Zenon
  <2>12. \A i \in Ids : st.pending[i] = None => srv[i].view = ViewOf(st, i)
    BY <2>3, <2>6, Zenon DEF Coherent
  <2>13. \A i \in Ids : st.connectors[i] # None /\ st.connectors[i].acknowledged =>
            /\ srv[i].view # None
            /\ st.pending[i] # None => st.pending[i].attempt = None
    <3>1. \A i \in Ids : st.connectors[i] # None /\ st.connectors[i].acknowledged =>
             /\ server[i].view # None
             /\ st.pending[i] # None => st.pending[i].attempt = None
      BY Zenon DEF Coherent
    <3>2. st.connectors[id] # None => MutationView(m) # None
      BY <2>7, MutationViewType, Zenon
    <3> QED BY <3>1, <3>2, <2>3, Zenon
  <2> QED
    BY <2>2, <2>10, <2>11, <2>12, <2>13, Zenon DEF Coherent, srv
<1> QED BY <1>1, <1>2, Zenon

OwnPending(st) == {<<id, st.pending[id]>> : id \in PendingIds(st)}

\* A coherent state stays so when what it has pending becomes deliverable.
LEMMA OwnPendingCoherent ==
    ASSUME NEW st \in PersistedState, NEW C, NEW srv, Coherent(st, C, srv)
    PROVE  Coherent(st, C \cup OwnPending(st), srv)
<1> DEFINE D == C \cup OwnPending(st)
<1>1. \A c \in OwnPending(st) :
        /\ c[1] \in PendingIds(st) /\ c[1] \in Ids /\ c[2] = st.pending[c[1]]
        /\ c = <<c[1], st.pending[c[1]]>> /\ c[2].revision \in Nat /\ st.pending[c[1]] # None
  BY DEF OwnPending, PendingIds, PersistedState, InventoryMutation
<1>2. \A c \in D : c[2].revision <= st.revision
  BY <1>1, Zenon DEF Coherent, Loadable
<1>3. \A c \in D : st.pending[c[1]] # None => c[2].revision <= st.pending[c[1]].revision
  <2>1. \A c \in C : st.pending[c[1]] # None => c[2].revision <= st.pending[c[1]].revision
    BY Zenon DEF Coherent
  <2> QED BY <1>1, <2>1, Reflexive, Zenon
<1>4. \A c \in D : st.pending[c[1]] = None => c[2].revision <= srv[c[1]].revision
  BY <1>1, Zenon DEF Coherent
<1>5. \A c \in D : c[2].kind = "remove" /\ st.connectors[c[1]] # None =>
         c[2].revision <= srv[c[1]].revision
  BY <1>1, ZenonT(60) DEF Coherent, Loadable
<1>6. \A c \in D, id \in PendingIds(st) :
         c[2].revision = st.pending[id].revision => c = <<id, st.pending[id]>>
  <2>1. /\ \A c \in C, id \in PendingIds(st) :
              c[2].revision = st.pending[id].revision => c = <<id, st.pending[id]>>
        /\ \A i, j \in PendingIds(st) :
              st.pending[i].revision = st.pending[j].revision => i = j
    BY Zenon DEF Coherent
  <2> QED BY <1>1, <2>1
<1> QED
  BY <1>2, <1>3, <1>4, <1>5, <1>6, ZenonT(60) DEF Coherent


----------------------------------------------------------------------------
(* Each kind of step of Inventory preserves InventoryInvariant.            *)

\* What each step has to show: the two store states, the deliverable mutations,
\* the workers and the requests in flight.
LEMMA Preserved ==
    ASSUME InventoryInvariant, TypeOK', UNCHANGED server, issued \subseteq issued',
           Coherent(mem', Deliverable', server), Coherent(disk', Deliverable', server),
           \A x, y \in Deliverable' : x[2].revision = y[2].revision => x = y,
           \A id \in Ids : flush'[id] # None =>
               /\ <<id, flush'[id].mutation>> \in issued'
               /\ flush'[id].phase = "answered" =>
                     flush'[id].mutation.revision <= server[id].revision,
           \A r \in wire' : <<r.id, r.mutation>> \in issued
    PROVE  InventoryInvariant'
<1>1. \A id \in Ids : Sourced(server, id, issued)'
  BY Zenon DEF InventoryInvariant, DeliveryCoherent, Sourced
<1>2. DeliveryCoherent'
  BY <1>1, Zenon DEF DeliveryCoherent
<1> QED BY <1>2, Zenon DEF InventoryInvariant

\* A step that leaves the store, the server and the issued mutations alone.
LEMMA QuietStep ==
    ASSUME InventoryInvariant, TypeOK', UNCHANGED <<mem, disk, server, issued>>,
           \A id \in Ids : flush'[id] # None =>
               /\ flush[id] # None
               /\ flush'[id].mutation = flush[id].mutation
               /\ flush'[id].phase = "answered" => flush[id].phase = "answered",
           \A r \in wire' : <<r.id, r.mutation>> \in issued
    PROVE  InventoryInvariant'
<1>1. Deliverable' = Deliverable
  BY Zenon DEF Deliverable
<1>2. /\ Coherent(mem', Deliverable', server) /\ Coherent(disk', Deliverable', server)
      /\ \A x, y \in Deliverable' : x[2].revision = y[2].revision => x = y
  BY <1>1, Zenon DEF InventoryInvariant
<1>3. \A id \in Ids : flush'[id] # None =>
        /\ <<id, flush'[id].mutation>> \in issued'
        /\ flush'[id].phase = "answered" =>
              flush'[id].mutation.revision <= server[id].revision
  BY Zenon DEF InventoryInvariant, DeliveryCoherent
<1> QED BY <1>2, <1>3, Preserved, Zenon

\* Deliverable mutations are mutations of known installations.
LEMMA DeliverableType ==
    TypeOK => Deliverable \in SUBSET (Ids \X InventoryMutation)
<1> SUFFICES ASSUME TypeOK PROVE Deliverable \in SUBSET (Ids \X InventoryMutation)
  BY Zenon
<1>1. mem \in PersistedState /\ issued \in SUBSET (Ids \X InventoryMutation)
  BY Zenon DEF TypeOK
<1>2. \A id \in PendingIds(mem) : mem.pending[id] \in InventoryMutation
  BY <1>1, Zenon DEF PendingIds, PersistedState
<1> QED BY <1>1, <1>2 DEF Deliverable, PendingIds

\* A step that saves a candidate carrying a new mutation, whether or not the
\* candidate also reaches memory.
LEMMA NewMutationStep ==
    ASSUME InventoryInvariant, TypeOK', NEW id \in Ids, NEW K \in PersistedState,
           disk' = K, mem' \in {mem, K}, UNCHANGED <<server, flush, wire, issued>>,
           K.pending[id] # None, K.pending[id].revision = mem.revision + 1,
           \A i \in Ids : i # id => K.pending[i] = mem.pending[i],
           \A D : D \subseteq Deliverable \cup {<<id, K.pending[id]>>} =>
                     Coherent(K, D, server)
    PROVE  InventoryInvariant'
<1>1. Deliverable' \subseteq Deliverable \cup {<<id, K.pending[id]>>}
  BY Zenon DEF Deliverable, PendingIds
<1>2. Coherent(disk', Deliverable', server)
  BY <1>1, Zenon
<1>3. Coherent(mem', Deliverable', server)
  <2>1. CASE mem' = mem
    BY <2>1 DEF Deliverable, InventoryInvariant
  <2>2. CASE mem' = K
    BY <2>2, <1>1, Zenon
  <2> QED BY <2>1, <2>2, Zenon
<1>4. \A c \in Deliverable : c[2].revision \in Nat /\ c[2].revision <= mem.revision
  <2>1. Deliverable \in SUBSET (Ids \X InventoryMutation)
    BY DeliverableType, Zenon DEF InventoryInvariant
  <2>2. Coherent(mem, Deliverable, server)
    BY Zenon DEF InventoryInvariant
  <2>3. \A c \in Deliverable : c[2].revision \in Nat
    BY <2>1 DEF InventoryMutation
  <2> QED BY <2>2, <2>3, Zenon DEF Coherent
<1>5. mem.revision \in Nat
  <2>1. mem \in PersistedState
    BY Zenon DEF InventoryInvariant, TypeOK
  <2> QED BY <2>1 DEF PersistedState
<1>6. \A x, y \in Deliverable : x[2].revision = y[2].revision => x = y
  BY Zenon DEF InventoryInvariant
<1>7. \A x, y \in Deliverable' : x[2].revision = y[2].revision => x = y
  <2> SUFFICES ASSUME NEW x \in Deliverable', NEW y \in Deliverable',
                      x[2].revision = y[2].revision
               PROVE  x = y
    BY Zenon
  <2>1. CASE x \in Deliverable /\ y \in Deliverable
    BY <2>1, <1>6, Zenon
  <2>2. CASE x \notin Deliverable
    BY <2>2, <1>1, <1>4, <1>5
  <2>3. CASE y \notin Deliverable
    BY <2>3, <1>1, <1>4, <1>5
  <2> QED BY <2>1, <2>2, <2>3, Zenon
<1>8. /\ \A i \in Ids : flush'[i] # None =>
           /\ <<i, flush'[i].mutation>> \in issued'
           /\ flush'[i].phase = "answered" =>
                 flush'[i].mutation.revision <= server[i].revision
      /\ \A r \in wire' : <<r.id, r.mutation>> \in issued
  BY Zenon DEF InventoryInvariant, DeliveryCoherent
<1> QED BY <1>2, <1>3, <1>7, <1>8, Preserved, Zenon

\* Activating a record, the persisted part of every install, update and rollback.
LEMMA ActivateStep ==
    ASSUME InventoryInvariant, NEW id \in Ids, NEW record \in ConnectorRecord,
           NEW attempt \in ActiveAttempt \cup {None},
           ~PendingRemoval(mem, id), mem.connectors[id] = None => ~record.acknowledged,
           CanEnqueueInventoryMutation(mem, id), CanRevise(mem),
           Save(PutInventoryConnector(mem, id, record, attempt)), held' = FALSE,
           journal' \in [Jobs -> Ids \cup {None}], completed' \in SUBSET Jobs,
           UNCHANGED <<session, flush, remoteVars, syncVars, issued>>
    PROVE  InventoryInvariant'
<1> DEFINE K == PutInventoryConnector(mem, id, record, attempt)
<1>1. /\ mem \in PersistedState /\ server \in ServerState
      /\ Deliverable \in SUBSET (Ids \X InventoryMutation)
      /\ Coherent(mem, Deliverable, server) /\ TypeOK
  BY DeliverableType, Zenon DEF InventoryInvariant, TypeOK, ServerState
<1>2. K \in PersistedState
  BY <1>1, PutInventoryType, Zenon
<1>3. SaveAccepts(mem, K) /\ disk' = K /\ mem' \in {mem, K}
  BY Zenon DEF Save
<1>4. /\ K.pending[id] # None /\ K.pending[id].revision = mem.revision + 1
      /\ \A i \in Ids : i # id => K.pending[i] = mem.pending[i]
  <2> DEFINE m == InventoryUpsertMutation(InventoryRecord(mem, id, record, attempt),
                                          mem.revision + 1, attempt)
  <2>1. m # None /\ m.revision = mem.revision + 1
    BY <1>1, PutInventoryType, StoreAssumption DEF InventoryUpsertMutation
  <2>2. K.pending = [mem.pending EXCEPT ![id] = m]
    BY Zenon DEF PutInventoryConnector
  <2> HIDE DEF m
  <2> QED BY <1>1, <2>1, <2>2, ZenonT(60) DEF PersistedState
<1>5. \A D : D \subseteq Deliverable \cup {<<id, K.pending[id]>>} => Coherent(K, D, server)
  BY <1>1, <1>3, PutInventoryCoherent, Zenon
<1> HIDE DEF K
<1>6. TypeOK'
  BY <1>1, <1>2, <1>3, ZenonT(60) DEF TypeOK, remoteVars, syncVars
<1> QED
  BY <1>2, <1>3, <1>4, <1>5, <1>6, NewMutationStep, Zenon DEF remoteVars

\* Removing a connector locally (RemoveLocalConnector).
LEMMA RemoveLocalStep ==
    ASSUME InventoryInvariant, NEW id \in Ids, RemoveLocal(id)
    PROVE  InventoryInvariant'
<1> DEFINE K == RemoveLocalConnector(mem, id)
<1>1. /\ mem \in PersistedState /\ server \in ServerState
      /\ Deliverable \in SUBSET (Ids \X InventoryMutation)
      /\ Coherent(mem, Deliverable, server) /\ TypeOK
  BY DeliverableType, Zenon DEF InventoryInvariant, TypeOK, ServerState
<1>2. /\ CanEnqueueInventoryMutation(mem, id) /\ CanRevise(mem)
      /\ SaveAccepts(mem, K) /\ disk' = K /\ mem' \in {mem, K}
      /\ held' = FALSE
      /\ UNCHANGED <<jobVars, session, flush, remoteVars, syncVars, issued>>
  BY Zenon DEF RemoveLocal, Save
<1>3. K \in PersistedState /\ InventoryRemoveMutation(mem.revision + 1) # None
  BY <1>1, <1>2, RemoveLocalType, StoreAssumption, Zenon
<1>4. /\ K.pending[id] # None /\ K.pending[id].revision = mem.revision + 1
      /\ \A i \in Ids : i # id => K.pending[i] = mem.pending[i]
  <2> DEFINE m == InventoryRemoveMutation(mem.revision + 1)
  <2>1. m # None /\ m.revision = mem.revision + 1
    BY <1>3, Zenon DEF InventoryRemoveMutation
  <2>2. K.pending = [mem.pending EXCEPT ![id] = m]
    BY Zenon DEF RemoveLocalConnector
  <2> HIDE DEF m
  <2> QED BY <1>1, <2>1, <2>2, Zenon DEF PersistedState
<1>5. \A D : D \subseteq Deliverable \cup {<<id, K.pending[id]>>} => Coherent(K, D, server)
  BY <1>1, <1>2, RemoveLocalCoherent, Zenon
<1> HIDE DEF K
<1>6. TypeOK'
  BY <1>1, <1>2, <1>3, ZenonT(60) DEF TypeOK, remoteVars, syncVars, jobVars
<1> QED
  BY <1>2, <1>3, <1>4, <1>5, <1>6, NewMutationStep, Zenon DEF remoteVars

\* The acknowledgement of an answered mutation, saved or ignored.
LEMMA AcknowledgeStep ==
    ASSUME InventoryInvariant, NEW id \in Ids, Acknowledge(id)
    PROVE  InventoryInvariant'
<1> DEFINE d == flush[id]
           K == AcknowledgeInventoryMutation(mem, id, d.mutation, d.origins)
<1>1. /\ mem \in PersistedState /\ server \in ServerState
      /\ Deliverable \in SUBSET (Ids \X InventoryMutation)
      /\ Coherent(mem, Deliverable, server) /\ TypeOK /\ Loadable(mem)
  BY DeliverableType, Zenon DEF InventoryInvariant, TypeOK, ServerState, Coherent
<1>2. d # None /\ d.phase = "answered"
  BY Zenon DEF Acknowledge, InPhase
<1>3. d.mutation \in InventoryMutation /\ d.origins \in Origins
  BY <1>1, <1>2, Zenon DEF TypeOK, Delivery
<1>4. flush' = [flush EXCEPT ![id] = None]
  BY Zenon DEF Acknowledge
<1>5. UNCHANGED <<held, jobVars, session, remoteVars, syncVars, issued>>
  BY Zenon DEF Acknowledge
<1>6. \A i \in Ids : flush'[i] # None => flush'[i] = flush[i]
  BY <1>1, <1>4, Zenon DEF TypeOK
<1>7. flush' \in [Ids -> Delivery \cup {None}]
  BY <1>1, <1>4, Zenon DEF TypeOK
<1>8. CASE ~Acknowledgeable(mem, id, d.mutation)
  <2>1. UNCHANGED <<mem, disk>>
    BY <1>8, Zenon DEF Acknowledge, storeVars
  <2>2. TypeOK'
    BY <1>1, <1>5, <1>7, <2>1, Zenon DEF TypeOK, remoteVars, syncVars, jobVars
  <2>3. \A r \in wire' : <<r.id, r.mutation>> \in issued
    BY <1>5, ZenonT(60) DEF remoteVars, InventoryInvariant, DeliveryCoherent
  <2> QED BY <1>5, <1>6, <2>1, <2>2, <2>3, QuietStep, Zenon DEF remoteVars
<1>9. CASE Acknowledgeable(mem, id, d.mutation)
  <2>1. SaveAccepts(mem, K) /\ disk' = K /\ mem' \in {mem, K}
    BY <1>9, Zenon DEF Acknowledge, Save
  <2>2. K \in PersistedState
    BY <1>1, <1>3, <1>9, AcknowledgeType, Zenon
  <2>3. Sourced(server, id, Deliverable)
    BY ZenonT(60) DEF InventoryInvariant, DeliveryCoherent, Sourced, Deliverable
  <2>4. d.mutation.revision <= server[id].revision
    BY <1>2, ZenonT(60) DEF InventoryInvariant, DeliveryCoherent
  <2>5. Coherent(K, Deliverable, server)
    BY <1>1, <1>3, <1>9, <2>1, <2>3, <2>4, AcknowledgeCoherent, Zenon
  <2>6. /\ K.pending = [mem.pending EXCEPT ![id] = None]
    BY Zenon DEF AcknowledgeInventoryMutation
  <2> HIDE DEF K
  <2>7. \A i \in Ids : K.pending[i] # None => K.pending[i] = mem.pending[i]
    BY <1>1, <2>6, Zenon DEF PersistedState
  <2>8. Deliverable' \subseteq Deliverable
    BY <1>5, <2>1, <2>7, Zenon DEF Deliverable, PendingIds
  <2>9. Coherent(disk', Deliverable', server) /\ Coherent(mem', Deliverable', server)
    BY <1>1, <2>1, <2>5, <2>8, CoherentShrinks, Zenon
  <2>10. \A x, y \in Deliverable' : x[2].revision = y[2].revision => x = y
    BY <2>8, Zenon DEF InventoryInvariant
  <2>11. /\ \A i \in Ids : flush'[i] # None =>
              /\ <<i, flush'[i].mutation>> \in issued'
              /\ flush'[i].phase = "answered" =>
                    flush'[i].mutation.revision <= server[i].revision
         /\ \A r \in wire' : <<r.id, r.mutation>> \in issued
    BY <1>5, <1>6, Zenon DEF remoteVars, InventoryInvariant, DeliveryCoherent
  <2>12. TypeOK'
    BY <1>1, <1>5, <1>7, <2>1, <2>2, Zenon DEF TypeOK, remoteVars, syncVars, jobVars
  <2> QED BY <1>5, <2>9, <2>10, <2>11, <2>12, Preserved, Zenon DEF remoteVars
<1> QED BY <1>8, <1>9, Zenon

\* The server applies a request that a worker was given.
LEMMA ApplyStep ==
    ASSUME InventoryInvariant, NEW id \in Ids, NEW m \in InventoryMutation,
           <<id, m>> \in issued, server' = Apply(id, m), TypeOK',
           UNCHANGED <<mem, disk, issued>>, wire' \subseteq wire,
           \A i \in Ids : flush'[i] # None =>
               /\ flush[i] # None /\ flush'[i].mutation = flush[i].mutation
               /\ flush'[i].phase = "answered" =>
                     flush[i].phase = "answered" \/ (i = id /\ flush[i].mutation = m)
    PROVE  InventoryInvariant'
<1>1. /\ mem \in PersistedState /\ disk \in PersistedState /\ server \in ServerState
      /\ Deliverable \in SUBSET (Ids \X InventoryMutation) /\ <<id, m>> \in Deliverable
      /\ Coherent(mem, Deliverable, server) /\ Coherent(disk, Deliverable, server)
  BY DeliverableType, Zenon DEF InventoryInvariant, TypeOK, ServerState, Deliverable
<1>2. Deliverable' = Deliverable
  BY Zenon DEF Deliverable
<1>3. /\ Coherent(mem, Deliverable, server') /\ Coherent(disk, Deliverable, server')
      /\ server' \in ServerState
  BY <1>1, ApplyCoherent, Zenon
<1>4. \A i \in Ids : server[i].revision \in Nat /\ server'[i].revision \in Nat
  BY <1>1, <1>3, SMTT(30) DEF ServerState
<1>5. /\ m.revision \in Nat /\ server[id].revision <= server'[id].revision
      /\ m.revision <= server'[id].revision
      /\ \A i \in Ids : i # id => server'[i] = server[i]
      /\ \/ server'[id] = server[id]
         \/ server'[id] = [revision |-> m.revision, view |-> MutationView(m)]
  <2>1. m.revision \in Nat
    BY SMTT(30) DEF InventoryMutation
  <2>2. CASE m.revision > server[id].revision
    BY <1>1, <1>4, <2>1, <2>2, SMTT(30) DEF Apply, ServerState
  <2>3. CASE ~(m.revision > server[id].revision)
    BY <1>4, <2>1, <2>3, SMTT(30) DEF Apply
  <2> QED BY <2>2, <2>3, Zenon
<1>6. \A i \in Ids : Sourced(server', i, issued)
  <2>1. \A i \in Ids : Sourced(server, i, issued)
    BY Zenon DEF InventoryInvariant, DeliveryCoherent
  <2>2. \A i \in Ids : server'[i] = server[i] => Sourced(server', i, issued)
    BY <2>1, SMTT(30) DEF Sourced
  <2>3. ASSUME server'[id] = [revision |-> m.revision, view |-> MutationView(m)]
        PROVE  Sourced(server', id, issued)
    <3> DEFINE c == <<id, m>>
    <3>1. c \in issued /\ c[1] = id /\ c[2] = m
      BY Zenon
    <3> HIDE DEF c
    <3> QED BY <2>3, <3>1, Zenon DEF Sourced
  <2> QED BY <2>2, <2>3, <1>5, Zenon
<1>7. \A i \in Ids : flush'[i] # None =>
        /\ <<i, flush'[i].mutation>> \in issued
        /\ flush'[i].phase = "answered" =>
              flush'[i].mutation.revision <= server'[i].revision
  <2> SUFFICES ASSUME NEW i \in Ids, flush'[i] # None
               PROVE  /\ <<i, flush'[i].mutation>> \in issued
                      /\ flush'[i].phase = "answered" =>
                            flush'[i].mutation.revision <= server'[i].revision
    BY Zenon
  <2>1. <<i, flush[i].mutation>> \in issued /\ flush'[i].mutation = flush[i].mutation
    BY Zenon DEF InventoryInvariant, DeliveryCoherent
  <2>2. flush[i].mutation.revision \in Nat
    BY <2>1, SMTT(30) DEF InventoryInvariant, TypeOK, InventoryMutation
  <2>3. flush[i].phase = "answered" =>
           flush[i].mutation.revision <= server[i].revision
    BY ZenonT(60) DEF InventoryInvariant, DeliveryCoherent
  <2> QED BY <2>1, <2>2, <2>3, <1>4, <1>5, SMTT(30)
<1>8. \A r \in wire' : <<r.id, r.mutation>> \in issued
  BY ZenonT(60) DEF InventoryInvariant, DeliveryCoherent
<1>9. DeliveryCoherent'
  BY <1>6, <1>7, <1>8, ZenonT(60) DEF DeliveryCoherent, Sourced
<1>10. \A x, y \in Deliverable' : x[2].revision = y[2].revision => x = y
  BY <1>2, Zenon DEF InventoryInvariant
<1> QED BY <1>2, <1>3, <1>9, <1>10, Zenon DEF InventoryInvariant

\* Handing the pending mutations to delivery workers.
LEMMA FlushStep ==
    ASSUME InventoryInvariant, FlushPending, UNCHANGED <<mem, disk, server, wire>>,
           session' \in {"down", "opening", "open"},
           UNCHANGED <<held, jobVars, syncVars>>
    PROVE  InventoryInvariant'
<1>1. mem \in PersistedState /\ TypeOK
  BY Zenon DEF InventoryInvariant, TypeOK
<1>2. issued' = Deliverable /\ Deliverable' = Deliverable /\ issued \subseteq issued'
  BY Zenon DEF FlushPending, Deliverable
<1>3. flush' = [id \in Ids |-> IF mem.pending[id] = None THEN None
                  ELSE [mutation |-> mem.pending[id], phase |-> "queued",
                        origins |-> NoOrigins]]
  BY Zenon DEF FlushPending
<1>4. \A id \in Ids : mem.pending[id] # None =>
        /\ mem.pending[id] \in InventoryMutation
        /\ [mutation |-> mem.pending[id], phase |-> "queued", origins |-> NoOrigins]
              \in Delivery
  BY <1>1, StoreAssumption, Zenon DEF PersistedState, Delivery
<1>5. flush' \in [Ids -> Delivery \cup {None}]
  BY <1>3, <1>4, Zenon
<1>6. \A id \in Ids : flush'[id] # None =>
        /\ <<id, flush'[id].mutation>> \in issued'
        /\ flush'[id].phase # "answered"
  BY <1>2, <1>3, Zenon DEF Deliverable, PendingIds
<1>7. issued' \in SUBSET (Ids \X InventoryMutation)
  BY <1>1, <1>2, DeliverableType, Zenon
<1>8. TypeOK'
  BY <1>1, <1>5, <1>7, Zenon DEF TypeOK, jobVars, syncVars
<1>9. \A r \in wire' : <<r.id, r.mutation>> \in issued
  BY ZenonT(60) DEF InventoryInvariant, DeliveryCoherent
<1>10. /\ Coherent(mem', Deliverable', server) /\ Coherent(disk', Deliverable', server)
       /\ \A x, y \in Deliverable' : x[2].revision = y[2].revision => x = y
  BY <1>2, Zenon DEF InventoryInvariant
<1> QED BY <1>2, <1>6, <1>8, <1>9, <1>10, Preserved, Zenon

\* Orphaned requests carry the same mutations.
LEMMA OrphanType ==
    ASSUME NEW W \in SUBSET Request
    PROVE  /\ Orphan(W) \in SUBSET Request
           /\ \A r \in Orphan(W) : \E w \in W : r.id = w.id /\ r.mutation = w.mutation
<1>1. ASSUME NEW w \in W
      PROVE  [id |-> w.id, mutation |-> w.mutation, live |-> FALSE] \in Request
  BY Zenon DEF Request
<1> QED BY <1>1 DEF Orphan

\* A restart loads host.json, whose pending mutations become deliverable and
\* whose missing ones are forgotten.
LEMMA RestartStep ==
    ASSUME InventoryInvariant, Restart
    PROVE  InventoryInvariant'
<1>1. /\ disk \in PersistedState /\ TypeOK
      /\ Coherent(disk, Deliverable, server) /\ issued \subseteq Deliverable
  BY Zenon DEF InventoryInvariant, TypeOK, Deliverable
<1>2. Coherent(disk, issued, server)
  BY <1>1, CoherentShrinks, Zenon
<1>3. Coherent(disk, issued \cup OwnPending(disk), server)
  BY <1>1, <1>2, OwnPendingCoherent, Zenon
<1>4. mem' = disk /\ UNCHANGED <<disk, server, issued>>
  BY Zenon DEF Restart
<1>5. Deliverable' = issued \cup OwnPending(disk)
  BY <1>4, Zenon DEF Deliverable, OwnPending, PendingIds
<1>6. \A x, y \in Deliverable' : x[2].revision = y[2].revision => x = y
  <2>1. \A x, y \in issued : x[2].revision = y[2].revision => x = y
    BY <1>1, Zenon DEF InventoryInvariant
  <2>2. \A x \in Deliverable', y \in OwnPending(disk) :
            x[2].revision = y[2].revision => x = y
    BY <1>3, <1>5 DEF Coherent, OwnPending
  <2> QED BY <2>1, <2>2, <1>5, Zenon
<1>7. flush' = NoDelivery /\ \A id \in Ids : flush'[id] = None
  BY Zenon DEF Restart, NoDelivery
<1>8. wire' \in SUBSET Request /\ \A r \in wire' : <<r.id, r.mutation>> \in issued
  <2>1. wire' = Orphan(wire) /\ wire \in SUBSET Request
    BY <1>1, Zenon DEF Restart, TypeOK
  <2>2. \A r \in wire : <<r.id, r.mutation>> \in issued
    BY ZenonT(60) DEF InventoryInvariant, DeliveryCoherent
  <2> QED BY <2>1, <2>2, OrphanType, Zenon
<1>9. TypeOK'
  BY <1>1, <1>4, <1>7, <1>8, ZenonT(60) DEF TypeOK, Restart, NoDelivery, jobVars
<1> QED
  BY <1>3, <1>4, <1>5, <1>6, <1>7, <1>8, <1>9, Preserved, ZenonT(60)

----------------------------------------------------------------------------
(* InventoryInvariant is inductive, and the safety properties follow from  *)
(* it.                                                                     *)

\* The host starts with an empty store and nothing delivered.
LEMMA InitInvariant == Init => InventoryInvariant
<1> SUFFICES ASSUME Init PROVE InventoryInvariant
  BY Zenon
<1>1. EmptyState \in PersistedState /\ PendingIds(EmptyState) = {}
  BY StoreAssumption DEF EmptyState, PersistedState, PendingIds
<1>2. [revision |-> 0, view |-> None] \in [revision : 0..MaxRevision, view : View \cup {None}]
  BY StoreAssumption
<1>3. TypeOK
  BY <1>1, <1>2, ZenonT(60) DEF Init, TypeOK, NoDelivery
<1>4. Deliverable = {}
  BY <1>1, Zenon DEF Init, Deliverable
<1>5. Loadable(EmptyState)
  <2>1. Cardinality({}) = 0 /\ MaxHosted \in Nat
    BY FS_EmptySet, StoreAssumption, Zenon
  <2>2. ValidateSingletonContracts(EmptyState.connectors)
    BY Zenon DEF EmptyState, ValidateSingletonContracts
  <2> QED BY <1>1, <2>1, <2>2 DEF Loadable
<1>6. \A id \in Ids : EmptyState.connectors[id] = None /\ server[id].view = None
  BY Zenon DEF Init, EmptyState
<1>7. Coherent(EmptyState, {}, server)
  BY <1>1, <1>5, <1>6, Zenon DEF Coherent, ViewOf
<1>8. DeliveryCoherent
  BY Zenon DEF Init, DeliveryCoherent, Sourced, NoDelivery
<1> QED BY <1>3, <1>4, <1>7, <1>8, Zenon DEF Init, InventoryInvariant

\* The records the operations activate are well-typed, and a first install is
\* not yet acknowledged.
LEMMA RecordTypes ==
    /\ \A slot \in Slot : FirstRecord(slot) \in ConnectorRecord /\ ~FirstRecord(slot).acknowledged
    /\ \A old \in ConnectorRecord, slot \in Slot : UpdatedRecord(old, slot) \in ConnectorRecord
    /\ \A old \in ConnectorRecord : old.previous # None => RolledBackRecord(old) \in ConnectorRecord
BY Zenon DEF FirstRecord, UpdatedRecord, RolledBackRecord, ConnectorRecord, Slot

\* Every lifecycle operation preserves the invariant.
LEMMA LifecyclePreserves ==
    ASSUME InventoryInvariant, LifecycleStep
    PROVE  InventoryInvariant'
<1>1. TypeOK /\ mem \in PersistedState /\ Coherent(mem, Deliverable, server) /\ Loadable(mem)
  BY ZenonT(60) DEF InventoryInvariant, TypeOK, Coherent
<1>2. \A id \in Ids : mem.connectors[id] # None =>
         mem.connectors[id] \in ConnectorRecord /\ ~PendingRemoval(mem, id)
  BY <1>1, Zenon DEF PersistedState, Loadable, PendingIds, PendingRemoval
<1>3. LocalSlot \subseteq Slot /\ None \in ActiveAttempt \cup {None}
  BY Zenon DEF LocalSlot
<1>4. CASE OperationFails
  <2>1. /\ held' = FALSE /\ disk' \in {disk, mem} /\ mem' = mem
        /\ UNCHANGED <<jobVars, session, flush, remoteVars, syncVars, issued>>
    BY <1>4, Zenon DEF OperationFails
  <2>2. TypeOK'
    BY <2>1, <1>1, ZenonT(60) DEF TypeOK, jobVars, remoteVars, syncVars
  <2>3. Deliverable' = Deliverable
    BY <2>1, Zenon DEF Deliverable
  <2>4. /\ Coherent(mem', Deliverable', server) /\ Coherent(disk', Deliverable', server)
        /\ \A x, y \in Deliverable' : x[2].revision = y[2].revision => x = y
    BY <2>1, <2>3, Zenon DEF InventoryInvariant
  <2>5. /\ \A i \in Ids : flush'[i] # None =>
             /\ <<i, flush'[i].mutation>> \in issued'
             /\ flush'[i].phase = "answered" =>
                   flush'[i].mutation.revision <= server[i].revision
        /\ \A r \in wire' : <<r.id, r.mutation>> \in issued
    BY <2>1, Zenon DEF remoteVars, InventoryInvariant, DeliveryCoherent
  <2> QED BY <2>1, <2>2, <2>4, <2>5, Preserved, Zenon DEF remoteVars
<1>5. ASSUME NEW id \in Ids, NEW slot \in LocalSlot, InstallLocal(id, slot)
      PROVE  InventoryInvariant'
  <2>1. FirstRecord(slot) \in ConnectorRecord /\ ~FirstRecord(slot).acknowledged
    BY <1>3, RecordTypes, Zenon
  <2> QED
    BY <1>1, <1>3, <1>5, <2>1, ActivateStep, ZenonT(60)
       DEF InstallLocal, ActivateInventory, AdmitConnector, jobVars, TypeOK
<1>6. ASSUME NEW id \in Ids, NEW slot \in LocalSlot, UpdateLocal(id, slot)
      PROVE  InventoryInvariant'
  <2>1. mem.connectors[id] # None /\ UpdatedRecord(mem.connectors[id], slot) \in ConnectorRecord
    BY <1>2, <1>3, <1>6, RecordTypes, Zenon DEF UpdateLocal
  <2> QED
    BY <1>1, <1>3, <1>6, <2>1, ActivateStep, ZenonT(60)
       DEF UpdateLocal, ActivateInventory, AdmitConnector, jobVars, TypeOK
<1>7. ASSUME NEW id \in Ids, RollbackLocal(id)
      PROVE  InventoryInvariant'
  <2>1. mem.connectors[id] # None /\ RolledBackRecord(mem.connectors[id]) \in ConnectorRecord
    BY <1>2, <1>7, RecordTypes, Zenon DEF RollbackLocal
  <2> QED
    BY <1>1, <1>3, <1>7, <2>1, ActivateStep, ZenonT(60)
       DEF RollbackLocal, ActivateInventory, AdmitConnector, jobVars, TypeOK
<1>8. ASSUME NEW id \in Ids, NEW a \in ActiveAttempt, RebindTransition(id, a)
      PROVE  InventoryInvariant'
  <2>1. mem.connectors[id] # None /\ mem.connectors[id] \in ConnectorRecord /\ ~PendingRemoval(mem, id)
    BY <1>2, <1>8, Zenon DEF RebindTransition
  <2> QED
    BY <1>1, <1>8, <2>1, ActivateStep, ZenonT(60) DEF RebindTransition, jobVars, TypeOK
<1>9. ASSUME NEW id \in Ids, NEW a \in ActiveAttempt, mem.connectors[id] # None,
             NEW record \in ConnectorRecord, RemoteTransition(id, a, record)
      PROVE  InventoryInvariant'
  <2>1. journal' \in [Jobs -> Ids \cup {None}] /\ completed' \in SUBSET Jobs
    BY <1>1, <1>9, ZenonT(60) DEF RemoteTransition, TypeOK
  <2> QED
    BY <1>9, <2>1, ActivateStep, ZenonT(60) DEF RemoteTransition, ActivateInventory, AdmitConnector
<1>10. ASSUME NEW id \in Ids, NEW a \in ActiveAttempt, mem.connectors[id] # None,
              NEW record \in {UpdatedRecord(mem.connectors[id], s) : s \in Slot}
                                \cup {r \in {RolledBackRecord(mem.connectors[id])} :
                                         mem.connectors[id].previous # None}
       PROVE  record \in ConnectorRecord
  BY <1>2, <1>10, RecordTypes, Zenon
<1> QED
  BY <1>4, <1>5, <1>6, <1>7, <1>8, <1>9, <1>10, RemoveLocalStep, ZenonT(60) DEF LifecycleStep

\* Every step of a session, of its workers and of the server preserves it.
LEMMA DeliveryPreserves ==
    ASSUME InventoryInvariant, DeliveryStep
    PROVE  InventoryInvariant'
<1>1. /\ TypeOK /\ flush \in [Ids -> Delivery \cup {None}] /\ wire \in SUBSET Request
      /\ \A r \in wire : <<r.id, r.mutation>> \in issued
      /\ \A i \in Ids : flush[i] # None => <<i, flush[i].mutation>> \in issued
  BY Zenon DEF InventoryInvariant, TypeOK, DeliveryCoherent
<1>2. CASE Connect
  BY <1>2, FlushStep, Zenon DEF Connect, storeVars, remoteVars
<1>3. CASE FlushInventoryMutations
  BY <1>3, FlushStep, Zenon DEF FlushInventoryMutations, storeVars, remoteVars
<1>4. CASE Disconnect
  <2>1. flush' = [i \in Ids |-> IF InPhase(i, "answered") THEN flush[i] ELSE None]
    BY <1>4, Zenon DEF Disconnect
  <2>2. flush' \in [Ids -> Delivery \cup {None}]
    BY <1>1, <2>1, Zenon
  <2>3. \A i \in Ids : flush'[i] # None => flush'[i] = flush[i]
    BY <2>1, Zenon
  <2>4. wire' \in SUBSET Request /\ \A r \in wire' : <<r.id, r.mutation>> \in issued
    BY <1>1, <1>4, OrphanType, ZenonT(60) DEF Disconnect
  <2>5. TypeOK'
    BY <1>1, <1>4, <2>2, <2>4, Zenon DEF Disconnect, TypeOK, storeVars, jobVars
  <2> QED BY <1>4, <2>3, <2>4, <2>5, QuietStep, Zenon DEF Disconnect, storeVars
<1>5. ASSUME NEW id \in Ids, SkipFenced(id) \/ DropAnswer(id)
      PROVE  InventoryInvariant'
  <2>1. /\ flush' = [flush EXCEPT ![id] = None]
        /\ UNCHANGED <<storeVars, held, jobVars, session, remoteVars, syncVars, issued>>
    BY <1>5, Zenon DEF SkipFenced, DropAnswer
  <2>2. /\ flush' \in [Ids -> Delivery \cup {None}]
        /\ \A i \in Ids : flush'[i] # None => flush'[i] = flush[i]
    BY <1>1, <2>1, Zenon
  <2>3. TypeOK'
    BY <1>1, <2>1, <2>2, Zenon DEF TypeOK, storeVars, jobVars, remoteVars, syncVars
  <2> QED BY <1>1, <2>1, <2>2, <2>3, QuietStep, Zenon DEF storeVars, remoteVars
<1>6. ASSUME NEW id \in Ids, SendMutation(id)
      PROVE  InventoryInvariant'
  <2> DEFINE d == [mutation |-> flush[id].mutation, phase |-> "sent", origins |-> NoOrigins]
             r == [id |-> id, mutation |-> flush[id].mutation, live |-> TRUE]
  <2>1. /\ flush' = [flush EXCEPT ![id] = d] /\ wire' = wire \cup {r} /\ flush[id] # None
        /\ UNCHANGED <<storeVars, held, jobVars, session, server, syncVars, issued>>
    BY <1>6, Zenon DEF SendMutation, InPhase
  <2>2. flush[id].mutation \in InventoryMutation
    BY <1>1, <2>1, Zenon DEF Delivery
  <2>3. d \in Delivery /\ r \in Request /\ <<r.id, r.mutation>> \in issued
    BY <1>1, <2>1, <2>2, StoreAssumption, Zenon DEF Delivery, Request
  <2>4. d.mutation = flush[id].mutation /\ d.phase # "answered"
    BY Zenon
  <2> HIDE DEF d, r
  <2>5. /\ flush' \in [Ids -> Delivery \cup {None}] /\ wire' \in SUBSET Request
        /\ \A x \in wire' : <<x.id, x.mutation>> \in issued
    BY <1>1, <2>1, <2>3, Zenon
  <2>6. \A i \in Ids : flush'[i] # None =>
           /\ flush[i] # None /\ flush'[i].mutation = flush[i].mutation
           /\ flush'[i].phase = "answered" => flush[i].phase = "answered"
    BY <1>1, <2>1, <2>4, Zenon
  <2>7. TypeOK'
    BY <1>1, <2>1, <2>5, Zenon DEF TypeOK, storeVars, jobVars, syncVars
  <2> QED BY <2>1, <2>5, <2>6, <2>7, QuietStep, Zenon DEF storeVars
<1>7. ASSUME NEW id \in Ids, NEW m \in InventoryMutation, <<id, m>> \in issued
      PROVE  Apply(id, m) \in ServerState
  <2>1. /\ mem \in PersistedState /\ server \in ServerState /\ <<id, m>> \in Deliverable
        /\ Deliverable \in SUBSET (Ids \X InventoryMutation)
        /\ Coherent(mem, Deliverable, server)
    BY <1>7, DeliverableType, ZenonT(60) DEF InventoryInvariant, TypeOK, ServerState, Deliverable
  <2> QED BY <2>1, ApplyCoherent, Zenon
<1>8. ASSUME NEW id \in Ids, NEW o \in Origins, ServerReplies(id, o)
      PROVE  InventoryInvariant'
  <2> DEFINE m == flush[id].mutation
             d == [mutation |-> m, phase |-> "answered", origins |-> o]
  <2>1. /\ flush' = [flush EXCEPT ![id] = d] /\ wire' \subseteq wire /\ flush[id] # None
        /\ server' = Apply(id, m)
        /\ UNCHANGED <<storeVars, held, jobVars, session, syncVars, issued>>
    BY <1>8, Zenon DEF ServerReplies, InPhase
  <2>2. m \in InventoryMutation /\ <<id, m>> \in issued
    BY <1>1, <2>1, Zenon DEF Delivery
  <2>3. d \in Delivery /\ d.mutation = m
    BY <2>2, Zenon DEF Delivery
  <2> HIDE DEF d
  <2>4. flush' \in [Ids -> Delivery \cup {None}]
    BY <1>1, <2>1, <2>3, Zenon
  <2>5. \A i \in Ids : flush'[i] # None =>
           /\ flush[i] # None /\ flush'[i].mutation = flush[i].mutation
           /\ flush'[i].phase = "answered" =>
                 flush[i].phase = "answered" \/ (i = id /\ flush[i].mutation = m)
    BY <1>1, <2>1, <2>3, Zenon
  <2>6. server' \in ServerState
    BY <1>7, <2>1, <2>2, Zenon
  <2>7. TypeOK'
    BY <1>1, <2>1, <2>4, <2>6, Zenon DEF TypeOK, ServerState, storeVars, jobVars, syncVars
  <2> HIDE DEF m
  <2> QED BY <2>1, <2>2, <2>5, <2>7, ApplyStep, SMTT(30) DEF storeVars
<1>9. ASSUME NEW r \in wire, ServerAppliesSilently(r)
      PROVE  InventoryInvariant'
  <2>1. r.id \in Ids /\ r.mutation \in InventoryMutation /\ <<r.id, r.mutation>> \in issued
    BY <1>1, Zenon DEF Request
  <2>2. /\ server' = Apply(r.id, r.mutation) /\ wire' \subseteq wire
        /\ UNCHANGED <<storeVars, held, jobVars, session, flush, syncVars, issued>>
    BY <1>9, Zenon DEF ServerAppliesSilently
  <2>3. server' \in ServerState
    BY <1>7, <2>1, <2>2, Zenon
  <2>4. TypeOK'
    BY <1>1, <2>2, <2>3, Zenon DEF TypeOK, ServerState, storeVars, jobVars, syncVars
  <2> QED BY <2>1, <2>2, <2>4, ApplyStep, Zenon DEF storeVars
<1>10. ASSUME NEW r \in wire, LoseRequest(r)
       PROVE  InventoryInvariant'
  <2>1. /\ wire' \subseteq wire
        /\ UNCHANGED <<storeVars, held, jobVars, session, flush, server, syncVars, issued>>
    BY <1>10, Zenon DEF LoseRequest
  <2>2. TypeOK'
    BY <1>1, <2>1, Zenon DEF TypeOK, storeVars, jobVars, syncVars
  <2> QED BY <1>1, <2>1, <2>2, QuietStep, Zenon DEF storeVars
<1>11. ASSUME NEW j \in Jobs, CompletionAcknowledged(j)
       PROVE  InventoryInvariant'
  <2>1. /\ journal' \in [Jobs -> Ids \cup {None}] /\ completed' \in SUBSET Jobs
        /\ UNCHANGED <<storeVars, held, session, flush, remoteVars, syncVars, issued>>
    BY <1>1, <1>11, Zenon DEF CompletionAcknowledged, TypeOK
  <2>2. TypeOK'
    BY <1>1, <2>1, Zenon DEF TypeOK, storeVars, remoteVars, syncVars
  <2> QED BY <1>1, <2>1, <2>2, QuietStep, Zenon DEF storeVars, remoteVars
<1> QED
  BY <1>2, <1>3, <1>4, <1>5, <1>6, <1>8, <1>9, <1>10, <1>11, AcknowledgeStep, ZenonT(60) DEF DeliveryStep

\* Every step of the host, its sessions, the server and a restart preserves the
\* inductive invariant.
LEMMA NextInvariant == InventoryInvariant /\ [Next]_vars => InventoryInvariant'
<1> SUFFICES ASSUME InventoryInvariant, [Next]_vars PROVE InventoryInvariant'
  BY Zenon
<1>1. /\ TypeOK
      /\ \A r \in wire : <<r.id, r.mutation>> \in issued
  BY Zenon DEF InventoryInvariant, DeliveryCoherent
<1>2. CASE LockManagement
  <2>1. TypeOK'
    BY <1>1, <1>2, Zenon DEF LockManagement, TypeOK, storeVars, jobVars, remoteVars, syncVars
  <2> QED BY <1>1, <1>2, <2>1, QuietStep, Zenon DEF LockManagement, storeVars, remoteVars
<1>3. CASE SyncReadsStore
  <2>1. mem \in PersistedState
    BY <1>1, Zenon DEF TypeOK
  <2>2. \A id \in Ids : mem.connectors[id] # None =>
           mem.connectors[id].active.artifact \in Artifacts
    BY <2>1, Zenon DEF PersistedState, ConnectorRecord, Slot
  <2>3. synced' \in [Ids -> Artifacts \cup {None}]
    BY <1>3, <2>2, Zenon DEF SyncReadsStore
  <2>4. TypeOK'
    BY <1>1, <1>3, <2>3, Zenon DEF SyncReadsStore, TypeOK, storeVars, jobVars, remoteVars
  <2> QED BY <1>1, <1>3, <2>4, QuietStep, Zenon DEF SyncReadsStore, storeVars, remoteVars
<1>4. CASE SyncSends
  <2>1. synced \in [Ids -> Artifacts \cup {None}]
    BY <1>1, <1>4, Zenon DEF SyncSends, TypeOK
  <2>2. report' \in [Ids -> Artifacts \cup {None}]
    BY <1>4, <2>1, Zenon DEF SyncSends
  <2>3. TypeOK'
    BY <1>1, <1>4, <2>2, Zenon DEF SyncSends, TypeOK, storeVars, jobVars, remoteVars
  <2> QED BY <1>1, <1>4, <2>3, QuietStep, Zenon DEF SyncSends, storeVars, remoteVars
<1>5. CASE UNCHANGED vars
  <2>1. TypeOK'
    BY <1>1, <1>5, Zenon DEF TypeOK, vars
  <2> QED BY <1>1, <1>5, <2>1, QuietStep, Zenon DEF vars
<1> QED
  BY <1>2, <1>3, <1>4, <1>5, RestartStep, LifecyclePreserves, DeliveryPreserves, Zenon DEF Next

\* The store, the workers, the wire and the server agree in every reachable
\* state, for any number of connectors, artifacts and jobs.
THEOREM InventoryCorrect == Spec => []InventoryInvariant
BY InitInvariant, NextInvariant, PTL DEF Spec

\* Every variable keeps its type.
THEOREM TypeCorrect == Spec => []TypeOK
<1>1. InventoryInvariant => TypeOK
  BY Zenon DEF InventoryInvariant
<1> QED BY <1>1, InventoryCorrect, PTL

\* load accepts whatever saves, failed saves and restarts leave in host.json.
THEOREM ReloadCorrect == Spec => []ReloadValid
<1>1. InventoryInvariant => ReloadValid
  BY ZenonT(60) DEF InventoryInvariant, ReloadValid, Coherent
<1> QED BY <1>1, InventoryCorrect, PTL

\* With nothing pending for a connector, the server's view of it is the
\* installed one, whatever was lost, reordered or replayed.
THEOREM InSyncCorrect == Spec => []InSync
<1>1. InventoryInvariant => InSync
  BY ZenonT(60) DEF InventoryInvariant, InSync, Coherent
<1> QED BY <1>1, InventoryCorrect, PTL

\* The server never sees two mutations under one revision.
THEOREM RevisionsCorrect == Spec => []RevisionNamesOneMutation
<1>1. InventoryInvariant => RevisionNamesOneMutation
  BY ZenonT(60) DEF InventoryInvariant, RevisionNamesOneMutation, Deliverable
<1> QED BY <1>1, InventoryCorrect, PTL

\* A record that may be reported is known to the server and awaits no fence.
THEOREM AcknowledgedCorrect == Spec => []AcknowledgedIsKnown
<1>1. InventoryInvariant => AcknowledgedIsKnown
  BY ZenonT(60) DEF InventoryInvariant, AcknowledgedIsKnown, Coherent
<1> QED BY <1>1, InventoryCorrect, PTL

\* A flush offers a connector's newest mutation: all offered before are older.
LEMMA FlushOffers ==
    ASSUME InventoryInvariant, FlushPending, UNCHANGED server
    PROVE  Promise!Offer
<1> DEFINE Pending == {<<id, mem.pending[id]>> : id \in PendingIds(mem)}
<1>1. issued' = issued \cup Pending
  BY Zenon DEF FlushPending
<1>2. Deliverable = issued \cup Pending
  BY Zenon DEF Deliverable
<1>3. ASSUME NEW p \in Pending, NEW c \in issued \cup Pending, c[1] = p[1]
      PROVE  c = p \/ c[2].revision < p[2].revision
  <2>1. PICK id \in PendingIds(mem) : p = <<id, mem.pending[id]>>
    BY <1>3, Zenon
  <2>2. id \in Ids /\ mem.pending[id] # None
    BY <2>1, Zenon DEF PendingIds
  <2>3. c[2].revision <= mem.pending[id].revision
    <3>1. \A d \in Deliverable : mem.pending[d[1]] # None =>
              d[2].revision <= mem.pending[d[1]].revision
      BY ZenonT(30) DEF InventoryInvariant, Coherent
    <3> QED BY <1>2, <1>3, <2>1, <2>2, <3>1, ZenonT(60)
  <2>4. c[2].revision = mem.pending[id].revision => c = p
    BY <1>2, <1>3, <2>1, Zenon DEF InventoryInvariant
  <2>5. c[2] \in InventoryMutation /\ mem.pending[id] \in InventoryMutation
    BY <1>2, <1>3, <2>1, <2>2, DeliverableType, ZenonT(60) DEF InventoryInvariant
  <2>6. c[2].revision \in Nat /\ mem.pending[id].revision \in Nat
    BY <2>5, StoreAssumption DEF InventoryMutation
  <2> QED BY <2>1, <2>3, <2>4, <2>6, SMTT(30)
<1>4. \A p \in Pending : p[1] \in Ids
  BY SMTT(30) DEF PendingIds
<1> HIDE DEF Pending
<1> QED
  BY <1>1, <1>3, <1>4, SMTT(30) DEF Promise!Offer, Registration

\* Applying an offered mutation moves Airlock forward, or not at all.
LEMMA ApplyLearns ==
    ASSUME NEW id \in Ids, NEW m, <<id, m>> \in issued,
           server' = Apply(id, m), issued' = issued
    PROVE  Promise!Learn(id) \/ server' = server
<1>1. CASE m.revision > server[id].revision
  <2>1. Registration(<<id, m>>) \in {Registration(c) : c \in issued}
    BY Zenon
  <2> QED BY <1>1, <2>1, ZenonT(30) DEF Promise!Learn, Apply, Registration
<1> QED BY <1>1, Zenon DEF Apply

\* Every step of Inventory is a step of the Registry, or none.
LEMMA RegistryStep ==
    ASSUME InventoryInvariant, [Next]_vars
    PROVE  Promise!Next \/ UNCHANGED <<issued, server>>
<1>1. CASE FlushPending /\ UNCHANGED server
  BY <1>1, FlushOffers, Zenon DEF Promise!Next
<1>2. ASSUME NEW r \in wire, server' = Apply(r.id, r.mutation), issued' = issued
      PROVE  Promise!Next \/ UNCHANGED <<issued, server>>
  <2>1. r.id \in Ids /\ <<r.id, r.mutation>> \in issued
    BY <1>2, Zenon DEF InventoryInvariant, DeliveryCoherent, TypeOK, Request
  <2> QED BY <1>2, <2>1, ApplyLearns, Zenon DEF Promise!Next
<1>3. CASE Connect \/ FlushInventoryMutations
  BY <1>1, <1>3, Zenon DEF Connect, FlushInventoryMutations, remoteVars
<1>4. ASSUME NEW id \in Ids, NEW o \in Origins, ServerReplies(id, o)
      PROVE  Promise!Next \/ UNCHANGED <<issued, server>>
  BY <1>2, <1>4, Zenon DEF ServerReplies
<1>5. ASSUME NEW r \in wire, ServerAppliesSilently(r)
      PROVE  Promise!Next \/ UNCHANGED <<issued, server>>
  BY <1>2, <1>5, Zenon DEF ServerAppliesSilently
<1>6. CASE LifecycleStep
  BY <1>6, ZenonT(30) DEF LifecycleStep, OperationFails, InstallLocal, UpdateLocal, RollbackLocal,
              RemoveLocal, RebindTransition, RemoteTransition, ActivateInventory, remoteVars
<1>7. CASE LockManagement \/ SyncReadsStore \/ SyncSends \/ Restart \/ UNCHANGED vars
  BY <1>7, ZenonT(30) DEF LockManagement, SyncReadsStore, SyncSends, Restart, remoteVars, vars
<1>8. ASSUME NEW id \in Ids, SkipFenced(id) \/ SendMutation(id) \/ Acknowledge(id) \/ DropAnswer(id)
      PROVE  UNCHANGED <<issued, server>>
  BY <1>8, Zenon DEF SkipFenced, SendMutation, Acknowledge, DropAnswer, remoteVars
<1>9. ASSUME NEW r \in wire, LoseRequest(r)
      PROVE  UNCHANGED <<issued, server>>
  BY <1>9, Zenon DEF LoseRequest
<1>10. CASE Disconnect \/ \E j \in Jobs : CompletionAcknowledged(j)
  BY <1>10, Zenon DEF Disconnect, CompletionAcknowledged, remoteVars
<1> QED
  BY <1>3, <1>4, <1>5, <1>6, <1>7, <1>8, <1>9, <1>10, ZenonT(60) DEF Next, DeliveryStep

\* The host's delivery implements the Registry: whatever is lost, repeated or
\* interrupted, Airlock moves only forward, through what the host offered.
THEOREM RegistryImplemented == Spec => ImplementsRegistry
<1>1. Init => Promise!Init
  BY Zenon DEF Init, Promise!Init
<1>2. InventoryInvariant /\ [Next]_vars =>
         [Promise!Next]_<<{Registration(c) : c \in issued}, server>>
  BY RegistryStep, Zenon
<1> QED BY <1>1, <1>2, InventoryCorrect, PTL DEF Spec, ImplementsRegistry, Promise!Spec
============================================================================
