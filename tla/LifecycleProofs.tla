-------------------------- MODULE LifecycleProofs --------------------------
(***************************************************************************)
(* The theorems of the two machines by which an installed host comes and   *)
(* goes: unenrolling (Reset) and the service commands (Service).           *)
(***************************************************************************)
EXTENDS Reset, Service, TLAPS

----------------------------------------------------------------------------
(* A reset is permanent and an open store holds one identity, whatever     *)
(* fails or is killed in between: ResetInvariant is inductive.             *)


\* The flags stay Boolean.
LEMMA ResetFlagsKept ==
    ASSUME ResetFlagsOK, ResetNext
    PROVE  ResetFlagsOK'
<1>1. CASE ResetEnds
  BY <1>1, Zenon
  DEF ResetEnds, SyncStateRoot, To, Release, historyVars, commandVars, ResetFlagsOK
<1>2. CASE UnenrollBegins
  BY <1>2, Zenon
  DEF UnenrollBegins, diskVars, historyVars, lockVars, commandVars, ResetFlagsOK
<1>3. CASE StopFails
  BY <1>3, Zenon DEF StopFails, diskVars, historyVars, lockVars, commandVars, ResetFlagsOK
<1>4. CASE Interrupt
  BY <1>4, Zenon DEF Interrupt, diskVars, historyVars, lockVars, commandVars, ResetFlagsOK
<1>5. CASE CommandKilled
  BY <1>5, Zenon
  DEF CommandKilled, Dead, diskVars, historyVars, lockVars, commandVars, ResetFlagsOK
<1>6. CASE PowerLoss
  BY <1>6, Zenon DEF PowerLoss, Dead, lockVars, ResetFlagsOK
<1>7. CASE StoreFails \/ ResetBegins \/ WriteScratch \/ PublishMarker \/ SyncMarker
           \/ ListEntries \/ (\E n \in Names : TearDirectory(n))
           \/ (\E n \in Names : RemoveEntry(n)) \/ SyncRemovals \/ RemoveMarker
           \/ OpenBegins
  BY <1>7, Zenon
  DEF StoreFails, Put, Release, diskVars, historyVars, lockVars, commandVars, ResetBegins,
      WriteScratch, To, Present, PublishMarker, Rename, SyncMarker, SyncStateRoot,
      ListEntries, TearDirectory, RemoveEntry, SyncRemovals, RemoveMarker, OpenBegins,
      ResetFlagsOK
<1>8. CASE CheckMarker \/ Load \/ SyncCreated \/ HostExits
           \/ (\E n \in Directories : HostWrites(n)) \/ StopService \/ UnenrollEnds
           \/ StartService \/ HostKilled \/ (\E n \in Strays : Stray(n))
  BY <1>8, Zenon
  DEF CheckMarker, To, diskVars, historyVars, commandVars, Present, lockVars, Load,
      Put, SyncCreated, SyncStateRoot, HostExits, Release, HostWrites, StopService,
      Dead, UnenrollEnds, StartService, HostKilled, Stray, ResetFlagsOK
<1> QED
  BY <1>1, <1>2, <1>3, <1>4, <1>5, <1>6, <1>7, <1>8
  DEF ResetNext, ResetStep, OpenStep, HostStep, UnenrollStep, Environment

\* A command that returns has started the service it stopped, or was interrupted.
LEMMA ServiceComesBackKept ==
    ASSUME ResetInvariant, ResetNext
    PROVE  ServiceComesBack'
<1>1. CASE StoreFails
  BY <1>1
  DEF StoreFails, Put, Release, diskVars, historyVars, lockVars, commandVars,
      ResetInvariant, ResetTypeOK, ServiceComesBack
<1>2. CASE ResetBegins
  BY <1>2
  DEF ResetBegins, diskVars, historyVars, lockVars, commandVars, ResetInvariant,
      ResetTypeOK, ServiceComesBack
<1>3. CASE ResetEnds
  BY <1>3, ZenonT(30)
  DEF ResetEnds, SyncStateRoot, To, Release, historyVars, commandVars, ResetInvariant,
      ResetTypeOK, ServiceComesBack
<1>4. CASE HostExits
  BY <1>4
  DEF HostExits, Release, diskVars, historyVars, lockVars, commandVars, ResetInvariant,
      ResetTypeOK, ServiceComesBack
<1>5. CASE UnenrollBegins
  BY <1>5
  DEF UnenrollBegins, diskVars, historyVars, lockVars, commandVars, ResetInvariant,
      ResetTypeOK, ServiceComesBack
<1>6. CASE StopService
  BY <1>6
  DEF StopService, Dead, diskVars, historyVars, lockVars, commandVars, ResetInvariant,
      ResetTypeOK, ServiceComesBack
<1>7. CASE StopFails
  BY <1>7
  DEF StopFails, diskVars, historyVars, lockVars, commandVars, ResetInvariant, ResetTypeOK,
      ServiceComesBack
<1>8. CASE UnenrollEnds
  BY <1>8
  DEF UnenrollEnds, diskVars, historyVars, lockVars, commandVars, ResetInvariant,
      ResetTypeOK, ServiceComesBack
<1>9. CASE Interrupt
  BY <1>9
  DEF Interrupt, diskVars, historyVars, lockVars, commandVars, ResetInvariant, ResetTypeOK,
      ServiceComesBack
<1>10. CASE StartService
  BY <1>10
  DEF StartService, diskVars, historyVars, lockVars, commandVars, ResetInvariant,
      ResetTypeOK, ServiceComesBack
<1>11. CASE CommandKilled
  BY <1>11
  DEF CommandKilled, Dead, diskVars, historyVars, lockVars, commandVars,
      ResetInvariant, ResetTypeOK, ServiceComesBack
<1>12. CASE PowerLoss
  BY <1>12 DEF PowerLoss, Dead, lockVars, ResetInvariant, ResetTypeOK, ServiceComesBack
<1>13. CASE WriteScratch \/ PublishMarker \/ SyncMarker \/ ListEntries
            \/ (\E n \in Names : TearDirectory(n))
            \/ (\E n \in Names : RemoveEntry(n)) \/ SyncRemovals \/ RemoveMarker
            \/ OpenBegins \/ CheckMarker \/ Load \/ SyncCreated
            \/ (\E n \in Directories : HostWrites(n)) \/ HostKilled
            \/ (\E n \in Strays : Stray(n))
  BY <1>13, ZenonT(30)
  DEF WriteScratch, Put, To, historyVars, commandVars, Present, PublishMarker, Rename,
      SyncMarker, SyncStateRoot, ListEntries, diskVars, lockVars, TearDirectory,
      RemoveEntry, SyncRemovals, RemoveMarker, OpenBegins, CheckMarker, Load,
      SyncCreated, HostWrites, HostKilled, Dead, Stray, ResetInvariant, ResetTypeOK,
      ServiceComesBack
<1> QED
  BY <1>1, <1>2, <1>3, <1>4, <1>5, <1>6, <1>7, <1>8, <1>9, <1>10, <1>11, <1>12, <1>13
  DEF ResetNext, ResetStep, OpenStep, HostStep, UnenrollStep, Environment

\* Every step keeps the types.
LEMMA ResetTypeKept ==
    ASSUME ResetInvariant, ResetNext
    PROVE  ResetTypeOK'
<1>1. CASE StoreFails
  BY <1>1, ResetFlagsKept, ResetAssumption
  DEF StoreFails, Put, Release, diskVars, historyVars, lockVars, commandVars,
      ResetInvariant, ResetTypeOK, Content, Steps, Names, Entries, HostJSON, Marker, Scratch
<1>2. CASE ResetBegins
  BY <1>2, ResetFlagsKept, ResetAssumption
  DEF ResetBegins, diskVars, historyVars, lockVars, commandVars, ResetInvariant,
      ResetTypeOK, Content, Steps, Names, Entries, HostJSON, Marker, Scratch
<1>3. CASE WriteScratch
  BY <1>3, ResetFlagsKept, ResetAssumption
  DEF WriteScratch, Put, To, historyVars, commandVars, Present, ResetInvariant, ResetTypeOK,
      Content, Steps, Names, Entries, HostJSON, Marker, Scratch
<1>4. CASE PublishMarker
  BY <1>4, ResetFlagsKept, ResetAssumption
  DEF PublishMarker, Rename, To, historyVars, commandVars, ResetInvariant, ResetTypeOK,
      Content, Steps, Names, Entries, HostJSON, Marker, Scratch
<1>5. CASE SyncMarker
  BY <1>5, ResetFlagsKept, ResetAssumption
  DEF SyncMarker, SyncStateRoot, To, historyVars, commandVars, ResetInvariant, ResetTypeOK,
      Content, Steps, Names, Entries, HostJSON, Marker, Scratch
<1>6. CASE ListEntries
  BY <1>6, ResetFlagsKept, ResetAssumption
  DEF ListEntries, diskVars, historyVars, commandVars, Present, lockVars,
      ResetInvariant, ResetTypeOK, Content, Steps, Names, Entries, HostJSON, Marker, Scratch
<1>7. ASSUME NEW n \in Names, TearDirectory(n) PROVE ResetTypeOK'
  BY <1>7, ResetFlagsKept, ResetAssumption
  DEF TearDirectory, Put, historyVars, lockVars, commandVars, ResetInvariant, ResetTypeOK,
      Content, Steps, Names, Entries, HostJSON, Marker, Scratch
<1>8. ASSUME NEW n \in Names, RemoveEntry(n) PROVE ResetTypeOK'
  BY <1>8, ResetFlagsKept, ResetAssumption
  DEF RemoveEntry, Put, historyVars, commandVars, ResetInvariant, ResetTypeOK, Content,
      Steps, Names, Entries, HostJSON, Marker, Scratch
<1>9. CASE SyncRemovals
  BY <1>9, ResetFlagsKept, ResetAssumption
  DEF SyncRemovals, SyncStateRoot, To, historyVars, commandVars, ResetInvariant,
      ResetTypeOK, Content, Steps, Names, Entries, HostJSON, Marker, Scratch
<1>10. CASE RemoveMarker
  BY <1>10, ResetFlagsKept, ResetAssumption
  DEF RemoveMarker, Put, To, historyVars, commandVars, ResetInvariant, ResetTypeOK, Content,
      Steps, Names, Entries, HostJSON, Marker, Scratch
<1>11. CASE ResetEnds
  BY <1>11, ResetFlagsKept, ResetAssumption
  DEF ResetEnds, SyncStateRoot, To, Release, historyVars, commandVars, ResetInvariant,
      ResetTypeOK, Content, Steps, Names, Entries, HostJSON, Marker, Scratch
<1>12. CASE OpenBegins
  BY <1>12, ResetFlagsKept, ResetAssumption
  DEF OpenBegins, diskVars, historyVars, commandVars, lockVars, ResetInvariant, ResetTypeOK,
      Content, Steps, Names, Entries, HostJSON, Marker, Scratch
<1>13. CASE CheckMarker
  BY <1>13, ResetFlagsKept, ResetAssumption
  DEF CheckMarker, To, diskVars, historyVars, commandVars, Present, lockVars,
      ResetInvariant, ResetTypeOK, Content, Steps, Names, Entries, HostJSON, Marker, Scratch
<1>14. CASE Load
  BY <1>14, ResetFlagsKept, ResetAssumption
  DEF Load, Put, To, diskVars, historyVars, commandVars, Present, lockVars,
      ResetInvariant, ResetTypeOK, Content, Steps, Names, Entries, HostJSON, Marker, Scratch
<1>15. CASE SyncCreated
  BY <1>15, ResetFlagsKept, ResetAssumption
  DEF SyncCreated, SyncStateRoot, To, historyVars, commandVars, ResetInvariant, ResetTypeOK,
      Content, Steps, Names, Entries, HostJSON, Marker, Scratch
<1>16. CASE HostExits
  BY <1>16, ResetFlagsKept, ResetAssumption
  DEF HostExits, Release, diskVars, historyVars, lockVars, commandVars, ResetInvariant,
      ResetTypeOK, Content, Steps, Names, Entries, HostJSON, Marker, Scratch
<1>17. ASSUME NEW n \in Directories, HostWrites(n) PROVE ResetTypeOK'
  BY <1>17, ResetFlagsKept, ResetAssumption
  DEF HostWrites, Put, historyVars, lockVars, commandVars, Present, ResetInvariant,
      ResetTypeOK, Content, Steps, Names, Entries, HostJSON, Marker, Scratch
<1>18. CASE StopService
  BY <1>18, ResetFlagsKept, ResetAssumption
  DEF StopService, Dead, diskVars, historyVars, lockVars, commandVars, ResetInvariant,
      ResetTypeOK, Content, Steps, Names, Entries, HostJSON, Marker, Scratch
<1>19. CASE CommandKilled
  BY <1>19, ResetFlagsKept, ResetAssumption
  DEF CommandKilled, Dead, diskVars, historyVars, lockVars, commandVars,
      ResetInvariant, ResetTypeOK, Content, Steps, Names, Entries, HostJSON, Marker, Scratch
<1>20. CASE HostKilled
  BY <1>20, ResetFlagsKept, ResetAssumption
  DEF HostKilled, Dead, diskVars, historyVars, commandVars, lockVars, ResetInvariant,
      ResetTypeOK, Content, Steps, Names, Entries, HostJSON, Marker, Scratch
<1>21. CASE PowerLoss
  BY <1>21, ResetFlagsKept, ResetAssumption
  DEF PowerLoss, Dead, lockVars, ResetInvariant, ResetTypeOK, Content, Steps, Names,
      Entries, HostJSON, Marker, Scratch
<1>22. ASSUME NEW n \in Strays, Stray(n) PROVE ResetTypeOK'
  BY <1>22, ResetFlagsKept, ResetAssumption
  DEF Stray, historyVars, lockVars, commandVars, Present, ResetInvariant, ResetTypeOK,
      Content, Steps, Names, Entries, HostJSON, Marker, Scratch
<1>23. CASE UnenrollBegins \/ StopFails \/ UnenrollEnds \/ Interrupt \/ StartService
  BY <1>23, ResetFlagsKept, ResetAssumption
  DEF UnenrollBegins, diskVars, historyVars, lockVars, commandVars, StopFails,
      UnenrollEnds, Interrupt, StartService, ResetInvariant, ResetTypeOK
<1> QED
  BY <1>1, <1>2, <1>3, <1>4, <1>5, <1>6, <1>7, <1>8, <1>9, <1>10, <1>11, <1>12, <1>13,
     <1>14, <1>15, <1>16, <1>17, <1>18, <1>19, <1>20, <1>21, <1>22, <1>23
  DEF ResetNext, ResetStep, OpenStep, HostStep, UnenrollStep, Environment

\* Every step leaves the directory as the next one expects it.
LEMMA StepCoherentKept ==
    ASSUME ResetInvariant, ResetNext
    PROVE  StepCoherent'
<1>1. CASE StoreFails
  BY <1>1, ResetAssumption
  DEF StoreFails, Put, Release, diskVars, historyVars, lockVars, commandVars,
      ResetInvariant, ResetTypeOK, StepCoherent, Present, Names, Entries, HostJSON, Marker,
      Scratch
<1>2. CASE ResetBegins
  BY <1>2, ResetAssumption
  DEF ResetBegins, diskVars, historyVars, lockVars, commandVars, ResetInvariant,
      ResetTypeOK, StepCoherent, Present, Names, Entries, HostJSON, Marker, Scratch
<1>3. CASE WriteScratch
  BY <1>3, ResetAssumption
  DEF WriteScratch, Put, To, historyVars, commandVars, Present, ResetInvariant, ResetTypeOK,
      StepCoherent, Names, Entries, HostJSON, Marker, Scratch
<1>4. CASE PublishMarker
  BY <1>4, ResetAssumption
  DEF PublishMarker, Rename, To, historyVars, commandVars, ResetInvariant, ResetTypeOK,
      StepCoherent, Present, Names, Entries, HostJSON, Marker, Scratch
<1>5. CASE SyncMarker
  BY <1>5, ResetAssumption
  DEF SyncMarker, SyncStateRoot, To, historyVars, commandVars, ResetInvariant, ResetTypeOK,
      StepCoherent, Present, Names, Entries, HostJSON, Marker, Scratch
<1>6. CASE ListEntries
  BY <1>6, ResetAssumption
  DEF ListEntries, diskVars, historyVars, commandVars, Present, lockVars,
      ResetInvariant, ResetTypeOK, StepCoherent, Names, Entries, HostJSON, Marker, Scratch
<1>7. ASSUME NEW n \in Names, TearDirectory(n) PROVE StepCoherent'
  BY <1>7, ResetAssumption
  DEF TearDirectory, Put, historyVars, lockVars, commandVars, ResetInvariant, ResetTypeOK,
      StepCoherent, Present, Names, Entries, HostJSON, Marker, Scratch
<1>8. ASSUME NEW n \in Names, RemoveEntry(n) PROVE StepCoherent'
  BY <1>8, ResetAssumption
  DEF RemoveEntry, Put, historyVars, commandVars, ResetInvariant, ResetTypeOK, StepCoherent,
      Present, Names, Entries, HostJSON, Marker, Scratch
<1>9. CASE SyncRemovals
  BY <1>9, ResetAssumption
  DEF SyncRemovals, SyncStateRoot, To, historyVars, commandVars, ResetInvariant,
      ResetTypeOK, StepCoherent, Present, Names, Entries, HostJSON, Marker, Scratch
<1>10. CASE RemoveMarker
  BY <1>10, ResetAssumption
  DEF RemoveMarker, Put, To, historyVars, commandVars, ResetInvariant, ResetTypeOK,
      StepCoherent, Present, Names, Entries, HostJSON, Marker, Scratch
<1>11. CASE ResetEnds
  BY <1>11, ResetAssumption
  DEF ResetEnds, SyncStateRoot, To, Release, historyVars, commandVars, ResetInvariant,
      ResetTypeOK, StepCoherent, Present, Names, Entries, HostJSON, Marker, Scratch
<1>12. CASE OpenBegins
  BY <1>12, ResetAssumption
  DEF OpenBegins, diskVars, historyVars, commandVars, lockVars, ResetInvariant, ResetTypeOK,
      StepCoherent, Present, Names, Entries, HostJSON, Marker, Scratch
<1>13. CASE CheckMarker
  BY <1>13, ResetAssumption
  DEF CheckMarker, To, diskVars, historyVars, commandVars, Present, lockVars,
      ResetInvariant, ResetTypeOK, StepCoherent, Names, Entries, HostJSON, Marker, Scratch
<1>14. CASE Load
  BY <1>14, ResetAssumption
  DEF Load, Put, To, diskVars, historyVars, commandVars, Present, lockVars,
      ResetInvariant, ResetTypeOK, StepCoherent, Names, Entries, HostJSON, Marker, Scratch
<1>15. CASE SyncCreated
  BY <1>15, ResetAssumption
  DEF SyncCreated, SyncStateRoot, To, historyVars, commandVars, ResetInvariant, ResetTypeOK,
      StepCoherent, Present, Names, Entries, HostJSON, Marker, Scratch
<1>16. CASE HostExits
  BY <1>16, ResetAssumption
  DEF HostExits, Release, diskVars, historyVars, lockVars, commandVars, ResetInvariant,
      ResetTypeOK, StepCoherent, Present, Names, Entries, HostJSON, Marker, Scratch
<1>17. ASSUME NEW n \in Directories, HostWrites(n) PROVE StepCoherent'
  BY <1>17, ResetAssumption
  DEF HostWrites, Put, historyVars, lockVars, commandVars, Present, ResetInvariant,
      ResetTypeOK, StepCoherent, Names, Entries, HostJSON, Marker, Scratch
<1>18. CASE StopService
  BY <1>18, ResetAssumption
  DEF StopService, Dead, diskVars, historyVars, lockVars, commandVars, ResetInvariant,
      ResetTypeOK, StepCoherent, Present, Names, Entries, HostJSON, Marker, Scratch
<1>19. CASE CommandKilled
  BY <1>19, ResetAssumption
  DEF CommandKilled, Dead, diskVars, historyVars, lockVars, commandVars,
      ResetInvariant, ResetTypeOK, StepCoherent, Present, Names, Entries, HostJSON, Marker,
      Scratch
<1>20. CASE HostKilled
  BY <1>20, ResetAssumption
  DEF HostKilled, Dead, diskVars, historyVars, commandVars, lockVars, ResetInvariant,
      ResetTypeOK, StepCoherent, Present, Names, Entries, HostJSON, Marker, Scratch
<1>21. CASE PowerLoss
  BY <1>21, ResetAssumption
  DEF PowerLoss, Dead, lockVars, ResetInvariant, ResetTypeOK, StepCoherent, Present, Names,
      Entries, HostJSON, Marker, Scratch
<1>22. ASSUME NEW n \in Strays, Stray(n) PROVE StepCoherent'
  BY <1>22, ResetAssumption
  DEF Stray, historyVars, lockVars, commandVars, Present, ResetInvariant, ResetTypeOK,
      StepCoherent, Names, Entries, HostJSON, Marker, Scratch
<1>23. CASE UnenrollBegins \/ StopFails \/ UnenrollEnds \/ Interrupt \/ StartService
  BY <1>23, ResetAssumption
  DEF UnenrollBegins, diskVars, historyVars, lockVars, commandVars, StopFails,
      UnenrollEnds, Interrupt, StartService, ResetInvariant, StepCoherent, Present
<1> QED
  BY <1>1, <1>2, <1>3, <1>4, <1>5, <1>6, <1>7, <1>8, <1>9, <1>10, <1>11, <1>12, <1>13,
     <1>14, <1>15, <1>16, <1>17, <1>18, <1>19, <1>20, <1>21, <1>22, <1>23
  DEF ResetNext, ResetStep, OpenStep, HostStep, UnenrollStep, Environment

\* Nothing is half deleted without the marker.
LEMMA TornIsMarkedKept ==
    ASSUME ResetInvariant, ResetNext
    PROVE  TornIsMarked'
<1>1. CASE StoreFails
  BY <1>1, ResetAssumption
  DEF StoreFails, Put, Release, diskVars, historyVars, lockVars, commandVars,
      ResetInvariant, ResetTypeOK, StepCoherent, Present, TornIsMarked, Consistent, Names,
      Entries, HostJSON, Marker, Scratch
<1>2. CASE WriteScratch
  BY <1>2, ResetAssumption
  DEF WriteScratch, Put, To, historyVars, commandVars, Present, ResetInvariant, ResetTypeOK,
      StepCoherent, TornIsMarked, Consistent, Names, Entries, HostJSON, Marker, Scratch
<1>3. CASE PublishMarker
  BY <1>3, ResetAssumption
  DEF PublishMarker, Rename, To, historyVars, commandVars, ResetInvariant, ResetTypeOK,
      StepCoherent, Present, TornIsMarked, Consistent, Names, Entries, HostJSON,
      Marker, Scratch
<1>4. CASE SyncMarker
  BY <1>4, ResetAssumption
  DEF SyncMarker, SyncStateRoot, To, historyVars, commandVars, ResetInvariant, ResetTypeOK,
      StepCoherent, Present, TornIsMarked, Consistent, Names, Entries, HostJSON,
      Marker, Scratch
<1>5. ASSUME NEW n \in Names, TearDirectory(n) PROVE TornIsMarked'
  BY <1>5, ResetAssumption
  DEF TearDirectory, Put, historyVars, lockVars, commandVars, ResetInvariant, ResetTypeOK,
      StepCoherent, Present, TornIsMarked, Consistent, Names, Entries, HostJSON,
      Marker, Scratch
<1>6. ASSUME NEW n \in Names, RemoveEntry(n) PROVE TornIsMarked'
  BY <1>6, ResetAssumption
  DEF RemoveEntry, Put, historyVars, commandVars, ResetInvariant, ResetTypeOK, StepCoherent,
      Present, TornIsMarked, Consistent, Names, Entries, HostJSON, Marker, Scratch
<1>7. CASE SyncRemovals
  BY <1>7, ResetAssumption
  DEF SyncRemovals, SyncStateRoot, To, historyVars, commandVars, ResetInvariant,
      ResetTypeOK, StepCoherent, Present, TornIsMarked, Consistent, Names, Entries,
      HostJSON, Marker, Scratch
<1>8. CASE RemoveMarker
  BY <1>8, ResetAssumption
  DEF RemoveMarker, Put, To, historyVars, commandVars, ResetInvariant, ResetTypeOK,
      StepCoherent, Present, TornIsMarked, Consistent, Names, Entries, HostJSON,
      Marker, Scratch
<1>9. CASE ResetEnds
  BY <1>9, ResetAssumption
  DEF ResetEnds, SyncStateRoot, To, Release, historyVars, commandVars, ResetInvariant,
      ResetTypeOK, StepCoherent, Present, TornIsMarked, Consistent, Names, Entries,
      HostJSON, Marker, Scratch
<1>10. CASE Load
  BY <1>10, ResetAssumption
  DEF Load, Put, To, diskVars, historyVars, commandVars, Present, lockVars,
      ResetInvariant, ResetTypeOK, StepCoherent, TornIsMarked, Consistent, Names, Entries,
      HostJSON, Marker, Scratch
<1>11. CASE SyncCreated
  BY <1>11, ResetAssumption
  DEF SyncCreated, SyncStateRoot, To, historyVars, commandVars, ResetInvariant, ResetTypeOK,
      StepCoherent, Present, TornIsMarked, Consistent, Names, Entries, HostJSON,
      Marker, Scratch
<1>12. ASSUME NEW n \in Directories, HostWrites(n) PROVE TornIsMarked'
  BY <1>12, ResetAssumption
  DEF HostWrites, Put, historyVars, lockVars, commandVars, Present, ResetInvariant,
      ResetTypeOK, StepCoherent, TornIsMarked, Consistent, Names, Entries, HostJSON, Marker,
      Scratch
<1>13. CASE PowerLoss
  BY <1>13, ResetAssumption
  DEF PowerLoss, Dead, lockVars, ResetInvariant, ResetTypeOK, StepCoherent, Present,
      TornIsMarked, Consistent, Names, Entries, HostJSON, Marker, Scratch
<1>14. ASSUME NEW n \in Strays, Stray(n) PROVE TornIsMarked'
  BY <1>14, ResetAssumption
  DEF Stray, historyVars, lockVars, commandVars, Present, ResetInvariant, ResetTypeOK,
      StepCoherent, TornIsMarked, Consistent, Names, Entries, HostJSON, Marker, Scratch
<1>15. CASE ResetBegins \/ ListEntries \/ OpenBegins \/ CheckMarker \/ HostExits
            \/ UnenrollBegins \/ StopService \/ StopFails \/ UnenrollEnds
            \/ Interrupt \/ StartService \/ CommandKilled \/ HostKilled
  BY <1>15, ResetAssumption
  DEF ResetBegins, diskVars, historyVars, lockVars, commandVars, ListEntries, Present,
      OpenBegins, CheckMarker, To, HostExits, Release, UnenrollBegins, StopService,
      Dead, StopFails, UnenrollEnds, Interrupt, StartService, CommandKilled,
      HostKilled, ResetInvariant, TornIsMarked, Consistent
<1> QED
  BY <1>1, <1>2, <1>3, <1>4, <1>5, <1>6, <1>7, <1>8, <1>9, <1>10, <1>11, <1>12, <1>13,
     <1>14, <1>15
  DEF ResetNext, ResetStep, OpenStep, HostStep, UnenrollStep, Environment

\* Nothing brings the enrolled identity back.
LEMMA PermanentKept ==
    ASSUME ResetInvariant, ResetNext
    PROVE  ResetIsPermanent'
<1>1. CASE StoreFails
  BY <1>1, ResetAssumption
  DEF StoreFails, Put, Release, diskVars, historyVars, lockVars, commandVars,
      ResetInvariant, ResetTypeOK, StepCoherent, Present, ResetIsPermanent, Names, Entries,
      HostJSON, Marker, Scratch
<1>2. CASE WriteScratch
  BY <1>2, ResetAssumption
  DEF WriteScratch, Put, To, historyVars, commandVars, Present, ResetInvariant, ResetTypeOK,
      StepCoherent, ResetIsPermanent, Names, Entries, HostJSON, Marker, Scratch
<1>3. CASE PublishMarker
  BY <1>3, ResetAssumption
  DEF PublishMarker, Rename, To, historyVars, commandVars, ResetInvariant, ResetTypeOK,
      StepCoherent, Present, ResetIsPermanent, Names, Entries, HostJSON, Marker,
      Scratch
<1>4. CASE SyncMarker
  BY <1>4, ResetAssumption
  DEF SyncMarker, SyncStateRoot, To, historyVars, commandVars, ResetInvariant, ResetTypeOK,
      StepCoherent, Present, ResetIsPermanent, Names, Entries, HostJSON, Marker,
      Scratch
<1>5. ASSUME NEW n \in Names, TearDirectory(n) PROVE ResetIsPermanent'
  BY <1>5, ResetAssumption
  DEF TearDirectory, Put, historyVars, lockVars, commandVars, ResetInvariant, ResetTypeOK,
      StepCoherent, Present, ResetIsPermanent, Names, Entries, HostJSON, Marker,
      Scratch
<1>6. ASSUME NEW n \in Names, RemoveEntry(n) PROVE ResetIsPermanent'
  BY <1>6, ResetAssumption
  DEF RemoveEntry, Put, historyVars, commandVars, ResetInvariant, ResetTypeOK, StepCoherent,
      Present, ResetIsPermanent, Names, Entries, HostJSON, Marker, Scratch
<1>7. CASE SyncRemovals
  BY <1>7, ResetAssumption
  DEF SyncRemovals, SyncStateRoot, To, historyVars, commandVars, ResetInvariant,
      ResetTypeOK, StepCoherent, Present, ResetIsPermanent, Names, Entries, HostJSON,
      Marker, Scratch
<1>8. CASE RemoveMarker
  BY <1>8, ResetAssumption
  DEF RemoveMarker, Put, To, historyVars, commandVars, ResetInvariant, ResetTypeOK,
      StepCoherent, Present, ResetIsPermanent, Names, Entries, HostJSON, Marker,
      Scratch
<1>9. CASE ResetEnds
  BY <1>9, ResetAssumption
  DEF ResetEnds, SyncStateRoot, To, Release, historyVars, commandVars, ResetInvariant,
      ResetTypeOK, StepCoherent, Present, ResetIsPermanent, Names, Entries, HostJSON,
      Marker, Scratch
<1>10. CASE Load
  BY <1>10, ResetAssumption
  DEF Load, Put, To, diskVars, historyVars, commandVars, Present, lockVars,
      ResetInvariant, ResetTypeOK, StepCoherent, ResetIsPermanent, Names, Entries, HostJSON,
      Marker, Scratch
<1>11. CASE SyncCreated
  BY <1>11, ResetAssumption
  DEF SyncCreated, SyncStateRoot, To, historyVars, commandVars, ResetInvariant, ResetTypeOK,
      StepCoherent, Present, ResetIsPermanent, Names, Entries, HostJSON, Marker,
      Scratch
<1>12. ASSUME NEW n \in Directories, HostWrites(n) PROVE ResetIsPermanent'
  BY <1>12, ResetAssumption
  DEF HostWrites, Put, historyVars, lockVars, commandVars, Present, ResetInvariant,
      ResetTypeOK, StepCoherent, ResetIsPermanent, Names, Entries, HostJSON, Marker, Scratch
<1>13. CASE PowerLoss
  BY <1>13, ResetAssumption
  DEF PowerLoss, Dead, lockVars, ResetInvariant, ResetTypeOK, StepCoherent, Present,
      ResetIsPermanent, Names, Entries, HostJSON, Marker, Scratch
<1>14. ASSUME NEW n \in Strays, Stray(n) PROVE ResetIsPermanent'
  BY <1>14, ResetAssumption
  DEF Stray, historyVars, lockVars, commandVars, Present, ResetInvariant, ResetTypeOK,
      StepCoherent, ResetIsPermanent, Names, Entries, HostJSON, Marker, Scratch
<1>15. CASE ResetBegins \/ ListEntries \/ OpenBegins \/ CheckMarker \/ HostExits
            \/ UnenrollBegins \/ StopService \/ StopFails \/ UnenrollEnds
            \/ Interrupt \/ StartService \/ CommandKilled \/ HostKilled
  BY <1>15, ResetAssumption, ZenonT(30)
  DEF ResetBegins, diskVars, historyVars, lockVars, commandVars, ListEntries, Present,
      OpenBegins, CheckMarker, To, HostExits, Release, UnenrollBegins, StopService,
      Dead, StopFails, UnenrollEnds, Interrupt, StartService, CommandKilled,
      HostKilled, ResetInvariant, ResetIsPermanent
<1> QED
  BY <1>1, <1>2, <1>3, <1>4, <1>5, <1>6, <1>7, <1>8, <1>9, <1>10, <1>11, <1>12, <1>13,
     <1>14, <1>15
  DEF ResetNext, ResetStep, OpenStep, HostStep, UnenrollStep, Environment

\* Every step keeps the invariant.
LEMMA ResetStepKeeps ==
    ASSUME ResetInvariant, [ResetNext]_resetVars
    PROVE  ResetInvariant'
<1>1. CASE ResetNext
  BY <1>1, ResetTypeKept, PermanentKept, StepCoherentKept, TornIsMarkedKept,
     ServiceComesBackKept
  DEF ResetInvariant
<1>2. CASE UNCHANGED resetVars
  <2>1. ResetTypeOK'
    BY <1>2 DEF ResetInvariant, ResetTypeOK, ResetFlagsOK, resetVars
  <2>2. ResetIsPermanent' /\ StepCoherent' /\ TornIsMarked' /\ ServiceComesBack'
    BY <1>2
    DEF ResetInvariant, ResetIsPermanent, StepCoherent, TornIsMarked, ServiceComesBack,
        Consistent, Present, resetVars
  <2> QED BY <2>1, <2>2 DEF ResetInvariant
<1> QED BY <1>1, <1>2

\* An enrolled directory that nothing has touched satisfies the invariant.
LEMMA InitReset == ResetInit => ResetInvariant
<1> SUFFICES ASSUME ResetInit PROVE ResetInvariant
  OBVIOUS
<1>1. ResetTypeOK
  BY ZenonT(30) DEF ResetInit, ResetTypeOK, ResetFlagsOK, Content, Steps
<1>2. TornIsMarked
  BY ZenonT(30) DEF ResetInit, TornIsMarked, Consistent, Present, Names, Entries
<1>3. ResetIsPermanent /\ StepCoherent /\ ServiceComesBack
  BY DEF ResetInit, ResetIsPermanent, StepCoherent, ServiceComesBack
<1> QED BY <1>1, <1>2, <1>3 DEF ResetInvariant

\* A reset that has returned is permanent, also across a power loss, and every step
\* of ResetState and OpenStore finds the directory as the steps before it left it,
\* for any set of directories and stray names.
THEOREM ResetCorrect == ResetSpec => []ResetInvariant
BY InitReset, ResetStepKeeps, PTL DEF ResetSpec

\* OpenStore finishes an interrupted reset before it loads: while the machine keeps
\* its power, all that an open store holds belongs to the identity in host.json.
THEOREM OneIdentityCorrect == ResetSpec => []OneIdentity
<1>1. ResetInvariant => OneIdentity
  BY DEF ResetInvariant, StepCoherent, TornIsMarked, OneIdentity, Whole
<1> QED BY <1>1, ResetCorrect, PTL

\* An unenroll command that was not interrupted leaves the service it stopped active,
\* whatever ResetState returned.
THEOREM ServiceComesBackCorrect == ResetSpec => []ServiceComesBack
<1>1. ResetInvariant => ServiceComesBack
  BY DEF ResetInvariant
<1> QED BY <1>1, ResetCorrect, PTL

----------------------------------------------------------------------------
(* What the service commands promise when none overlaps another, from any  *)
(* state an interrupted one left, and for any number of commands:          *)
(* ServiceInvariant is inductive.                                          *)


\* The step a command is at tells its operation and the kind of service.
LEMMA StepTells ==
    ASSUME ServiceInvariant, NEW c \in Commands
    PROVE  /\ pc[c] \in {"account", "copy", "mkdir", "chown", "unit", "enable"} =>
                  op[c] = "install" /\ ~Windows
           /\ pc[c] = "reload" => op[c] \in {"install", "uninstall"} /\ ~Windows
           /\ pc[c] \in {"start", "await", "ready"} => op[c] = "start"
           /\ pc[c] \in {"stop", "stopping"} =>
                  op[c] \in {"stop", "uninstall"} \/ (op[c] = "install" /\ Windows)
           /\ pc[c] \in {"disable", "remove"} => op[c] = "uninstall" /\ ~Windows
           /\ pc[c] \in {"source", "provision", "replace", "finish"} =>
                  op[c] = "install" /\ Windows
           /\ pc[c] \in {"delete", "deleted", "unsource"} =>
                  op[c] = "uninstall" /\ Windows
BY Zenon DEF ServiceInvariant, OnCourse, StepsOf, Active, Ops

\* A step of a command is one of an active command, and changes nothing of another.
LEMMA CommandFrame ==
    ASSUME ServiceInvariant, NEW c \in Commands, CommandStep(c) \/ Killed(c)
    PROVE  /\ Active(c)
           /\ UNCHANGED <<scope, booted, op, overlapped>>
           /\ \A d \in Commands \ {c} :
                  pc'[d] = pc[d] /\ result'[d] = result[d] /\ created'[d] = created[d]
<1>1. CASE CreateAccount(c) \/ CopyExecutableIfNeeded(c) \/ MakeState(c)
           \/ ChownState(c) \/ WriteUnit(c) \/ EnableUnit(c) \/ ReloadSystemd(c)
  BY <1>1, Zenon
  DEF CreateAccount, Step, Goto, fixed, CopyExecutableIfNeeded, MakeState, ChownState,
      WriteUnit, EnableUnit, ReloadSystemd, Report, Active, ServiceInvariant, TypeOK
<1>2. CASE StartLinux(c) \/ AwaitLinux(c) \/ SeesReady(c) \/ StopLinux(c)
  BY <1>2, Zenon
  DEF StartLinux, Launched, Step, Status, Windows, Goto, fixed, AwaitLinux, Report,
      SeesReady, StopLinux, Active, ServiceInvariant, TypeOK
<1>3. CASE DisableUnit(c) \/ RemoveUnit(c) \/ Stopped(c)
  BY <1>3, Zenon
  DEF DisableUnit, Step, Goto, fixed, RemoveUnit, Stopped, Report, Windows, Active,
      ServiceInvariant, TypeOK
<1>4. CASE OpenToInstall(c) \/ EnsureEventSource(c)
           \/ ProvisionState(c) \/ InstallExecutable(c) \/ FinishInstall(c)
  BY <1>4, Zenon
  DEF OpenToInstall, Goto, fixed, EnsureEventSource, ProvisionState, Step,
      InstallExecutable, FinishInstall, Report, Active, ServiceInvariant, TypeOK
<1>5. CASE StartWindows(c) \/ AwaitWindows(c) \/ OpenToStop(c) \/ StopWindows(c)
  BY <1>5, Zenon
  DEF StartWindows, Launched, Goto, Report, Windows, fixed, AwaitWindows, OpenToStop,
      StopWindows, Active, ServiceInvariant, TypeOK
<1>6. CASE DeleteService(c) \/ SeesDeleted(c) \/ RemoveEventSource(c)
  BY <1>6, Zenon
  DEF DeleteService, Step, Goto, fixed, SeesDeleted, RemoveEventSource, Report, Active,
      ServiceInvariant, TypeOK
<1>7. CASE Fails(c) \/ Killed(c)
  BY <1>7, Zenon DEF Fails, Report, Active, fixed, Goto, Killed, ServiceInvariant, TypeOK
<1> QED BY <1>1, <1>2, <1>3, <1>4, <1>5, <1>6, <1>7, Zenon DEF CommandStep

\* Which steps report an outcome.
LEMMA Outcomes ==
    ASSUME ServiceInvariant, NEW c \in Commands, CommandStep(c) \/ Killed(c)
    PROVE  /\ result'[c] = "ok" /\ op[c] = "install" => ReloadSystemd(c) \/ FinishInstall(c)
           /\ result'[c] = "error" /\ op[c] = "install" => Fails(c)
           /\ result'[c] = "ok" /\ op[c] = "uninstall" =>
                  ReloadSystemd(c) \/ RemoveEventSource(c)
           /\ result'[c] = "ok" /\ op[c] = "start" =>
                  SeesReady(c) \/ StartWindows(c) \/ AwaitWindows(c)
<1>0. result[c] = "none"
  BY CommandFrame, Zenon DEF ServiceInvariant, OnCourse
<1>1. CASE CreateAccount(c) \/ CopyExecutableIfNeeded(c) \/ MakeState(c)
           \/ ChownState(c) \/ WriteUnit(c) \/ EnableUnit(c) \/ ReloadSystemd(c)
  BY <1>0, <1>1, StepTells, Zenon
  DEF CreateAccount, Step, Goto, CopyExecutableIfNeeded, MakeState, ChownState,
      WriteUnit, EnableUnit, ReloadSystemd, Report, ServiceInvariant, TypeOK
<1>2. CASE StartLinux(c) \/ AwaitLinux(c) \/ SeesReady(c) \/ StopLinux(c)
  BY <1>0, <1>2, StepTells, Zenon
  DEF StartLinux, Launched, Step, Status, Windows, Goto, AwaitLinux, Report, SeesReady,
      StopLinux, ServiceInvariant, TypeOK
<1>3. CASE DisableUnit(c) \/ RemoveUnit(c) \/ Stopped(c)
  BY <1>0, <1>3, StepTells, Zenon
  DEF DisableUnit, Step, Goto, RemoveUnit, Stopped, Report, Windows, ServiceInvariant,
      TypeOK
<1>4. CASE OpenToInstall(c) \/ EnsureEventSource(c)
           \/ ProvisionState(c) \/ InstallExecutable(c) \/ FinishInstall(c)
  BY <1>0, <1>4, StepTells, Zenon
  DEF OpenToInstall, Goto, EnsureEventSource, ProvisionState, Step, InstallExecutable,
      FinishInstall, Report, ServiceInvariant, TypeOK
<1>5. CASE StartWindows(c) \/ AwaitWindows(c) \/ OpenToStop(c) \/ StopWindows(c)
  BY <1>0, <1>5, StepTells, Zenon
  DEF StartWindows, Launched, Goto, Report, Windows, AwaitWindows, OpenToStop,
      StopWindows, ServiceInvariant, TypeOK
<1>6. CASE DeleteService(c) \/ SeesDeleted(c) \/ RemoveEventSource(c)
  BY <1>0, <1>6, StepTells, Zenon
  DEF DeleteService, Step, Goto, SeesDeleted, RemoveEventSource, Report,
      ServiceInvariant, TypeOK
<1>7. CASE Fails(c) \/ Killed(c)
  BY <1>0, <1>7, StepTells, Zenon
  DEF Fails, Report, Active, Goto, Killed, ServiceInvariant, TypeOK
<1> QED BY <1>1, <1>2, <1>3, <1>4, <1>5, <1>6, <1>7, Zenon DEF CommandStep

\* A command that goes on has reported nothing.
LEMMA StillRuns ==
    ASSUME ServiceInvariant, NEW c \in Commands, CommandStep(c) \/ Killed(c), pc'[c] # "idle"
    PROVE  result'[c] = "none"
<1>0. result[c] = "none"
  BY CommandFrame, Zenon DEF ServiceInvariant, OnCourse
<1>1. CASE CreateAccount(c) \/ CopyExecutableIfNeeded(c) \/ MakeState(c)
           \/ ChownState(c) \/ WriteUnit(c) \/ EnableUnit(c) \/ ReloadSystemd(c)
  BY <1>0, <1>1, Zenon
  DEF CreateAccount, Step, Goto, CopyExecutableIfNeeded, MakeState, ChownState,
      WriteUnit, EnableUnit, ReloadSystemd, Report, ServiceInvariant, TypeOK
<1>2. CASE StartLinux(c) \/ AwaitLinux(c) \/ SeesReady(c) \/ StopLinux(c)
  BY <1>0, <1>2, Zenon
  DEF StartLinux, Launched, Step, Status, Windows, Goto, AwaitLinux, Report, SeesReady,
      StopLinux, ServiceInvariant, TypeOK
<1>3. CASE DisableUnit(c) \/ RemoveUnit(c) \/ Stopped(c)
  BY <1>0, <1>3, Zenon
  DEF DisableUnit, Step, Goto, RemoveUnit, Stopped, Report, Windows, ServiceInvariant,
      TypeOK
<1>4. CASE OpenToInstall(c) \/ EnsureEventSource(c)
           \/ ProvisionState(c) \/ InstallExecutable(c) \/ FinishInstall(c)
  BY <1>0, <1>4, Zenon
  DEF OpenToInstall, Goto, EnsureEventSource, ProvisionState, Step, InstallExecutable,
      FinishInstall, Report, ServiceInvariant, TypeOK
<1>5. CASE StartWindows(c) \/ AwaitWindows(c) \/ OpenToStop(c) \/ StopWindows(c)
  BY <1>0, <1>5, Zenon
  DEF StartWindows, Launched, Goto, Report, Windows, AwaitWindows, OpenToStop,
      StopWindows, ServiceInvariant, TypeOK
<1>6. CASE DeleteService(c) \/ SeesDeleted(c) \/ RemoveEventSource(c)
  BY <1>0, <1>6, Zenon
  DEF DeleteService, Step, Goto, SeesDeleted, RemoveEventSource, Report,
      ServiceInvariant, TypeOK
<1>7. CASE Fails(c) \/ Killed(c)
  BY <1>0, <1>7, Zenon DEF Fails, Report, Active, Goto, Killed, ServiceInvariant, TypeOK
<1> QED BY <1>1, <1>2, <1>3, <1>4, <1>5, <1>6, <1>7, Zenon DEF CommandStep

\* Until commands overlap, a step of one leaves no other's outcome.
LEMMA OnlyItsOwnOutcome ==
    ASSUME ServiceInvariant, NEW c \in Commands, CommandStep(c) \/ Killed(c)
    PROVE  /\ UNCHANGED <<scope, booted, op, overlapped>>
           /\ ~overlapped => \A d \in Commands \ {c} : result'[d] = "none"
BY CommandFrame, Zenon DEF ServiceInvariant, OneAtATime

\* The flags stay Boolean.
LEMMA FlagsKept ==
    ASSUME FlagsOK, Next
    PROVE  FlagsOK'
<1>1. CASE Restarts
  BY <1>1, Zenon DEF Restarts, Windows, files, fixed, commands, FlagsOK
<1>2. CASE HostServes
  BY <1>2, Zenon DEF HostServes, Windows, files, fixed, commands, FlagsOK
<1>3. CASE ReportsRunning
  BY <1>3, Zenon DEF ReportsRunning, Windows, files, fixed, commands, FlagsOK
<1>4. CASE HostFails
  BY <1>4, Zenon DEF HostFails, Ended, Windows, files, fixed, commands, FlagsOK
<1>5. CASE Freezes
  BY <1>5, Zenon DEF Freezes, Windows, files, fixed, commands, FlagsOK
<1>6. CASE HostStops
  BY <1>6, Zenon DEF HostStops, Ended, files, fixed, commands, FlagsOK
<1>7. CASE Disappears
  BY <1>7, Zenon DEF Disappears, Handles, process, fixed, commands, FlagsOK
<1>8. CASE Reboots
  BY <1>8, Zenon DEF Reboots, Launched, Ended, Windows, fixed, FlagsOK
<1>9. ASSUME NEW c \in Commands, NEW k \in Ops, Begin(c, k) PROVE FlagsOK'
  BY <1>9, Zenon
  DEF Begin, Goto, Active, FirstStep, files, process, fixed, Windows, FlagsOK
<1>10. ASSUME NEW c \in Commands, EnableUnit(c) PROVE FlagsOK'
  BY <1>10, Zenon DEF EnableUnit, Step, process, Goto, fixed, FlagsOK
<1>11. ASSUME NEW c \in Commands, ReloadSystemd(c) PROVE FlagsOK'
  BY <1>11, Zenon DEF ReloadSystemd, Report, process, fixed, Goto, FlagsOK
<1>12. ASSUME NEW c \in Commands, StartLinux(c) PROVE FlagsOK'
  BY <1>12, Zenon
  DEF StartLinux, Launched, Step, Status, Windows, process, Goto, fixed, FlagsOK
<1>13. ASSUME NEW c \in Commands, DisableUnit(c) PROVE FlagsOK'
  BY <1>13, Zenon DEF DisableUnit, Step, process, Goto, fixed, FlagsOK
<1>14. ASSUME NEW c \in Commands, EnsureEventSource(c) PROVE FlagsOK'
  BY <1>14, Zenon DEF EnsureEventSource, Goto, process, fixed, FlagsOK
<1>15. ASSUME NEW c \in Commands, StartWindows(c) PROVE FlagsOK'
  BY <1>15, Zenon
  DEF StartWindows, Launched, Goto, Report, Windows, files, process, fixed, FlagsOK
<1>16. ASSUME NEW c \in Commands, RemoveEventSource(c) PROVE FlagsOK'
  BY <1>16, Zenon DEF RemoveEventSource, Report, process, fixed, Goto, FlagsOK
<1>17. ASSUME NEW c \in Commands, Fails(c) PROVE FlagsOK'
  BY <1>17, Zenon DEF Fails, Report, Active, process, fixed, Goto, FlagsOK
<1>18. ASSUME NEW c \in Commands,
              CreateAccount(c) \/ CopyExecutableIfNeeded(c) \/ MakeState(c)
              \/ ChownState(c) \/ WriteUnit(c) \/ AwaitLinux(c) \/ SeesReady(c)
              \/ StopLinux(c) \/ RemoveUnit(c) \/ Stopped(c)
       PROVE  FlagsOK'
  BY <1>18, ZenonT(60)
  DEF CreateAccount, Step, files, process, Goto, fixed, CopyExecutableIfNeeded,
      MakeState, ChownState, WriteUnit, AwaitLinux, Report, Status, Windows, SeesReady,
      StopLinux, RemoveUnit, Stopped, FlagsOK
<1>19. ASSUME NEW c \in Commands,
              OpenToInstall(c) \/ ProvisionState(c) \/ InstallExecutable(c)
              \/ FinishInstall(c) \/ AwaitWindows(c) \/ OpenToStop(c)
              \/ StopWindows(c) \/ DeleteService(c) \/ SeesDeleted(c) \/ Killed(c)
       PROVE  FlagsOK'
  BY <1>19, ZenonT(60)
  DEF OpenToInstall, Goto, process, fixed, ProvisionState, Step, InstallExecutable,
      FinishInstall, Report, files, AwaitWindows, Windows, OpenToStop, StopWindows,
      DeleteService, SeesDeleted, Killed, Active, FlagsOK
<1> QED
  BY <1>1, <1>2, <1>3, <1>4, <1>5, <1>6, <1>7, <1>8, <1>9, <1>10, <1>11, <1>12, <1>13,
     <1>14, <1>15, <1>16, <1>17, <1>18, <1>19, Zenon
  DEF Next, ProcessStep, CommandStep

\* Every step keeps the types.
LEMMA TypeKept ==
    ASSUME ServiceInvariant, Next
    PROVE  TypeOK'
<1>1. CASE Reboots
  BY <1>1, FlagsKept, Zenon
  DEF Reboots, Launched, Ended, Windows, fixed, ServiceInvariant, TypeOK, Labels, Ops
<1>2. ASSUME NEW c \in Commands, NEW k \in Ops, Begin(c, k) PROVE TypeOK'
  BY <1>2, FlagsKept
  DEF Begin, Goto, Active, FirstStep, files, process, fixed, Windows, ServiceInvariant,
      TypeOK, Labels, Ops
<1>3. CASE Restarts \/ HostServes \/ ReportsRunning \/ HostFails \/ Freezes
           \/ HostStops \/ Disappears
  BY <1>3, FlagsKept
  DEF Restarts, Windows, files, fixed, commands, HostServes, ReportsRunning, HostFails,
      Ended, Freezes, HostStops, Disappears, Handles, process, ServiceInvariant,
      TypeOK, Labels, Ops
<1>4. ASSUME NEW c \in Commands,
             CreateAccount(c) \/ CopyExecutableIfNeeded(c) \/ MakeState(c)
             \/ ChownState(c) \/ WriteUnit(c) \/ EnableUnit(c) \/ ReloadSystemd(c)
      PROVE  TypeOK'
  BY <1>4, FlagsKept
  DEF CreateAccount, Step, files, process, Goto, fixed, CopyExecutableIfNeeded,
      MakeState, ChownState, WriteUnit, EnableUnit, ReloadSystemd, Report,
      ServiceInvariant, TypeOK, Labels, Ops
<1>5. ASSUME NEW c \in Commands,
             StartLinux(c) \/ AwaitLinux(c) \/ SeesReady(c) \/ StopLinux(c)
      PROVE  TypeOK'
  BY <1>5, FlagsKept
  DEF StartLinux, Launched, Step, Status, Windows, process, Goto, fixed, AwaitLinux,
      Report, files, SeesReady, StopLinux, ServiceInvariant, TypeOK, Labels, Ops
<1>6. ASSUME NEW c \in Commands,
             DisableUnit(c) \/ RemoveUnit(c) \/ Stopped(c)
      PROVE  TypeOK'
  BY <1>6, FlagsKept
  DEF DisableUnit, Step, process, Goto, fixed, RemoveUnit, Stopped, Report, Windows,
      files, ServiceInvariant, TypeOK, Labels, Ops
<1>7. ASSUME NEW c \in Commands,
             OpenToInstall(c) \/ EnsureEventSource(c) \/ ProvisionState(c)
             \/ InstallExecutable(c) \/ FinishInstall(c)
      PROVE  TypeOK'
  <2>1. CASE OpenToInstall(c)
    BY <2>1, FlagsKept
    DEF OpenToInstall, Goto, process, fixed, ServiceInvariant, TypeOK, Labels, Ops
  <2>2. CASE EnsureEventSource(c)
    BY <2>2, FlagsKept
    DEF EnsureEventSource, Goto, process, fixed, ServiceInvariant, TypeOK, Labels, Ops
  <2>3. CASE ProvisionState(c) \/ InstallExecutable(c) \/ FinishInstall(c)
    BY <2>3, FlagsKept
    DEF ProvisionState, Step, InstallExecutable, FinishInstall, Report, Goto, process, fixed,
        files, ServiceInvariant, TypeOK, Labels, Ops
  <2> QED BY <1>7, <2>1, <2>2, <2>3, Zenon
<1>8. ASSUME NEW c \in Commands,
             StartWindows(c) \/ AwaitWindows(c) \/ OpenToStop(c) \/ StopWindows(c)
             \/ DeleteService(c) \/ SeesDeleted(c) \/ RemoveEventSource(c)
      PROVE  TypeOK'
  BY <1>8, FlagsKept
  DEF StartWindows, Launched, Goto, Report, Windows, files, process, fixed,
      AwaitWindows, OpenToStop, StopWindows, DeleteService, Step, SeesDeleted,
      RemoveEventSource, ServiceInvariant, TypeOK, Labels, Ops
<1>9. ASSUME NEW c \in Commands,
             Fails(c) \/ Killed(c)
      PROVE  TypeOK'
  BY <1>9, FlagsKept
  DEF Fails, Report, Active, process, fixed, Goto, Killed, files, ServiceInvariant,
      TypeOK, Labels, Ops
<1> QED
  BY <1>1, <1>2, <1>3, <1>4, <1>5, <1>6, <1>7, <1>8, <1>9, Zenon
  DEF Next, ProcessStep, CommandStep

\* A command goes from one step of its operation to another.
LEMMA OnCourseKept ==
    ASSUME ServiceInvariant, Next
    PROVE  \A d \in Commands : OnCourse(d)'
<1>1. CASE Reboots
  BY <1>1, ScopeAssumption, Zenon
  DEF Reboots, Launched, Ended, Windows, fixed, ServiceInvariant, TypeOK, OnCourse,
      StepsOf, Ops, Active
<1>2. ASSUME NEW c \in Commands, NEW k \in Ops, Begin(c, k) PROVE \A d \in Commands : OnCourse(d)'
  BY <1>2, ScopeAssumption
  DEF Begin, Goto, Active, FirstStep, files, process, fixed, Windows, ServiceInvariant,
      TypeOK, OnCourse, StepsOf, Ops
<1>3. ASSUME NEW c \in Commands, MakeState(c) PROVE \A d \in Commands : OnCourse(d)'
  BY <1>3, ScopeAssumption
  DEF MakeState, Step, process, Goto, fixed, ServiceInvariant, TypeOK, OnCourse,
      StepsOf, Ops, Active, Windows
<1>4. ASSUME NEW c \in Commands, StartLinux(c) PROVE \A d \in Commands : OnCourse(d)'
  BY <1>4, ScopeAssumption
  DEF StartLinux, Launched, Step, Status, Windows, process, Goto, fixed,
      ServiceInvariant, TypeOK, OnCourse, StepsOf, Ops, Active
<1>5. ASSUME NEW c \in Commands, AwaitLinux(c) PROVE \A d \in Commands : OnCourse(d)'
  BY <1>5, ScopeAssumption
  DEF AwaitLinux, Goto, Report, Status, Windows, files, process, fixed,
      ServiceInvariant, TypeOK, OnCourse, StepsOf, Ops, Active
<1>6. ASSUME NEW c \in Commands, StopLinux(c) PROVE \A d \in Commands : OnCourse(d)'
  BY <1>6, ScopeAssumption
  DEF StopLinux, Goto, Report, Status, Windows, files, fixed, ServiceInvariant, TypeOK,
      OnCourse, StepsOf, Ops, Active
<1>7. ASSUME NEW c \in Commands, Stopped(c) PROVE \A d \in Commands : OnCourse(d)'
  BY <1>7, ScopeAssumption
  DEF Stopped, Goto, Report, Windows, files, process, fixed, ServiceInvariant, TypeOK,
      OnCourse, StepsOf, Ops, Active
<1>8. ASSUME NEW c \in Commands, OpenToInstall(c) PROVE \A d \in Commands : OnCourse(d)'
  BY <1>8, ScopeAssumption
  DEF OpenToInstall, Goto, process, fixed, ServiceInvariant, TypeOK, OnCourse, StepsOf,
      Ops, Active, Windows
<1>9. ASSUME NEW c \in Commands, EnsureEventSource(c) PROVE \A d \in Commands : OnCourse(d)'
  BY <1>9, ScopeAssumption
  DEF EnsureEventSource, Goto, process, fixed, ServiceInvariant, TypeOK, OnCourse,
      StepsOf, Ops, Active, Windows
<1>10. ASSUME NEW c \in Commands, StartWindows(c) PROVE \A d \in Commands : OnCourse(d)'
  BY <1>10, ScopeAssumption
  DEF StartWindows, Launched, Goto, Report, Windows, files, process, fixed,
      ServiceInvariant, TypeOK, OnCourse, StepsOf, Ops, Active
<1>11. ASSUME NEW c \in Commands, OpenToStop(c) PROVE \A d \in Commands : OnCourse(d)'
  BY <1>11, ScopeAssumption
  DEF OpenToStop, Goto, Report, files, process, fixed, ServiceInvariant, TypeOK,
      OnCourse, StepsOf, Ops, Active, Windows
<1>12. ASSUME NEW c \in Commands, StopWindows(c) PROVE \A d \in Commands : OnCourse(d)'
  BY <1>12, ScopeAssumption
  DEF StopWindows, Goto, Windows, files, fixed, ServiceInvariant, TypeOK, OnCourse,
      StepsOf, Ops, Active
<1>13. CASE Restarts \/ HostServes \/ ReportsRunning \/ HostFails \/ Freezes
            \/ HostStops \/ Disappears
  BY <1>13, ScopeAssumption
  DEF Restarts, Windows, files, fixed, commands, HostServes, ReportsRunning, HostFails,
      Ended, Freezes, HostStops, Disappears, Handles, process, ServiceInvariant,
      TypeOK, OnCourse, StepsOf, Ops, Active
<1>14. ASSUME NEW c \in Commands,
              CreateAccount(c) \/ CopyExecutableIfNeeded(c) \/ ChownState(c)
              \/ WriteUnit(c) \/ EnableUnit(c)
       PROVE  \A d \in Commands : OnCourse(d)'
  BY <1>14, ScopeAssumption
  DEF CreateAccount, Step, files, process, Goto, fixed, CopyExecutableIfNeeded,
      ChownState, WriteUnit, EnableUnit, ServiceInvariant, TypeOK, OnCourse, StepsOf,
      Ops, Active, Windows
<1>15. ASSUME NEW c \in Commands,
              DisableUnit(c) \/ RemoveUnit(c) \/ ProvisionState(c)
              \/ InstallExecutable(c) \/ DeleteService(c) \/ SeesDeleted(c)
       PROVE  \A d \in Commands : OnCourse(d)'
  BY <1>15, ScopeAssumption
  DEF DisableUnit, Step, process, Goto, fixed, RemoveUnit, ProvisionState,
      InstallExecutable, DeleteService, SeesDeleted, files, ServiceInvariant, TypeOK,
      OnCourse, StepsOf, Ops, Active, Windows
<1>16. ASSUME NEW c \in Commands,
              ReloadSystemd(c) \/ SeesReady(c) \/ FinishInstall(c) \/ AwaitWindows(c)
              \/ RemoveEventSource(c) \/ Fails(c) \/ Killed(c)
       PROVE  \A d \in Commands : OnCourse(d)'
  BY <1>16, ScopeAssumption
  DEF ReloadSystemd, Report, process, fixed, Goto, SeesReady, files, FinishInstall,
      AwaitWindows, Windows, RemoveEventSource, Fails, Active, Killed,
      ServiceInvariant, TypeOK, OnCourse, StepsOf, Ops
<1> QED
  BY <1>1, <1>2, <1>3, <1>4, <1>5, <1>6, <1>7, <1>8, <1>9, <1>10, <1>11, <1>12, <1>13,
     <1>14, <1>15, <1>16, Zenon
  DEF Next, ProcessStep, CommandStep

\* Each manager keeps to its own state.
LEMMA ManagerKept ==
    ASSUME ServiceInvariant, Next
    PROVE  ManagerCoherent'
<1>1. CASE Restarts
  BY <1>1, StepTells, Zenon
  DEF Restarts, Windows, files, fixed, commands, ServiceInvariant, ManagerCoherent
<1>2. CASE HostServes
  BY <1>2, StepTells, Zenon
  DEF HostServes, Windows, files, fixed, commands, ServiceInvariant, ManagerCoherent
<1>3. CASE ReportsRunning
  BY <1>3, StepTells, Zenon
  DEF ReportsRunning, Windows, files, fixed, commands, ServiceInvariant,
      ManagerCoherent
<1>4. CASE HostFails
  BY <1>4, StepTells, Zenon
  DEF HostFails, Ended, Windows, files, fixed, commands, ServiceInvariant,
      ManagerCoherent
<1>5. CASE Freezes
  BY <1>5, StepTells, Zenon
  DEF Freezes, Windows, files, fixed, commands, ServiceInvariant, ManagerCoherent
<1>6. CASE HostStops
  BY <1>6, StepTells, Zenon
  DEF HostStops, Ended, files, fixed, commands, ServiceInvariant, ManagerCoherent,
      Windows
<1>7. CASE Disappears
  BY <1>7, StepTells, Zenon
  DEF Disappears, Handles, process, fixed, commands, ServiceInvariant, ManagerCoherent,
      Windows
<1>8. CASE Reboots
  BY <1>8, StepTells, ZenonT(30)
  DEF Reboots, Launched, Ended, Windows, fixed, ServiceInvariant, ManagerCoherent
<1>9. ASSUME NEW c \in Commands, NEW k \in Ops, Begin(c, k) PROVE ManagerCoherent'
  BY <1>9, StepTells, Zenon
  DEF Begin, Goto, Active, FirstStep, files, process, fixed, Windows, ServiceInvariant,
      ManagerCoherent
<1>10. ASSUME NEW c \in Commands, WriteUnit(c) PROVE ManagerCoherent'
  BY <1>10, StepTells, Zenon
  DEF WriteUnit, Step, process, Goto, fixed, ServiceInvariant, ManagerCoherent, Windows
<1>11. ASSUME NEW c \in Commands, EnableUnit(c) PROVE ManagerCoherent'
  BY <1>11, StepTells, Zenon
  DEF EnableUnit, Step, process, Goto, fixed, ServiceInvariant, ManagerCoherent,
      Windows
<1>12. ASSUME NEW c \in Commands, ReloadSystemd(c) PROVE ManagerCoherent'
  BY <1>12, StepTells, Zenon
  DEF ReloadSystemd, Report, process, fixed, Goto, ServiceInvariant, ManagerCoherent,
      Windows
<1>13. ASSUME NEW c \in Commands, StartLinux(c) PROVE ManagerCoherent'
  BY <1>13, StepTells, Zenon
  DEF StartLinux, Launched, Step, Status, Windows, process, Goto, fixed,
      ServiceInvariant, ManagerCoherent
<1>14. ASSUME NEW c \in Commands, StopLinux(c) PROVE ManagerCoherent'
  BY <1>14, StepTells, Zenon
  DEF StopLinux, Goto, Report, Status, Windows, files, fixed, ServiceInvariant,
      ManagerCoherent
<1>15. ASSUME NEW c \in Commands, DisableUnit(c) PROVE ManagerCoherent'
  BY <1>15, StepTells, Zenon
  DEF DisableUnit, Step, process, Goto, fixed, ServiceInvariant, ManagerCoherent,
      Windows
<1>16. ASSUME NEW c \in Commands, RemoveUnit(c) PROVE ManagerCoherent'
  BY <1>16, StepTells, Zenon
  DEF RemoveUnit, Step, process, Goto, fixed, ServiceInvariant, ManagerCoherent,
      Windows
<1>17. ASSUME NEW c \in Commands, OpenToInstall(c) PROVE ManagerCoherent'
  BY <1>17, StepTells, Zenon
  DEF OpenToInstall, Goto, process, fixed, ServiceInvariant, ManagerCoherent, Windows
<1>18. ASSUME NEW c \in Commands, EnsureEventSource(c) PROVE ManagerCoherent'
  BY <1>18, StepTells, Zenon
  DEF EnsureEventSource, Goto, process, fixed, ServiceInvariant, ManagerCoherent,
      Windows
<1>19. ASSUME NEW c \in Commands, StartWindows(c) PROVE ManagerCoherent'
  BY <1>19, StepTells, Zenon
  DEF StartWindows, Launched, Goto, Report, Windows, files, process, fixed,
      ServiceInvariant, ManagerCoherent
<1>20. ASSUME NEW c \in Commands, StopWindows(c) PROVE ManagerCoherent'
  BY <1>20, StepTells, Zenon
  DEF StopWindows, Goto, Windows, files, fixed, ServiceInvariant, ManagerCoherent
<1>21. ASSUME NEW c \in Commands, DeleteService(c) PROVE ManagerCoherent'
  BY <1>21, StepTells, Zenon
  DEF DeleteService, Step, process, Goto, fixed, ServiceInvariant, ManagerCoherent,
      Windows
<1>22. ASSUME NEW c \in Commands, RemoveEventSource(c) PROVE ManagerCoherent'
  BY <1>22, StepTells, Zenon
  DEF RemoveEventSource, Report, process, fixed, Goto, ServiceInvariant,
      ManagerCoherent, Windows
<1>23. ASSUME NEW c \in Commands, Fails(c) PROVE ManagerCoherent'
  <2>1. "service" \in created[c] => Windows
    BY <1>23, Zenon DEF ServiceInvariant, OnCourse
  <2> QED
    BY <1>23, <2>1, ZenonT(30)
    DEF Fails, Windows, fixed, process, ServiceInvariant, TypeOK, ManagerCoherent
<1>24. ASSUME NEW c \in Commands,
              CreateAccount(c) \/ CopyExecutableIfNeeded(c) \/ MakeState(c)
              \/ ChownState(c) \/ AwaitLinux(c) \/ SeesReady(c)
       PROVE  ManagerCoherent'
  <2>1. UNCHANGED <<enabled, loaded, source, unit, proc>>
    BY <1>24, ZenonT(60)
    DEF CreateAccount, Step, files, process, CopyExecutableIfNeeded, MakeState, ChownState,
        AwaitLinux, SeesReady
  <2>2. UNCHANGED <<scope, booted>>
    BY <1>24, CommandFrame, Zenon DEF CommandStep
  <2> QED BY <2>1, <2>2, Zenon DEF Windows, ServiceInvariant, ManagerCoherent
<1>25. ASSUME NEW c \in Commands,
              Stopped(c) \/ ProvisionState(c) \/ InstallExecutable(c)
              \/ FinishInstall(c) \/ AwaitWindows(c) \/ OpenToStop(c)
              \/ SeesDeleted(c) \/ Killed(c)
       PROVE  ManagerCoherent'
  <2>1. UNCHANGED <<enabled, loaded, source, unit, proc>>
    BY <1>25, ZenonT(60)
    DEF Stopped, files, process, ProvisionState, Step, InstallExecutable, FinishInstall,
        AwaitWindows, OpenToStop, SeesDeleted, Killed
  <2>2. UNCHANGED <<scope, booted>>
    BY <1>25, CommandFrame, Zenon DEF CommandStep
  <2> QED BY <2>1, <2>2, Zenon DEF Windows, ServiceInvariant, ManagerCoherent
<1> QED
  BY <1>1, <1>2, <1>3, <1>4, <1>5, <1>6, <1>7, <1>8, <1>9, <1>10, <1>11, <1>12, <1>13,
     <1>14, <1>15, <1>16, <1>17, <1>18, <1>19, <1>20, <1>21, <1>22, <1>23, <1>24, <1>25, Zenon
  DEF Next, ProcessStep, CommandStep

\* The process answers before it is taken for running.
LEMMA ProcessKept ==
    ASSUME ServiceInvariant, Next
    PROVE  ProcessCoherent'
<1>1. CASE Restarts
  BY <1>1, StepTells, Zenon
  DEF Restarts, Windows, files, fixed, commands, ServiceInvariant, ProcessCoherent
<1>2. CASE HostServes
  BY <1>2, StepTells, Zenon
  DEF HostServes, Windows, files, fixed, commands, ServiceInvariant, ProcessCoherent
<1>3. CASE ReportsRunning
  BY <1>3, StepTells, Zenon
  DEF ReportsRunning, Windows, files, fixed, commands, ServiceInvariant,
      ProcessCoherent
<1>4. CASE HostFails
  BY <1>4, StepTells, Zenon
  DEF HostFails, Ended, Windows, files, fixed, commands, ServiceInvariant,
      ProcessCoherent
<1>5. CASE Freezes
  BY <1>5, StepTells, Zenon
  DEF Freezes, Windows, files, fixed, commands, ServiceInvariant, ProcessCoherent
<1>6. CASE HostStops
  BY <1>6, StepTells, Zenon
  DEF HostStops, Ended, files, fixed, commands, ServiceInvariant, ProcessCoherent,
      Windows
<1>7. CASE Disappears
  BY <1>7, StepTells, Zenon
  DEF Disappears, Handles, process, fixed, commands, ServiceInvariant, ProcessCoherent,
      Windows
<1>8. CASE Reboots
  BY <1>8, StepTells, Zenon
  DEF Reboots, Launched, Ended, Windows, fixed, ServiceInvariant, ProcessCoherent
<1>9. ASSUME NEW c \in Commands, NEW k \in Ops, Begin(c, k) PROVE ProcessCoherent'
  BY <1>9, StepTells, Zenon
  DEF Begin, Goto, Active, FirstStep, files, process, fixed, Windows, ServiceInvariant,
      ProcessCoherent
<1>10. ASSUME NEW c \in Commands, CopyExecutableIfNeeded(c) PROVE ProcessCoherent'
  BY <1>10, StepTells, Zenon
  DEF CopyExecutableIfNeeded, Step, process, Goto, fixed, ServiceInvariant,
      ProcessCoherent, Windows
<1>11. ASSUME NEW c \in Commands, StartLinux(c) PROVE ProcessCoherent'
  BY <1>11, StepTells
  DEF StartLinux, Launched, Step, Status, Windows, process, Goto, fixed,
      ServiceInvariant, ProcessCoherent
<1>12. ASSUME NEW c \in Commands, StopLinux(c) PROVE ProcessCoherent'
  BY <1>12, StepTells, Zenon
  DEF StopLinux, Goto, Report, Status, Windows, files, fixed, ServiceInvariant,
      ProcessCoherent
<1>13. ASSUME NEW c \in Commands, InstallExecutable(c) PROVE ProcessCoherent'
  BY <1>13, StepTells, Zenon
  DEF InstallExecutable, Step, process, Goto, fixed, ServiceInvariant, ProcessCoherent,
      Windows
<1>14. ASSUME NEW c \in Commands, StartWindows(c) PROVE ProcessCoherent'
  BY <1>14, StepTells
  DEF StartWindows, Launched, Goto, Report, Windows, files, process, fixed,
      ServiceInvariant, ProcessCoherent
<1>15. ASSUME NEW c \in Commands, StopWindows(c) PROVE ProcessCoherent'
  BY <1>15, StepTells, ZenonT(60)
  DEF StopWindows, Goto, Windows, files, fixed, ServiceInvariant, ProcessCoherent
<1>16. ASSUME NEW c \in Commands,
              CreateAccount(c) \/ MakeState(c) \/ ChownState(c) \/ WriteUnit(c)
              \/ EnableUnit(c) \/ ReloadSystemd(c) \/ AwaitLinux(c) \/ SeesReady(c)
              \/ DisableUnit(c) \/ RemoveUnit(c) \/ Stopped(c)
       PROVE  ProcessCoherent'
  <2>1. UNCHANGED <<exe, process>>
    BY <1>16, ZenonT(60)
    DEF CreateAccount, Step, files, process, MakeState, ChownState, WriteUnit, EnableUnit,
        ReloadSystemd, AwaitLinux, SeesReady, DisableUnit, RemoveUnit, Stopped
  <2>2. scope' = scope
    BY <1>16, CommandFrame, Zenon DEF CommandStep
  <2> QED BY <2>1, <2>2, Zenon DEF process, Windows, ServiceInvariant, ProcessCoherent
<1>17. ASSUME NEW c \in Commands,
              OpenToInstall(c) \/ EnsureEventSource(c) \/ ProvisionState(c)
              \/ FinishInstall(c) \/ AwaitWindows(c) \/ OpenToStop(c)
              \/ DeleteService(c) \/ SeesDeleted(c) \/ RemoveEventSource(c)
              \/ Fails(c) \/ Killed(c)
       PROVE  ProcessCoherent'
  <2>1. UNCHANGED <<exe, process>>
    BY <1>17, ZenonT(60)
    DEF OpenToInstall, process, EnsureEventSource, ProvisionState, Step, FinishInstall, files,
        AwaitWindows, OpenToStop, DeleteService, SeesDeleted, RemoveEventSource, Fails, Killed
  <2>2. scope' = scope
    BY <1>17, CommandFrame, Zenon DEF CommandStep
  <2> QED BY <2>1, <2>2, Zenon DEF process, Windows, ServiceInvariant, ProcessCoherent
<1> QED
  BY <1>1, <1>2, <1>3, <1>4, <1>5, <1>6, <1>7, <1>8, <1>9, <1>10, <1>11, <1>12, <1>13,
     <1>14, <1>15, <1>16, <1>17, Zenon
  DEF Next, ProcessStep, CommandStep

\* A command that begins beside another overlaps it, and the outcomes before it go.
LEMMA OneAtATimeKept ==
    ASSUME ServiceInvariant, Next
    PROVE  OneAtATime'
<1>1. CASE ProcessStep
  BY <1>1, Zenon
  DEF ProcessStep, Restarts, HostServes, ReportsRunning, HostFails, Freezes, HostStops,
      Disappears, commands, ServiceInvariant, OneAtATime, Active
<1>2. CASE Reboots
  BY <1>2, Zenon DEF Reboots, OneAtATime, Active
<1>3. ASSUME NEW c \in Commands, NEW k \in Ops, Begin(c, k) PROVE OneAtATime'
  BY <1>3, ZenonT(30) DEF Begin, Goto, ServiceInvariant, TypeOK, OneAtATime, Active
<1>4. ASSUME NEW c \in Commands, CommandStep(c) \/ Killed(c) PROVE OneAtATime'
  <2>1. \A d \in Commands : overlapped \/ ~Active(d) \/ d = c
    BY <1>4, CommandFrame, Zenon DEF ServiceInvariant, OneAtATime
  <2> SUFFICES ASSUME ~overlapped, NEW d \in Commands, NEW e \in Commands, Active(d)'
               PROVE  result'[e] = "none" /\ (Active(e)' => d = e)
    BY <1>4, CommandFrame, Zenon DEF OneAtATime
  <2>2. d = c /\ (Active(e)' => e = c)
    BY <1>4, <2>1, CommandFrame, Zenon DEF Active
  <2>3. result'[c] = "none"
    <3>1. pc'[c] # "idle"
      BY <2>2, Zenon DEF Active
    <3> QED BY <1>4, <3>1, StillRuns, Zenon
  <2>4. \A f \in Commands \ {c} : result'[f] = "none"
    BY <1>4, CommandFrame, Zenon DEF ServiceInvariant, OneAtATime
  <2> QED BY <2>2, <2>3, <2>4, Zenon
<1> QED BY <1>1, <1>2, <1>3, <1>4, Zenon DEF Next

\* Only an installed service is started.
LEMMA OnlyInstalledRunsKept ==
    ASSUME ServiceInvariant, Next
    PROVE  OnlyInstalledRuns'
<1>1. CASE Restarts
  BY <1>1, StepTells, Zenon
  DEF Restarts, Windows, files, fixed, commands, ServiceInvariant, TypeOK,
      ManagerCoherent, OneAtATime, OnlyInstalledRuns, InProgress, InstallProgress,
      UninstallProgress, Active
<1>2. CASE HostServes
  BY <1>2, StepTells, Zenon
  DEF HostServes, Windows, files, fixed, commands, ServiceInvariant, TypeOK,
      ManagerCoherent, OneAtATime, OnlyInstalledRuns, InProgress, InstallProgress,
      UninstallProgress, Active
<1>3. CASE ReportsRunning
  BY <1>3, StepTells, Zenon
  DEF ReportsRunning, Windows, files, fixed, commands, ServiceInvariant, TypeOK,
      ManagerCoherent, OneAtATime, OnlyInstalledRuns, InProgress, InstallProgress,
      UninstallProgress, Active
<1>4. CASE HostFails
  BY <1>4, StepTells, Zenon
  DEF HostFails, Ended, Windows, files, fixed, commands, ServiceInvariant, TypeOK,
      ManagerCoherent, OneAtATime, OnlyInstalledRuns, InProgress, InstallProgress,
      UninstallProgress, Active
<1>5. CASE Freezes
  BY <1>5, StepTells, Zenon
  DEF Freezes, Windows, files, fixed, commands, ServiceInvariant, TypeOK,
      ManagerCoherent, OneAtATime, OnlyInstalledRuns, InProgress, InstallProgress,
      UninstallProgress, Active
<1>6. CASE HostStops
  BY <1>6, StepTells, Zenon
  DEF HostStops, Ended, files, fixed, commands, ServiceInvariant, TypeOK,
      ManagerCoherent, OneAtATime, OnlyInstalledRuns, InProgress, InstallProgress,
      UninstallProgress, Active, Windows
<1>7. CASE Disappears
  BY <1>7, StepTells, Zenon
  DEF Disappears, Handles, process, fixed, commands, ServiceInvariant, TypeOK,
      ManagerCoherent, OneAtATime, OnlyInstalledRuns, InProgress, InstallProgress,
      UninstallProgress, Active, Windows
<1>8. CASE Reboots
  BY <1>8, StepTells, ZenonT(30)
  DEF Reboots, Launched, Ended, Windows, fixed, ServiceInvariant, TypeOK,
      ManagerCoherent, OneAtATime, OnlyInstalledRuns, InProgress, InstallProgress,
      UninstallProgress, Active
<1>9. ASSUME NEW c \in Commands, NEW k \in Ops, Begin(c, k) PROVE OnlyInstalledRuns'
  BY <1>9, StepTells, ZenonT(30)
  DEF Begin, Goto, Active, FirstStep, files, process, fixed, Windows, ServiceInvariant,
      TypeOK, ManagerCoherent, OneAtATime, OnlyInstalledRuns, InProgress,
      InstallProgress, UninstallProgress
<1>10. ASSUME NEW c \in Commands, WriteUnit(c) PROVE OnlyInstalledRuns'
  BY <1>10, StepTells, Zenon
  DEF WriteUnit, Step, process, Goto, fixed, ServiceInvariant, TypeOK, ManagerCoherent,
      OneAtATime, OnlyInstalledRuns, InProgress, InstallProgress, UninstallProgress,
      Active, Windows
<1>11. ASSUME NEW c \in Commands, EnableUnit(c) PROVE OnlyInstalledRuns'
  BY <1>11, StepTells, Zenon
  DEF EnableUnit, Step, process, Goto, fixed, ServiceInvariant, TypeOK,
      ManagerCoherent, OneAtATime, OnlyInstalledRuns, InProgress, InstallProgress,
      UninstallProgress, Active, Windows
<1>12. ASSUME NEW c \in Commands, ReloadSystemd(c) PROVE OnlyInstalledRuns'
  BY <1>12, StepTells, ZenonT(30)
  DEF ReloadSystemd, Report, process, fixed, Goto, ServiceInvariant, TypeOK,
      ManagerCoherent, OneAtATime, OnlyInstalledRuns, InProgress, InstallProgress,
      UninstallProgress, Active, Windows
<1>13. ASSUME NEW c \in Commands, StartLinux(c) PROVE OnlyInstalledRuns'
  BY <1>13, StepTells
  DEF StartLinux, Launched, Step, Status, Windows, process, Goto, fixed,
      ServiceInvariant, TypeOK, ManagerCoherent, OneAtATime, OnlyInstalledRuns,
      InProgress, InstallProgress, UninstallProgress, Active
<1>14. ASSUME NEW c \in Commands, StopLinux(c) PROVE OnlyInstalledRuns'
  BY <1>14, StepTells, Zenon
  DEF StopLinux, Goto, Report, Status, Windows, files, fixed, ServiceInvariant, TypeOK,
      ManagerCoherent, OneAtATime, OnlyInstalledRuns, InProgress, InstallProgress,
      UninstallProgress, Active
<1>15. ASSUME NEW c \in Commands, DisableUnit(c) PROVE OnlyInstalledRuns'
  BY <1>15, StepTells, Zenon
  DEF DisableUnit, Step, process, Goto, fixed, ServiceInvariant, TypeOK,
      ManagerCoherent, OneAtATime, OnlyInstalledRuns, InProgress, InstallProgress,
      UninstallProgress, Active, Windows
<1>16. ASSUME NEW c \in Commands, RemoveUnit(c) PROVE OnlyInstalledRuns'
  BY <1>16, StepTells, Zenon
  DEF RemoveUnit, Step, process, Goto, fixed, ServiceInvariant, TypeOK,
      ManagerCoherent, OneAtATime, OnlyInstalledRuns, InProgress, InstallProgress,
      UninstallProgress, Active, Windows
<1>17. ASSUME NEW c \in Commands, OpenToInstall(c) PROVE OnlyInstalledRuns'
  BY <1>17, StepTells, Zenon
  DEF OpenToInstall, Goto, process, fixed, ServiceInvariant, TypeOK, ManagerCoherent,
      OneAtATime, OnlyInstalledRuns, InProgress, InstallProgress, UninstallProgress,
      Active, Windows
<1>18. ASSUME NEW c \in Commands, StartWindows(c) PROVE OnlyInstalledRuns'
  BY <1>18, StepTells, Zenon
  DEF StartWindows, Launched, Goto, Report, Windows, files, process, fixed,
      ServiceInvariant, TypeOK, ManagerCoherent, OneAtATime, OnlyInstalledRuns,
      InProgress, InstallProgress, UninstallProgress, Active
<1>19. ASSUME NEW c \in Commands, StopWindows(c) PROVE OnlyInstalledRuns'
  BY <1>19, StepTells, Zenon
  DEF StopWindows, Goto, Windows, files, fixed, ServiceInvariant, TypeOK,
      ManagerCoherent, OneAtATime, OnlyInstalledRuns, InProgress, InstallProgress,
      UninstallProgress, Active
<1>20. ASSUME NEW c \in Commands, DeleteService(c) PROVE OnlyInstalledRuns'
  BY <1>20, StepTells, Zenon
  DEF DeleteService, Step, process, Goto, fixed, ServiceInvariant, TypeOK,
      ManagerCoherent, OneAtATime, OnlyInstalledRuns, InProgress, InstallProgress,
      UninstallProgress, Active, Windows
<1>21. ASSUME NEW c \in Commands, Fails(c) PROVE OnlyInstalledRuns'
  <2>1. "service" \in created[c] /\ ~overlapped => Windows /\ proc = "stopped"
    BY <1>21, Zenon DEF ServiceInvariant, OnCourse, InProgress, InstallProgress, Fails
  <2> QED
    BY <1>21, <2>1, ZenonT(30)
    DEF Fails, Windows, fixed, process, ServiceInvariant, ManagerCoherent,
        OnlyInstalledRuns
<1>22. ASSUME NEW c \in Commands,
              CreateAccount(c) \/ CopyExecutableIfNeeded(c) \/ MakeState(c)
              \/ ChownState(c) \/ AwaitLinux(c) \/ SeesReady(c) \/ Stopped(c)
       PROVE  OnlyInstalledRuns'
  BY <1>22, Zenon
  DEF CreateAccount, Step, files, process, Goto, fixed, CopyExecutableIfNeeded,
      MakeState, ChownState, AwaitLinux, Report, Status, Windows, SeesReady, Stopped,
      ServiceInvariant, OnlyInstalledRuns
<1>23. ASSUME NEW c \in Commands,
              EnsureEventSource(c) \/ ProvisionState(c) \/ InstallExecutable(c)
              \/ FinishInstall(c) \/ AwaitWindows(c) \/ OpenToStop(c)
              \/ SeesDeleted(c) \/ RemoveEventSource(c) \/ Killed(c)
       PROVE  OnlyInstalledRuns'
  BY <1>23, Zenon
  DEF EnsureEventSource, Goto, process, fixed, ProvisionState, Step, InstallExecutable,
      FinishInstall, Report, files, AwaitWindows, Windows, OpenToStop, SeesDeleted,
      RemoveEventSource, Killed, Active, ServiceInvariant, OnlyInstalledRuns
<1> QED
  BY <1>1, <1>2, <1>3, <1>4, <1>5, <1>6, <1>7, <1>8, <1>9, <1>10, <1>11, <1>12, <1>13,
     <1>14, <1>15, <1>16, <1>17, <1>18, <1>19, <1>20, <1>21, <1>22, <1>23, Zenon
  DEF Next, ProcessStep, CommandStep

\* An install that goes on has done the steps before.
LEMMA InstallGoesOn ==
    ASSUME ServiceInvariant, NEW c \in Commands, CommandStep(c), ~overlapped,
           op[c] = "install", pc'[c] # "idle"
    PROVE  InstallProgress(c)'
<1>1. /\ InstallProgress(c)
      /\ ~Windows => created[c] = {}
      /\ unit # "present" => proc = "stopped"
      /\ scope \in {"system", "user"} \/ Windows
      /\ created \in [Commands -> SUBSET {"service", "source"}]
  BY CommandFrame, ScopeAssumption, Zenon
  DEF ServiceInvariant, TypeOK, OnCourse, InProgress, OnlyInstalledRuns, Windows
<1>2. \A s : Goto(c, s) => pc'[c] = s
  BY Zenon DEF Goto, ServiceInvariant, TypeOK
<1>3. \A o : ~Report(c, o)
  BY <1>2, Zenon DEF Report
<1>4. CASE CreateAccount(c) \/ CopyExecutableIfNeeded(c)
  <2>1. pc'[c] \in {"copy", "mkdir"} /\ created'[c] = {} /\ (pc'[c] = "mkdir" => exe' = "new")
    BY <1>1, <1>2, <1>4, StepTells, Zenon DEF CreateAccount, CopyExecutableIfNeeded, Step
  <2> QED BY <2>1, Zenon DEF InstallProgress
<1>5. CASE MakeState(c) \/ ChownState(c)
  <2>1. /\ pc'[c] \in {"chown", "unit"} /\ created'[c] = {} /\ exe' = "new"
        /\ pc'[c] = "unit" => stateDir' = "owned"
    BY <1>1, <1>2, <1>5, StepTells, Zenon DEF MakeState, ChownState, Step, InstallProgress, Windows
  <2> QED BY <2>1, Zenon DEF InstallProgress
<1>6. CASE WriteUnit(c) \/ EnableUnit(c)
  <2>1. /\ pc'[c] \in {"enable", "reload"} /\ created'[c] = {} /\ exe' = "new"
        /\ stateDir' = "owned" /\ unit' = "present"
        /\ pc'[c] = "reload" => enabled'
    BY <1>1, <1>2, <1>6, StepTells, Zenon DEF WriteUnit, EnableUnit, Step, InstallProgress
  <2> QED BY <2>1, Zenon DEF InstallProgress
<1>7. CASE Stopped(c) \/ StopWindows(c)
  <2>1. /\ pc'[c] \in {"source", "settle", "stopping"} /\ unit' = "present"
        /\ "service" \notin created'[c]
    BY <1>1, <1>2, <1>3, <1>7, Zenon DEF Stopped, StopWindows, files, InstallProgress
  <2> QED BY <2>1, Zenon DEF InstallProgress
<1>8. CASE OpenToInstall(c)
  <2>1. /\ pc'[c] \in {"source", "stop"} /\ unit' = "present"
        /\ "service" \in created'[c] => pc'[c] = "source" /\ proc' = "stopped"
    BY <1>1, <1>2, <1>8, Zenon DEF OpenToInstall, process, InstallProgress
  <2> QED BY <2>1, Zenon DEF InstallProgress
<1>9. CASE EnsureEventSource(c)
  <2>1. "service" \in created'[c] => "service" \in created[c]
    BY <1>1, <1>9, Zenon DEF EnsureEventSource
  <2>2. /\ pc'[c] = "provision" /\ unit' = "present" /\ source'
        /\ "service" \in created'[c] => proc' = "stopped"
    BY <1>1, <1>2, <1>9, <2>1, Zenon DEF EnsureEventSource, process, InstallProgress
  <2> QED BY <2>2, Zenon DEF InstallProgress
<1>10. CASE ProvisionState(c) \/ InstallExecutable(c)
  <2>1. /\ pc'[c] \in {"replace", "finish"} /\ unit' = "present" /\ source' /\ stateDir' = "owned"
        /\ pc'[c] = "finish" => exe' = "new"
        /\ "service" \in created'[c] => proc' = "stopped"
    BY <1>1, <1>2, <1>10, Zenon DEF ProvisionState, InstallExecutable, Step, process, InstallProgress
  <2> QED BY <2>1, Zenon DEF InstallProgress
<1>11. CASE \/ ReloadSystemd(c) \/ StartLinux(c) \/ AwaitLinux(c) \/ SeesReady(c)
            \/ StopLinux(c) \/ DisableUnit(c) \/ RemoveUnit(c) \/ FinishInstall(c)
  BY <1>3, <1>11, StepTells, Zenon DEF ReloadSystemd, StartLinux, AwaitLinux, SeesReady,
     StopLinux, DisableUnit, RemoveUnit, FinishInstall, Step
<1>12. CASE \/ StartWindows(c) \/ AwaitWindows(c) \/ OpenToStop(c) \/ DeleteService(c)
            \/ SeesDeleted(c) \/ RemoveEventSource(c) \/ Fails(c)
  BY <1>3, <1>12, StepTells, Zenon DEF StartWindows, AwaitWindows, OpenToStop, DeleteService,
     SeesDeleted, RemoveEventSource, Fails, Step
<1> QED
  BY <1>4, <1>5, <1>6, <1>7, <1>8, <1>9, <1>10, <1>11, <1>12, Zenon DEF CommandStep

\* So has an uninstall.
LEMMA UninstallGoesOn ==
    ASSUME ServiceInvariant, NEW c \in Commands, CommandStep(c), ~overlapped,
           op[c] = "uninstall", pc'[c] # "idle"
    PROVE  UninstallProgress(c)'
<1>1. /\ UninstallProgress(c)
      /\ unit # "present" => proc = "stopped"
      /\ ~Windows /\ ~loaded => proc = "stopped"
      /\ unit \in {"none", "present", "foreign", "deleting"}
      /\ proc # "not-installed"
  BY CommandFrame, Zenon DEF ServiceInvariant, TypeOK, InProgress, OnlyInstalledRuns
<1>2. \A s : Goto(c, s) => pc'[c] = s
  BY Zenon DEF Goto, ServiceInvariant, TypeOK
<1>3. \A o : ~Report(c, o)
  BY <1>2, Zenon DEF Report
<1>4. CASE StopLinux(c)
  <2>1. unit' = unit /\ unit # "foreign"
    BY <1>1, <1>4, Zenon DEF StopLinux, files, UninstallProgress
  <2>2. CASE pc'[c] = "stopping"
    BY <2>1, <2>2, Zenon DEF UninstallProgress
  <2>3. CASE pc'[c] \in {"reload", "disable"} /\ Status \in {"not-installed", "stopped"}
             /\ proc' = proc /\ (pc'[c] = "reload" => unit = "none")
    <3>1. proc = "stopped"
      BY <1>1, <1>4, <2>3, Zenon DEF StopLinux, Status
    <3> QED BY <2>1, <2>3, <3>1, Zenon DEF UninstallProgress
  <2> QED BY <1>2, <1>3, <1>4, <2>2, <2>3, Zenon DEF StopLinux
<1>5. CASE DisableUnit(c)
  <2>1. pc'[c] = "remove" /\ ~enabled' /\ proc' = "stopped" /\ unit' # "foreign"
    BY <1>1, <1>2, <1>5, Zenon DEF DisableUnit, Step, process, UninstallProgress
  <2> QED BY <2>1, Zenon DEF UninstallProgress
<1>6. CASE RemoveUnit(c)
  <2>1. pc'[c] = "reload" /\ unit' = "none"
    BY <1>2, <1>6, Zenon DEF RemoveUnit, Step
  <2> QED BY <2>1, Zenon DEF UninstallProgress
<1>7. CASE Stopped(c)
  <2>1. pc'[c] \in {"delete", "disable"} /\ proc' = "stopped" /\ unit' # "foreign"
    BY <1>1, <1>2, <1>7, Zenon DEF Stopped, files, process, UninstallProgress
  <2> QED BY <2>1, Zenon DEF UninstallProgress
<1>8. CASE OpenToStop(c)
  <2>1. /\ pc'[c] \in {"stop", "unsource"} /\ unit' # "foreign"
        /\ pc'[c] = "unsource" => unit' \in {"none", "deleting"}
    BY <1>1, <1>2, <1>8, Zenon DEF OpenToStop, files
  <2> QED BY <2>1, Zenon DEF UninstallProgress
<1>9. CASE StopWindows(c)
  <2>1. pc'[c] \in {"settle", "stopping"} /\ unit' # "foreign"
    BY <1>1, <1>2, <1>9, Zenon DEF StopWindows, files, UninstallProgress
  <2> QED BY <2>1, Zenon DEF UninstallProgress
<1>10. CASE DeleteService(c)
  <2>1. pc'[c] = "deleted" /\ unit' \in {"none", "deleting"} /\ proc' = "stopped"
    BY <1>1, <1>2, <1>10, Zenon DEF DeleteService, Step, process, UninstallProgress
  <2> QED BY <2>1, Zenon DEF UninstallProgress
<1>11. CASE SeesDeleted(c)
  <2>1. pc'[c] = "unsource" /\ unit' = "none"
    BY <1>2, <1>11, Zenon DEF SeesDeleted, Step, files
  <2> QED BY <2>1, Zenon DEF UninstallProgress
<1>12. CASE \/ CreateAccount(c) \/ CopyExecutableIfNeeded(c) \/ MakeState(c) \/ ChownState(c)
            \/ WriteUnit(c) \/ EnableUnit(c) \/ ReloadSystemd(c) \/ StartLinux(c)
            \/ AwaitLinux(c) \/ SeesReady(c)
  BY <1>3, <1>12, StepTells, Zenon DEF CreateAccount, CopyExecutableIfNeeded, MakeState,
     ChownState, WriteUnit, EnableUnit, ReloadSystemd, StartLinux, AwaitLinux, SeesReady, Step
<1>13. CASE \/ OpenToInstall(c) \/ EnsureEventSource(c) \/ ProvisionState(c)
            \/ InstallExecutable(c) \/ FinishInstall(c) \/ StartWindows(c) \/ AwaitWindows(c)
            \/ RemoveEventSource(c) \/ Fails(c)
  BY <1>3, <1>13, StepTells, Zenon DEF OpenToInstall, EnsureEventSource, ProvisionState,
     InstallExecutable, FinishInstall, StartWindows, AwaitWindows, RemoveEventSource, Fails, Step
<1> QED
  BY <1>4, <1>5, <1>6, <1>7, <1>8, <1>9, <1>10, <1>11, <1>12, <1>13, Zenon DEF CommandStep

\* Each step does its part.
LEMMA InProgressKept ==
    ASSUME ServiceInvariant, Next
    PROVE  InProgress'
<1>1. ASSUME ProcessStep, NEW c \in Commands, Active(c), ~overlapped
      PROVE  /\ op[c] = "install" => InstallProgress(c)'
             /\ op[c] = "uninstall" => UninstallProgress(c)'
  <2>1. /\ op[c] = "install" => InstallProgress(c)
        /\ op[c] = "uninstall" => UninstallProgress(c)
    BY <1>1, Zenon DEF ServiceInvariant, InProgress
  <2>2. /\ UNCHANGED <<enabled, loaded, exe, stateDir, source, commands>>
        /\ unit' = unit \/ (unit = "deleting" /\ unit' = "none")
        /\ proc = "stopped" => proc' = "stopped"
    BY <1>1, Zenon
    DEF ProcessStep, Restarts, HostServes, ReportsRunning, HostFails, Freezes,
        HostStops, Disappears, Ended, files, process
  <2> QED BY <2>1, <2>2, Zenon DEF commands, InstallProgress, UninstallProgress
<1>2. CASE ProcessStep
  <2>1. UNCHANGED <<op, pc, overlapped>>
    BY <1>2, Zenon DEF ProcessStep, Restarts, HostServes, ReportsRunning, HostFails, Freezes,
       HostStops, Disappears, commands
  <2> QED BY <1>1, <1>2, <2>1, Zenon DEF InProgress, Active
<1>3. CASE Reboots
  BY <1>3, Zenon DEF Reboots, InProgress, Active
<1>4. ASSUME NEW c \in Commands, NEW k \in Ops, Begin(c, k) PROVE InProgress'
  <2> SUFFICES ASSUME ~overlapped', NEW d \in Commands, Active(d)'
               PROVE  /\ op'[d] = "install" => InstallProgress(d)'
                      /\ op'[d] = "uninstall" => UninstallProgress(d)'
    BY Zenon DEF InProgress
  <2>1. d = c
    BY <1>4, Zenon DEF Begin, Goto, Active, ServiceInvariant, TypeOK
  <2>2. op'[c] = k /\ pc'[c] = FirstStep(k) /\ created'[c] = {} /\ UNCHANGED <<unit, scope>>
    BY <1>4, Zenon DEF Begin, Goto, Active, ServiceInvariant, TypeOK, files, fixed
  <2>3. CASE k = "install"
    BY <2>1, <2>2, <2>3, Zenon DEF FirstStep, InstallProgress
  <2>4. CASE k = "uninstall"
    BY <2>1, <2>2, <2>4, Zenon
    DEF FirstStep, UninstallProgress, ServiceInvariant, ManagerCoherent, Windows
  <2> QED BY <2>1, <2>2, <2>3, <2>4, Zenon
<1>5. ASSUME NEW c \in Commands, CommandStep(c) \/ Killed(c) PROVE InProgress'
  <2> SUFFICES ASSUME ~overlapped', NEW d \in Commands, Active(d)'
               PROVE  /\ op'[d] = "install" => InstallProgress(d)'
                      /\ op'[d] = "uninstall" => UninstallProgress(d)'
    BY Zenon DEF InProgress
  <2>1. /\ Active(c) /\ op' = op /\ overlapped' = overlapped
        /\ d # c => pc'[d] = pc[d]
    BY <1>5, CommandFrame, Zenon
  <2>2. d = c
    BY <2>1, Zenon DEF Active, ServiceInvariant, OneAtATime
  <2>3. pc'[c] # "idle"
    BY <2>2, Zenon DEF Active
  <2>4. CommandStep(c)
    <3>1. Killed(c) => pc'[c] = "idle"
      BY Zenon DEF Killed, Report, Goto, ServiceInvariant, TypeOK
    <3> QED BY <1>5, <2>3, <3>1, Zenon
  <2> QED BY <2>1, <2>2, <2>3, <2>4, InstallGoesOn, UninstallGoesOn, Zenon
<1> QED BY <1>2, <1>3, <1>4, <1>5, Zenon DEF Next

\* What a successful install left stays, until another command begins.
LEMMA InstallCompleteKept ==
    ASSUME ServiceInvariant, Next
    PROVE  InstallComplete'
<1>1. CASE ProcessStep
  <2>1. /\ UNCHANGED <<scope, booted, enabled, loaded, exe, stateDir, source, commands>>
        /\ UNCHANGED unit \/ unit = "deleting"
        /\ image' \in {image, exe, "none"}
    BY <1>1, Zenon
    DEF ProcessStep, Restarts, HostServes, ReportsRunning, HostFails, Freezes,
        HostStops, Disappears, Ended, fixed, files, process
  <2> QED BY <2>1, Zenon DEF commands, ServiceInvariant, InstallComplete, Windows
<1>2. CASE Reboots
  BY <1>2, Zenon
  DEF Reboots, Launched, Ended, fixed, ServiceInvariant, InstallComplete, Windows
<1>3. ASSUME NEW c \in Commands, NEW k \in Ops, Begin(c, k) PROVE InstallComplete'
  BY <1>3, ZenonT(30) DEF Begin, InstallComplete
<1>4. ASSUME NEW c \in Commands, CommandStep(c) \/ Killed(c) PROVE InstallComplete'
  <2> SUFFICES ASSUME ~overlapped, op[c] = "install", result'[c] = "ok"
               PROVE  /\ unit' = "present" /\ exe' = "new" /\ stateDir' = "owned"
                      /\ Windows => source' /\ image' \in {"none", "new"}
                      /\ ~Windows => enabled' /\ (booted => loaded')
    BY <1>4, OnlyItsOwnOutcome, Zenon DEF InstallComplete, Windows
  <2>1. Active(c) /\ InstallProgress(c)
    BY <1>4, CommandFrame, Zenon DEF ServiceInvariant, InProgress
  <2>2. CASE ReloadSystemd(c)
    BY <2>1, <2>2, StepTells, ZenonT(30) DEF ReloadSystemd, InstallProgress
  <2>3. CASE FinishInstall(c)
    BY <2>1, <2>3, StepTells, Zenon
    DEF FinishInstall, files, process, InstallProgress, ServiceInvariant, TypeOK,
        ProcessCoherent
  <2> QED BY <1>4, <2>2, <2>3, Outcomes, Zenon
<1> QED BY <1>1, <1>2, <1>3, <1>4 DEF Next

\* What a failed install took back stays away.
LEMMA InstallUndoneKept ==
    ASSUME ServiceInvariant, Next
    PROVE  InstallUndone'
<1>1. CASE ProcessStep
  <2>1. UNCHANGED <<source, op, created, result, overlapped>>
    BY <1>1, Zenon
    DEF ProcessStep, Restarts, HostServes, ReportsRunning, HostFails, Freezes,
        HostStops, Disappears, files, commands
  <2>2. UNCHANGED unit \/ unit' = "none"
    BY <1>1, Zenon
    DEF ProcessStep, Restarts, HostServes, ReportsRunning, HostFails, Freezes,
        HostStops, Disappears, files
  <2> QED BY <2>1, <2>2, Zenon DEF ServiceInvariant, InstallUndone
<1>2. CASE Reboots
  BY <1>2, Zenon DEF Reboots, ServiceInvariant, TypeOK, InstallUndone
<1>3. ASSUME NEW c \in Commands, NEW k \in Ops, Begin(c, k) PROVE InstallUndone'
  BY <1>3, Zenon DEF Begin, InstallUndone
<1>4. ASSUME NEW c \in Commands, CommandStep(c) \/ Killed(c) PROVE InstallUndone'
  <2> SUFFICES ASSUME ~overlapped, op[c] = "install", result'[c] = "error"
               PROVE  /\ "service" \in created'[c] => unit' \in {"deleting", "none"}
                      /\ "source" \in created'[c] => ~source'
    BY <1>4, OnlyItsOwnOutcome, SMTT(30) DEF InstallUndone
  <2>1. Active(c) /\ InstallProgress(c)
    BY <1>4, CommandFrame, Zenon DEF ServiceInvariant, InProgress
  <2>2. Fails(c)
    BY <1>4, Outcomes, Zenon
  <2>3. created' = created /\ ("source" \in created[c] => ~source')
    BY <2>2, ZenonT(30) DEF Fails
  <2>4. "service" \in created[c] => unit' = "deleting"
    BY <2>1, <2>2, ZenonT(60) DEF Fails, InstallProgress
  <2> QED BY <2>3, <2>4, Zenon
<1> QED BY <1>1, <1>2, <1>3, <1>4 DEF Next

\* What a successful uninstall removed stays away.
LEMMA UninstallCompleteKept ==
    ASSUME ServiceInvariant, Next
    PROVE  UninstallComplete'
<1>1. CASE ProcessStep
  BY <1>1
  DEF ProcessStep, Restarts, HostServes, ReportsRunning, HostFails, Freezes, HostStops,
      Disappears, commands, fixed, files, process, ServiceInvariant, UninstallComplete
<1>2. CASE Reboots
  BY <1>2, Zenon
  DEF Reboots, Launched, Ended, ServiceInvariant, UninstallComplete, Windows
<1>3. ASSUME NEW c \in Commands, NEW k \in Ops, Begin(c, k) PROVE UninstallComplete'
  BY <1>3, Zenon DEF Begin, UninstallComplete
<1>4. ASSUME NEW c \in Commands, CommandStep(c) \/ Killed(c) PROVE UninstallComplete'
  <2> SUFFICES ASSUME ~overlapped, op[c] = "uninstall", result'[c] = "ok"
               PROVE  /\ unit' \in {"none", "deleting"}
                      /\ ~enabled' /\ ~loaded' /\ ~source'
                      /\ proc' = "stopped"
    BY <1>4, OnlyItsOwnOutcome, Zenon DEF UninstallComplete
  <2>1. Active(c) /\ UninstallProgress(c)
    BY <1>4, CommandFrame, Zenon DEF ServiceInvariant, InProgress
  <2>2. CASE ReloadSystemd(c)
    BY <2>1, <2>2, StepTells, ZenonT(30)
    DEF ReloadSystemd, process, UninstallProgress, ServiceInvariant, ManagerCoherent,
        OnlyInstalledRuns
  <2>3. CASE RemoveEventSource(c)
    BY <2>1, <2>3, StepTells, Zenon
    DEF RemoveEventSource, process, UninstallProgress, ServiceInvariant,
        ManagerCoherent, OnlyInstalledRuns
  <2> QED BY <1>4, <2>2, <2>3, Outcomes, ZenonT(30)
<1> QED BY <1>1, <1>2, <1>3, <1>4 DEF Next

\* Every step keeps the invariant.
LEMMA ServiceStep ==
    ASSUME ServiceInvariant, [Next]_vars
    PROVE  ServiceInvariant'
<1>1. CASE Next
  BY <1>1, TypeKept, OnCourseKept, ManagerKept, ProcessKept, OneAtATimeKept,
     OnlyInstalledRunsKept, InProgressKept, InstallCompleteKept, InstallUndoneKept,
     UninstallCompleteKept, Zenon
  DEF ServiceInvariant
<1>2. CASE UNCHANGED vars
  <2> USE <1>2 DEF ServiceInvariant, vars, fixed, files, process, commands, Active, Windows
  <2>0. TypeOK' /\ ManagerCoherent' /\ ProcessCoherent'
    BY DEF TypeOK, FlagsOK, ManagerCoherent, ProcessCoherent
  <2>1. \A c \in Commands : OnCourse(c)'
    BY ZenonT(30) DEF OnCourse, StepsOf
  <2>2. OneAtATime' /\ OnlyInstalledRuns' /\ InProgress'
    BY DEF OneAtATime, OnlyInstalledRuns, InProgress, InstallProgress, UninstallProgress
  <2>3. InstallComplete' /\ InstallUndone' /\ UninstallComplete'
    BY Zenon DEF InstallComplete, InstallUndone, UninstallComplete
  <2> QED BY <2>0, <2>1, <2>2, <2>3, Zenon
<1> QED BY <1>1, <1>2, Zenon

\* Before the first command nothing runs and nothing is in progress.
LEMMA InitService == Init => ServiceInvariant
<1> SUFFICES ASSUME Init PROVE ServiceInvariant
  BY Zenon
<1>1. FlagsOK
  BY Zenon DEF Init, FlagsOK
<1>2. TypeOK
  BY <1>1, Zenon DEF Init, TypeOK, Labels, Ops
<1>3. ManagerCoherent
  BY ScopeAssumption, ZenonT(30) DEF Init, ManagerCoherent, Windows
<1>4. OnlyInstalledRuns
  BY Zenon DEF Init, OnlyInstalledRuns
<1>5. (\A c \in Commands : OnCourse(c)) /\ ProcessCoherent /\ OneAtATime /\ InProgress
  BY Zenon DEF Init, OnCourse, ProcessCoherent, OneAtATime, InProgress, Active, Windows
<1>6. InstallComplete /\ InstallUndone /\ UninstallComplete
  BY Zenon DEF Init, InstallComplete, InstallUndone, UninstallComplete
<1> QED BY <1>2, <1>3, <1>4, <1>5, <1>6, Zenon DEF ServiceInvariant

\* Each command is as far as its step says, and a failed Windows install is undone,
\* for any number of commands of which none overlaps another.
THEOREM ServiceCorrect == Spec => []ServiceInvariant
BY InitService, ServiceStep, PTL DEF Spec

\* A successful install left everything in place, from whatever state an older
\* release or an interrupted command had left (Install).
THEOREM InstallCorrect == Spec => []InstallComplete
<1>1. ServiceInvariant => InstallComplete
  BY Zenon DEF ServiceInvariant
<1> QED BY <1>1, ServiceCorrect, PTL

\* A successful uninstall left nothing that runs or would run (Uninstall).
THEOREM UninstallCorrect == Spec => []UninstallComplete
<1>1. ServiceInvariant => UninstallComplete
  BY Zenon DEF ServiceInvariant
<1> QED BY <1>1, ServiceCorrect, PTL

\* A start that succeeds has seen the process answer, also when commands overlap: its
\* last step finds the endpoint serving, or the Windows service reported as running.
THEOREM StartCorrect == Spec => StartServed
<1> DEFINE Served == \A c \in Commands : op[c] = "start" /\ Active(c) /\ result'[c] = "ok" => ready
<1>1. ASSUME ServiceInvariant, [Next]_vars PROVE [Served]_vars
  <2> SUFFICES ASSUME Next, NEW c \in Commands, op[c] = "start", Active(c), result'[c] = "ok"
               PROVE  ready
    BY <1>1, Zenon
  <2>1. result[c] = "none"
    BY <1>1, ZenonT(30) DEF ServiceInvariant, OnCourse
  <2>2. CommandStep(c)
    <3>1. ~ProcessStep
      BY <2>1, Zenon
      DEF ProcessStep, Restarts, HostServes, ReportsRunning, HostFails, Freezes,
          HostStops, Disappears, commands
    <3>2. ~Reboots
      BY Zenon DEF Reboots, Active
    <3>3. \A d \in Commands, k \in Ops : ~Begin(d, k)
      BY Zenon DEF Begin
    <3>4. PICK d \in Commands : CommandStep(d) \/ Killed(d)
      BY <3>1, <3>2, <3>3, Zenon DEF Next
    <3>5. d = c
      BY <1>1, <2>1, <3>4, CommandFrame, Zenon
    <3>6. ~Killed(c)
      BY <1>1, Zenon DEF Killed, Report, ServiceInvariant, TypeOK
    <3> QED BY <3>4, <3>5, <3>6, Zenon
  <2>3. CASE SeesReady(c)
    BY <1>1, <2>3, Zenon DEF SeesReady, ServiceInvariant, ProcessCoherent
  <2>4. CASE StartWindows(c)
    BY <1>1, <2>1, <2>4, Zenon DEF StartWindows, ServiceInvariant, ProcessCoherent
  <2>5. CASE AwaitWindows(c)
    BY <1>1, <2>5, Zenon DEF AwaitWindows, Report, ServiceInvariant, TypeOK, ProcessCoherent
  <2> QED BY <1>1, <2>2, <2>3, <2>4, <2>5, Outcomes, ZenonT(30)
<1> QED BY <1>1, ServiceCorrect, PTL DEF Spec, StartServed
============================================================================
