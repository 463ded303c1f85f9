--------------------------- MODULE PodServicesProofs ---------------------------
(***************************************************************************)
(* Proofs about PodServices: what a running pod has, and what is given back  *)
(* before its directory is removed, for any number of networks, apps, tries, *)
(* lost messages, failures and crashes.                                      *)
(***************************************************************************)
EXTENDS PodServices, TLAPS

Places == {"exited", "gone"} \cup RunSteps \cup TeardownSteps \cup GcSteps

\* TypeOK in parts that one prover can take at once.
ServiceFlags ==
    service \in BOOLEAN /\ socket \in BOOLEAN /\ registered \in BOOLEAN /\ forgot \in BOOLEAN

PodFlags ==
    /\ marked \in BOOLEAN /\ netns \in BOOLEAN /\ chain \in BOOLEAN /\ stage1 \in BOOLEAN
    /\ files \in BOOLEAN /\ lostPorts \in BOOLEAN /\ lostPod \in BOOLEAN

TypeFlags == ServiceFlags /\ PodFlags

TypeSets ==
    /\ apps \in SUBSET Apps /\ sent \in SUBSET Apps
    /\ alloc \in SUBSET Nets /\ conf \in SUBSET Nets /\ nets \in SUBSET Nets
    /\ lostNets \in SUBSET Nets
    /\ info \in {"none", "partial", "saved"}
    /\ pc \in Places

TypeNumbers ==
    /\ tries \in 0..RetryCount - 1
    /\ k \in 0..NumNets /\ failed \in 0..NumNets
    /\ losses \in 0..MaxLosses /\ faults \in 0..MaxFaults /\ kills \in 0..MaxKills

LEMMA TypeParts == TypeOK <=> TypeFlags /\ TypeSets /\ TypeNumbers
  BY DEF TypeOK, MDSTypeOK, TypeFlags, ServiceFlags, PodFlags, TypeSets, TypeNumbers, Places

\* The actions, one by one.
LEMMA Actions ==
    ASSUME [Next]_vars
    PROVE  \/ PutPod \/ Mark \/ \E a \in Apps : PutApp(a)
           \/ UnregisterPod("undo", "exited") \/ UnregisterPod("unregister", "load")
           \/ MountNetNS \/ AddNet \/ Rollback \/ RollbackConf \/ ForwardPorts \/ Save
           \/ PodExit \/ StartGC \/ LoadNets \/ RemoveFiles \/ RemoveDir
           \/ UnforwardPorts \/ DelNet \/ DelConf \/ UnmountNetNS
           \/ Kill \/ Reboot \/ ServiceEnds \/ ServiceStarts
           \/ UNCHANGED vars
  BY DEF Next, Run, GC, Teardown

-----------------------------------------------------------------------------
(* Type correctness. *)

\* Where the loops over the networks are.
LEMMA InLoop ==
    ASSUME TypeOK, SetupSteps, RollbackSteps, TeardownProgress
    PROVE  pc \in {"add", "rollbackConf", "delConf"} => k \in Nets
  BY DEF SetupSteps, RollbackSteps, TeardownProgress

LEMMA NumbersPreserved ==
    ASSUME TypeOK, SetupSteps, RollbackSteps, TeardownProgress, [Next]_vars
    PROVE  TypeNumbers'
  <1> USE PodServicesAssumption
  <1>0. TypeNumbers /\ TypeSets
    BY TypeParts
  <1>1. CASE PutPod \/ \E a \in Apps : PutApp(a)
    BY <1>0, <1>1 DEF PutPod, PutApp, Answered, NotAnswered, netVars, bounds, TypeNumbers
  <1>2. CASE UnregisterPod("undo", "exited") \/ UnregisterPod("unregister", "load")
    BY <1>0, <1>2 DEF UnregisterPod, Answered, NotAnswered, Works, netVars, bounds, TypeNumbers
  <1>3. CASE Mark \/ MountNetNS \/ ForwardPorts \/ Save \/ LoadNets \/ UnforwardPorts
    BY <1>0, <1>3 DEF Mark, MountNetNS, ForwardPorts, Save, LoadNets, UnforwardPorts,
       Works, Fault, netVars, bounds, clientVars, TypeNumbers
  <1>4. CASE AddNet \/ RollbackConf \/ DelConf
    <2>1. k \in Nets
      BY <1>4, InLoop DEF AddNet, RollbackConf, DelConf
    <2>2. k' \in 0..NumNets /\ failed' \in 0..NumNets
      BY <1>0, <1>4, <2>1 DEF AddNet, RollbackConf, DelConf, Nets, TypeNumbers
    <2> QED BY <1>0, <1>4, <2>2 DEF AddNet, RollbackConf, DelConf, Works, Fault, bounds,
               clientVars, TypeNumbers
  <1>5. CASE Rollback \/ DelNet
    BY <1>0, <1>5 DEF Rollback, DelNet, PluginDel, Works, Fault, bounds, clientVars, TypeNumbers
  <1>6. CASE PodExit \/ StartGC \/ ServiceStarts \/ UNCHANGED vars
    BY <1>0, <1>6 DEF PodExit, StartGC, ServiceStarts, netVars, bounds, clientVars, vars, TypeNumbers
  <1>8. CASE RemoveFiles \/ RemoveDir \/ UnmountNetNS
    <2>1. UNCHANGED <<tries, k, failed>> /\ (Works \/ Fault)
      BY <1>8 DEF RemoveFiles, RemoveDir, UnmountNetNS, clientVars
    <2> QED BY <1>0, <2>1 DEF Works, Fault, bounds, TypeNumbers
  <1>7. CASE Kill \/ Reboot \/ ServiceEnds
    BY <1>0, <1>7 DEF Kill, Reboot, ServiceEnds, Crash, netVars, clientVars, TypeNumbers
  <1> QED BY <1>1, <1>2, <1>3, <1>4, <1>5, <1>6, <1>7, <1>8, Actions

LEMMA SetsPreserved ==
    ASSUME TypeOK, SetupSteps, RollbackSteps, TeardownProgress, [Next]_vars
    PROVE  TypeSets'
  <1>0. TypeSets /\ TypeNumbers
    BY TypeParts
  <1> USE DEF TypeSets, Places, RunSteps, TeardownSteps, GcSteps
  <1>1. CASE PutPod \/ \E a \in Apps : PutApp(a)
    BY <1>0, <1>1 DEF PutPod, PutApp, Answered, NotAnswered, netVars, mdsVars, lostVars,
       HandleRegisterPod, HandleRegisterApp
  <1>2. CASE UnregisterPod("undo", "exited") \/ UnregisterPod("unregister", "load")
    BY <1>0, <1>2 DEF UnregisterPod, Answered, NotAnswered, netVars, mdsVars,
       HandleUnregisterPod
  <1>3. CASE Mark \/ MountNetNS \/ ForwardPorts \/ Save \/ LoadNets \/ UnforwardPorts
    BY <1>0, <1>3 DEF Mark, MountNetNS, ForwardPorts, Save, LoadNets, AfterTeardown, UnforwardPorts,
       netVars, mdsVars, clientVars, lostVars
  <1>4. CASE AddNet
    <2>1. k \in Nets
      BY <1>4, InLoop DEF AddNet
    <2> QED BY <1>0, <1>4, <2>1 DEF AddNet, mdsVars, clientVars, lostVars
  <1>5. CASE RollbackConf \/ DelConf \/ UnmountNetNS \/ RemoveFiles \/ RemoveDir
    BY <1>0, <1>5 DEF RollbackConf, DelConf, AfterTeardown, UnmountNetNS, RemoveFiles, RemoveDir, mdsVars, clientVars, lostVars
  <1>6. CASE Rollback
    <2>1. k # 0 => k \in Nets
      BY <1>0 DEF TypeNumbers, Nets
    <2> QED BY <1>0, <1>6, <2>1 DEF Rollback, PluginDel, mdsVars, clientVars
  <1>7. CASE DelNet
    BY <1>0, <1>7 DEF DelNet, PluginDel, mdsVars, clientVars
  <1>8. CASE PodExit \/ StartGC \/ ServiceStarts \/ UNCHANGED vars
    BY <1>0, <1>8 DEF PodExit, StartGC, ServiceStarts, StartService, netVars, clientVars, vars,
       mdsVars, lostVars
  <1>9. CASE Kill \/ Reboot \/ ServiceEnds
    BY <1>0, <1>9 DEF Kill, Reboot, ServiceEnds, StopService, netVars, clientVars, mdsVars, lostVars
  <1> QED BY <1>1, <1>2, <1>3, <1>4, <1>5, <1>6, <1>7, <1>8, <1>9, Actions

LEMMA ServiceFlagsPreserved == ASSUME TypeOK, [Next]_vars PROVE ServiceFlags'
  <1>0. ServiceFlags
    BY TypeParts DEF TypeFlags
  <1> USE DEF ServiceFlags
  <1>1. CASE PutPod \/ UnregisterPod("undo", "exited") \/ UnregisterPod("unregister", "load")
    BY <1>0, <1>1 DEF PutPod, UnregisterPod, NotAnswered, mdsVars, HandleRegisterPod, HandleUnregisterPod
  <1>2. ASSUME NEW a \in Apps, PutApp(a) PROVE ServiceFlags'
    BY <1>0, <1>2 DEF PutApp, NotAnswered, mdsVars, HandleRegisterApp
  <1>3. CASE Mark \/ MountNetNS \/ ForwardPorts \/ Save \/ LoadNets \/ UnforwardPorts
    BY <1>0, <1>3 DEF Mark, MountNetNS, ForwardPorts, Save, LoadNets, UnforwardPorts, mdsVars
  <1>4. CASE AddNet \/ Rollback \/ DelNet
    BY <1>0, <1>4 DEF AddNet, Rollback, DelNet, mdsVars
  <1>5. CASE RollbackConf \/ DelConf \/ UnmountNetNS \/ RemoveFiles \/ RemoveDir
    BY <1>0, <1>5 DEF RollbackConf, DelConf, UnmountNetNS, RemoveFiles, RemoveDir, mdsVars
  <1>6. CASE PodExit \/ StartGC \/ Kill \/ UNCHANGED vars
    BY <1>0, <1>6 DEF PodExit, StartGC, Kill, vars, mdsVars
  <1>7. CASE Reboot \/ ServiceEnds \/ ServiceStarts
    BY <1>0, <1>7 DEF Reboot, ServiceEnds, StopService, ServiceStarts, StartService
  <1> QED BY <1>1, <1>2, <1>3, <1>4, <1>5, <1>6, <1>7, Actions

LEMMA PodFlagsPreserved == ASSUME TypeOK, [Next]_vars PROVE PodFlags'
  <1>0. PodFlags
    BY TypeParts DEF TypeFlags
  <1> USE DEF PodFlags
  <1>1. CASE PutPod \/ \E a \in Apps : PutApp(a)
    BY <1>0, <1>1 DEF PutPod, PutApp, netVars, lostVars
  <1>2. CASE UnregisterPod("undo", "exited") \/ UnregisterPod("unregister", "load")
    <2>1. lostPod' \in BOOLEAN
      BY <1>0, <1>2, Zenon DEF UnregisterPod
    <2>2. UNCHANGED <<marked, netns, chain, stage1, files, lostPorts>>
      BY <1>2 DEF UnregisterPod, netVars
    <2> QED BY <1>0, <2>1, <2>2
  <1>3. CASE Mark \/ MountNetNS \/ ForwardPorts \/ Save
    BY <1>0, <1>3 DEF Mark, MountNetNS, ForwardPorts, Save, netVars, clientVars, lostVars
  <1>4. CASE LoadNets \/ UnforwardPorts
    BY <1>0, <1>4 DEF LoadNets, UnforwardPorts, clientVars
  <1>5. CASE AddNet \/ Rollback \/ DelNet
    BY <1>0, <1>5 DEF AddNet, Rollback, DelNet, clientVars, lostVars
  <1>6. CASE RollbackConf \/ DelConf \/ UnmountNetNS
    BY <1>0, <1>6 DEF RollbackConf, DelConf, UnmountNetNS, clientVars, lostVars
  <1>7. CASE RemoveFiles \/ RemoveDir
    BY <1>0, <1>7 DEF RemoveFiles, RemoveDir, lostVars
  <1>8. CASE PodExit \/ StartGC \/ ServiceStarts \/ ServiceEnds \/ UNCHANGED vars
    BY <1>0, <1>8 DEF PodExit, StartGC, ServiceStarts, ServiceEnds, netVars, clientVars, vars, lostVars
  <1>9. CASE Kill \/ Reboot
    BY <1>0, <1>9 DEF Kill, Reboot, lostVars
  <1> QED BY <1>1, <1>2, <1>3, <1>4, <1>5, <1>6, <1>7, <1>8, <1>9, Actions

-----------------------------------------------------------------------------
(* The registration. *)

LEMMA RegistrationPreserved ==
    ASSUME TypeOK, RegistrationSteps, SetupSteps, [Next]_vars
    PROVE  RegistrationSteps'
  <1>0. TypeSets /\ TypeFlags
    BY TypeParts
  <1>1. CASE PutPod
    BY <1>0, <1>1 DEF RegistrationSteps, PutPod, Answered, NotAnswered, mdsVars, HandleRegisterPod
  <1>2. CASE Mark
    BY <1>0, <1>2 DEF RegistrationSteps, SetupSteps, Mark, mdsVars, TypeSets
  <1>3. ASSUME NEW a \in Apps, PutApp(a) PROVE RegistrationSteps'
    <2>1. CASE FirstTry /\ registered /\ sent' = sent \cup {a} /\ HandleRegisterApp(a)
               /\ Answered(IF sent' = Apps THEN "setup" ELSE "putApp")
      <3>1. /\ apps' = apps \cup {a} /\ sent' = sent \cup {a} /\ registered' /\ forgot' = forgot
            /\ pc = "putApp" /\ pc' = IF sent' = Apps THEN "setup" ELSE "putApp"
        BY <1>3, <2>1 DEF HandleRegisterApp, Answered, PutApp
      <3>2. apps' \subseteq Apps
        BY <1>0, <3>1 DEF TypeSets
      <3> QED BY <3>1, <3>2 DEF RegistrationSteps
    <2>2. CASE Answered("undo")
      BY <2>2 DEF RegistrationSteps, Answered
    <2>3. CASE NotAnswered("undo", FirstTry /\ HandleRegisterApp(a)) /\ UNCHANGED sent
      <3>1. UNCHANGED <<registered, forgot, sent>> /\ (apps' = apps \/ apps' = apps \cup {a})
        BY <2>3 DEF NotAnswered, mdsVars, HandleRegisterApp
      <3>2. pc = "putApp" /\ pc' \in {"putApp", "undo"}
        BY <1>3, <2>3 DEF NotAnswered, PutApp
      <3> QED BY <3>1, <3>2 DEF RegistrationSteps
    <2> QED BY <1>3, <2>1, <2>2, <2>3 DEF PutApp
  <1>4. CASE UnregisterPod("undo", "exited") \/ UnregisterPod("unregister", "load")
    BY <1>4 DEF RegistrationSteps, UnregisterPod, Answered, NotAnswered
  <1>5. CASE ServiceEnds
    BY <1>0, <1>5 DEF RegistrationSteps, ServiceEnds, StopService, clientVars, TypeFlags, ServiceFlags
  <1>6. CASE Kill \/ Reboot
    BY <1>6 DEF RegistrationSteps, Kill, Reboot
  <1>7. CASE \/ MountNetNS \/ AddNet \/ Rollback \/ RollbackConf \/ ForwardPorts \/ Save
             \/ PodExit \/ StartGC \/ LoadNets \/ RemoveFiles \/ RemoveDir
             \/ UnforwardPorts \/ DelNet \/ DelConf \/ UnmountNetNS
             \/ ServiceStarts \/ UNCHANGED vars
    <2>1. UNCHANGED <<registered, apps, forgot, sent>>
      BY <1>7 DEF MountNetNS, AddNet, Rollback, RollbackConf, ForwardPorts, Save, PodExit, StartGC,
         LoadNets, RemoveFiles, RemoveDir, AfterTeardown, UnforwardPorts, DelNet, DelConf, UnmountNetNS, ServiceStarts,
         StartService, vars, mdsVars, clientVars
    <2>2. /\ pc' \notin {"mark", "putApp"} \/ pc' = pc
          /\ pc' \in {"setup", "add", "forward", "save", "running"} =>
                pc \in {"setup", "add", "forward", "save", "running"}
      BY <1>7 DEF MountNetNS, AddNet, Rollback, RollbackConf, ForwardPorts, Save, PodExit, StartGC,
         LoadNets, RemoveFiles, RemoveDir, AfterTeardown, UnforwardPorts, DelNet, DelConf, UnmountNetNS, ServiceStarts, vars
    <2> QED BY <2>1, <2>2 DEF RegistrationSteps
  <1> QED BY <1>1, <1>2, <1>3, <1>4, <1>5, <1>6, <1>7, Actions

\* The part of the invariant about the end of a registration.
LEMMA UnregisteredPreserved ==
    ASSUME TypeOK, TeardownProgress, UnregisteredFirst, [Next]_vars
    PROVE  UnregisteredFirst'
  <1> USE DEF UnregisteredFirst, TeardownSteps
  <1>1. CASE PutPod
    BY <1>1 DEF PutPod, Answered, NotAnswered
  <1>2. ASSUME NEW a \in Apps, PutApp(a) PROVE UnregisteredFirst'
    BY <1>2 DEF PutApp, Answered, NotAnswered
  <1>3. CASE UnregisterPod("undo", "exited")
    BY <1>3 DEF UnregisterPod, Answered, NotAnswered
  <1>4. CASE UnregisterPod("unregister", "load")
    <2>1. CASE ~marked
      BY <1>4, <2>1 DEF UnregisterPod
    <2>2. CASE Answered("load") /\ HandleUnregisterPod
      BY <2>2 DEF HandleUnregisterPod
    <2>3. CASE NotAnswered("load", HandleUnregisterPod) /\ lostPod' = (lostPod \/ pc' = "load")
      BY <1>4, <2>3 DEF NotAnswered, UnregisterPod
    <2> QED BY <1>4, <2>1, <2>2, <2>3 DEF UnregisterPod
  <1>5. CASE Mark
    BY <1>5 DEF Mark
  <1>6. CASE Kill \/ Reboot \/ ServiceEnds
    BY <1>6 DEF Kill, Reboot, ServiceEnds, StopService, netVars, clientVars, lostVars
  <1>7. CASE LoadNets
    BY <1>7 DEF LoadNets, mdsVars, clientVars, lostVars
  <1>8. CASE Save
    BY <1>8 DEF Save
  <1>9. CASE UnmountNetNS \/ RemoveFiles \/ RemoveDir
    BY <1>9 DEF AfterTeardown, UnmountNetNS, RemoveFiles, RemoveDir, mdsVars, clientVars, lostVars
  <1>10. CASE \/ MountNetNS \/ AddNet \/ Rollback \/ RollbackConf \/ ForwardPorts
              \/ PodExit \/ StartGC
    BY <1>10 DEF MountNetNS, AddNet, Rollback, RollbackConf, ForwardPorts, PodExit, StartGC
  <1>11. CASE UnforwardPorts \/ DelNet \/ DelConf \/ ServiceStarts \/ UNCHANGED vars
    BY <1>11 DEF AfterTeardown, UnforwardPorts, DelNet, DelConf, ServiceStarts, StartService, vars, mdsVars,
       netVars, clientVars, lostVars
  <1> QED BY <1>1, <1>2, <1>3, <1>4, <1>5, <1>6, <1>7, <1>8, <1>9, <1>10, <1>11, Actions

-----------------------------------------------------------------------------
(* The setup of the networks and its rollback. *)

LEMMA SetupPreserved ==
    ASSUME TypeOK, SetupSteps, [Next]_vars PROVE SetupSteps'
  <1> USE DEF RunSteps
  <1>0. TypeSets /\ TypeNumbers
    BY TypeParts
  <1>1. CASE PutPod
    BY <1>1 DEF SetupSteps, PutPod, Answered, NotAnswered, netVars
  <1>2. ASSUME NEW a \in Apps, PutApp(a) PROVE SetupSteps'
    BY <1>2 DEF SetupSteps, PutApp, Answered, NotAnswered, netVars
  <1>3. CASE Mark
    BY <1>3 DEF SetupSteps, Mark, netVars
  <1>4. CASE UnregisterPod("undo", "exited") \/ UnregisterPod("unregister", "load")
    BY <1>4 DEF SetupSteps, UnregisterPod, Answered, NotAnswered, netVars
  <1>5. CASE MountNetNS
    <2>1. 1 \in Nets /\ 1..1 - 1 = {}
      BY PodServicesAssumption DEF Nets
    <2> QED BY <1>5, <2>1 DEF SetupSteps, MountNetNS, clientVars
  <1>6. CASE AddNet
    <2>1. k \in Nets /\ alloc = 1..k - 1 /\ alloc \subseteq conf /\ netns /\ info = "none"
      BY <1>6 DEF SetupSteps, AddNet
    <2>2. CASE k # NumNets /\ conf' = conf \cup {k} /\ alloc' = alloc \cup {k} /\ k' = k + 1 /\ UNCHANGED pc
      <3>1. k' \in Nets /\ alloc' = 1..k' - 1
        BY <2>1, <2>2, PodServicesAssumption DEF Nets
      <3> QED BY <1>6, <2>1, <2>2, <3>1 DEF SetupSteps, AddNet, clientVars
    <2>3. CASE k = NumNets /\ conf' = conf \cup {k} /\ alloc' = alloc \cup {k} /\ pc' = "forward"
      <3>1. alloc' = Nets
        BY <2>1, <2>3, PodServicesAssumption DEF Nets
      <3> QED BY <1>6, <2>1, <2>3, <3>1 DEF SetupSteps, AddNet, clientVars
    <2>4. CASE pc' = "rollback"
      BY <1>6, <2>1, <2>4 DEF SetupSteps, AddNet
    <2> QED BY <1>6, <2>2, <2>3, <2>4 DEF AddNet
  <1>7. CASE Rollback \/ RollbackConf \/ ForwardPorts \/ Save
    BY <1>7 DEF SetupSteps, Rollback, RollbackConf, ForwardPorts, Save
  <1>8. CASE PodExit \/ StartGC \/ LoadNets \/ RemoveFiles \/ RemoveDir \/ UnforwardPorts \/ DelNet \/ DelConf
             \/ UnmountNetNS \/ Kill \/ Reboot
    BY <1>8 DEF SetupSteps, PodExit, StartGC, LoadNets, RemoveFiles, RemoveDir, AfterTeardown, UnforwardPorts, DelNet, DelConf,
       UnmountNetNS, Kill, Reboot
  <1>9. CASE ServiceEnds \/ ServiceStarts \/ UNCHANGED vars
    BY <1>9 DEF SetupSteps, ServiceEnds, ServiceStarts, vars, netVars, clientVars
  <1> QED BY <1>1, <1>2, <1>3, <1>4, <1>5, <1>6, <1>7, <1>8, <1>9, Actions

LEMMA RollbackPreserved ==
    ASSUME TypeOK, SetupSteps, RollbackSteps, [Next]_vars PROVE RollbackSteps'
  <1>0. TypeSets /\ TypeNumbers
    BY TypeParts
  <1>1. CASE AddNet
    <2>1. k \in Nets /\ alloc = 1..k - 1
      BY <1>1 DEF SetupSteps, AddNet
    <2>2. CASE pc' = "rollback"
      <3>1. alloc' \subseteq alloc \cup {k} /\ lostNets' = lostNets /\ k' = k - 1 /\ failed' = k
        BY <1>1, <2>2 DEF AddNet, lostVars
      <3>2. alloc' \subseteq lostNets' \cup {failed'} \cup (1..k')
        BY <2>1, <3>1
      <3> QED BY <2>2, <3>2 DEF RollbackSteps
    <2> QED BY <1>1, <2>2 DEF AddNet, RollbackSteps
  <1>2. CASE Rollback
    <2>1. CASE k = 0
      BY <1>2, <2>1 DEF Rollback, RollbackSteps
    <2>2. CASE k # 0
      <3>1. k \in Nets /\ k \in Nat
        BY <1>0, <2>2 DEF TypeNumbers, Nets
      <3>2. alloc \subseteq lostNets \cup {failed} \cup (1..k)
        BY <1>2 DEF Rollback, RollbackSteps
      <3>3. /\ (alloc' = alloc \ {k} /\ lostNets' = lostNets) \/ (alloc' = alloc /\ lostNets' = lostNets \cup {k})
            /\ k' = k /\ failed' = failed /\ pc' = "rollbackConf"
        BY <1>2, <2>2 DEF Rollback, PluginDel
      <3>4. alloc' \subseteq lostNets' \cup {failed'} \cup (1..k' - 1)
        BY <3>1, <3>2, <3>3
      <3> QED BY <3>1, <3>3, <3>4 DEF RollbackSteps
    <2> QED BY <2>1, <2>2
  <1>3. CASE RollbackConf
    <2>1. UNCHANGED <<alloc, lostNets, failed>> /\ k' = k - 1 /\ pc = "rollbackConf" /\ pc' = "rollback"
      BY <1>3 DEF RollbackConf, lostVars
    <2> QED BY <2>1 DEF RollbackSteps
  <1>4. CASE PutPod \/ Mark \/ (\E a \in Apps : PutApp(a))
             \/ UnregisterPod("undo", "exited") \/ UnregisterPod("unregister", "load")
    BY <1>4 DEF RollbackSteps, PutPod, Mark, PutApp, UnregisterPod, Answered, NotAnswered
  <1>5. CASE \/ MountNetNS \/ ForwardPorts \/ Save \/ PodExit \/ StartGC \/ LoadNets \/ RemoveFiles \/ RemoveDir
             \/ UnforwardPorts \/ DelNet \/ DelConf \/ UnmountNetNS \/ Kill \/ Reboot
    BY <1>5 DEF RollbackSteps, MountNetNS, ForwardPorts, Save, PodExit, StartGC, LoadNets, RemoveFiles, RemoveDir,
       AfterTeardown, UnforwardPorts, DelNet, DelConf, UnmountNetNS, Kill, Reboot
  <1>6. CASE ServiceEnds \/ ServiceStarts \/ UNCHANGED vars
    <2>1. UNCHANGED <<pc, alloc, lostNets, k, failed>>
      BY <1>6 DEF ServiceEnds, ServiceStarts, vars, netVars, lostVars
    <2> QED BY <2>1 DEF RollbackSteps
  <1> QED BY <1>1, <1>2, <1>3, <1>4, <1>5, <1>6, Actions

-----------------------------------------------------------------------------
(* The teardown of the networks. *)

LEMMA TeardownPreserved ==
    ASSUME TypeOK, SetupSteps, TeardownProgress, ReleasedWhenDeleted, [Next]_vars
    PROVE  TeardownProgress'
  <1> USE DEF TeardownSteps
  <1>0. TypeSets /\ TypeNumbers
    BY TypeParts
  <1>1. CASE PutPod \/ Mark \/ (\E a \in Apps : PutApp(a))
             \/ UnregisterPod("undo", "exited") \/ UnregisterPod("unregister", "load")
    <2>1. UNCHANGED <<alloc, conf, info, lostNets>>
      BY <1>1 DEF PutPod, Mark, PutApp, UnregisterPod, netVars, lostVars
    <2>2. pc' \notin TeardownSteps \cup {"removeDir"}
      BY <1>1 DEF PutPod, Mark, PutApp, UnregisterPod, Answered, NotAnswered
    <2> QED BY <2>1, <2>2 DEF TeardownProgress
  <1>2. CASE MountNetNS \/ AddNet \/ Rollback \/ RollbackConf \/ ForwardPorts
    <2>1. info = "none" /\ UNCHANGED info
      BY <1>2 DEF SetupSteps, RunSteps, MountNetNS, AddNet, Rollback, RollbackConf, ForwardPorts
    <2>2. pc' \notin TeardownSteps \cup {"removeDir"}
      BY <1>2 DEF MountNetNS, AddNet, Rollback, RollbackConf, ForwardPorts
    <2> QED BY <2>1, <2>2 DEF TeardownProgress
  <1>3. CASE Save
    <2>1. alloc = Nets /\ alloc \subseteq conf /\ UNCHANGED <<alloc, conf, lostNets>>
      BY <1>3 DEF Save, SetupSteps, lostVars
    <2>2. CASE info' = "saved" /\ pc' = "running"
      BY <2>1, <2>2 DEF TeardownProgress
    <2>3. CASE info' \in {"none", "partial"} /\ nets' = Nets /\ stage1' = TRUE /\ pc' = "unforward"
      BY <2>1, <2>3 DEF TeardownProgress
    <2> QED BY <1>3, <2>2, <2>3 DEF Save
  <1>4. CASE PodExit \/ StartGC
    BY <1>4 DEF TeardownProgress, PodExit, StartGC, netVars, lostVars
  <1>5. CASE LoadNets
    <2>1. UNCHANGED <<alloc, conf, info>> /\ lostNets \subseteq lostNets'
      BY <1>5 DEF LoadNets
    <2>2. CASE info = "saved" /\ pc' = "unforward"
      <3>1. conf \subseteq nets' \cup lostNets'
        BY <1>5, <2>2 DEF LoadNets
      <3>2. alloc \subseteq conf \cup lostNets
        BY <2>2 DEF TeardownProgress
      <3> QED BY <2>1, <2>2, <3>1, <3>2 DEF TeardownProgress
    <2>3. CASE pc' \in {"remove", "exited"}
      BY <2>1, <2>3 DEF TeardownProgress
    <2> QED BY <1>5, <2>2, <2>3 DEF LoadNets
  <1>6. CASE RemoveFiles \/ RemoveDir
    <2>1. UNCHANGED <<alloc, lostNets>> /\ pc' \notin TeardownSteps
      BY <1>6 DEF RemoveFiles, RemoveDir, lostVars
    <2>2. info' = "saved" => alloc \subseteq lostNets
      BY <1>6 DEF RemoveFiles, RemoveDir, TeardownProgress, ReleasedWhenDeleted
    <2> QED BY <2>1, <2>2 DEF TeardownProgress
  <1>7. CASE UnforwardPorts
    <2>0. UNCHANGED <<alloc, conf, info, nets, stage1>> /\ lostNets \subseteq lostNets' /\ pc = "unforward"
      BY <1>7 DEF UnforwardPorts
    <2>1. CASE pc' = "del" /\ k' = NumNets /\ (chain' => lostPorts')
      <3>1. \A i \in alloc : ~(i > NumNets)
        BY <1>0, PodServicesAssumption DEF TypeSets, Nets
      <3> QED BY <2>0, <2>1, <3>1 DEF TeardownProgress
    <2>2. CASE pc' = AfterTeardown
      BY <2>0, <2>2 DEF AfterTeardown, TeardownProgress
    <2> QED BY <1>7, <2>1, <2>2 DEF UnforwardPorts
  <1>8. CASE DelNet
    <2>0. /\ UNCHANGED <<conf, info, nets, stage1, chain, lostPorts>>
          /\ pc = "del" /\ k \in Nat
          /\ \A i \in alloc : i \in Nat \ {0}
      BY <1>0, <1>8 DEF DelNet, TypeNumbers, TypeSets, Nets
    <2>1. /\ info = "saved" => alloc \subseteq conf \cup lostNets
          /\ alloc \subseteq nets \cup lostNets
          /\ ~stage1 => info = "saved"
          /\ \A i \in alloc : i > k => i \in lostNets
          /\ chain => lostPorts
      BY <2>0 DEF TeardownProgress
    <2>2. CASE k = 0 /\ pc' = "unmount" /\ UNCHANGED <<alloc, k, lostNets>>
      <3>1. alloc \subseteq lostNets
        BY <2>0, <2>1, <2>2
      <3> QED BY <2>0, <2>1, <2>2, <3>1 DEF TeardownProgress
    <2>3. CASE k > 0 /\ k \notin nets /\ k' = k - 1 /\ UNCHANGED <<pc, alloc, lostNets>>
      <3>1. \A i \in alloc : i > k - 1 => i \in lostNets
        BY <2>0, <2>1, <2>3
      <3> QED BY <2>0, <2>1, <2>3, <3>1 DEF TeardownProgress
    <2>4. CASE k \in nets /\ PluginDel(k) /\ pc' = "delConf" /\ UNCHANGED k
      <3>1. /\ alloc' \subseteq alloc /\ lostNets \subseteq lostNets'
            /\ k \in alloc' => k \in lostNets'
        BY <2>4 DEF PluginDel
      <3>2. k \in Nets
        BY <1>0, <2>4 DEF TypeSets
      <3>3. \A i \in alloc' : i > k => i \in lostNets'
        BY <2>1, <3>1
      <3>4. alloc' \subseteq nets \cup lostNets' /\ (info = "saved" => alloc' \subseteq conf \cup lostNets')
        BY <2>1, <3>1
      <3> QED BY <2>0, <2>1, <2>4, <3>1, <3>2, <3>3, <3>4 DEF TeardownProgress
    <2> QED BY <1>8, <2>2, <2>3, <2>4 DEF DelNet
  <1>9. CASE DelConf
    <2>0. /\ UNCHANGED <<info, nets, stage1, chain, lostPorts, alloc, lostNets>>
          /\ pc = "delConf" /\ pc' = "del" /\ k' = k - 1
          /\ conf' = conf \/ conf' = conf \ {k}
      BY <1>9 DEF DelConf, lostVars
    <2>1. /\ info = "saved" => alloc \subseteq conf \cup lostNets
          /\ alloc \subseteq nets \cup lostNets
          /\ ~stage1 => info = "saved"
          /\ \A i \in alloc : i > k => i \in lostNets
          /\ k \in Nets /\ (k \in alloc => k \in lostNets)
          /\ chain => lostPorts
      BY <2>0 DEF TeardownProgress
    <2>2. \A i \in alloc : i > k - 1 => i \in lostNets
      BY <1>0, <2>1 DEF TypeSets, Nets
    <2>3. info = "saved" => alloc \subseteq conf' \cup lostNets
      BY <2>0, <2>1
    <2> QED BY <2>0, <2>1, <2>2, <2>3 DEF TeardownProgress
  <1>10. CASE UnmountNetNS
    BY <1>10 DEF TeardownProgress, UnmountNetNS, AfterTeardown, lostVars
  <1>11. CASE Kill \/ Reboot
    <2>1. /\ UNCHANGED <<alloc, conf, lostNets>> /\ (info' = "saved" => info = "saved")
          /\ pc' \notin TeardownSteps \cup {"removeDir"}
      BY <1>11 DEF Kill, Reboot, lostVars
    <2> QED BY <2>1 DEF TeardownProgress
  <1>12. CASE ServiceEnds \/ ServiceStarts \/ UNCHANGED vars
    <2>1. UNCHANGED <<info, alloc, conf, lostNets, pc, nets, stage1, k, chain, lostPorts>>
      BY <1>12 DEF ServiceEnds, ServiceStarts, vars, netVars, lostVars
    <2> QED BY <2>1 DEF TeardownProgress
  <1> QED BY <1>1, <1>2, <1>3, <1>4, <1>5, <1>6, <1>7, <1>8, <1>9, <1>10, <1>11, <1>12, Actions

LEMMA ReleasedPreserved ==
    ASSUME TypeOK, SetupSteps, TeardownProgress, ReleasedWhenDeleted, [Next]_vars
    PROVE  ReleasedWhenDeleted'
  <1>1. CASE UnmountNetNS
    BY <1>1 DEF ReleasedWhenDeleted, TeardownProgress, TeardownSteps, UnmountNetNS, AfterTeardown, lostVars
  <1>6. CASE UnforwardPorts
    <2>1. CASE pc' = AfterTeardown /\ lostPorts' = TRUE /\ lostNets' = lostNets \cup nets
      BY <1>6, <2>1 DEF ReleasedWhenDeleted, TeardownProgress, TeardownSteps, UnforwardPorts
    <2> QED BY <1>6, <2>1 DEF ReleasedWhenDeleted, UnforwardPorts
  <1>2. CASE LoadNets
    BY <1>2 DEF ReleasedWhenDeleted, LoadNets
  <1>3. CASE ServiceEnds \/ ServiceStarts \/ UNCHANGED vars
    BY <1>3 DEF ReleasedWhenDeleted, ServiceEnds, ServiceStarts, vars, netVars, lostVars
  <1>4. CASE PutPod \/ Mark \/ (\E a \in Apps : PutApp(a))
             \/ UnregisterPod("undo", "exited") \/ UnregisterPod("unregister", "load")
    BY <1>4 DEF ReleasedWhenDeleted, PutPod, Mark, PutApp, UnregisterPod, Answered, NotAnswered
  <1>5. CASE \/ MountNetNS \/ AddNet \/ Rollback \/ RollbackConf \/ ForwardPorts \/ Save
             \/ PodExit \/ StartGC \/ RemoveFiles \/ RemoveDir \/ DelNet \/ DelConf
             \/ Kill \/ Reboot
    BY <1>5 DEF ReleasedWhenDeleted, MountNetNS, AddNet, Rollback, RollbackConf, ForwardPorts, Save,
       PodExit, StartGC, RemoveFiles, RemoveDir, DelNet, DelConf, Kill, Reboot
  <1> QED BY <1>1, <1>2, <1>3, <1>4, <1>5, <1>6, Actions

-----------------------------------------------------------------------------
(* The theorems. *)

LEMMA ServicesInit == Init => IInv
  <1> SUFFICES ASSUME Init PROVE IInv
    OBVIOUS
  <1>1. TypeFlags
    BY DEF Init, MDSInit, TypeFlags, ServiceFlags, PodFlags
  <1>2. TypeSets
    BY DEF Init, MDSInit, TypeSets, Places, RunSteps
  <1>3. TypeNumbers
    BY PodServicesAssumption DEF Init, TypeNumbers
  <1>4. RegistrationSteps /\ SetupSteps /\ RollbackSteps
    BY DEF Init, MDSInit, RegistrationSteps, SetupSteps, RollbackSteps
  <1>5. TeardownProgress /\ UnregisteredFirst /\ ReleasedWhenDeleted
    BY DEF Init, TeardownProgress, UnregisteredFirst, ReleasedWhenDeleted, TeardownSteps
  <1> QED BY <1>1, <1>2, <1>3, <1>4, <1>5, TypeParts DEF IInv

\* The inductive invariant holds: types, what a registration, a setup, a rollback and
\* a teardown have reached at each place, and that gc unregisters before it looks at
\* the networks.
THEOREM ServicesInvariance == Spec => []IInv
  <1>1. Init => IInv
    BY ServicesInit
  <1>2. IInv /\ [Next]_vars => IInv'
    <2> SUFFICES ASSUME IInv, [Next]_vars PROVE IInv'
      OBVIOUS
    <2>0. TypeOK /\ RegistrationSteps /\ SetupSteps /\ RollbackSteps /\ TeardownProgress
          /\ UnregisteredFirst /\ ReleasedWhenDeleted
      BY DEF IInv
    <2>1. TypeFlags' /\ TypeSets' /\ TypeNumbers'
      BY <2>0, ServiceFlagsPreserved, PodFlagsPreserved, SetsPreserved, NumbersPreserved DEF TypeFlags
    <2>2. TypeOK'
      BY <2>1 DEF TypeOK, MDSTypeOK, TypeFlags, ServiceFlags, PodFlags, TypeSets, TypeNumbers, Places
    <2>3. RegistrationSteps' /\ UnregisteredFirst'
      BY <2>0, RegistrationPreserved, UnregisteredPreserved
    <2>4. SetupSteps' /\ RollbackSteps'
      BY <2>0, SetupPreserved, RollbackPreserved
    <2>5. TeardownProgress' /\ ReleasedWhenDeleted'
      BY <2>0, TeardownPreserved, ReleasedPreserved
    <2> QED BY <2>2, <2>3, <2>4, <2>5 DEF IInv
  <1> QED BY <1>1, <1>2, PTL DEF Spec

\* A pod is executed only with all its networks, its ports and its namespace set up and
\* saved, and with all its apps registered unless the service was restarted.
THEOREM RunningPodsServed == Spec => []RunningIsServed
  <1>1. IInv => RunningIsServed
    BY DEF IInv, RegistrationSteps, SetupSteps, RunningIsServed
  <1> QED BY <1>1, ServicesInvariance, PTL

\* The rollback of setupNets takes down every network before the one that failed,
\* besides the ones whose plugin failed to delete them.
THEOREM SetupRollsBack == Spec => []RolledBack
  <1>1. IInv => RolledBack
    <2>1. 1..0 = {}
      OBVIOUS
    <2> QED BY <2>1 DEF IInv, RollbackSteps, RolledBack
  <1> QED BY <1>1, ServicesInvariance, PTL

\* gc removes the directory of a pod whose networks were saved only after it has given
\* back every network and the ports, however often it was killed, except where a plugin
\* or iptables failed, a configuration could not be read or the host's namespace not be
\* entered.
THEOREM DeletedPodsReleased == Spec => []ReleasedWhenDeleted
  <1>1. IInv => ReleasedWhenDeleted
    BY DEF IInv
  <1> QED BY <1>1, ServicesInvariance, PTL

\* gc removes the directory of a pod marked as registered only after the metadata
\* service has forgotten it or all tries of the DELETE have failed.
THEOREM DeletedPodsUnregistered == Spec => []UnregisteredWhenDeleted
  <1>1. IInv => UnregisteredWhenDeleted
    BY DEF IInv, UnregisteredFirst, UnregisteredWhenDeleted
  <1> QED BY <1>1, ServicesInvariance, PTL

\* A teardown takes the networks down in reverse order of their setup, also when it
\* goes on with what an earlier one has begun.
THEOREM NetworksTornDownInReverse == Spec => TornDownInReverse
  <1>1. IInv /\ [Next]_vars =>
            [pc = "del" => \A i \in alloc \ alloc', j \in alloc : j > i => j \in lostNets]_vars
    <2> SUFFICES ASSUME IInv, [Next]_vars, pc = "del",
                        NEW i \in alloc \ alloc', NEW j \in alloc, j > i
                 PROVE  j \in lostNets
      OBVIOUS
    <2>1. i = k
      <3>1. CASE DelNet
        BY <3>1 DEF DelNet, PluginDel
      <3>2. CASE UnregisterPod("undo", "exited") \/ UnregisterPod("unregister", "load")
        BY <3>2 DEF UnregisterPod
      <3>3. CASE Kill \/ Reboot \/ ServiceEnds \/ ServiceStarts \/ UNCHANGED vars
        BY <3>3 DEF Kill, Reboot, ServiceEnds, ServiceStarts, vars, netVars
      <3>4. pc = "del"
        OBVIOUS
      <3> QED BY <3>1, <3>2, <3>3, <3>4, Actions DEF PutPod, Mark, PutApp, MountNetNS, AddNet,
             Rollback, RollbackConf, ForwardPorts, Save, PodExit, StartGC, LoadNets, RemoveFiles, RemoveDir,
             UnforwardPorts, DelConf, UnmountNetNS
    <2> QED BY <2>1 DEF IInv, TeardownProgress
  <1> QED BY <1>1, ServicesInvariance, PTL DEF Spec, TornDownInReverse
=============================================================================
