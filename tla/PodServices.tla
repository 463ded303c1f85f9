------------------------------ MODULE PodServices ------------------------------
(***************************************************************************)
(* What a pod gets from the host besides its directory, and gives back:      *)
(* its registration with the metadata service (stage0/registration.go), and  *)
(* its networks and forwarded ports (networking/, called by stage1/init and  *)
(* stage1/gc).  `rkt run' registers the pod app by app and executes stage1,  *)
(* which sets the networks up one by one; a later gc unregisters the pod and *)
(* executes stage1's gc, which tears down what the pod's directory says was  *)
(* set up.                                                                   *)
(*                                                                           *)
(* The commands hold the pod's lock (PodLifecycle), so that one of them at a *)
(* time works on the pod: pc is its place.  They may be killed between any   *)
(* two steps, the machine may be rebooted, requests and answers may be lost, *)
(* and plugins and the file system may fail.                                 *)
(***************************************************************************)
EXTENDS Naturals, MetadataService

CONSTANTS
    NumNets,        \* number of networks of the pod
    RetryCount,     \* retryCount of httpRequest
    MaxLosses,      \* bound on lost requests and answers
    MaxFaults,      \* bound on failing operations
    MaxKills        \* bound on kills, reboots and ends of the service

ASSUME PodServicesAssumption ==
    /\ NumNets \in Nat \ {0}
    /\ RetryCount \in Nat \ {0}
    /\ MaxLosses \in Nat /\ MaxFaults \in Nat /\ MaxKills \in Nat

VARIABLES
    pc,             \* where the command is that works on the pod
    tries,          \* i of httpRequest
    sent,           \* apps whose registration was answered
    marked,         \* the file mds-registered is in the pod's directory
    netns,          \* the pod's network namespace is mounted in its directory
    alloc,          \* networks that a plugin has added to the pod
    conf,           \* networks with a configuration in the pod's net/
    chain,          \* the pod's chain or rules are in the nat table
    info,           \* net-info.json: "none", "partial", "saved"
    k,              \* i of setupNets and teardownNets
    nets,           \* the networks of the Networking to tear down
    stage1,         \* stage1's init tears down, not its gc
    failed,         \* the network whose setup failed, or 0
    files,          \* stage1ID and the rest that gc reads are in the directory
    lostNets,       \* networks that a teardown failed to delete or left out
    lostPorts,      \* a teardown failed to remove the rules
    lostPod,        \* unregisterPod failed
    losses, faults, kills

netVars == <<netns, alloc, conf, chain, info, k, nets, stage1, failed, files>>
clientVars == <<tries, sent, marked>>
lostVars == <<lostNets, lostPorts, lostPod>>
bounds == <<losses, faults, kills>>
vars == <<mdsVars, netVars, clientVars, lostVars, bounds, pc>>

-----------------------------------------------------------------------------
Nets == 1..NumNets

RunSteps == {"putPod", "mark", "putApp", "undo", "setup", "add", "rollback", "rollbackConf",
             "forward", "save", "running"}
TeardownSteps == {"unforward", "del", "delConf", "unmount"}
GcSteps == {"unregister", "load", "remove", "removeDir"}

TypeOK ==
    /\ MDSTypeOK
    /\ pc \in {"exited", "gone"} \cup RunSteps \cup TeardownSteps \cup GcSteps
    /\ tries \in 0..RetryCount - 1
    /\ sent \in SUBSET Apps
    /\ marked \in BOOLEAN /\ netns \in BOOLEAN /\ chain \in BOOLEAN /\ stage1 \in BOOLEAN
    /\ alloc \in SUBSET Nets /\ conf \in SUBSET Nets /\ nets \in SUBSET Nets
    /\ info \in {"none", "partial", "saved"}
    /\ k \in 0..NumNets /\ failed \in 0..NumNets /\ files \in BOOLEAN
    /\ lostNets \in SUBSET Nets /\ lostPorts \in BOOLEAN /\ lostPod \in BOOLEAN
    /\ losses \in 0..MaxLosses /\ faults \in 0..MaxFaults /\ kills \in 0..MaxKills

Init ==
    /\ MDSInit
    /\ pc = "putPod"
    /\ tries = 0 /\ sent = {} /\ marked = FALSE
    /\ netns = FALSE /\ alloc = {} /\ conf = {} /\ chain = FALSE /\ info = "none"
    /\ k = 0 /\ nets = {} /\ stage1 = FALSE /\ failed = 0 /\ files = TRUE
    /\ lostNets = {} /\ lostPorts = FALSE /\ lostPod = FALSE
    /\ losses = 0 /\ faults = 0 /\ kills = 0

Fault == faults < MaxFaults /\ faults' = faults + 1 /\ UNCHANGED <<losses, kills>>
Works == UNCHANGED bounds

-----------------------------------------------------------------------------
(* httpRequest. *)

\* The request is answered, and httpRequest returns: the client goes on at l.
Answered(l) ==
    /\ service
    /\ pc' = l
    /\ tries' = 0
    /\ UNCHANGED bounds

\* The service cannot be reached, or the request or its answer is lost, before
\* or after the handler has run: another try, or the client goes on at l.
NotAnswered(l, Handler) ==
    /\ \/ ~service /\ UNCHANGED bounds /\ UNCHANGED mdsVars
       \/ /\ service
          /\ losses < MaxLosses /\ losses' = losses + 1 /\ UNCHANGED <<faults, kills>>
          /\ Handler \/ UNCHANGED mdsVars
    /\ IF tries + 1 < RetryCount
       THEN tries' = tries + 1 /\ UNCHANGED pc
       ELSE tries' = 0 /\ pc' = l

\* The body of a PUT is an open file, which the first try has read and closed: a
\* second try sends no manifest and is answered by 400, and the handler does nothing.
FirstTry == tries = 0

\* registerPod's PUT of the pod.  An error is returned before the deferred
\* unregisterPod: the run ends.
PutPod ==
    /\ pc = "putPod"
    /\ \/ Answered("mark") /\ FirstTry /\ HandleRegisterPod
       \/ Answered("exited") /\ ~FirstTry /\ UNCHANGED mdsVars
       \/ NotAnswered("exited", FirstTry /\ HandleRegisterPod)
    /\ UNCHANGED <<netVars, sent, marked, lostVars>>

\* registerPod creates mds-registered; if it cannot, unregisterPod finds no such
\* file and sends no DELETE.
Mark ==
    /\ pc = "mark"
    /\ \/ Works /\ marked' = TRUE /\ pc' = IF Apps = {} THEN "setup" ELSE "putApp"
       \/ Fault /\ pc' = "exited" /\ UNCHANGED marked
    /\ UNCHANGED <<mdsVars, netVars, tries, sent, lostVars>>

\* registerApp of the next app; an error leads to the deferred unregisterPod.
PutApp(a) ==
    /\ pc = "putApp"
    /\ a \notin sent
    /\ \/ /\ FirstTry /\ registered
          /\ sent' = sent \cup {a}
          /\ HandleRegisterApp(a)
          /\ Answered(IF sent' = Apps THEN "setup" ELSE "putApp")
       \/ /\ ~(FirstTry /\ registered)
          /\ Answered("undo")
          /\ UNCHANGED <<mdsVars, sent>>
       \/ /\ NotAnswered("undo", FirstTry /\ HandleRegisterApp(a))
          /\ UNCHANGED sent
    /\ UNCHANGED <<netVars, marked, lostVars>>

\* Mutant: a pod whose registration failed is left registered.
UnregisterNothing(from, to) ==
    /\ pc = from
    /\ pc' = to
    /\ UNCHANGED <<mdsVars, netVars, bounds, tries, sent, marked, lostVars>>

\* unregisterPod, of a registration that failed or of gc: its error is ignored,
\* and a 404 to a DELETE that was lost after it was handled is such an error.
UnregisterPod(from, to) ==
    /\ pc = from
    /\ \/ ~marked /\ Works /\ pc' = to /\ UNCHANGED <<mdsVars, tries, lostPod>>
       \/ marked /\ Answered(to) /\ HandleUnregisterPod /\ UNCHANGED lostPod
       \/ /\ marked
          /\ NotAnswered(to, HandleUnregisterPod)
          /\ lostPod' = (lostPod \/ pc' = to)
    /\ UNCHANGED <<netVars, sent, marked, lostNets, lostPorts>>

-----------------------------------------------------------------------------
(* networking.Setup and Save, in stage1's init. *)

\* A new network namespace is mounted and the configurations are loaded; if the
\* latter fails it is unmounted again, and an error of that is only logged.
MountNetNS ==
    /\ pc = "setup"
    /\ \/ Works /\ netns' = TRUE /\ k' = 1 /\ pc' = "add"
       \/ Fault /\ netns' \in BOOLEAN /\ pc' = "exited" /\ UNCHANGED k
    /\ UNCHANGED <<mdsVars, clientVars, alloc, conf, chain, info, nets, stage1, failed, files, lostVars>>

\* Mutant: the rollback leaves out the network before the one that failed.
AddNetSkipsOne ==
    /\ pc = "add"
    /\ \/ /\ Works
          /\ conf' = conf \cup {k}
          /\ alloc' = alloc \cup {k}
          /\ IF k = NumNets THEN pc' = "forward" /\ UNCHANGED k ELSE k' = k + 1 /\ UNCHANGED pc
          /\ UNCHANGED failed
       \/ /\ Fault
          /\ conf' = conf \cup {k}
          /\ alloc' = alloc \cup {k}
          /\ failed' = k
          /\ k' = IF k >= 2 THEN k - 2 ELSE 0
          /\ pc' = "rollback"
    /\ UNCHANGED <<mdsVars, clientVars, netns, chain, info, nets, stage1, files, lostVars>>

\* setupNets, network k: its configuration is copied and its plugin adds it.  A
\* plugin that fails, or whose answer is not understood, may have added it.
AddNet ==
    /\ pc = "add"
    /\ \/ /\ Works
          /\ conf' = conf \cup {k}
          /\ alloc' = alloc \cup {k}
          /\ IF k = NumNets THEN pc' = "forward" /\ UNCHANGED k ELSE k' = k + 1 /\ UNCHANGED pc
          /\ UNCHANGED failed
       \/ /\ Fault
          /\ conf' \in {conf, conf \cup {k}}
          /\ alloc' \in {alloc} \cup {alloc \cup {n} : n \in {k} \cap conf'}
          /\ failed' = k
          /\ k' = k - 1
          /\ pc' = "rollback"
    /\ UNCHANGED <<mdsVars, clientVars, netns, chain, info, nets, stage1, files, lostVars>>

\* netPluginDel of network n; its error is only logged.
PluginDel(n) ==
    \/ Works /\ alloc' = alloc \ {n} /\ UNCHANGED lostNets
    \/ Fault /\ lostNets' = lostNets \cup {n} /\ UNCHANGED alloc

\* The deferred teardownNets of setupNets, of the networks before the one that
\* failed; then Setup unmounts the namespace, an error of which is only logged, and
\* init ends.
Rollback ==
    /\ pc = "rollback"
    /\ \/ /\ k = 0
          /\ (Works /\ netns' = FALSE) \/ (Fault /\ UNCHANGED netns)
          /\ pc' = "exited"
          /\ UNCHANGED <<alloc, lostNets>>
       \/ /\ k # 0
          /\ PluginDel(k)
          /\ pc' = "rollbackConf"
          /\ UNCHANGED netns
    /\ UNCHANGED <<mdsVars, clientVars, conf, chain, info, k, nets, stage1, failed, files, lostPorts, lostPod>>

RollbackConf ==
    /\ pc = "rollbackConf"
    /\ \/ Works /\ conf' = conf \ {k}
       \/ Fault /\ UNCHANGED conf
    /\ k' = k - 1
    /\ pc' = "rollback"
    /\ UNCHANGED <<mdsVars, clientVars, netns, alloc, chain, info, nets, stage1, failed, files, lostVars>>

\* forwardPorts; if it fails, half done, Setup only unmounts the namespace.
ForwardPorts ==
    /\ pc = "forward"
    /\ \/ Works /\ chain' = TRUE /\ pc' = "save" /\ UNCHANGED netns
       \/ Fault /\ chain' \in BOOLEAN /\ netns' \in BOOLEAN /\ pc' = "exited"
    /\ UNCHANGED <<mdsVars, clientVars, alloc, conf, info, k, nets, stage1, failed, files, lostVars>>

\* Mutant: the pod is executed before its networks are saved.
SaveLater ==
    /\ pc = "save"
    /\ pc' = "running"
    /\ UNCHANGED <<mdsVars, netVars, clientVars, bounds, lostVars>>

\* Save writes net-info.json, and the pod is executed; if it fails, which may leave
\* a part of the file, init tears the networks down.
Save ==
    /\ pc = "save"
    /\ \/ Works /\ info' = "saved" /\ pc' = "running" /\ UNCHANGED <<nets, stage1>>
       \/ /\ Fault
          /\ info' \in {"none", "partial"}
          /\ nets' = Nets /\ stage1' = TRUE
          /\ pc' = "unforward"
    /\ UNCHANGED <<mdsVars, clientVars, netns, alloc, conf, chain, k, failed, files, lostVars>>

\* The pod ends, or the rest of stage1's init fails.
PodExit ==
    /\ pc = "running"
    /\ pc' = "exited"
    /\ UNCHANGED <<mdsVars, netVars, clientVars, bounds, lostVars>>

-----------------------------------------------------------------------------
(* gc, and Networking.Teardown. *)

\* deletePod of a pod that is not in use, up to stage0.GC.  It returns at once when
\* stage1ID is not there; the flavor and the manifest of stage1, without which the gc
\* ends later and to no more effect, are counted with it.
StartGC ==
    /\ pc = "exited"
    /\ files
    /\ pc' = "unregister"
    /\ UNCHANGED <<mdsVars, netVars, clientVars, bounds, lostVars>>

\* Mutant: the configuration goes before the plugin is executed.
LoadDropsConf ==
    /\ pc = "load"
    /\ info # "partial"
    /\ nets' = conf
    /\ conf' = {}
    /\ stage1' = FALSE
    /\ pc' = IF info = "none" THEN "remove" ELSE "unforward"
    /\ UNCHANGED <<mdsVars, clientVars, bounds, netns, alloc, chain, info, k, failed, files, lostVars>>

\* Mutant: a pod without net-info.json is an error.
LoadNeedsInfo ==
    /\ pc = "load"
    /\ nets' = conf
    /\ stage1' = FALSE
    /\ pc' = IF info = "saved" THEN "unforward" ELSE "exited"
    /\ UNCHANGED <<mdsVars, clientVars, bounds, netns, alloc, conf, chain, info, k, failed, files, lostVars>>

\* gcNetworking: networking.Load takes the networks in net-info.json that still have
\* a configuration, and leaves out one whose configuration cannot be read.  Without the
\* file there is nothing to do; one that cannot be read, or another error of stage1's
\* gc, ends the gc of this pod.
LoadNets ==
    /\ pc = "load"
    /\ \/ Works /\ info = "none" /\ pc' = "remove" /\ UNCHANGED <<nets, stage1, lostNets>>
       \/ /\ info = "saved"
          /\ \/ Works /\ nets' = conf /\ UNCHANGED lostNets
             \/ \E n \in conf : Fault /\ nets' = conf \ {n} /\ lostNets' = lostNets \cup {n}
          /\ stage1' = FALSE
          /\ pc' = "unforward"
       \/ Works /\ info = "partial" /\ pc' = "exited" /\ UNCHANGED <<nets, stage1, lostNets>>
       \/ Fault /\ pc' = "exited" /\ UNCHANGED <<nets, stage1, lostNets>>
    /\ UNCHANGED <<mdsVars, clientVars, netns, alloc, conf, chain, info, k, failed, files, lostPorts, lostPod>>

\* Where a teardown ends: init ends with an error, gc goes on to remove the pod.
AfterTeardown == IF stage1 THEN "exited" ELSE "remove"

\* Teardown: if it cannot enter the host's namespace it returns and nothing is given
\* back, which its callers do not notice; unforwardPorts swallows its errors.
UnforwardPorts ==
    /\ pc = "unforward"
    /\ \/ Works /\ chain' = FALSE /\ k' = NumNets /\ pc' = "del" /\ UNCHANGED <<lostNets, lostPorts>>
       \/ /\ Fault /\ lostPorts' = TRUE /\ k' = NumNets /\ pc' = "del"
          /\ UNCHANGED <<chain, lostNets>>
       \/ /\ Fault /\ lostPorts' = TRUE /\ lostNets' = lostNets \cup nets /\ pc' = AfterTeardown
          /\ UNCHANGED <<chain, k>>
    /\ UNCHANGED <<mdsVars, clientVars, netns, alloc, conf, info, nets, stage1, failed, files, lostPod>>

\* Mutant: the networks are torn down in the order of their setup.
DelNetUp ==
    /\ pc = "del"
    /\ \/ /\ k = 0 /\ Works
          /\ pc' = "unmount"
          /\ UNCHANGED <<alloc, k, lostNets>>
       \/ /\ k > 0 /\ Works
          /\ alloc' = alloc \ ({NumNets + 1 - k} \cap nets)
          /\ k' = k - 1
          /\ UNCHANGED <<pc, lostNets>>
    /\ UNCHANGED <<mdsVars, clientVars, netns, conf, chain, info, nets, stage1, failed, files, lostPorts, lostPod>>

\* teardownNets, from the last network to the first.
DelNet ==
    /\ pc = "del"
    /\ \/ /\ k = 0 /\ Works
          /\ pc' = "unmount"
          /\ UNCHANGED <<alloc, k, lostNets>>
       \/ /\ k > 0 /\ k \notin nets /\ Works
          /\ k' = k - 1
          /\ UNCHANGED <<pc, alloc, lostNets>>
       \/ /\ k \in nets /\ PluginDel(k)
          /\ pc' = "delConf"
          /\ UNCHANGED k
    /\ UNCHANGED <<mdsVars, clientVars, netns, conf, chain, info, nets, stage1, failed, files, lostPorts, lostPod>>

\* The configuration of a network is removed whether or not its plugin failed.
DelConf ==
    /\ pc = "delConf"
    /\ \/ Works /\ conf' = conf \ {k}
       \/ Fault /\ UNCHANGED conf
    /\ k' = k - 1
    /\ pc' = "del"
    /\ UNCHANGED <<mdsVars, clientVars, netns, alloc, chain, info, nets, stage1, failed, files, lostVars>>

\* The end of Teardown; an error of the unmount is only logged.
UnmountNetNS ==
    /\ pc = "unmount"
    /\ (Works /\ netns' = FALSE) \/ (Fault /\ UNCHANGED netns)
    /\ pc' = AfterTeardown
    /\ UNCHANGED <<mdsVars, clientVars, alloc, conf, chain, info, k, nets, stage1, failed, files, lostVars>>

\* The rest of deletePod: os.RemoveAll begins and takes away any part of what the
\* directory says of services and of what gc needs, or it is not reached because the
\* apps cannot be listed or stage1 not be unmounted.
RemoveFiles ==
    /\ pc = "remove"
    /\ \/ /\ Works
          /\ marked' \in {marked, FALSE}
          /\ conf' \in SUBSET conf
          /\ info' \in {info, "none"}
          /\ files' \in BOOLEAN
          /\ pc' = "removeDir"
       \/ Fault /\ pc' = "exited" /\ UNCHANGED <<marked, conf, info, files>>
    /\ UNCHANGED <<mdsVars, tries, sent, netns, alloc, chain, k, nets, stage1, failed, lostVars>>

\* os.RemoveAll takes away the rest, and the directory unless the namespace is still
\* mounted in it; with an error any part may stay.
RemoveDir ==
    /\ pc = "removeDir"
    /\ \/ /\ Works
          /\ marked' = FALSE /\ conf' = {} /\ info' = "none" /\ files' = FALSE
          /\ pc' = IF netns THEN "exited" ELSE "gone"
       \/ Fault /\ pc' = "exited" /\ UNCHANGED <<marked, conf, info, files>>
    /\ UNCHANGED <<mdsVars, tries, sent, netns, alloc, chain, k, nets, stage1, failed, lostVars>>

-----------------------------------------------------------------------------
(* Faults. *)

Crash == /\ kills < MaxKills
         /\ kills' = kills + 1
         /\ UNCHANGED <<losses, faults>>

\* The command or the pod is killed; in Save it may have written a part of the file.
Kill ==
    /\ pc \notin {"exited", "gone"}
    /\ Crash
    /\ info' \in IF pc = "save" THEN {"none", "partial"} ELSE {info}
    /\ pc' = "exited"
    /\ tries' = 0
    /\ UNCHANGED <<mdsVars, sent, marked, netns, alloc, conf, chain, k, nets, stage1, failed, files, lostVars>>

\* Mounts, the nat table, the service and its socket go with a reboot; the addresses
\* that plugins have allocated are in files.
Reboot ==
    /\ Crash
    /\ pc' = IF pc = "gone" THEN "gone" ELSE "exited"
    /\ tries' = 0
    /\ netns' = FALSE /\ chain' = FALSE
    /\ service' = FALSE /\ socket' = FALSE
    /\ registered' = FALSE /\ apps' = {} /\ forgot' = (forgot \/ registered)
    /\ UNCHANGED <<sent, marked, alloc, conf, info, k, nets, stage1, failed, files, lostVars>>

ServiceEnds == StopService /\ Crash /\ UNCHANGED <<netVars, clientVars, pc, lostVars>>
ServiceStarts == StartService /\ UNCHANGED <<netVars, clientVars, bounds, pc, lostVars>>

Run == \/ PutPod \/ Mark \/ (\E a \in Apps : PutApp(a)) \/ UnregisterPod("undo", "exited")
       \/ MountNetNS \/ AddNet \/ Rollback \/ RollbackConf \/ ForwardPorts \/ Save

GC == \/ UnregisterPod("unregister", "load") \/ LoadNets \/ RemoveFiles \/ RemoveDir

Teardown == UnforwardPorts \/ DelNet \/ DelConf \/ UnmountNetNS

Next == \/ Run \/ PodExit \/ StartGC \/ GC \/ Teardown
        \/ Kill \/ Reboot \/ ServiceEnds \/ ServiceStarts

Spec == Init /\ [][Next]_vars

\* Commands make progress, and gc is run again and again.
FairSpec == Spec /\ WF_vars(Run \/ StartGC \/ GC \/ Teardown)
-----------------------------------------------------------------------------
(* Properties. *)

\* A pod that runs has all its networks, its ports and its namespace, gc will find
\* them in net-info.json, and the metadata service answers for all its apps, unless
\* it was restarted since.
RunningIsServed ==
    pc = "running" => /\ alloc = Nets /\ chain /\ netns /\ info = "saved"
                      /\ forgot \/ (registered /\ apps = Apps)

\* When a network fails to be set up, all the networks before it have been taken down
\* again at the end of the rollback, except ones whose plugin fails; the one that failed
\* may be left, the rollback does not call its plugin (podenv.go:107).
RolledBack ==
    pc = "rollback" /\ k = 0 => alloc \subseteq lostNets \cup {failed}

\* Before gc removes the directory of a pod whose networks were saved, it has given
\* back every network and the ports, however often a gc was killed between a plugin and
\* the removal of a configuration.  The exceptions are the errors that the code logs and
\* goes on from: a plugin or iptables fails, a configuration cannot be read, or the
\* host's namespace cannot be entered.
ReleasedWhenDeleted ==
    pc = "remove" /\ info = "saved" => alloc \subseteq lostNets /\ (chain => lostPorts)

\* Before gc removes the directory of a pod that is marked as registered, the metadata
\* service has forgotten the pod, unless all tries of the DELETE failed.
UnregisteredWhenDeleted == pc = "remove" /\ marked /\ registered => lostPod

\* "Teardown everything in reverse order of setup" (networking.go:180), also when a
\* later gc goes on with what an earlier one has begun; a later network is still there
\* only if a teardown failed on it or left it out.
TornDownInReverse ==
    [][pc = "del" => \A i \in alloc \ alloc', j \in alloc : j > i => j \in lostNets]_vars

\* A pod that has ended is removed in the end, unless net-info.json was cut short, which
\* stage1's gc refuses for ever, or an os.RemoveAll that was killed or failed has left
\* the directory without stage1ID, where deletePod returns for ever (gc.go:193).
DeletedInTheEnd == pc = "exited" ~> (pc = "gone" \/ info = "partial" \/ ~files)

-----------------------------------------------------------------------------
(* The inductive invariant. *)

\* What a registration has reached.
RegistrationSteps ==
    /\ pc = "putApp" /\ ~forgot => registered /\ sent \subseteq apps
    /\ pc \in {"setup", "add", "forward", "save", "running"} /\ ~forgot => registered /\ apps = Apps
    /\ pc = "mark" /\ ~forgot => registered

\* What a setup has reached.
SetupSteps ==
    /\ pc \in {"putPod", "mark"} => sent = {}
    /\ pc \in {"putPod", "mark", "putApp", "setup"} => alloc = {}
    /\ pc = "add" => k \in Nets /\ alloc = 1..k - 1
    /\ pc \in {"add", "forward", "save"} => alloc \subseteq conf
    /\ pc \in {"forward", "save", "running"} => alloc = Nets
    /\ pc \in {"add", "forward", "save", "running"} => netns
    /\ pc \in {"save", "running"} => chain
    /\ pc = "running" => info = "saved"
    /\ pc \in RunSteps \ {"running"} => info = "none"

\* What a rollback has reached.
RollbackSteps ==
    /\ pc = "rollback" => alloc \subseteq lostNets \cup {failed} \cup (1..k)
    /\ pc = "rollbackConf" =>
          k \in Nets /\ alloc \subseteq lostNets \cup {failed} \cup (1..k - 1)

\* Saved networks keep their configuration until they are given back; a teardown
\* goes down from the last.
TeardownProgress ==
    /\ info = "saved" => alloc \subseteq conf \cup lostNets
    /\ pc \in TeardownSteps => alloc \subseteq nets \cup lostNets
    /\ pc \in TeardownSteps /\ ~stage1 => info = "saved"
    /\ pc \in {"del", "delConf"} => \A i \in alloc : i > k => i \in lostNets
    /\ pc = "delConf" => k \in Nets /\ (k \in alloc => k \in lostNets)
    /\ pc = "unmount" => alloc \subseteq lostNets
    /\ pc \in {"del", "delConf", "unmount"} => (chain => lostPorts)
    /\ pc = "removeDir" /\ info = "saved" => alloc \subseteq lostNets

\* gc has unregistered the pod before it looks at its networks.
UnregisteredFirst ==
    pc \in {"load", "remove", "removeDir"} \/ (pc \in TeardownSteps /\ ~stage1) =>
        (marked /\ registered => lostPod)

IInv == /\ TypeOK /\ RegistrationSteps /\ SetupSteps /\ RollbackSteps /\ TeardownProgress
        /\ UnregisteredFirst /\ ReleasedWhenDeleted
=============================================================================
