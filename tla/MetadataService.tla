---------------------------- MODULE MetadataService ----------------------------
(***************************************************************************)
(* The metadata service (rkt/metadata_service.go), as far as it concerns one *)
(* pod: the pods it knows are kept in memory, under a mutex, so that each    *)
(* handler is one step.  Pods do not share entries: a pod is known by its    *)
(* UUID, and its token is a random number that names the same entry.         *)
(***************************************************************************)
EXTENDS FiniteSets

CONSTANTS Apps          \* the apps of the pod

VARIABLES
    service,            \* the service listens on its sockets
    socket,             \* the file of its unix socket is in /run/rkt
    registered,         \* the pod is in podStore.byUUID and byToken
    apps,               \* the apps of its mdsPod
    forgot              \* the service lost its memory after the pod registered

mdsVars == <<service, socket, registered, apps, forgot>>

MDSTypeOK ==
    /\ service \in BOOLEAN /\ socket \in BOOLEAN
    /\ registered \in BOOLEAN
    /\ apps \in SUBSET Apps
    /\ forgot \in BOOLEAN

MDSInit == service = TRUE /\ socket = TRUE /\ registered = FALSE /\ apps = {} /\ forgot = FALSE

\* addPod replaces what is known of the pod.
HandleRegisterPod ==
    /\ registered' = TRUE
    /\ apps' = {}
    /\ UNCHANGED <<service, socket, forgot>>

\* addApp; the answer is 404 if the pod is not known.
HandleRegisterApp(a) ==
    /\ apps' = IF registered THEN apps \cup {a} ELSE apps
    /\ UNCHANGED <<service, socket, registered, forgot>>

\* remove; the answer is 404 if the pod is not known.
HandleUnregisterPod ==
    /\ registered' = FALSE
    /\ apps' = {}
    /\ UNCHANGED <<service, socket, forgot>>

\* The service ends, and with it the pods it knows.  Its socket is removed when it
\* returns, on SIGINT or SIGTERM, and stays behind when it is killed.
StopService ==
    /\ service
    /\ service' = FALSE
    /\ socket' \in BOOLEAN
    /\ registered' = FALSE
    /\ apps' = {}
    /\ forgot' = (forgot \/ registered)

\* A service cannot bind where a socket was left behind.  One that systemd activates
\* is given its socket, and starts as after an end that removed it.
StartService ==
    /\ ~service
    /\ ~socket
    /\ service' = TRUE
    /\ socket' = TRUE
    /\ UNCHANGED <<registered, apps, forgot>>
=============================================================================
