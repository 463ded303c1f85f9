------------------------------ MODULE ImageStore ------------------------------
(***************************************************************************)
(* The image store and the tree store (store/store.go, store/tree.go) and    *)
(* the commands that change them: rkt fetch, image rm, image render (which   *)
(* prepare does for each of its images too) and readers of an image.  An     *)
(* image is a blob and a manifest on disk and a record in the database; only *)
(* the database is transactional.  A rendered image is a directory tree with *)
(* a flag file in it.  Each key has two locks, one for the image and one for *)
(* its tree; they are key locks (see KeyLock) and used here as the           *)
(* readers/writer locks that those implement.                                *)
(*                                                                           *)
(* A database transaction runs under an exclusive lock of the database that  *)
(* no process keeps: it is one step.  Two errors go unnoticed: the one of a  *)
(* commit (db.go) and the one of removing the flag (tree.go).  Images have   *)
(* no dependencies here.                                                     *)
(***************************************************************************)
EXTENDS Naturals, FiniteSets

CONSTANTS
    Keys,        \* image keys
    Urls,        \* URLs images are fetched from
    Procs,       \* rkt processes
    MaxFaults,   \* bound on errors that go unnoticed
    NoKey,
    NoUrl,       \* an image fetched from a file has no remote
    NoProc

ASSUME StoreAssumption ==
    NoKey \notin Keys /\ NoUrl \notin Urls /\ NoProc \notin Procs /\ MaxFaults \in Nat

VARIABLES
    blob,        \* blob[k]: the blob is in the blob store
    manifest,    \* manifest[k]: "none", "partial" or "full"
    info,        \* keys with a row in the table aciinfo
    remote,      \* remote[u]: the blob key of u's row in the table remote
    stale,       \* keys whose row outlived a removal, its commit being lost
    tree,        \* tree[k]: "none", "partial", or "full" with its hash file
    flag,        \* flag[k]: the "rendered" file exists
    stuck,       \* keys whose flag could not be removed before the rest of the tree
    ex,          \* ex[l][k]: the exclusive holder of lock l of k
    sh,          \* sh[l][k]: the shared holders
    pc,          \* pc[p]: where process p is
    cmd,         \* cmd[p]: what it does
    key,         \* key[p]: the image it works on
    url,         \* url[p]: where fetch gets it from
    part,        \* part[p]: which part of the image is read next
    rebuild,     \* rebuild[p]: the argument of RenderTreeStore
    faults       \* how many errors went unnoticed

storeVars == <<blob, manifest, info, remote, stale>>
treeVars  == <<tree, flag, stuck>>
lockVars  == <<ex, sh>>
procVars  == <<pc, cmd, key, url, part, rebuild>>
vars      == <<storeVars, treeVars, lockVars, procVars, faults>>

LockNames == {"image", "tree"}

Control == {"idle", "fetch", "revalidate", "download", "import", "truncate", "writeManifest",
            "record", "unlockFetched", "writeRemote", "rmLock", "forget", "eraseBlob",
            "eraseManifest", "unlockErased", "rmTreeLock", "renderLock", "isRendered", "unflag",
            "removeTree", "removeTreeDir", "treeRemoved", "mkdir", "resolve", "share", "read",
            "extract", "setFlag", "unlockTree", "checkLock", "check"}

TypeOK ==
    /\ blob \in [Keys -> BOOLEAN]
    /\ manifest \in [Keys -> {"none", "partial", "full"}]
    /\ info \subseteq Keys /\ stale \subseteq Keys /\ stuck \subseteq Keys
    /\ remote \in [Urls -> Keys \cup {NoKey}]
    /\ tree \in [Keys -> {"none", "partial", "full"}]
    /\ flag \in [Keys -> BOOLEAN]
    /\ ex \in [LockNames -> [Keys -> Procs \cup {NoProc}]]
    /\ sh \in [LockNames -> [Keys -> SUBSET Procs]]
    /\ pc \in [Procs -> Control]
    /\ cmd \in [Procs -> {"none", "fetch", "rm", "render", "read"}]
    /\ key \in [Procs -> Keys \cup {NoKey}]
    /\ url \in [Procs -> Urls \cup {NoUrl}]
    /\ part \in [Procs -> {"manifest", "blob"}]
    /\ rebuild \in [Procs -> BOOLEAN]

Init ==
    /\ blob = [k \in Keys |-> FALSE]
    /\ manifest = [k \in Keys |-> "none"]
    /\ info = {} /\ stale = {} /\ stuck = {}
    /\ remote = [u \in Urls |-> NoKey]
    /\ tree = [k \in Keys |-> "none"]
    /\ flag = [k \in Keys |-> FALSE]
    /\ ex = [l \in LockNames |-> [k \in Keys |-> NoProc]]
    /\ sh = [l \in LockNames |-> [k \in Keys |-> {}]]
    /\ pc = [p \in Procs |-> "idle"]
    /\ cmd = [p \in Procs |-> "none"]
    /\ key = [p \in Procs |-> NoKey]
    /\ url = [p \in Procs |-> NoUrl]
    /\ part = [p \in Procs |-> "manifest"]
    /\ rebuild = [p \in Procs |-> FALSE]
    /\ faults = 0

-----------------------------------------------------------------------------
(* Locks and the end of a process.                                           *)

Goto(p, l) == pc' = [pc EXCEPT ![p] = l]

\* ExclusiveKeyLock(l, key[p]) returns.
LockExclusive(p, l) ==
    /\ ex[l][key[p]] = NoProc
    /\ sh[l][key[p]] = {}
    /\ ex' = [ex EXCEPT ![l][key[p]] = p]
    /\ UNCHANGED sh

\* SharedKeyLock(l, key[p]) returns.
LockShared(p, l) ==
    /\ ex[l][key[p]] = NoProc
    /\ sh' = [sh EXCEPT ![l][key[p]] = @ \cup {p}]
    /\ UNCHANGED ex

\* keyLock.Close() of p's lock l.
Release(p, l) ==
    /\ ex' = [ex EXCEPT ![l] = [k \in Keys |-> IF ex[l][k] = p THEN NoProc ELSE ex[l][k]]]
    /\ sh' = [sh EXCEPT ![l] = [k \in Keys |-> sh[l][k] \ {p}]]

\* The command ends; its locks are closed, by the deferred calls or by the kernel.
Quit(p) ==
    /\ ex' = [l \in LockNames |-> [k \in Keys |-> IF ex[l][k] = p THEN NoProc ELSE ex[l][k]]]
    /\ sh' = [l \in LockNames |-> [k \in Keys |-> sh[l][k] \ {p}]]
    /\ Goto(p, "idle")
    /\ cmd' = [cmd EXCEPT ![p] = "none"]
    /\ key' = [key EXCEPT ![p] = NoKey]
    /\ url' = [url EXCEPT ![p] = NoUrl]
    /\ part' = [part EXCEPT ![p] = "manifest"]
    /\ rebuild' = [rebuild EXCEPT ![p] = FALSE]

\* A step from control point a to b that changes no other variable of a process.
At(p, a, b) == pc[p] = a /\ Goto(p, b) /\ UNCHANGED <<cmd, key, url, part, rebuild>>

\* The process is killed, or an I/O error makes the command return, at any point.
Stop(p) ==
    /\ pc[p] # "idle"
    /\ Quit(p)
    /\ UNCHANGED <<storeVars, treeVars>>

-----------------------------------------------------------------------------
(* rkt fetch: fetchImageFrom, WriteACI, WriteRemote.                         *)

\* The user asks for the image at u, which will turn out to be k.
StartFetch(p, k, u) ==
    /\ pc[p] = "idle"
    /\ Goto(p, "fetch")
    /\ cmd' = [cmd EXCEPT ![p] = "fetch"]
    /\ key' = [key EXCEPT ![p] = k]
    /\ url' = [url EXCEPT ![p] = u]
    /\ UNCHANGED <<storeVars, treeVars, lockVars, part, rebuild>>

\* fetchImageFrom looks for the remote, unless the image is a file or the latest one is asked
\* for.  A fresh remote, or --local with any or none, ends the fetch; an older one gives an etag.
GetRemote(p) ==
    /\ pc[p] = "fetch"
    /\ \/ url[p] # NoUrl /\ Quit(p)
       \/ /\ url[p] # NoUrl
          /\ remote[url[p]] # NoKey
          /\ At(p, "fetch", "revalidate")
          /\ UNCHANGED lockVars
       \/ At(p, "fetch", "download") /\ UNCHANGED lockVars
    /\ UNCHANGED <<storeVars, treeVars>>

\* The server answers "not modified": the key of the remote, as it was, is the result.
NotModified(p) ==
    /\ pc[p] = "revalidate"
    /\ Quit(p)
    /\ UNCHANGED <<storeVars, treeVars>>

\* The image is downloaded to a temporary file; WriteACI hashes it and locks its key.
LockFetched(p) ==
    /\ pc[p] \in {"download", "revalidate"}
    /\ At(p, pc[p], "import")
    /\ LockExclusive(p, "image")
    /\ UNCHANGED <<storeVars, treeVars>>

\* Import renames the temporary file into the blob store.
Import(p) ==
    /\ At(p, "import", "truncate")
    /\ blob' = [blob EXCEPT ![key[p]] = TRUE]
    /\ stale' = stale \ {key[p]}
    /\ UNCHANGED <<manifest, info, remote, treeVars, lockVars>>

\* The manifest's file is created, or truncated if it exists.
TruncateManifest(p) ==
    /\ At(p, "truncate", "writeManifest")
    /\ manifest' = [manifest EXCEPT ![key[p]] = "partial"]
    /\ UNCHANGED <<blob, info, remote, stale, treeVars, lockVars>>

\* The manifest is written.
WriteManifest(p) ==
    /\ At(p, "writeManifest", "record")
    /\ manifest' = [manifest EXCEPT ![key[p]] = "full"]
    /\ UNCHANGED <<blob, info, remote, stale, treeVars, lockVars>>

\* WriteACIInfo.
Record(p) ==
    /\ At(p, "record", "unlockFetched")
    /\ info' = info \cup {key[p]}
    /\ UNCHANGED <<blob, manifest, remote, stale, treeVars, lockVars>>

\* WriteACI returns; an image from a file has no remote.
UnlockFetched(p) ==
    /\ pc[p] = "unlockFetched"
    /\ \/ /\ url[p] = NoUrl
          /\ Quit(p)
       \/ /\ url[p] # NoUrl
          /\ At(p, "unlockFetched", "writeRemote")
          /\ Release(p, "image")
    /\ UNCHANGED <<storeVars, treeVars>>

\* WriteRemote: the row of the URL is replaced, without a lock on the image.
WriteRemote(p) ==
    /\ pc[p] = "writeRemote"
    /\ remote' = [remote EXCEPT ![url[p]] = key[p]]
    /\ Quit(p)
    /\ UNCHANGED <<blob, manifest, info, stale, treeVars>>

-----------------------------------------------------------------------------
(* rkt image rm: ResolveKey, RemoveACI, RemoveTreeStore.                     *)

\* runRmImage resolves the key.
StartRm(p, k) ==
    /\ pc[p] = "idle"
    /\ k \in info
    /\ Goto(p, "rmLock")
    /\ cmd' = [cmd EXCEPT ![p] = "rm"]
    /\ key' = [key EXCEPT ![p] = k]
    /\ UNCHANGED <<storeVars, treeVars, lockVars, url, part, rebuild>>

\* Mutant: RemoveACI does not lock the image.
LockRemovedForgotten(p) ==
    /\ At(p, "rmLock", "forget")
    /\ UNCHANGED <<storeVars, treeVars, lockVars>>

\* RemoveACI locks the image.
LockRemoved(p) ==
    /\ At(p, "rmLock", "forget")
    /\ LockExclusive(p, "image")
    /\ UNCHANGED <<storeVars, treeVars>>

\* Mutant: the files are erased before the transaction.
ForgetLate(p) ==
    /\ At(p, "forget", "eraseBlob")
    /\ blob' = [blob EXCEPT ![key[p]] = FALSE]
    /\ UNCHANGED <<manifest, info, remote, stale, treeVars, lockVars>>

\* One transaction removes the image's record and the remotes that refer to it; a missing
\* record is an error that ends the removal.
Forget(p) ==
    /\ pc[p] = "forget"
    /\ \/ /\ key[p] \in info
          /\ At(p, "forget", "eraseBlob")
          /\ info' = info \ {key[p]}
          /\ remote' = [u \in Urls |-> IF remote[u] = key[p] THEN NoKey ELSE remote[u]]
          /\ stale' = stale \ {key[p]}
          /\ UNCHANGED lockVars
       \/ /\ key[p] \notin info
          /\ Quit(p)
          /\ UNCHANGED <<info, remote, stale>>
    /\ UNCHANGED <<blob, manifest, treeVars>>

\* Erase from the blob store; an error is noted and the removal goes on.
EraseBlob(p) ==
    /\ At(p, "eraseBlob", "eraseManifest")
    /\ blob' \in {blob, [blob EXCEPT ![key[p]] = FALSE]}
    /\ UNCHANGED <<manifest, info, remote, stale, treeVars, lockVars>>

\* Erase from the manifest store, likewise.
EraseManifest(p) ==
    /\ At(p, "eraseManifest", "unlockErased")
    /\ manifest' \in {manifest, [manifest EXCEPT ![key[p]] = "none"]}
    /\ UNCHANGED <<blob, info, remote, stale, treeVars, lockVars>>

\* Mutant: the image stays locked while its tree is removed.
KeepErased(p) ==
    /\ At(p, "unlockErased", "rmTreeLock")
    /\ UNCHANGED <<storeVars, treeVars, lockVars>>

\* RemoveACI returns, RemoveTreeStore follows.
UnlockErased(p) ==
    /\ At(p, "unlockErased", "rmTreeLock")
    /\ Release(p, "image")
    /\ UNCHANGED <<storeVars, treeVars>>

\* RemoveTreeStore locks the tree.
LockRemovedTree(p) ==
    /\ At(p, "rmTreeLock", "unflag")
    /\ LockExclusive(p, "tree")
    /\ UNCHANGED <<storeVars, treeVars>>

-----------------------------------------------------------------------------
(* RenderTreeStore, CheckTreeStore and TreeStore.Remove.                     *)

\* An image that was found in the store is to be rendered.
StartRender(p, k) ==
    /\ pc[p] = "idle"
    /\ k \in info
    /\ Goto(p, "renderLock")
    /\ cmd' = [cmd EXCEPT ![p] = "render"]
    /\ key' = [key EXCEPT ![p] = k]
    /\ UNCHANGED <<storeVars, treeVars, lockVars, url, part, rebuild>>

\* RenderTreeStore locks the tree.
LockTree(p) ==
    /\ At(p, "renderLock", "isRendered")
    /\ LockExclusive(p, "tree")
    /\ UNCHANGED <<storeVars, treeVars>>

\* A tree with its flag is taken as it is, unless it has to be rebuilt.
IsRendered(p) ==
    /\ pc[p] = "isRendered"
    /\ \/ ~rebuild[p] /\ flag[key[p]] /\ At(p, "isRendered", "unlockTree")
       \/ (rebuild[p] \/ ~flag[key[p]]) /\ At(p, "isRendered", "unflag")
    /\ UNCHANGED <<storeVars, treeVars, lockVars>>

\* Mutant: the flag goes with the other files.
UnflagLate(p) ==
    /\ pc[p] = "unflag"
    /\ \/ tree[key[p]] = "none" /\ At(p, "unflag", "treeRemoved")
       \/ tree[key[p]] # "none" /\ At(p, "unflag", "removeTree")
    /\ UNCHANGED <<storeVars, treeVars, lockVars>>

\* TreeStore.Remove: the flag is the first file to go, and the directory is synced ...
Unflag(p) ==
    /\ pc[p] = "unflag"
    /\ \/ tree[key[p]] = "none" /\ At(p, "unflag", "treeRemoved") /\ UNCHANGED <<flag, stuck>>
       \/ /\ tree[key[p]] # "none"
          /\ At(p, "unflag", "removeTree")
          /\ flag' = [flag EXCEPT ![key[p]] = FALSE]
          /\ stuck' = stuck \ {key[p]}
    /\ UNCHANGED <<storeVars, tree, lockVars>>

\* ... then RemoveAll removes the files, a flag that is still there among them ...
RemoveTree(p) ==
    /\ At(p, "removeTree", "removeTreeDir")
    /\ tree' = [tree EXCEPT ![key[p]] = "partial"]
    /\ flag' \in {flag, [flag EXCEPT ![key[p]] = FALSE]}
    /\ UNCHANGED <<storeVars, stuck, lockVars>>

\* ... and the directory last.
RemoveTreeDir(p) ==
    /\ At(p, "removeTreeDir", "treeRemoved")
    /\ tree' = [tree EXCEPT ![key[p]] = "none"]
    /\ flag' = [flag EXCEPT ![key[p]] = FALSE]
    /\ stuck' = stuck \ {key[p]}
    /\ UNCHANGED <<storeVars, lockVars>>

\* image rm ends here, a render goes on to TreeStore.Write.
TreeRemoved(p) ==
    /\ pc[p] = "treeRemoved"
    /\ \/ cmd[p] = "rm" /\ Quit(p)
       \/ cmd[p] = "render" /\ At(p, "treeRemoved", "mkdir") /\ UNCHANGED lockVars
    /\ UNCHANGED <<storeVars, treeVars>>

\* TreeStore.Write makes the directory; the renderer reads the manifest and then the blob.
Mkdir(p) ==
    /\ pc[p] = "mkdir"
    /\ Goto(p, "resolve")
    /\ part' = [part EXCEPT ![p] = "manifest"]
    /\ tree' = [tree EXCEPT ![key[p]] = "partial"]
    /\ UNCHANGED <<storeVars, flag, stuck, lockVars, cmd, key, url, rebuild>>

\* Mutant: the flag is created before the files are complete.
ExtractFlagged(p) ==
    /\ At(p, "extract", "setFlag")
    /\ flag' = [flag EXCEPT ![key[p]] = TRUE]
    /\ UNCHANGED <<storeVars, tree, stuck, lockVars>>

\* The blob, which is open, is extracted, and the hash of the tree written and synced.
Extract(p) ==
    /\ At(p, "extract", "setFlag")
    /\ tree' = [tree EXCEPT ![key[p]] = "full"]
    /\ UNCHANGED <<storeVars, flag, stuck, lockVars>>

\* The flag is the last file to be created.
SetFlag(p) ==
    /\ At(p, "setFlag", "unlockTree")
    /\ flag' = [flag EXCEPT ![key[p]] = TRUE]
    /\ UNCHANGED <<storeVars, tree, stuck, lockVars>>

\* RenderTreeStore returns; its callers check the tree unless they have just rebuilt it.
UnlockTree(p) ==
    /\ pc[p] = "unlockTree"
    /\ \/ rebuild[p] /\ Quit(p)
       \/ ~rebuild[p] /\ At(p, "unlockTree", "checkLock") /\ Release(p, "tree")
    /\ UNCHANGED <<storeVars, treeVars>>

\* CheckTreeStore locks the tree.
LockChecked(p) ==
    /\ At(p, "checkLock", "check")
    /\ LockShared(p, "tree")
    /\ UNCHANGED <<storeVars, treeVars>>

\* CheckTreeStore compares the tree with its hash; a bad or missing tree is rendered again.
Check(p) ==
    /\ pc[p] = "check"
    /\ \/ /\ tree[key[p]] = "full"
          /\ Quit(p)
       \/ /\ tree[key[p]] # "full"
          /\ Release(p, "tree")
          /\ Goto(p, "renderLock")
          /\ rebuild' = [rebuild EXCEPT ![p] = TRUE]
          /\ UNCHANGED <<cmd, key, url, part>>
    /\ UNCHANGED <<storeVars, treeVars>>

-----------------------------------------------------------------------------
(* GetImageManifest and ReadStream, called by readers and by the renderer.   *)

\* A command reads part m of an image.
StartRead(p, k, m) ==
    /\ pc[p] = "idle"
    /\ Goto(p, "resolve")
    /\ cmd' = [cmd EXCEPT ![p] = "read"]
    /\ key' = [key EXCEPT ![p] = k]
    /\ part' = [part EXCEPT ![p] = m]
    /\ UNCHANGED <<storeVars, treeVars, lockVars, url, rebuild>>

\* ResolveKey looks for the record, without a lock on the image.
Resolve(p) ==
    /\ pc[p] = "resolve"
    /\ \/ key[p] \in info /\ At(p, "resolve", "share") /\ UNCHANGED lockVars
       \/ key[p] \notin info /\ Quit(p)
    /\ UNCHANGED <<storeVars, treeVars>>

\* The image is locked for reading.
Share(p) ==
    /\ At(p, "share", "read")
    /\ LockShared(p, "image")
    /\ UNCHANGED <<storeVars, treeVars>>

\* The file p reads is there and can be parsed.
Complete(p) == IF part[p] = "blob" THEN blob[key[p]] ELSE manifest[key[p]] = "full"

\* The manifest is read and parsed, or the blob opened, and the image unlocked.  A missing or
\* incomplete file is an error, and ends a render with its tree half done.
Read(p) ==
    /\ pc[p] = "read"
    /\ \/ /\ cmd[p] = "read" \/ ~Complete(p)
          /\ Quit(p)
       \/ /\ cmd[p] = "render"
          /\ Complete(p)
          /\ Release(p, "image")
          /\ Goto(p, IF part[p] = "manifest" THEN "resolve" ELSE "extract")
          /\ part' = [part EXCEPT ![p] = "blob"]
          /\ UNCHANGED <<cmd, key, url, rebuild>>
    /\ UNCHANGED <<storeVars, treeVars>>

-----------------------------------------------------------------------------
(* Errors that go unnoticed.                                                 *)

\* DoTx does not look at the error of the commit: the changes of Record, WriteRemote or
\* Forget are lost, and the command goes on.
RecordLost(p) == At(p, "record", "unlockFetched") /\ UNCHANGED <<storeVars, treeVars, lockVars>>

WriteRemoteLost(p) == pc[p] = "writeRemote" /\ Quit(p) /\ UNCHANGED <<storeVars, treeVars>>

ForgetLost(p) ==
    /\ key[p] \in info
    /\ At(p, "forget", "eraseBlob")
    /\ stale' = stale \cup {key[p]}
    /\ UNCHANGED <<blob, manifest, info, remote, treeVars, lockVars>>

\* TreeStore.Remove does not look at the error of removing the flag.
UnflagFails(p) ==
    /\ At(p, "unflag", "removeTree")
    /\ flag[key[p]]
    /\ stuck' = stuck \cup {key[p]}
    /\ UNCHANGED <<storeVars, tree, flag, lockVars>>

Fault(p) ==
    /\ faults < MaxFaults
    /\ faults' = faults + 1
    /\ RecordLost(p) \/ WriteRemoteLost(p) \/ ForgetLost(p) \/ UnflagFails(p)

-----------------------------------------------------------------------------

TakeLock(p) ==
    LockFetched(p) \/ LockRemoved(p) \/ LockRemovedTree(p) \/ LockTree(p) \/ LockChecked(p) \/ Share(p)

Step(p) ==
    \/ TakeLock(p)
    \/ GetRemote(p) \/ NotModified(p) \/ Import(p) \/ TruncateManifest(p)
    \/ WriteManifest(p) \/ Record(p) \/ UnlockFetched(p) \/ WriteRemote(p)
    \/ Forget(p) \/ EraseBlob(p) \/ EraseManifest(p) \/ UnlockErased(p)
    \/ IsRendered(p) \/ Unflag(p) \/ RemoveTree(p) \/ RemoveTreeDir(p)
    \/ TreeRemoved(p) \/ Mkdir(p) \/ Extract(p) \/ SetFlag(p) \/ UnlockTree(p)
    \/ Check(p)
    \/ Resolve(p) \/ Read(p)

Start(p) ==
    \E k \in Keys :
        \/ \E u \in Urls \cup {NoUrl} : StartFetch(p, k, u)
        \/ StartRm(p, k)
        \/ StartRender(p, k)
        \/ \E m \in {"manifest", "blob"} : StartRead(p, k, m)

Next == \E p \in Procs : ((Start(p) \/ Step(p) \/ Stop(p)) /\ UNCHANGED faults) \/ Fault(p)

Spec == Init /\ [][Next]_vars

-----------------------------------------------------------------------------
(* Properties.                                                               *)

\* The database, which alone says which images exist, never refers to an image without its
\* blob: WriteACI records an image last and RemoveACI forgets it first, whatever dies in between.
\* The exception is a removal whose commit was lost (db.go:112), until the image is fetched or
\* removed again.
RecordedHasBlob == \A k \in info : blob[k] \/ k \in stale

\* The image a fetch is about to record is whole, although files of an interrupted import or
\* removal may have been there, and others remove or fetch the same image meanwhile.
RecordsWholeImage ==
    \A p \in Procs : pc[p] = "record" => blob[key[p]] /\ manifest[key[p]] = "full"

\* tree.go: "if the 'rendered' flag file exists, assume that the store is already fully
\* rendered": the assumption holds at every moment, through crashes of renders and removals,
\* except after a removal that could not remove the flag first and went on (tree.go:120).
FlagMeansComplete == \A k \in Keys : flag[k] => tree[k] = "full" \/ k \in stuck

\* store.go: "remote needs to be removed or a GetRemote will return a blobKey not referenced by
\* any ACIInfo": every remote refers to an image of the store.
RemoteIsRecorded == \A u \in Urls : remote[u] # NoKey => remote[u] \in info

\* Processes run, and a lock that is free again and again is granted.
Fairness ==
    \A p \in Procs :
        /\ WF_vars(Step(p) /\ UNCHANGED faults)
        /\ SF_vars(TakeLock(p) /\ UNCHANGED faults)

FairSpec == Spec /\ Fairness

\* Every command ends: a render, which takes image locks under its tree lock, and a removal,
\* which takes both, do not wait for each other, and a tree that is removed again and again
\* is rebuilt once only.
CommandsEnd == \A p \in Procs : pc[p] # "idle" ~> pc[p] = "idle"

\* Process p waits for a lock that q has.
WaitsFor(p, q) ==
    LET k == key[p] IN
    \/ /\ pc[p] \in {"download", "revalidate", "rmLock"}
       /\ ex["image"][k] = q \/ q \in sh["image"][k]
    \/ /\ pc[p] \in {"renderLock", "rmTreeLock"}
       /\ ex["tree"][k] = q \/ q \in sh["tree"][k]
    \/ pc[p] = "share" /\ ex["image"][k] = q
    \/ pc[p] = "checkLock" /\ ex["tree"][k] = q

\* Among any processes there is one that waits for none of them, itself included: whoever has an
\* image waits for nothing, and whoever waits for a tree has nothing (RemoveACI closes the lock
\* of the image before RemoveTreeStore takes the one of the tree).
NoDeadlock == \A S \in SUBSET Procs : S # {} => \E p \in S : \A q \in S : ~WaitsFor(p, q)

\* The commands use each lock as the readers/writer lock that KeyLock implements.
KeyLockOf(l, k) == INSTANCE RWLock WITH writer <- ex[l][k], readers <- sh[l][k]
UsesRWLocks == \A l \in LockNames, k \in Keys : KeyLockOf(l, k)!Spec

-----------------------------------------------------------------------------
(* The inductive invariant.                                                  *)

\* Control points at which a process has the exclusive lock of its image.
ImageHeld == {"import", "truncate", "writeManifest", "record", "unlockFetched", "forget",
              "eraseBlob", "eraseManifest", "unlockErased"}

\* Control points at which it has the exclusive lock of its tree (the reads only in a render).
TreeHeld == {"isRendered", "unflag", "removeTree", "removeTreeDir", "treeRemoved", "mkdir",
             "extract", "setFlag", "unlockTree"}

\* Control points of removals only, and of renders only; both remove trees.
RmOnly == {"rmLock", "forget", "eraseBlob", "eraseManifest", "unlockErased", "rmTreeLock"}
RenderOnly == {"renderLock", "isRendered", "mkdir", "extract", "setFlag", "unlockTree",
               "checkLock", "check"}

\* Who holds which lock, and what for.
HolderInv ==
    \A p \in Procs :
        /\ pc[p] # "idle" => key[p] \in Keys
        /\ pc[p] = "writeRemote" => url[p] \in Urls
        /\ pc[p] \in ImageHeld => ex["image"][key[p]] = p
        /\ pc[p] \in TreeHeld => ex["tree"][key[p]] = p
        /\ pc[p] \in {"resolve", "share", "read"} =>
               cmd[p] = "read" \/ (cmd[p] = "render" /\ ex["tree"][key[p]] = p)
        /\ pc[p] \in RmOnly => cmd[p] = "rm"
        /\ pc[p] \in RenderOnly => cmd[p] = "render"
        /\ pc[p] \in TreeHeld => cmd[p] \in {"rm", "render"}

\* What the holder of an image's lock knows of the image.
ImageInv ==
    \A p \in Procs :
        /\ pc[p] \in {"truncate", "writeManifest", "record", "unlockFetched"} => blob[key[p]]
        /\ pc[p] = "record" => manifest[key[p]] = "full"
        /\ pc[p] \in {"eraseBlob", "eraseManifest", "unlockErased"} =>
               key[p] \notin info \/ key[p] \in stale

\* What the holder of a tree's lock knows of the tree.
TreeInv ==
    /\ \A k \in Keys : flag[k] => tree[k] # "none"
    /\ \A p \in Procs :
        /\ pc[p] \in {"removeTree", "removeTreeDir"} => ~flag[key[p]] \/ key[p] \in stuck
        /\ pc[p] \in {"treeRemoved", "mkdir", "extract", "setFlag"} => ~flag[key[p]]
        /\ pc[p] \in {"resolve", "share", "read"} /\ cmd[p] = "render" => ~flag[key[p]]
        /\ pc[p] = "setFlag" => tree[key[p]] = "full"
        /\ pc[p] = "unlockTree" /\ rebuild[p] => tree[key[p]] = "full"

\* Who has a lock is where it is needed, and a writer is alone.
OwnerInv ==
    \A k \in Keys :
        /\ \A l \in LockNames : ex[l][k] # NoProc => sh[l][k] = {}
        /\ \A p \in Procs :
            /\ ex["image"][k] = p => key[p] = k /\ pc[p] \in ImageHeld
            /\ p \in sh["image"][k] => key[p] = k /\ pc[p] = "read"
            /\ ex["tree"][k] = p =>
                   key[p] = k /\ pc[p] \in TreeHeld \cup {"resolve", "share", "read"}
            /\ p \in sh["tree"][k] => key[p] = k /\ pc[p] = "check"

DataInv == TypeOK /\ HolderInv /\ ImageInv /\ TreeInv /\ RecordedHasBlob /\ FlagMeansComplete

FaultsTyped == faults \in 0..MaxFaults

IInv == DataInv /\ OwnerInv /\ FaultsTyped
=============================================================================
