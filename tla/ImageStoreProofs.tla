--------------------------- MODULE ImageStoreProofs ---------------------------
(***************************************************************************)
(* Safety of ImageStore for any number of images, URLs and processes, each   *)
(* of which may end at any point.  DataInv says which lock a process has at  *)
(* each control point and what it may conclude from it about the image or    *)
(* the tree; OwnerInv says, the other way round, where a process is whose    *)
(* name is on a lock.  One lemma per action shows that DataInv is preserved; *)
(* what a step may do to the locks is the same few cases for all actions.    *)
(***************************************************************************)
EXTENDS ImageStore, TLAPS

USE DEF storeVars, treeVars, lockVars, procVars, Goto, LockNames, ImageHeld, TreeHeld, RmOnly,
        RenderOnly

\* A command that ends leaves every variable in its type ...
LEMMA QuitTyped ==
    ASSUME TypeOK, NEW p \in Procs, Quit(p)
    PROVE  /\ ex' \in [LockNames -> [Keys -> Procs \cup {NoProc}]]
           /\ sh' \in [LockNames -> [Keys -> SUBSET Procs]]
           /\ pc' \in [Procs -> Control]
           /\ cmd' \in [Procs -> {"none", "fetch", "rm", "render", "read"}]
           /\ key' \in [Procs -> Keys \cup {NoKey}]
           /\ url' \in [Procs -> Urls \cup {NoUrl}]
           /\ part' \in [Procs -> {"manifest", "blob"}]
           /\ rebuild' \in [Procs -> BOOLEAN]
  BY DEF TypeOK, Quit, Control

\* ... and so does a command that closes a lock and goes on; the other locks stay as they are.
LEMMA ReleaseTyped ==
    ASSUME TypeOK, NEW p \in Procs, NEW l \in LockNames, Release(p, l)
    PROVE  /\ ex' \in [LockNames -> [Keys -> Procs \cup {NoProc}]]
           /\ sh' \in [LockNames -> [Keys -> SUBSET Procs]]
           /\ \A m \in LockNames, k \in Keys, q \in Procs :
                  ex[m][k] = q /\ (q # p \/ m # l) => ex'[m][k] = q
  BY DEF TypeOK, Release

\* A step to another control point keeps the types of a process's variables.
LEMMA AtTyped ==
    ASSUME TypeOK, NEW p \in Procs, NEW a, NEW b \in Control, At(p, a, b)
    PROVE  /\ pc' \in [Procs -> Control]
           /\ cmd' \in [Procs -> {"none", "fetch", "rm", "render", "read"}]
           /\ key' \in [Procs -> Keys \cup {NoKey}]
           /\ url' \in [Procs -> Urls \cup {NoUrl}]
           /\ part' \in [Procs -> {"manifest", "blob"}]
           /\ rebuild' \in [Procs -> BOOLEAN]
  BY DEF TypeOK, At

\* A command that ends leaves the locks of the others alone.
LEMMA QuitHolds ==
    ASSUME TypeOK, HolderInv, NEW p \in Procs, Quit(p)
    PROVE  HolderInv'
  BY StoreAssumption DEF TypeOK, HolderInv, Quit

\* A fetch starts.
LEMMA StartFetchInv ==
    ASSUME DataInv, NEW p \in Procs, NEW k \in Keys, NEW u \in Urls \cup {NoUrl}, StartFetch(p, k, u)
    PROVE  DataInv'
<1>1. TypeOK'
  BY StoreAssumption DEF DataInv, TypeOK, HolderInv, Control, StartFetch
<1>2. HolderInv'
  BY StoreAssumption DEF DataInv, TypeOK, HolderInv, Control, StartFetch
<1>3. ImageInv' /\ RecordedHasBlob'
  BY StoreAssumption DEF DataInv, TypeOK, HolderInv, ImageInv, RecordedHasBlob, StartFetch
<1>4. TreeInv' /\ FlagMeansComplete'
  BY StoreAssumption DEF DataInv, TypeOK, HolderInv, TreeInv, FlagMeansComplete, StartFetch
<1> QED
  BY <1>1, <1>2, <1>3, <1>4 DEF DataInv

\* A removal starts.
LEMMA StartRmInv ==
    ASSUME DataInv, NEW p \in Procs, NEW k \in Keys, StartRm(p, k)
    PROVE  DataInv'
<1>1. TypeOK'
  BY StoreAssumption DEF DataInv, TypeOK, HolderInv, Control, StartRm
<1>2. HolderInv'
  BY StoreAssumption DEF DataInv, TypeOK, HolderInv, Control, StartRm
<1>3. ImageInv' /\ RecordedHasBlob'
  BY StoreAssumption DEF DataInv, TypeOK, HolderInv, ImageInv, RecordedHasBlob, StartRm
<1>4. TreeInv' /\ FlagMeansComplete'
  BY StoreAssumption DEF DataInv, TypeOK, HolderInv, TreeInv, FlagMeansComplete, StartRm
<1> QED
  BY <1>1, <1>2, <1>3, <1>4 DEF DataInv

\* A render starts.
LEMMA StartRenderInv ==
    ASSUME DataInv, NEW p \in Procs, NEW k \in Keys, StartRender(p, k)
    PROVE  DataInv'
<1>1. TypeOK'
  BY StoreAssumption DEF DataInv, TypeOK, HolderInv, Control, StartRender
<1>2. HolderInv'
  BY StoreAssumption DEF DataInv, TypeOK, HolderInv, Control, StartRender
<1>3. ImageInv' /\ RecordedHasBlob'
  BY StoreAssumption DEF DataInv, TypeOK, HolderInv, ImageInv, RecordedHasBlob, StartRender
<1>4. TreeInv' /\ FlagMeansComplete'
  BY StoreAssumption DEF DataInv, TypeOK, HolderInv, TreeInv, FlagMeansComplete, StartRender
<1> QED
  BY <1>1, <1>2, <1>3, <1>4 DEF DataInv

\* A read starts.
LEMMA StartReadInv ==
    ASSUME DataInv, NEW p \in Procs, NEW k \in Keys, NEW m \in {"manifest", "blob"}, StartRead(p,
       k, m)
    PROVE  DataInv'
<1>1. TypeOK'
  BY StoreAssumption DEF DataInv, TypeOK, HolderInv, Control, StartRead
<1>2. HolderInv'
  BY StoreAssumption DEF DataInv, TypeOK, HolderInv, Control, StartRead
<1>3. ImageInv' /\ RecordedHasBlob'
  BY StoreAssumption DEF DataInv, TypeOK, HolderInv, ImageInv, RecordedHasBlob, StartRead
<1>4. TreeInv' /\ FlagMeansComplete'
  BY StoreAssumption DEF DataInv, TypeOK, HolderInv, TreeInv, FlagMeansComplete, StartRead
<1> QED
  BY <1>1, <1>2, <1>3, <1>4 DEF DataInv

\* The remote is looked up.
LEMMA GetRemoteInv ==
    ASSUME DataInv, NEW p \in Procs, GetRemote(p)
    PROVE  DataInv'
<1>1. TypeOK'
  <2>1. CASE Quit(p)
    <3>1. Quit(p)
      BY <2>1 DEF DataInv, TypeOK, HolderInv, GetRemote, At
    <3> QED
      BY <3>1, QuitTyped DEF DataInv, TypeOK, GetRemote
  <2>2. CASE ~Quit(p)
    <3>1. UNCHANGED <<storeVars, treeVars, lockVars>>
          /\ \E b \in {"revalidate", "download"} : At(p, "fetch", b)
      BY <2>2 DEF GetRemote
    <3>2. {"revalidate", "download"} \subseteq Control
      BY DEF Control
    <3> QED
      BY <3>1, <3>2, AtTyped DEF DataInv, TypeOK
  <2> QED
    BY <2>1, <2>2
<1>2. HolderInv'
  <2>1. CASE Quit(p)
    <3>1. Quit(p)
      BY <2>1 DEF DataInv, TypeOK, HolderInv, GetRemote, At
    <3> QED
      BY <3>1, QuitHolds DEF DataInv
  <2>2. CASE ~Quit(p)
    BY <2>2, StoreAssumption DEF DataInv, TypeOK, HolderInv, GetRemote, At
  <2> QED
    BY <2>1, <2>2
<1>3. ImageInv' /\ RecordedHasBlob'
  BY StoreAssumption DEF DataInv, TypeOK, HolderInv, ImageInv, RecordedHasBlob, GetRemote, Quit, At
<1>4. TreeInv' /\ FlagMeansComplete'
  BY StoreAssumption DEF DataInv, TypeOK, HolderInv, TreeInv, FlagMeansComplete, GetRemote, Quit, At
<1> QED
  BY <1>1, <1>2, <1>3, <1>4 DEF DataInv

\* The server answers that the image has not changed.
LEMMA NotModifiedInv ==
    ASSUME DataInv, NEW p \in Procs, NotModified(p)
    PROVE  DataInv'
<1>1. TypeOK'
  BY StoreAssumption DEF DataInv, TypeOK, HolderInv, Control, NotModified, Quit
<1>2. HolderInv'
  BY StoreAssumption DEF DataInv, TypeOK, HolderInv, Control, NotModified, Quit
<1>3. ImageInv' /\ RecordedHasBlob'
  BY StoreAssumption DEF DataInv, TypeOK, HolderInv, ImageInv, RecordedHasBlob, NotModified, Quit
<1>4. TreeInv' /\ FlagMeansComplete'
  BY StoreAssumption DEF DataInv, TypeOK, HolderInv, TreeInv, FlagMeansComplete, NotModified, Quit
<1> QED
  BY <1>1, <1>2, <1>3, <1>4 DEF DataInv

\* WriteACI gets the lock of an image nobody else works on.
LEMMA LockFetchedInv ==
    ASSUME DataInv, NEW p \in Procs, LockFetched(p)
    PROVE  DataInv'
<1>1. TypeOK'
  BY StoreAssumption DEF DataInv, TypeOK, HolderInv, Control, LockFetched, LockExclusive, At
<1>2. HolderInv'
  BY StoreAssumption DEF DataInv, TypeOK, HolderInv, Control, LockFetched, LockExclusive, At
<1>3. ImageInv' /\ RecordedHasBlob'
  BY StoreAssumption DEF DataInv, TypeOK, HolderInv, ImageInv, RecordedHasBlob, LockFetched,
     LockExclusive, At
<1>4. TreeInv' /\ FlagMeansComplete'
  BY StoreAssumption DEF DataInv, TypeOK, HolderInv, TreeInv, FlagMeansComplete, LockFetched,
     LockExclusive, At
<1> QED
  BY <1>1, <1>2, <1>3, <1>4 DEF DataInv

\* A blob appears under its image's lock.
LEMMA ImportInv ==
    ASSUME DataInv, NEW p \in Procs, Import(p)
    PROVE  DataInv'
<1>1. TypeOK'
  BY StoreAssumption DEF DataInv, TypeOK, HolderInv, Control, Import, At
<1>2. HolderInv'
  BY StoreAssumption DEF DataInv, TypeOK, HolderInv, Control, Import, At
<1>3. ImageInv' /\ RecordedHasBlob'
  BY StoreAssumption DEF DataInv, TypeOK, HolderInv, ImageInv, RecordedHasBlob, Import, At
<1>4. TreeInv' /\ FlagMeansComplete'
  BY StoreAssumption DEF DataInv, TypeOK, HolderInv, TreeInv, FlagMeansComplete, Import, At
<1> QED
  BY <1>1, <1>2, <1>3, <1>4 DEF DataInv

\* Only the holder of the image's lock rewrites its manifest.
LEMMA TruncateManifestInv ==
    ASSUME DataInv, NEW p \in Procs, TruncateManifest(p)
    PROVE  DataInv'
<1>1. TypeOK'
  BY StoreAssumption DEF DataInv, TypeOK, HolderInv, Control, TruncateManifest, At
<1>2. HolderInv'
  BY StoreAssumption DEF DataInv, TypeOK, HolderInv, Control, TruncateManifest, At
<1>3. ImageInv' /\ RecordedHasBlob'
  BY StoreAssumption DEF DataInv, TypeOK, HolderInv, ImageInv, RecordedHasBlob, TruncateManifest, At
<1>4. TreeInv' /\ FlagMeansComplete'
  BY StoreAssumption DEF DataInv, TypeOK, HolderInv, TreeInv, FlagMeansComplete, TruncateManifest, At
<1> QED
  BY <1>1, <1>2, <1>3, <1>4 DEF DataInv

\* The manifest is complete before the image is recorded.
LEMMA WriteManifestInv ==
    ASSUME DataInv, NEW p \in Procs, WriteManifest(p)
    PROVE  DataInv'
<1>1. TypeOK'
  BY StoreAssumption DEF DataInv, TypeOK, HolderInv, Control, WriteManifest, At
<1>2. HolderInv'
  BY StoreAssumption DEF DataInv, TypeOK, HolderInv, Control, WriteManifest, At
<1>3. ImageInv' /\ RecordedHasBlob'
  BY StoreAssumption DEF DataInv, TypeOK, HolderInv, ImageInv, RecordedHasBlob, WriteManifest, At
<1>4. TreeInv' /\ FlagMeansComplete'
  BY StoreAssumption DEF DataInv, TypeOK, HolderInv, TreeInv, FlagMeansComplete, WriteManifest, At
<1> QED
  BY <1>1, <1>2, <1>3, <1>4 DEF DataInv

\* An image is recorded by the holder of its lock, blob and manifest in place.
LEMMA RecordInv ==
    ASSUME DataInv, NEW p \in Procs, Record(p)
    PROVE  DataInv'
<1>1. TypeOK'
  BY StoreAssumption DEF DataInv, TypeOK, HolderInv, Control, Record, At
<1>2. HolderInv'
  BY StoreAssumption DEF DataInv, TypeOK, HolderInv, Control, Record, At
<1>3. ImageInv' /\ RecordedHasBlob'
  BY StoreAssumption DEF DataInv, TypeOK, HolderInv, ImageInv, RecordedHasBlob, Record, At
<1>4. TreeInv' /\ FlagMeansComplete'
  BY StoreAssumption DEF DataInv, TypeOK, HolderInv, TreeInv, FlagMeansComplete, Record, At
<1> QED
  BY <1>1, <1>2, <1>3, <1>4 DEF DataInv

\* WriteACI returns.
LEMMA UnlockFetchedInv ==
    ASSUME DataInv, NEW p \in Procs, UnlockFetched(p)
    PROVE  DataInv'
<1>1. TypeOK'
  <2>1. CASE url[p] = NoUrl
    <3>1. Quit(p)
      BY <2>1 DEF DataInv, TypeOK, HolderInv, UnlockFetched, Release, At
    <3> QED
      BY <3>1, QuitTyped DEF DataInv, TypeOK, UnlockFetched
  <2>2. CASE url[p] # NoUrl
    <3>1. At(p, "unlockFetched", "writeRemote") /\ Release(p, "image")
          /\ UNCHANGED <<storeVars, treeVars>>
      BY <2>2 DEF UnlockFetched
    <3>2. "writeRemote" \in Control /\ "image" \in LockNames
      BY DEF Control
    <3> QED
      BY <3>1, <3>2, AtTyped, ReleaseTyped DEF DataInv, TypeOK
  <2> QED
    BY <2>1, <2>2
<1>2. HolderInv'
  <2>1. CASE url[p] = NoUrl
    <3>1. Quit(p)
      BY <2>1 DEF DataInv, TypeOK, HolderInv, UnlockFetched, Release, At
    <3> QED
      BY <3>1, QuitHolds DEF DataInv
  <2>2. CASE url[p] # NoUrl
    <3>1. At(p, "unlockFetched", "writeRemote") /\ Release(p, "image")
      BY <2>2 DEF UnlockFetched
    <3>2. \A m \in LockNames, k \in Keys, q \in Procs :
              ex[m][k] = q /\ q # p => ex'[m][k] = q
      BY <3>1, ReleaseTyped DEF DataInv
    <3> QED
      BY <2>2, <3>1, <3>2 DEF DataInv, TypeOK, HolderInv, At
  <2> QED
    BY <2>1, <2>2
<1>3. ImageInv' /\ RecordedHasBlob'
  BY StoreAssumption DEF DataInv, TypeOK, HolderInv, ImageInv, RecordedHasBlob, UnlockFetched,
     Release, Quit, At
<1>4. TreeInv' /\ FlagMeansComplete'
  BY StoreAssumption DEF DataInv, TypeOK, HolderInv, TreeInv, FlagMeansComplete, UnlockFetched,
     Release, Quit, At
<1> QED
  BY <1>1, <1>2, <1>3, <1>4 DEF DataInv

\* The remote is written without a lock: nothing but the table remote changes.
LEMMA WriteRemoteInv ==
    ASSUME DataInv, NEW p \in Procs, WriteRemote(p)
    PROVE  DataInv'
<1>1. TypeOK'
  BY StoreAssumption DEF DataInv, TypeOK, HolderInv, Control, WriteRemote, Quit
<1>2. HolderInv'
  BY StoreAssumption DEF DataInv, TypeOK, HolderInv, Control, WriteRemote, Quit
<1>3. ImageInv' /\ RecordedHasBlob'
  BY StoreAssumption DEF DataInv, TypeOK, HolderInv, ImageInv, RecordedHasBlob, WriteRemote, Quit
<1>4. TreeInv' /\ FlagMeansComplete'
  BY StoreAssumption DEF DataInv, TypeOK, HolderInv, TreeInv, FlagMeansComplete, WriteRemote, Quit
<1> QED
  BY <1>1, <1>2, <1>3, <1>4 DEF DataInv

\* RemoveACI gets the lock of the image.
LEMMA LockRemovedInv ==
    ASSUME DataInv, NEW p \in Procs, LockRemoved(p)
    PROVE  DataInv'
<1>1. TypeOK'
  BY StoreAssumption DEF DataInv, TypeOK, HolderInv, Control, LockRemoved, LockExclusive, At
<1>2. HolderInv'
  BY StoreAssumption DEF DataInv, TypeOK, HolderInv, Control, LockRemoved, LockExclusive, At
<1>3. ImageInv' /\ RecordedHasBlob'
  BY StoreAssumption DEF DataInv, TypeOK, HolderInv, ImageInv, RecordedHasBlob, LockRemoved,
     LockExclusive, At
<1>4. TreeInv' /\ FlagMeansComplete'
  BY StoreAssumption DEF DataInv, TypeOK, HolderInv, TreeInv, FlagMeansComplete, LockRemoved,
     LockExclusive, At
<1> QED
  BY <1>1, <1>2, <1>3, <1>4 DEF DataInv

\* The record goes before the files.
LEMMA ForgetInv ==
    ASSUME DataInv, NEW p \in Procs, Forget(p)
    PROVE  DataInv'
<1>1. TypeOK'
  <2>1. CASE key[p] \in info
    BY <2>1, StoreAssumption DEF DataInv, TypeOK, HolderInv, Control, Forget, At
  <2>2. CASE key[p] \notin info
    <3>1. Quit(p)
      BY <2>2 DEF DataInv, TypeOK, HolderInv, Forget, At
    <3> QED
      BY <3>1, QuitTyped DEF DataInv, TypeOK, Forget
  <2> QED
    BY <2>1, <2>2
<1>2. HolderInv'
  <2>1. CASE key[p] \in info
    BY <2>1, StoreAssumption DEF DataInv, TypeOK, HolderInv, Forget, At
  <2>2. CASE key[p] \notin info
    <3>1. Quit(p)
      BY <2>2 DEF DataInv, TypeOK, HolderInv, Forget, At
    <3> QED
      BY <3>1, QuitHolds DEF DataInv
  <2> QED
    BY <2>1, <2>2
<1>3. ImageInv' /\ RecordedHasBlob'
  BY StoreAssumption DEF DataInv, TypeOK, HolderInv, ImageInv, RecordedHasBlob, Forget, Quit, At
<1>4. TreeInv' /\ FlagMeansComplete'
  BY StoreAssumption DEF DataInv, TypeOK, HolderInv, TreeInv, FlagMeansComplete, Forget, Quit, At
<1> QED
  BY <1>1, <1>2, <1>3, <1>4 DEF DataInv

\* The blob of an image without a record goes.
LEMMA EraseBlobInv ==
    ASSUME DataInv, NEW p \in Procs, EraseBlob(p)
    PROVE  DataInv'
<1>1. TypeOK'
  <2>1. CASE blob' = blob
    BY <2>1, StoreAssumption DEF DataInv, TypeOK, HolderInv, Control, EraseBlob, At
  <2>2. CASE blob' # blob
    <3>1. At(p, "eraseBlob", "eraseManifest")
          /\ UNCHANGED <<manifest, info, remote, stale, treeVars, lockVars>>
      BY DEF EraseBlob
    <3>2. "eraseManifest" \in Control
      BY DEF Control
    <3>3. blob' \in [Keys -> BOOLEAN]
      BY DEF DataInv, TypeOK, EraseBlob
    <3> QED
      BY <3>1, <3>2, <3>3, AtTyped DEF DataInv, TypeOK
  <2> QED
    BY <2>1, <2>2
<1>2. HolderInv'
  <2>1. CASE blob' = blob
    BY <2>1, StoreAssumption DEF DataInv, TypeOK, HolderInv, EraseBlob, At
  <2>2. CASE blob' # blob
    BY <2>2, StoreAssumption DEF DataInv, TypeOK, HolderInv, EraseBlob, At
  <2> QED
    BY <2>1, <2>2
<1>3. ImageInv' /\ RecordedHasBlob'
  <2>1. /\ key[p] \in Keys /\ (key[p] \notin info \/ key[p] \in stale)
        /\ \A q \in Procs \ {p} : pc[q] \in ImageHeld => key[q] # key[p]
    BY DEF DataInv, HolderInv, ImageInv, EraseBlob, At
  <2>2. \A k \in Keys \ {key[p]} : blob'[k] = blob[k] /\ manifest'[k] = manifest[k]
    BY DEF DataInv, TypeOK, EraseBlob
  <2>3. /\ info' = info /\ stale' = stale /\ key' = key /\ pc' = [pc EXCEPT ![p] = "eraseManifest"]
    BY DEF EraseBlob, At
  <2>4. RecordedHasBlob'
    BY <2>1, <2>2, <2>3 DEF DataInv, TypeOK, RecordedHasBlob
  <2>5. ASSUME NEW q \in Procs \ {p}, pc[q] \in ImageHeld
        PROVE  blob'[key[q]] = blob[key[q]] /\ manifest'[key[q]] = manifest[key[q]]
    BY <2>1, <2>2, <2>5 DEF DataInv, HolderInv
  <2>6. /\ \A q \in Procs \ {p} : pc'[q] = pc[q]
        /\ pc'[p] = "eraseManifest"
    BY <2>3 DEF DataInv, TypeOK
  <2>7. ImageInv'
    BY <2>1, <2>3, <2>5, <2>6 DEF DataInv, ImageInv
  <2> QED
    BY <2>4, <2>7
<1>4. TreeInv' /\ FlagMeansComplete'
  BY StoreAssumption DEF DataInv, TypeOK, HolderInv, TreeInv, FlagMeansComplete, EraseBlob, At
<1> QED
  BY <1>1, <1>2, <1>3, <1>4 DEF DataInv

\* The manifest of an image without a record goes.
LEMMA EraseManifestInv ==
    ASSUME DataInv, NEW p \in Procs, EraseManifest(p)
    PROVE  DataInv'
<1>1. TypeOK'
  BY StoreAssumption DEF DataInv, TypeOK, HolderInv, Control, EraseManifest, At
<1>2. HolderInv'
  BY StoreAssumption DEF DataInv, TypeOK, HolderInv, Control, EraseManifest, At
<1>3. ImageInv' /\ RecordedHasBlob'
  <2>1. /\ key[p] \in Keys /\ (key[p] \notin info \/ key[p] \in stale)
        /\ \A q \in Procs \ {p} : pc[q] \in ImageHeld => key[q] # key[p]
    BY DEF DataInv, HolderInv, ImageInv, EraseManifest, At
  <2>2. \A k \in Keys \ {key[p]} : blob'[k] = blob[k] /\ manifest'[k] = manifest[k]
    BY DEF DataInv, TypeOK, EraseManifest
  <2>3. /\ info' = info /\ stale' = stale /\ key' = key /\ pc' = [pc EXCEPT ![p] = "unlockErased"]
    BY DEF EraseManifest, At
  <2>4. RecordedHasBlob'
    BY <2>1, <2>2, <2>3 DEF DataInv, TypeOK, RecordedHasBlob
  <2>5. ASSUME NEW q \in Procs \ {p}, pc[q] \in ImageHeld
        PROVE  blob'[key[q]] = blob[key[q]] /\ manifest'[key[q]] = manifest[key[q]]
    BY <2>1, <2>2, <2>5 DEF DataInv, HolderInv
  <2>6. /\ \A q \in Procs \ {p} : pc'[q] = pc[q]
        /\ pc'[p] = "unlockErased"
    BY <2>3 DEF DataInv, TypeOK
  <2>7. ImageInv'
    BY <2>1, <2>3, <2>5, <2>6 DEF DataInv, ImageInv
  <2> QED
    BY <2>4, <2>7
<1>4. TreeInv' /\ FlagMeansComplete'
  BY StoreAssumption DEF DataInv, TypeOK, HolderInv, TreeInv, FlagMeansComplete, EraseManifest, At
<1> QED
  BY <1>1, <1>2, <1>3, <1>4 DEF DataInv

\* RemoveACI returns.
LEMMA UnlockErasedInv ==
    ASSUME DataInv, NEW p \in Procs, UnlockErased(p)
    PROVE  DataInv'
<1>1. TypeOK'
  BY StoreAssumption DEF DataInv, TypeOK, HolderInv, Control, UnlockErased, Release, At
<1>2. HolderInv'
  BY StoreAssumption DEF DataInv, TypeOK, HolderInv, Control, UnlockErased, Release, At
<1>3. ImageInv' /\ RecordedHasBlob'
  BY StoreAssumption DEF DataInv, TypeOK, HolderInv, ImageInv, RecordedHasBlob, UnlockErased,
     Release, At
<1>4. TreeInv' /\ FlagMeansComplete'
  BY StoreAssumption DEF DataInv, TypeOK, HolderInv, TreeInv, FlagMeansComplete, UnlockErased,
     Release, At
<1> QED
  BY <1>1, <1>2, <1>3, <1>4 DEF DataInv

\* RemoveTreeStore gets the lock of the tree.
LEMMA LockRemovedTreeInv ==
    ASSUME DataInv, NEW p \in Procs, LockRemovedTree(p)
    PROVE  DataInv'
<1>1. TypeOK'
  BY StoreAssumption DEF DataInv, TypeOK, HolderInv, Control, LockRemovedTree, LockExclusive, At
<1>2. HolderInv'
  BY StoreAssumption DEF DataInv, TypeOK, HolderInv, Control, LockRemovedTree, LockExclusive, At
<1>3. ImageInv' /\ RecordedHasBlob'
  BY StoreAssumption DEF DataInv, TypeOK, HolderInv, ImageInv, RecordedHasBlob, LockRemovedTree,
     LockExclusive, At
<1>4. TreeInv' /\ FlagMeansComplete'
  BY StoreAssumption DEF DataInv, TypeOK, HolderInv, TreeInv, FlagMeansComplete, LockRemovedTree,
     LockExclusive, At
<1> QED
  BY <1>1, <1>2, <1>3, <1>4 DEF DataInv

\* RenderTreeStore gets the lock of the tree.
LEMMA LockTreeInv ==
    ASSUME DataInv, NEW p \in Procs, LockTree(p)
    PROVE  DataInv'
<1>1. TypeOK'
  BY StoreAssumption DEF DataInv, TypeOK, HolderInv, Control, LockTree, LockExclusive, At
<1>2. HolderInv'
  BY StoreAssumption DEF DataInv, TypeOK, HolderInv, Control, LockTree, LockExclusive, At
<1>3. ImageInv' /\ RecordedHasBlob'
  BY StoreAssumption DEF DataInv, TypeOK, HolderInv, ImageInv, RecordedHasBlob, LockTree,
     LockExclusive, At
<1>4. TreeInv' /\ FlagMeansComplete'
  BY StoreAssumption DEF DataInv, TypeOK, HolderInv, TreeInv, FlagMeansComplete, LockTree,
     LockExclusive, At
<1> QED
  BY <1>1, <1>2, <1>3, <1>4 DEF DataInv

\* A flagged tree is left alone.
LEMMA IsRenderedInv ==
    ASSUME DataInv, NEW p \in Procs, IsRendered(p)
    PROVE  DataInv'
<1>1. TypeOK'
  BY StoreAssumption, SMTT(30) DEF DataInv, TypeOK, HolderInv, Control, IsRendered, At
<1>2. HolderInv'
  BY StoreAssumption DEF DataInv, TypeOK, HolderInv, Control, IsRendered, At
<1>3. ImageInv' /\ RecordedHasBlob'
  BY StoreAssumption DEF DataInv, TypeOK, HolderInv, ImageInv, RecordedHasBlob, IsRendered, At
<1>4. TreeInv' /\ FlagMeansComplete'
  BY StoreAssumption DEF DataInv, TypeOK, HolderInv, TreeInv, FlagMeansComplete, IsRendered, At
<1> QED
  BY <1>1, <1>2, <1>3, <1>4 DEF DataInv

\* The flag goes first.
LEMMA UnflagInv ==
    ASSUME DataInv, NEW p \in Procs, Unflag(p)
    PROVE  DataInv'
<1>1. TypeOK'
  <2>1. CASE tree[key[p]] = "none"
    <3>1. At(p, "unflag", "treeRemoved") /\ UNCHANGED <<storeVars, treeVars, lockVars>>
      BY <2>1 DEF Unflag
    <3>2. "treeRemoved" \in Control
      BY DEF Control
    <3> QED
      BY <3>1, <3>2, AtTyped DEF DataInv, TypeOK
  <2>2. CASE tree[key[p]] # "none"
    <3>1. At(p, "unflag", "removeTree") /\ UNCHANGED <<storeVars, tree, lockVars>>
      BY <2>2 DEF Unflag
    <3>2. "removeTree" \in Control
      BY DEF Control
    <3>3. flag' \in [Keys -> BOOLEAN] /\ stuck' \subseteq Keys
      BY <2>2 DEF DataInv, TypeOK, Unflag
    <3> QED
      BY <3>1, <3>2, <3>3, AtTyped DEF DataInv, TypeOK
  <2> QED
    BY <2>1, <2>2
<1>2. HolderInv'
  <2>1. CASE tree[key[p]] = "none"
    BY <2>1, StoreAssumption DEF DataInv, TypeOK, HolderInv, Unflag, At
  <2>2. CASE tree[key[p]] # "none"
    BY <2>2, StoreAssumption DEF DataInv, TypeOK, HolderInv, Unflag, At
  <2> QED
    BY <2>1, <2>2
<1>3. ImageInv' /\ RecordedHasBlob'
  BY StoreAssumption DEF DataInv, TypeOK, HolderInv, ImageInv, RecordedHasBlob, Unflag, At
<1>4. TreeInv' /\ FlagMeansComplete'
  <2>1. CASE tree[key[p]] = "none"
    BY <2>1, StoreAssumption DEF DataInv, TypeOK, HolderInv, TreeInv, FlagMeansComplete, Unflag, At
  <2>2. CASE tree[key[p]] # "none"
    <3>1. /\ key[p] \in Keys /\ tree' = tree /\ stuck' = stuck \ {key[p]} /\ key' = key /\ cmd' = cmd
          /\ rebuild' = rebuild /\ ~flag'[key[p]] /\ \A k \in Keys \ {key[p]} : flag'[k] = flag[k]
      BY <2>2 DEF DataInv, TypeOK, HolderInv, Unflag, At
    <3>2. pc'[p] = "removeTree" /\ \A q \in Procs \ {p} : pc'[q] = pc[q]
      BY <2>2 DEF DataInv, TypeOK, Unflag, At
    <3>3. \A q \in Procs : pc[q] # "idle" => key[q] \in Keys
      BY DEF DataInv, HolderInv
    <3> QED
      BY <3>1, <3>2, <3>3 DEF DataInv, TreeInv, FlagMeansComplete
  <2> QED
    BY <2>1, <2>2
<1> QED
  BY <1>1, <1>2, <1>3, <1>4 DEF DataInv

\* The tree loses files once it has no flag.
LEMMA RemoveTreeInv ==
    ASSUME DataInv, NEW p \in Procs, RemoveTree(p)
    PROVE  DataInv'
<1>1. TypeOK'
  <2>1. At(p, "removeTree", "removeTreeDir") /\ UNCHANGED <<storeVars, stuck, lockVars>>
    BY DEF RemoveTree
  <2>2. "removeTreeDir" \in Control
    BY DEF Control
  <2>3. flag' \in [Keys -> BOOLEAN]
    BY DEF DataInv, TypeOK, RemoveTree
  <2>4. tree' \in [Keys -> {"none", "partial", "full"}]
    BY DEF DataInv, TypeOK, RemoveTree
  <2> QED
    BY <2>1, <2>2, <2>3, <2>4, AtTyped DEF DataInv, TypeOK
<1>2. HolderInv'
  BY StoreAssumption DEF DataInv, TypeOK, HolderInv, Control, RemoveTree, At
<1>3. ImageInv' /\ RecordedHasBlob'
  BY StoreAssumption DEF DataInv, TypeOK, HolderInv, ImageInv, RecordedHasBlob, RemoveTree, At
<1>4. TreeInv' /\ FlagMeansComplete'
  BY StoreAssumption DEF DataInv, TypeOK, HolderInv, TreeInv, FlagMeansComplete, RemoveTree, At
<1> QED
  BY <1>1, <1>2, <1>3, <1>4 DEF DataInv

\* The tree's directory goes.
LEMMA RemoveTreeDirInv ==
    ASSUME DataInv, NEW p \in Procs, RemoveTreeDir(p)
    PROVE  DataInv'
<1>1. TypeOK'
  BY StoreAssumption DEF DataInv, TypeOK, HolderInv, Control, RemoveTreeDir, At
<1>2. HolderInv'
  BY StoreAssumption DEF DataInv, TypeOK, HolderInv, Control, RemoveTreeDir, At
<1>3. ImageInv' /\ RecordedHasBlob'
  BY StoreAssumption DEF DataInv, TypeOK, HolderInv, ImageInv, RecordedHasBlob, RemoveTreeDir, At
<1>4. TreeInv' /\ FlagMeansComplete'
  BY StoreAssumption DEF DataInv, TypeOK, HolderInv, TreeInv, FlagMeansComplete, RemoveTreeDir, At
<1> QED
  BY <1>1, <1>2, <1>3, <1>4 DEF DataInv

\* The removal ends, or the render goes on with no tree.
LEMMA TreeRemovedInv ==
    ASSUME DataInv, NEW p \in Procs, TreeRemoved(p)
    PROVE  DataInv'
<1>1. TypeOK'
  <2>1. CASE cmd[p] = "rm"
    <3>1. Quit(p)
      BY <2>1 DEF DataInv, TypeOK, HolderInv, TreeRemoved, At
    <3> QED
      BY <3>1, QuitTyped DEF DataInv, TypeOK, TreeRemoved
  <2>2. CASE cmd[p] # "rm"
    BY <2>2, StoreAssumption DEF DataInv, TypeOK, HolderInv, Control, TreeRemoved, At
  <2> QED
    BY <2>1, <2>2
<1>2. HolderInv'
  <2>1. CASE cmd[p] = "rm"
    <3>1. Quit(p)
      BY <2>1 DEF DataInv, TypeOK, HolderInv, TreeRemoved, At
    <3> QED
      BY <3>1, QuitHolds DEF DataInv
  <2>2. CASE cmd[p] # "rm"
    BY <2>2, StoreAssumption DEF DataInv, TypeOK, HolderInv, TreeRemoved, At
  <2> QED
    BY <2>1, <2>2
<1>3. ImageInv' /\ RecordedHasBlob'
  BY StoreAssumption DEF DataInv, TypeOK, HolderInv, ImageInv, RecordedHasBlob, TreeRemoved, Quit, At
<1>4. TreeInv' /\ FlagMeansComplete'
  BY StoreAssumption DEF DataInv, TypeOK, HolderInv, TreeInv, FlagMeansComplete, TreeRemoved, Quit, At
<1> QED
  BY <1>1, <1>2, <1>3, <1>4 DEF DataInv

\* A new tree has no flag.
LEMMA MkdirInv ==
    ASSUME DataInv, NEW p \in Procs, Mkdir(p)
    PROVE  DataInv'
<1>1. TypeOK'
  BY StoreAssumption DEF DataInv, TypeOK, HolderInv, Control, Mkdir
<1>2. HolderInv'
  BY StoreAssumption DEF DataInv, TypeOK, HolderInv, Control, Mkdir
<1>3. ImageInv' /\ RecordedHasBlob'
  BY StoreAssumption DEF DataInv, TypeOK, HolderInv, ImageInv, RecordedHasBlob, Mkdir
<1>4. TreeInv' /\ FlagMeansComplete'
  BY StoreAssumption DEF DataInv, TypeOK, HolderInv, TreeInv, FlagMeansComplete, Mkdir
<1> QED
  BY <1>1, <1>2, <1>3, <1>4 DEF DataInv

\* The tree is complete under its lock.
LEMMA ExtractInv ==
    ASSUME DataInv, NEW p \in Procs, Extract(p)
    PROVE  DataInv'
<1>1. TypeOK'
  BY StoreAssumption DEF DataInv, TypeOK, HolderInv, Control, Extract, At
<1>2. HolderInv'
  BY StoreAssumption DEF DataInv, TypeOK, HolderInv, Control, Extract, At
<1>3. ImageInv' /\ RecordedHasBlob'
  BY StoreAssumption DEF DataInv, TypeOK, HolderInv, ImageInv, RecordedHasBlob, Extract, At
<1>4. TreeInv' /\ FlagMeansComplete'
  BY StoreAssumption DEF DataInv, TypeOK, HolderInv, TreeInv, FlagMeansComplete, Extract, At
<1> QED
  BY <1>1, <1>2, <1>3, <1>4 DEF DataInv

\* A complete tree gets its flag.
LEMMA SetFlagInv ==
    ASSUME DataInv, NEW p \in Procs, SetFlag(p)
    PROVE  DataInv'
<1>1. TypeOK'
  BY StoreAssumption DEF DataInv, TypeOK, HolderInv, Control, SetFlag, At
<1>2. HolderInv'
  BY StoreAssumption DEF DataInv, TypeOK, HolderInv, Control, SetFlag, At
<1>3. ImageInv' /\ RecordedHasBlob'
  BY StoreAssumption DEF DataInv, TypeOK, HolderInv, ImageInv, RecordedHasBlob, SetFlag, At
<1>4. TreeInv' /\ FlagMeansComplete'
  BY StoreAssumption DEF DataInv, TypeOK, HolderInv, TreeInv, FlagMeansComplete, SetFlag, At
<1> QED
  BY <1>1, <1>2, <1>3, <1>4 DEF DataInv

\* RenderTreeStore returns.
LEMMA UnlockTreeInv ==
    ASSUME DataInv, NEW p \in Procs, UnlockTree(p)
    PROVE  DataInv'
<1>1. TypeOK'
  <2>1. CASE rebuild[p]
    <3>1. Quit(p)
      BY <2>1 DEF DataInv, TypeOK, HolderInv, UnlockTree, Release, At
    <3> QED
      BY <3>1, QuitTyped DEF DataInv, TypeOK, UnlockTree
  <2>2. CASE ~rebuild[p]
    <3>1. At(p, "unlockTree", "checkLock") /\ Release(p, "tree")
          /\ UNCHANGED <<storeVars, treeVars>>
      BY <2>2 DEF UnlockTree
    <3>2. "checkLock" \in Control /\ "tree" \in LockNames
      BY DEF Control
    <3> QED
      BY <3>1, <3>2, AtTyped, ReleaseTyped DEF DataInv, TypeOK
  <2> QED
    BY <2>1, <2>2
<1>2. HolderInv'
  <2>1. CASE rebuild[p]
    <3>1. Quit(p)
      BY <2>1 DEF DataInv, TypeOK, HolderInv, UnlockTree, Release, At
    <3> QED
      BY <3>1, QuitHolds DEF DataInv
  <2>2. CASE ~rebuild[p]
    BY <2>2, StoreAssumption DEF DataInv, TypeOK, HolderInv, UnlockTree, Release, At
  <2> QED
    BY <2>1, <2>2
<1>3. ImageInv' /\ RecordedHasBlob'
  BY StoreAssumption DEF DataInv, TypeOK, HolderInv, ImageInv, RecordedHasBlob, UnlockTree,
     Release, Quit, At
<1>4. TreeInv' /\ FlagMeansComplete'
  BY StoreAssumption DEF DataInv, TypeOK, HolderInv, TreeInv, FlagMeansComplete, UnlockTree,
     Release, Quit, At
<1> QED
  BY <1>1, <1>2, <1>3, <1>4 DEF DataInv

\* CheckTreeStore gets its shared lock.
LEMMA LockCheckedInv ==
    ASSUME DataInv, NEW p \in Procs, LockChecked(p)
    PROVE  DataInv'
<1>1. TypeOK'
  BY StoreAssumption DEF DataInv, TypeOK, HolderInv, Control, LockChecked, LockShared, At
<1>2. HolderInv'
  BY StoreAssumption DEF DataInv, TypeOK, HolderInv, Control, LockChecked, LockShared, At
<1>3. ImageInv' /\ RecordedHasBlob'
  BY StoreAssumption DEF DataInv, TypeOK, HolderInv, ImageInv, RecordedHasBlob, LockChecked,
     LockShared, At
<1>4. TreeInv' /\ FlagMeansComplete'
  BY StoreAssumption DEF DataInv, TypeOK, HolderInv, TreeInv, FlagMeansComplete, LockChecked,
     LockShared, At
<1> QED
  BY <1>1, <1>2, <1>3, <1>4 DEF DataInv

\* A bad tree is rendered again under a new lock.
LEMMA CheckInv ==
    ASSUME DataInv, NEW p \in Procs, Check(p)
    PROVE  DataInv'
<1>1. TypeOK'
  <2>1. CASE tree[key[p]] = "full"
    <3>1. Quit(p)
      BY <2>1 DEF DataInv, TypeOK, HolderInv, Check, Release
    <3> QED
      BY <3>1, QuitTyped DEF DataInv, TypeOK, Check
  <2>2. CASE tree[key[p]] # "full"
    <3>1. Release(p, "tree") /\ UNCHANGED <<storeVars, treeVars>>
      BY <2>2 DEF Check
    <3>2. pc' \in [Procs -> Control] /\ rebuild' \in [Procs -> BOOLEAN]
      BY <2>2 DEF DataInv, TypeOK, Check, Control
    <3> QED
      BY <2>2, <3>1, <3>2, ReleaseTyped DEF DataInv, TypeOK, Check
  <2> QED
    BY <2>1, <2>2
<1>2. HolderInv'
  <2>1. CASE tree[key[p]] = "full"
    <3>1. Quit(p)
      BY <2>1 DEF DataInv, TypeOK, HolderInv, Check, Release
    <3> QED
      BY <3>1, QuitHolds DEF DataInv
  <2>2. CASE tree[key[p]] # "full"
    BY <2>2, StoreAssumption DEF DataInv, TypeOK, HolderInv, Check, Release
  <2> QED
    BY <2>1, <2>2
<1>3. ImageInv' /\ RecordedHasBlob'
  BY StoreAssumption DEF DataInv, TypeOK, HolderInv, ImageInv, RecordedHasBlob, Check, Release, Quit
<1>4. TreeInv' /\ FlagMeansComplete'
  BY StoreAssumption DEF DataInv, TypeOK, HolderInv, TreeInv, FlagMeansComplete, Check, Release, Quit
<1> QED
  BY <1>1, <1>2, <1>3, <1>4 DEF DataInv

\* The key is looked up.
LEMMA ResolveInv ==
    ASSUME DataInv, NEW p \in Procs, Resolve(p)
    PROVE  DataInv'
<1>1. TypeOK'
  <2>1. CASE key[p] \in info
    BY <2>1, StoreAssumption DEF DataInv, TypeOK, HolderInv, Control, Resolve, At
  <2>2. CASE key[p] \notin info
    <3>1. Quit(p)
      BY <2>2 DEF DataInv, TypeOK, HolderInv, Resolve, At
    <3> QED
      BY <3>1, QuitTyped DEF DataInv, TypeOK, Resolve
  <2> QED
    BY <2>1, <2>2
<1>2. HolderInv'
  <2>1. CASE key[p] \in info
    BY <2>1, StoreAssumption DEF DataInv, TypeOK, HolderInv, Resolve, At
  <2>2. CASE key[p] \notin info
    <3>1. Quit(p)
      BY <2>2 DEF DataInv, TypeOK, HolderInv, Resolve, At
    <3> QED
      BY <3>1, QuitHolds DEF DataInv
  <2> QED
    BY <2>1, <2>2
<1>3. ImageInv' /\ RecordedHasBlob'
  BY StoreAssumption DEF DataInv, TypeOK, HolderInv, ImageInv, RecordedHasBlob, Resolve, Quit, At
<1>4. TreeInv' /\ FlagMeansComplete'
  BY StoreAssumption DEF DataInv, TypeOK, HolderInv, TreeInv, FlagMeansComplete, Resolve, Quit, At
<1> QED
  BY <1>1, <1>2, <1>3, <1>4 DEF DataInv

\* The image is locked for reading.
LEMMA ShareInv ==
    ASSUME DataInv, NEW p \in Procs, Share(p)
    PROVE  DataInv'
<1>1. TypeOK'
  BY StoreAssumption DEF DataInv, TypeOK, HolderInv, Control, Share, LockShared, At
<1>2. HolderInv'
  BY StoreAssumption DEF DataInv, TypeOK, HolderInv, Control, Share, LockShared, At
<1>3. ImageInv' /\ RecordedHasBlob'
  BY StoreAssumption DEF DataInv, TypeOK, HolderInv, ImageInv, RecordedHasBlob, Share, LockShared, At
<1>4. TreeInv' /\ FlagMeansComplete'
  BY StoreAssumption DEF DataInv, TypeOK, HolderInv, TreeInv, FlagMeansComplete, Share, LockShared, At
<1> QED
  BY <1>1, <1>2, <1>3, <1>4 DEF DataInv

\* The image is unlocked after one of its parts was read.
LEMMA ReadInv ==
    ASSUME DataInv, NEW p \in Procs, Read(p)
    PROVE  DataInv'
<1>1. TypeOK'
  <2>1. CASE cmd[p] = "read" \/ ~Complete(p)
    <3>1. Quit(p)
      BY <2>1 DEF DataInv, TypeOK, HolderInv, Read, Release, Complete
    <3> QED
      BY <3>1, QuitTyped DEF DataInv, TypeOK, Read
  <2>2. CASE cmd[p] = "render" /\ Complete(p)
    <3>1. Release(p, "image") /\ UNCHANGED <<storeVars, treeVars, cmd, key, url, rebuild>>
      BY <2>2 DEF Read
    <3>2. pc' \in [Procs -> Control] /\ part' \in [Procs -> {"manifest", "blob"}]
      BY <2>2 DEF DataInv, TypeOK, Read, Control
    <3> QED
      BY <3>1, <3>2, ReleaseTyped DEF DataInv, TypeOK
  <2> QED
    BY <2>1, <2>2 DEF Read
<1>2. HolderInv'
  <2>1. CASE cmd[p] = "read" \/ ~Complete(p)
    <3>1. Quit(p)
      BY <2>1 DEF DataInv, TypeOK, HolderInv, Read, Release, Complete
    <3> QED
      BY <3>1, QuitHolds DEF DataInv
  <2>2. CASE cmd[p] = "render" /\ Complete(p)
    BY <2>2, StoreAssumption, SMTT(30) DEF DataInv, TypeOK, HolderInv, Read, Release, Complete
  <2> QED
    BY <2>1, <2>2 DEF Read
<1>3. ImageInv' /\ RecordedHasBlob'
  BY StoreAssumption DEF DataInv, TypeOK, HolderInv, ImageInv, RecordedHasBlob, Read, Release,
     Quit, Complete
<1>4. TreeInv' /\ FlagMeansComplete'
  BY StoreAssumption DEF DataInv, TypeOK, HolderInv, TreeInv, FlagMeansComplete, Read, Release,
     Quit, Complete
<1> QED
  BY <1>1, <1>2, <1>3, <1>4 DEF DataInv

\* A process ends anywhere.
LEMMA StopInv ==
    ASSUME DataInv, NEW p \in Procs, Stop(p)
    PROVE  DataInv'
<1>1. TypeOK'
  BY StoreAssumption DEF DataInv, TypeOK, HolderInv, Control, Stop, Quit
<1>2. HolderInv'
  BY StoreAssumption DEF DataInv, TypeOK, HolderInv, Control, Stop, Quit
<1>3. ImageInv' /\ RecordedHasBlob'
  BY StoreAssumption DEF DataInv, TypeOK, HolderInv, ImageInv, RecordedHasBlob, Stop, Quit
<1>4. TreeInv' /\ FlagMeansComplete'
  BY StoreAssumption DEF DataInv, TypeOK, HolderInv, TreeInv, FlagMeansComplete, Stop, Quit
<1> QED
  BY <1>1, <1>2, <1>3, <1>4 DEF DataInv

\* The record of a whole image is lost.
LEMMA RecordLostInv ==
    ASSUME DataInv, NEW p \in Procs, RecordLost(p)
    PROVE  DataInv'
<1>1. TypeOK' /\ HolderInv'
  BY StoreAssumption DEF DataInv, TypeOK, HolderInv, Control, RecordLost, At
<1>2. ImageInv' /\ RecordedHasBlob'
  BY StoreAssumption DEF DataInv, TypeOK, HolderInv, ImageInv, RecordedHasBlob, RecordLost, At
<1>3. TreeInv' /\ FlagMeansComplete'
  BY StoreAssumption DEF DataInv, TypeOK, HolderInv, TreeInv, FlagMeansComplete, RecordLost, At
<1> QED
  BY <1>1, <1>2, <1>3 DEF DataInv

\* The remote of a fetch is lost: the fetch just ends.
LEMMA WriteRemoteLostInv ==
    ASSUME DataInv, NEW p \in Procs, WriteRemoteLost(p)
    PROVE  DataInv'
<1>1. Stop(p)
  BY DEF WriteRemoteLost, Stop
<1> QED
  BY <1>1, StopInv

\* The record survives a removal that goes on to the files.
LEMMA ForgetLostInv ==
    ASSUME DataInv, NEW p \in Procs, ForgetLost(p)
    PROVE  DataInv'
<1>1. TypeOK' /\ HolderInv'
  BY StoreAssumption DEF DataInv, TypeOK, HolderInv, Control, ForgetLost, At
<1>2. ImageInv' /\ RecordedHasBlob'
  BY StoreAssumption DEF DataInv, TypeOK, HolderInv, ImageInv, RecordedHasBlob, ForgetLost, At
<1>3. TreeInv' /\ FlagMeansComplete'
  BY StoreAssumption DEF DataInv, TypeOK, HolderInv, TreeInv, FlagMeansComplete, ForgetLost, At
<1> QED
  BY <1>1, <1>2, <1>3 DEF DataInv

\* The flag stays on a tree that is about to lose its files.
LEMMA UnflagFailsInv ==
    ASSUME DataInv, NEW p \in Procs, UnflagFails(p)
    PROVE  DataInv'
<1>1. TypeOK' /\ HolderInv'
  BY StoreAssumption DEF DataInv, TypeOK, HolderInv, Control, UnflagFails, At
<1>2. ImageInv' /\ RecordedHasBlob'
  BY StoreAssumption DEF DataInv, TypeOK, HolderInv, ImageInv, RecordedHasBlob, UnflagFails, At
<1>3. TreeInv' /\ FlagMeansComplete'
  BY StoreAssumption DEF DataInv, TypeOK, HolderInv, TreeInv, FlagMeansComplete, UnflagFails, At
<1> QED
  BY <1>1, <1>2, <1>3 DEF DataInv

-----------------------------------------------------------------------------
(* The data of the store.                                                    *)

\* The empty store.
LEMMA InitInv == Init => DataInv
  BY StoreAssumption DEF Init, DataInv, TypeOK, HolderInv, ImageInv, TreeInv, RecordedHasBlob,
     FlagMeansComplete, Control

\* Every step, a stuttering one included.
LEMMA NextInv == DataInv /\ [Next]_vars => DataInv'
<1> SUFFICES ASSUME DataInv, [Next]_vars PROVE DataInv'
  OBVIOUS
<1>1. CASE UNCHANGED vars
  BY <1>1 DEF vars, DataInv, TypeOK, HolderInv, ImageInv, TreeInv, RecordedHasBlob, FlagMeansComplete
<1>2. ASSUME NEW p \in Procs, Start(p) PROVE DataInv'
  BY <1>2, StartFetchInv, StartRmInv, StartRenderInv, StartReadInv DEF Start
<1>3. ASSUME NEW p \in Procs, Stop(p) PROVE DataInv'
  BY <1>3, StopInv
<1>4. ASSUME NEW p \in Procs,
             GetRemote(p) \/ NotModified(p) \/ LockFetched(p) \/ Import(p) \/ TruncateManifest(p)
      PROVE  DataInv'
  BY <1>4, GetRemoteInv, NotModifiedInv, LockFetchedInv, ImportInv, TruncateManifestInv
<1>5. ASSUME NEW p \in Procs,
             WriteManifest(p) \/ Record(p) \/ UnlockFetched(p) \/ WriteRemote(p)
      PROVE  DataInv'
  BY <1>5, WriteManifestInv, RecordInv, UnlockFetchedInv, WriteRemoteInv
<1>6. ASSUME NEW p \in Procs,
             \/ LockRemoved(p) \/ Forget(p) \/ EraseBlob(p)
             \/ EraseManifest(p) \/ UnlockErased(p) \/ LockRemovedTree(p)
      PROVE  DataInv'
  BY <1>6, LockRemovedInv, ForgetInv, EraseBlobInv,
     EraseManifestInv, UnlockErasedInv, LockRemovedTreeInv
<1>7. ASSUME NEW p \in Procs,
             \/ LockTree(p) \/ IsRendered(p) \/ Unflag(p)
             \/ RemoveTree(p) \/ RemoveTreeDir(p) \/ TreeRemoved(p)
      PROVE  DataInv'
  BY <1>7, LockTreeInv, IsRenderedInv, UnflagInv,
     RemoveTreeInv, RemoveTreeDirInv, TreeRemovedInv
<1>8. ASSUME NEW p \in Procs,
             \/ Mkdir(p) \/ Extract(p) \/ SetFlag(p)
             \/ UnlockTree(p) \/ LockChecked(p) \/ Check(p)
      PROVE  DataInv'
  BY <1>8, MkdirInv, ExtractInv, SetFlagInv, UnlockTreeInv, LockCheckedInv, CheckInv
<1>9. ASSUME NEW p \in Procs,
             Resolve(p) \/ Share(p) \/ Read(p)
      PROVE  DataInv'
  BY <1>9, ResolveInv, ShareInv, ReadInv
<1>10. ASSUME NEW p \in Procs, Fault(p) PROVE DataInv'
  BY <1>10, RecordLostInv, WriteRemoteLostInv, ForgetLostInv, UnflagFailsInv DEF Fault
<1> QED
  BY <1>1, <1>2, <1>3, <1>4, <1>5, <1>6, <1>7, <1>8, <1>9, <1>10 DEF Next, Step, TakeLock

-----------------------------------------------------------------------------
(* The owners of the locks.                                                  *)

\* Control points at which a process may have the lock of a tree.
TreeOwned == TreeHeld \cup {"resolve", "share", "read"}

\* A step of p that leaves the locks alone.
LEMMA KeptOwner ==
    ASSUME TypeOK, OwnerInv, NEW p \in Procs, UNCHANGED lockVars,
           \A q \in Procs \ {p} : pc'[q] = pc[q] /\ key'[q] = key[q],
           pc[p] \notin {"read", "check"},
           pc[p] \in ImageHeld => pc'[p] \in ImageHeld /\ key'[p] = key[p],
           pc[p] \in TreeOwned => pc'[p] \in TreeOwned /\ key'[p] = key[p]
    PROVE  OwnerInv'
<1>0. ex' = ex /\ sh' = sh
  OBVIOUS
<1> SUFFICES ASSUME NEW k \in Keys
             PROVE  /\ \A l \in LockNames : ex[l][k] # NoProc => sh[l][k] = {}
                    /\ \A q \in Procs :
                        /\ ex["image"][k] = q => key'[q] = k /\ pc'[q] \in ImageHeld
                        /\ q \in sh["image"][k] => key'[q] = k /\ pc'[q] = "read"
                        /\ ex["tree"][k] = q => key'[q] = k /\ pc'[q] \in TreeOwned
                        /\ q \in sh["tree"][k] => key'[q] = k /\ pc'[q] = "check"
  BY <1>0 DEF OwnerInv, TreeOwned
<1>1. /\ \A l \in LockNames : ex[l][k] # NoProc => sh[l][k] = {}
      /\ \A q \in Procs :
            /\ ex["image"][k] = q => key[q] = k /\ pc[q] \in ImageHeld
            /\ q \in sh["image"][k] => key[q] = k /\ pc[q] = "read"
            /\ ex["tree"][k] = q => key[q] = k /\ pc[q] \in TreeOwned
            /\ q \in sh["tree"][k] => key[q] = k /\ pc[q] = "check"
  BY DEF OwnerInv, TreeOwned
<1> QED
  BY <1>1

\* A command ends.
LEMMA QuitOwner ==
    ASSUME TypeOK, OwnerInv, NEW p \in Procs, Quit(p)
    PROVE  OwnerInv'
  BY StoreAssumption DEF TypeOK, OwnerInv, Quit

\* A command gets an exclusive lock, and had none.
LEMMA ExclusiveOwner ==
    ASSUME TypeOK, OwnerInv, NEW p \in Procs, NEW l \in LockNames, LockExclusive(p, l),
           key[p] \in Keys, NEW b, At(p, pc[p], b),
           pc[p] \in {"download", "revalidate", "rmLock", "rmTreeLock", "renderLock"},
           l = "image" => b \in ImageHeld,
           l = "tree" => b \in TreeHeld
    PROVE  OwnerInv'
  BY StoreAssumption, SMTT(30) DEF TypeOK, OwnerInv, LockExclusive, At

\* A command gets a shared lock.
LEMMA SharedOwner ==
    ASSUME TypeOK, OwnerInv, NEW p \in Procs, key[p] \in Keys,
           \/ At(p, "share", "read") /\ LockShared(p, "image")
           \/ At(p, "checkLock", "check") /\ LockShared(p, "tree")
    PROVE  OwnerInv'
<1>1. CASE At(p, "share", "read") /\ LockShared(p, "image")
  BY <1>1, StoreAssumption DEF TypeOK, OwnerInv, LockShared, At
<1>2. CASE At(p, "checkLock", "check") /\ LockShared(p, "tree")
  BY <1>2, StoreAssumption DEF TypeOK, OwnerInv, LockShared, At
<1> QED
  BY <1>1, <1>2

\* A command closes a lock and goes on.
LEMMA ReleaseOwner ==
    ASSUME TypeOK, OwnerInv, NEW p \in Procs, NEW b, Goto(p, b), UNCHANGED key,
           \/ Release(p, "image") /\ pc[p] \in ImageHeld
           \/ Release(p, "image") /\ pc[p] = "read" /\ b \in TreeOwned \ {"share", "read"}
           \/ Release(p, "tree") /\ pc[p] \in {"unlockTree", "check"}
    PROVE  OwnerInv'
<1>1. CASE Release(p, "image") /\ pc[p] \in ImageHeld
  BY <1>1, StoreAssumption DEF TypeOK, OwnerInv, Release
<1>2. CASE Release(p, "image") /\ pc[p] = "read" /\ b \in TreeOwned \ {"share", "read"}
  BY <1>2, StoreAssumption DEF TypeOK, OwnerInv, Release, TreeOwned
<1>3. CASE Release(p, "tree") /\ pc[p] \in {"unlockTree", "check"}
  BY <1>3, StoreAssumption DEF TypeOK, OwnerInv, Release
<1> QED
  BY <1>1, <1>2, <1>3

\* Every step keeps the owners.
LEMMA NextOwner ==
    ASSUME DataInv, OwnerInv, [Next]_vars
    PROVE  OwnerInv'
<1>0. TypeOK /\ HolderInv
  BY DEF DataInv
<1>1. CASE UNCHANGED vars
  BY <1>1 DEF vars, OwnerInv
<1>2. CASE Next
  <2> PICK p \in Procs : Start(p) \/ Step(p) \/ Stop(p) \/ Fault(p)
    BY <1>2 DEF Next
  <2>1. CASE Quit(p)
    BY <1>0, <2>1, QuitOwner
  <2>2. CASE Start(p)
    <3>1. /\ UNCHANGED lockVars /\ pc[p] = "idle"
          /\ \A q \in Procs \ {p} : pc'[q] = pc[q] /\ key'[q] = key[q]
      BY <1>0, <2>2 DEF Start, StartFetch, StartRm, StartRender, StartRead, TypeOK
    <3> QED
      BY <1>0, <3>1, KeptOwner DEF TreeOwned
  <2>3. CASE \/ Import(p) \/ TruncateManifest(p) \/ WriteManifest(p) \/ Record(p) \/ EraseBlob(p)
             \/ EraseManifest(p) \/ (GetRemote(p) /\ ~Quit(p)) \/ (Forget(p) /\ ~Quit(p))
             \/ RecordLost(p) \/ ForgetLost(p)
    <3>1. UNCHANGED lockVars
      BY <2>3 DEF Import, TruncateManifest, WriteManifest, Record, EraseBlob, EraseManifest,
                  GetRemote, Forget, RecordLost, ForgetLost
    <3>2. \E a \in ImageHeld \cup {"fetch"} : \E b \in Control :
              At(p, a, b) /\ (a # "fetch" => b \in ImageHeld)
      BY <2>3 DEF Import, TruncateManifest, WriteManifest, Record, EraseBlob, EraseManifest,
                  GetRemote, Forget, RecordLost, ForgetLost, Control
    <3>3. /\ \A q \in Procs \ {p} : pc'[q] = pc[q] /\ key'[q] = key[q]
          /\ key'[p] = key[p] /\ pc[p] \in ImageHeld \cup {"fetch"}
          /\ pc[p] \in ImageHeld => pc'[p] \in ImageHeld
      BY <1>0, <3>2 DEF At, TypeOK
    <3> QED
      BY <1>0, <3>1, <3>3, KeptOwner DEF TreeOwned
  <2>4. CASE \/ IsRendered(p) \/ Unflag(p) \/ RemoveTree(p) \/ RemoveTreeDir(p) \/ Mkdir(p)
             \/ Extract(p) \/ SetFlag(p) \/ (TreeRemoved(p) /\ ~Quit(p)) \/ (Resolve(p) /\ ~Quit(p))
             \/ UnflagFails(p)
    <3>1. UNCHANGED lockVars
      BY <2>4 DEF IsRendered, Unflag, RemoveTree, RemoveTreeDir, Mkdir, Extract, SetFlag, TreeRemoved,
                  Resolve, UnflagFails
    <3>2. pc[p] \in TreeOwned \ {"read"} /\ UNCHANGED key /\ \E b \in TreeOwned : Goto(p, b)
      BY <2>4 DEF IsRendered, Unflag, RemoveTree, RemoveTreeDir, Mkdir, Extract, SetFlag, TreeRemoved,
                  Resolve, UnflagFails, At, TreeOwned
    <3>3. /\ \A q \in Procs \ {p} : pc'[q] = pc[q] /\ key'[q] = key[q]
          /\ key'[p] = key[p] /\ pc'[p] \in TreeOwned
      BY <1>0, <3>2 DEF TypeOK
    <3> QED
      BY <1>0, <3>1, <3>2, <3>3, KeptOwner DEF TreeOwned
  <2>5. CASE LockFetched(p) \/ LockRemoved(p)
    <3>1. key[p] \in Keys /\ pc[p] \in {"download", "revalidate", "rmLock"}
      BY <1>0, <2>5 DEF LockFetched, LockRemoved, At, HolderInv
    <3>2. LockExclusive(p, "image") /\ \E b \in ImageHeld : At(p, pc[p], b)
      BY <2>5 DEF LockFetched, LockRemoved, At
    <3> QED
      BY <1>0, <3>1, <3>2, ExclusiveOwner
  <2>6. CASE LockRemovedTree(p) \/ LockTree(p)
    <3>1. key[p] \in Keys /\ pc[p] \in {"rmTreeLock", "renderLock"}
      BY <1>0, <2>6 DEF LockRemovedTree, LockTree, At, HolderInv
    <3>2. LockExclusive(p, "tree") /\ \E b \in TreeHeld : At(p, pc[p], b)
      BY <2>6 DEF LockRemovedTree, LockTree, At
    <3> QED
      BY <1>0, <3>1, <3>2, ExclusiveOwner
  <2>7. CASE Share(p) \/ LockChecked(p)
    <3>1. key[p] \in Keys
      BY <1>0, <2>7 DEF Share, LockChecked, At, HolderInv
    <3> QED
      BY <1>0, <2>7, <3>1, SharedOwner DEF Share, LockChecked
  <2>8. CASE (UnlockFetched(p) /\ ~Quit(p)) \/ UnlockErased(p)
    <3>1. pc[p] \in ImageHeld /\ Release(p, "image") /\ UNCHANGED key /\ \E b \in Control : Goto(p, b)
      BY <2>8 DEF UnlockFetched, UnlockErased, At, Control
    <3> QED
      BY <1>0, <3>1, ReleaseOwner
  <2>9. CASE (UnlockTree(p) /\ ~Quit(p)) \/ (Check(p) /\ ~Quit(p))
    <3>1. /\ pc[p] \in {"unlockTree", "check"} /\ Release(p, "tree") /\ UNCHANGED key
          /\ \E b \in Control : Goto(p, b)
      BY <2>9 DEF UnlockTree, Check, At, Control
    <3> QED
      BY <1>0, <3>1, ReleaseOwner
  <2>10. CASE Read(p) /\ ~Quit(p)
    <3>1. /\ pc[p] = "read" /\ Release(p, "image") /\ UNCHANGED key
          /\ \E b \in TreeOwned \ {"share", "read"} : Goto(p, b)
      BY <2>10 DEF Read, TreeOwned
    <3> QED
      BY <1>0, <3>1, ReleaseOwner
  <2>11. CASE NotModified(p) \/ WriteRemote(p) \/ WriteRemoteLost(p) \/ Stop(p)
    BY <2>1, <2>11 DEF NotModified, WriteRemote, WriteRemoteLost, Stop
  <2> QED
    BY <2>1, <2>2, <2>3, <2>4, <2>5, <2>6, <2>7, <2>8, <2>9, <2>10, <2>11 DEF Step, TakeLock, Fault
<1> QED
  BY <1>1, <1>2

-----------------------------------------------------------------------------
(* The invariant and its consequences.                                       *)

\* The inductive invariant holds in every state of every behaviour.
THEOREM StoreInvariance == Spec => []IInv
<1>1. Init => IInv
  <2>1. Init => OwnerInv
    BY StoreAssumption DEF Init, OwnerInv
  <2>2. Init => FaultsTyped
    BY StoreAssumption DEF Init, FaultsTyped
  <2> QED
    BY <2>1, <2>2, InitInv DEF IInv
<1>2. IInv /\ [Next]_vars => IInv'
  <2>1. FaultsTyped /\ [Next]_vars => FaultsTyped'
    BY StoreAssumption DEF Next, Fault, FaultsTyped, vars
  <2> QED
    BY <2>1, NextInv, NextOwner DEF IInv
<1> QED
  BY <1>1, <1>2, PTL DEF Spec

\* Whatever dies where, the database refers to no image without its blob (WriteACI records
\* last, RemoveACI forgets first, both under the image's lock), except one whose removal lost
\* its commit, until it is fetched or removed again.
THEOREM RecordedImagesHaveBlobs == Spec => []RecordedHasBlob
<1>1. IInv => RecordedHasBlob
  BY DEF IInv, DataInv
<1> QED
  BY <1>1, StoreInvariance, PTL

\* WriteACI records whole images, although anybody may fetch or remove the same image meanwhile.
THEOREM FetchesRecordWholeImages == Spec => []RecordsWholeImage
<1>1. IInv => RecordsWholeImage
  BY DEF IInv, DataInv, ImageInv, RecordsWholeImage
<1> QED
  BY <1>1, StoreInvariance, PTL

\* A tree with the "rendered" file is complete, at every moment of every render and removal,
\* except one whose removal could not remove that file first.
THEOREM FlaggedTreesComplete == Spec => []FlagMeansComplete
<1>1. IInv => FlagMeansComplete
  BY DEF IInv, DataInv
<1> QED
  BY <1>1, StoreInvariance, PTL

-----------------------------------------------------------------------------
(* Waiting for locks.                                                        *)

\* Who has the lock of an image waits for nobody.
LEMMA ImageOwnerRuns ==
    ASSUME IInv, NEW p \in Procs, NEW k \in Keys, ex["image"][k] = p \/ p \in sh["image"][k], NEW q
    PROVE  ~WaitsFor(p, q)
<1>1. pc[p] \in ImageHeld \cup {"read"}
  BY DEF IInv, OwnerInv
<1> QED
  BY <1>1 DEF WaitsFor

\* Who has the lock of a tree waits, if at all, for who has the lock of an image.
LEMMA TreeOwnerWaits ==
    ASSUME IInv, NEW p \in Procs, NEW k \in Keys, ex["tree"][k] = p \/ p \in sh["tree"][k],
           NEW q \in Procs, WaitsFor(p, q)
    PROVE  \E j \in Keys : ex["image"][j] = q \/ q \in sh["image"][j]
<1>1. key[p] = k /\ pc[p] \in TreeOwned \cup {"check"}
  BY DEF IInv, OwnerInv, TreeOwned
<1> QED
  BY <1>1 DEF WaitsFor, TreeOwned

\* Commands on the store never wait for each other in a circle, however many they are.
THEOREM StoreLocksAcyclic == Spec => []NoDeadlock
<1>1. IInv => NoDeadlock
  <2> SUFFICES ASSUME IInv, NEW S \in SUBSET Procs, S # {},
                      \A p \in S : \E q \in S : WaitsFor(p, q)
               PROVE  FALSE
    BY DEF NoDeadlock
  <2>1. ASSUME NEW q \in S, NEW k \in Keys, ex["image"][k] = q \/ q \in sh["image"][k] PROVE FALSE
    BY <2>1, ImageOwnerRuns
  <2>2. ASSUME NEW q \in S, NEW k \in Keys, ex["tree"][k] = q \/ q \in sh["tree"][k] PROVE FALSE
    <3>1. PICK r \in S : WaitsFor(q, r)
      OBVIOUS
    <3>2. \E j \in Keys : ex["image"][j] = r \/ r \in sh["image"][j]
      BY <2>2, <3>1, TreeOwnerWaits
    <3> QED
      BY <2>1, <3>2
  <2>3. PICK p \in S, q \in S : WaitsFor(p, q)
    OBVIOUS
  <2>4. key[p] \in Keys
    BY <2>3 DEF IInv, DataInv, HolderInv, WaitsFor
  <2>5. \E l \in LockNames : ex[l][key[p]] = q \/ q \in sh[l][key[p]]
    BY <2>3 DEF WaitsFor
  <2> QED
    BY <2>1, <2>2, <2>4, <2>5
<1> QED
  BY <1>1, StoreInvariance, PTL

-----------------------------------------------------------------------------
(* The use of the locks.                                                     *)

\* What a step does to the locks.
LEMMA LockMoves ==
    ASSUME IInv, [Next]_vars
    PROVE  \/ UNCHANGED lockVars
           \/ \E p \in Procs :
                \/ Quit(p)
                \/ \E l \in LockNames :
                     \/ Release(p, l)
                     \/ key[p] \in Keys /\ (LockExclusive(p, l) \/ LockShared(p, l))
<1>1. CASE UNCHANGED vars
  BY <1>1 DEF vars
<1>2. CASE Next
  <2> PICK p \in Procs : Start(p) \/ Step(p) \/ Stop(p) \/ Fault(p)
    BY <1>2 DEF Next
  <2>1. CASE Start(p) \/ Stop(p)
    BY <2>1 DEF Start, StartFetch, StartRm, StartRender, StartRead, Stop
  <2>2. CASE \/ GetRemote(p) \/ NotModified(p) \/ Import(p) \/ TruncateManifest(p)
             \/ WriteManifest(p) \/ Record(p) \/ UnlockFetched(p) \/ WriteRemote(p)
             \/ Forget(p) \/ EraseBlob(p) \/ EraseManifest(p) \/ UnlockErased(p)
    BY <2>2 DEF GetRemote, NotModified, Import, TruncateManifest, WriteManifest, Record,
                UnlockFetched, WriteRemote, Forget, EraseBlob, EraseManifest, UnlockErased
  <2>3. CASE \/ IsRendered(p) \/ Unflag(p) \/ RemoveTree(p) \/ RemoveTreeDir(p) \/ TreeRemoved(p)
             \/ Mkdir(p) \/ Extract(p) \/ SetFlag(p) \/ UnlockTree(p) \/ Check(p)
             \/ Resolve(p) \/ Read(p)
    BY <2>3 DEF IsRendered, Unflag, RemoveTree, RemoveTreeDir, TreeRemoved, Mkdir, Extract,
                SetFlag, UnlockTree, Check, Resolve, Read
  <2>5. CASE RecordLost(p) \/ WriteRemoteLost(p) \/ ForgetLost(p) \/ UnflagFails(p)
    BY <2>5 DEF RecordLost, WriteRemoteLost, ForgetLost, UnflagFails
  <2>4. CASE \/ LockFetched(p) \/ LockRemoved(p) \/ LockRemovedTree(p) \/ LockTree(p)
             \/ LockChecked(p) \/ Share(p)
    <3>1. key[p] \in Keys
      BY <2>4 DEF IInv, DataInv, HolderInv, LockFetched, LockRemoved, LockRemovedTree, LockTree,
                  LockChecked, Share, At
    <3> QED
      BY <2>4, <3>1 DEF LockFetched, LockRemoved, LockRemovedTree, LockTree, LockChecked, Share
  <2> QED
    BY <2>1, <2>2, <2>3, <2>4, <2>5 DEF Step, TakeLock, Fault
<1> QED
  BY <1>1, <1>2

\* A step shows in each lock as a step of a readers/writer lock, or not at all.
LEMMA RWLockStep ==
    ASSUME IInv, [Next]_vars, NEW l \in LockNames, NEW k \in Keys
    PROVE  [KeyLockOf(l, k)!Next]_<<ex[l][k], sh[l][k]>>
<1>0. TypeOK /\ (ex[l][k] # NoProc => sh[l][k] = {})
  BY DEF IInv, DataInv, OwnerInv
<1>1. ASSUME NEW p \in Procs, ex'[l][k] = IF ex[l][k] = p THEN NoProc ELSE ex[l][k],
             sh'[l][k] = sh[l][k] \ {p}
      PROVE  UNCHANGED <<ex[l][k], sh[l][k]>> \/ KeyLockOf(l, k)!Release(p)
  <2>1. CASE ex[l][k] = p
    BY <1>0, <1>1, <2>1, StoreAssumption DEF KeyLockOf!Release
  <2>2. CASE ex[l][k] # p
    BY <1>1, <2>2 DEF KeyLockOf!Release
  <2> QED
    BY <2>1, <2>2
<1>2. ASSUME NEW p \in Procs, NEW m \in LockNames, key[p] \in Keys, LockExclusive(p, m)
      PROVE  UNCHANGED <<ex[l][k], sh[l][k]>> \/ KeyLockOf(l, k)!AcquireExclusive(p)
  BY <1>0, <1>2 DEF TypeOK, LockExclusive, KeyLockOf!AcquireExclusive
<1>3. ASSUME NEW p \in Procs, NEW m \in LockNames, key[p] \in Keys, LockShared(p, m)
      PROVE  UNCHANGED <<ex[l][k], sh[l][k]>> \/ KeyLockOf(l, k)!AcquireShared(p)
  <2>1. CASE m = l /\ key[p] = k
    <3>1. /\ ex[l][k] = NoProc /\ ex'[l][k] = ex[l][k]
          /\ sh'[l][k] = sh[l][k] \cup {p}
      BY <1>0, <1>3, <2>1 DEF TypeOK, LockShared
    <3>2. CASE p \in sh[l][k]
      BY <3>1, <3>2
    <3>3. CASE p \notin sh[l][k]
      BY <3>1, <3>3 DEF KeyLockOf!AcquireShared
    <3> QED
      BY <3>2, <3>3
  <2>2. CASE ~(m = l /\ key[p] = k)
    BY <1>0, <1>3, <2>2 DEF TypeOK, LockShared
  <2> QED
    BY <2>1, <2>2
<1>4. ASSUME NEW p \in Procs, Quit(p)
      PROVE  UNCHANGED <<ex[l][k], sh[l][k]>> \/ KeyLockOf(l, k)!Release(p)
  BY <1>1, <1>4 DEF Quit
<1>5. ASSUME NEW p \in Procs, NEW m \in LockNames, Release(p, m)
      PROVE  UNCHANGED <<ex[l][k], sh[l][k]>> \/ KeyLockOf(l, k)!Release(p)
  <2>1. CASE m = l
    BY <1>0, <1>1, <1>5, <2>1 DEF Release, TypeOK
  <2>2. CASE m # l
    BY <1>0, <1>5, <2>2 DEF Release, TypeOK
  <2> QED
    BY <2>1, <2>2
<1> QED
  BY <1>2, <1>3, <1>4, <1>5, LockMoves DEF KeyLockOf!Next

\* The commands use every lock as a readers/writer lock: what KeyLock is proved to implement is
\* what the store relies on.
THEOREM StoreUsesRWLocks == Spec => UsesRWLocks
<1> SUFFICES ASSUME NEW l \in LockNames, NEW k \in Keys PROVE Spec => KeyLockOf(l, k)!Spec
  BY DEF UsesRWLocks
<1>1. Init => KeyLockOf(l, k)!Init
  BY DEF Init, KeyLockOf!Init
<1>2. IInv /\ [Next]_vars => [KeyLockOf(l, k)!Next]_<<ex[l][k], sh[l][k]>>
  BY RWLockStep
<1> QED
  BY <1>1, <1>2, StoreInvariance, PTL DEF Spec, KeyLockOf!Spec
=============================================================================
