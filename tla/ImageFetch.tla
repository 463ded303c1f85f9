------------------------------ MODULE ImageFetch ------------------------------
(***************************************************************************)
(* rkt fetch and the fetch of run and prepare (rkt/images.go): one image by  *)
(* name, and with withDeps the images it depends on, breadth first.  Where   *)
(* discovery is off or fails the store is asked for the best match           *)
(* (store/store.go GetACI).                                                  *)
(*                                                                           *)
(* The only label of a name that is told apart is version.  What a server    *)
(* publishes under a name may change from one request to the next.  The      *)
(* steps of a download and the deletion of images by other processes are in  *)
(* module ImageStore; here their effect on the walk is an unreadable         *)
(* manifest.                                                                 *)
(***************************************************************************)
EXTENDS Naturals, Sequences, SequencesExt

CONSTANTS
    Keys,           \* images, by blob key
    Refs,           \* image names as written in a manifest or a command
    NoVersion,      \* the version of a name without a version label
    NameOf,         \* NameOf[x]: name of the image or image name x
    VersionOf,      \* VersionOf[x]: value of its version label, or NoVersion
    Requested,      \* the image names a user asks for
    DepGraphs,      \* the dependencies the manifests may list
    FirstRows,      \* the rows of aciinfo at first
    FirstRemotes,   \* the remotes that earlier fetches left
    NoKey,
    MaxFaults       \* bound on unreadable manifests

\* A row of aciinfo: BlobKey, Latest and the rank of its ImportTime.
ACIInfo == [key : Keys, latest : BOOLEAN, time : Nat]

ASSUME ImageFetchAssumption ==
    /\ NameOf \in [Keys \cup Refs -> {NameOf[x] : x \in Keys \cup Refs}]
    /\ DOMAIN VersionOf = Keys \cup Refs
    /\ Requested \subseteq Refs
    /\ \A g \in DepGraphs : g \in [Keys -> Seq(Refs)]
    /\ \A R \in FirstRows : R \subseteq ACIInfo /\ IsFiniteSet(R)
    /\ FirstRemotes \subseteq [Refs -> Keys \cup {NoKey}]
    /\ NoKey \notin Keys
    /\ MaxFaults \in Nat

VARIABLES
    deps,           \* deps[k]: Dependencies of the manifest of k
    local,          \* fetcher.local
    withDeps,       \* fetcher.withDeps
    rows,           \* the rows of aciinfo
    remote,         \* remote[r]: BlobKey of the remote of the URL found for r
    imgsl,          \* what is left of imgsl, with the requested image first
    seen,           \* seen
    pc,
    walked,         \* the names fetched so far
    read,           \* the images whose manifest was read, in the order of the first reading
    faults

vars == <<deps, local, withDeps, rows, remote, imgsl, seen, pc, walked, read,
          faults>>

-----------------------------------------------------------------------------
NoRow == [key |-> NoKey, latest |-> FALSE, time |-> 0]

-----------------------------------------------------------------------------
(* The choice of an image of the store. *)

\* The rows of the name that have the requested label.
Matches(ref, row) ==
    /\ NameOf[row.key] = NameOf[ref]
    /\ VersionOf[ref] \in {NoVersion, VersionOf[row.key]}

\* Mutant: the comparison of import times is turned round.
PreferOldest(ref, cur, row) ==
    IF \/ cur = NoRow
       \/ VersionOf[ref] = NoVersion /\ row.latest /\ ~cur.latest
       \/ /\ VersionOf[ref] = NoVersion => row.latest = cur.latest
          /\ row.time < cur.time
    THEN row ELSE cur

\* curaciinfo after one turn of the loop of GetACI with a matching row.
Prefer(ref, cur, row) ==
    IF \/ cur = NoRow
       \/ VersionOf[ref] = NoVersion /\ row.latest /\ ~cur.latest
       \/ /\ VersionOf[ref] = NoVersion => row.latest = cur.latest
          /\ row.time > cur.time
    THEN row ELSE cur

\* GetACI where the query lists the rows in this order: cur[i] is curaciinfo after i rows.
GetACI(order, ref) ==
    LET cur[i \in 0..Len(order)] ==
            IF i = 0 THEN NoRow
            ELSE IF Matches(ref, order[i]) THEN Prefer(ref, cur[i - 1], order[i])
            ELSE cur[i - 1]
    IN  cur[Len(order)]

\* The order in which the database lists the rows is not specified.
Candidates(ref) == {GetACI(order, ref) : order \in SetToSeqs(rows)}

\* The row of an image is deleted and inserted again, as the last import.
WriteACIInfo(key, latest) ==
    LET rest == {row \in rows : row.key # key}
        rank(row) == Cardinality({r \in rest : r.time <= row.time})
    IN  rows' = {[row EXCEPT !.time = rank(row)] : row \in rest}
                  \cup {[key |-> key, latest |-> latest, time |-> Cardinality(rest) + 1]}

-----------------------------------------------------------------------------
(* The walk. *)

\* Mutant: a name is entered in seen before it is looked up there.
AddImageDepsMarkedFirst(key) ==
    LET first == IF deps[key] = <<>> THEN <<>> ELSE <<Head(deps[key])>> IN
    /\ imgsl' = Tail(imgsl) \o first
    /\ seen' = seen \cup ToSet(first)

\* addImageDeps: every name is appended and then looked up in seen; the first
\* that is there ends the loop with an error nobody reads.
AddImageDeps(key) ==
    LET list  == deps[key]
        again == {i \in DOMAIN list :
                    list[i] \in seen \cup {list[j] : j \in 1..i - 1}}
        last  == IF again = {} THEN Len(list)
                               ELSE CHOOSE i \in again : \A j \in again : i <= j
    IN  /\ imgsl' = Tail(imgsl) \o SubSeq(list, 1, last)
        /\ seen' = seen \cup ToSet(SubSeq(list, 1, last))

\* The name at the front was found to be the image key: its dependencies join
\* the list, unless getImageDeps cannot read its manifest (nobody looks at the
\* error, so the walk goes on as if there were no dependencies).
Found(key) ==
    /\ walked' = walked \cup {Head(imgsl)}
    /\ \/ ~withDeps /\ imgsl' = Tail(imgsl) /\ UNCHANGED <<seen, read, faults>>
       \/ /\ withDeps /\ AddImageDeps(key)
          /\ read' = IF key \in ToSet(read) THEN read ELSE Append(read, key)
          /\ UNCHANGED faults
       \/ /\ withDeps /\ faults < MaxFaults
          /\ faults' = faults + 1
          /\ imgsl' = Tail(imgsl)
          /\ UNCHANGED <<seen, read>>
    /\ pc' = IF imgsl' = <<>> THEN "done" ELSE "fetch"

\* Discovery is off or has failed.
FetchImageFromStore ==
    /\ pc = "fetch"
    /\ \E row \in Candidates(Head(imgsl)) \ {NoRow} : Found(row.key)
    /\ UNCHANGED <<deps, local, withDeps, rows, remote>>

\* fetchImageFrom: the remote of the URL is fresh, or the server says so (304).
UseCached ==
    LET ref == Head(imgsl) IN
    /\ pc = "fetch" /\ ~local
    /\ VersionOf[ref] # NoVersion /\ remote[ref] # NoKey
    /\ Found(remote[ref])
    /\ UNCHANGED <<deps, local, withDeps, rows, remote>>

\* fetchImageFrom: the image is downloaded and imported; of its manifest only
\* the name is compared with what was asked for.
Download ==
    LET ref == Head(imgsl) IN
    /\ pc = "fetch" /\ ~local
    /\ \E key \in {k \in Keys : NameOf[k] = NameOf[ref]} :
        /\ WriteACIInfo(key, VersionOf[ref] = NoVersion)
        /\ \/ /\ remote' = [remote EXCEPT ![ref] = key]
              /\ Found(key)
           \/ /\ pc' = "failed"     \* the error of WriteRemote
              /\ UNCHANGED <<remote, imgsl, seen, walked, read, faults>>
    /\ UNCHANGED <<deps, local, withDeps>>

\* Mutant: an image that is neither found nor downloaded is tried again.
FetchFailsRetried == pc = "fetch" /\ UNCHANGED vars

\* The name is not in the store or a manifest of that name is not readable, or
\* the download fails: fetchSingleImage returns the error and the walk ends.
FetchFails ==
    /\ pc = "fetch"
    /\ local => NoRow \in Candidates(Head(imgsl)) \/ faults < MaxFaults
    /\ pc' = "failed"
    /\ UNCHANGED <<deps, local, withDeps, rows, remote, imgsl, seen, walked, read,
                   faults>>

-----------------------------------------------------------------------------
Init ==
    /\ deps \in DepGraphs
    /\ local \in BOOLEAN /\ withDeps \in BOOLEAN
    /\ rows \in FirstRows
    /\ remote \in FirstRemotes     \* of images that are still in the store
    /\ \A r \in Refs : remote[r] # NoKey => \E row \in rows : row.key = remote[r]
    /\ imgsl \in {<<r>> : r \in Requested}
    /\ seen = {} /\ walked = {} /\ read = <<>>
    /\ pc = "fetch"
    /\ faults = 0

Ended == pc \in {"done", "failed"}

Step == FetchImageFromStore \/ UseCached \/ Download \/ FetchFails

Next == Step \/ (Ended /\ UNCHANGED vars)

Spec == Init /\ [][Next]_vars

\* The fetching process keeps running.
FairSpec == Spec /\ WF_vars(Step)

-----------------------------------------------------------------------------
(* Properties. *)

\* The name at position i of the n-th manifest was listed before: earlier in that
\* manifest, or in one that was read earlier.
ListedBefore(n, i) ==
    \E m \in 1..n : \E j \in DOMAIN deps[read[m]] :
        (m < n \/ j < i) /\ deps[read[m]][j] = deps[read[n]][i]

\* fetchImageDeps fetches the dependencies of every image whose manifest it read:
\* one is left out only if its manifest lists it after a name that was listed
\* before.  Two errors are dropped, so two things are excepted: such a name ends
\* the loop over the manifest, and of an image whose manifest getImageDeps could
\* not read no dependency is known.
DependenciesFetched ==
    pc = "done" =>
        \A n \in DOMAIN read : \A i \in DOMAIN deps[read[n]] :
            \/ deps[read[n]][i] \in walked
            \/ \E j \in 1..i - 1 : ListedBefore(n, j)

\* best is a row of S that no other row of S beats, or NoRow where S has none:
\* without a requested version the ones marked latest come first, and the last
\* import decides.
BestOf(ref, S, best) ==
    IF S = {} THEN best = NoRow
    ELSE /\ best \in S
         /\ \A row \in S : IF VersionOf[ref] = NoVersion /\ row.latest # best.latest
                           THEN best.latest
                           ELSE row.time <= best.time

\* GetACI returns the best of the rows that have the labels asked for, in whatever
\* order they are listed; it finds none only if there is none.
BestMatch ==
    \A ref \in Refs : \A best \in Candidates(ref) :
        BestOf(ref, {row \in rows : Matches(ref, row)}, best)

\* Image k lists a name that image l may be found for.
DependsOn(k, l) == \E i \in DOMAIN deps[k] : NameOf[deps[k][i]] = NameOf[l]

Acyclic ==
    \A S \in SUBSET Keys \ {{}} : \E k \in S : \A l \in S : ~DependsOn(k, l)

\* The walk of fetchImageDeps ends where no image depends on itself, although
\* names that were seen are walked again.  (With a cycle it never ends.)
FetchEnds == Acyclic => <>Ended
=============================================================================
