---------------------------- MODULE MCImageFetch ----------------------------
(* An instance of ImageFetch for TLC: two versions of a, one image b. *)
EXTENDS ImageFetch

CONSTANTS a1, a2, b1, refA, refA1, refB

MCNameOf == [x \in Keys \cup Refs |-> IF x \in {b1, refB} THEN "b" ELSE "a"]

MCVersionOf == [x \in Keys \cup Refs |->
                    CASE x \in {a1, refA1} -> "1"
                      [] x = a2 -> "2"
                      [] OTHER -> NoVersion]

\* Up to two dependencies of each image, and of a1 and b1 together.
Lists == {s \in BoundedSeq(Refs, 2) : IsInjective(s)}
MCDepGraphs == {g \in [Keys -> Lists] : Len(g[a1]) + Len(g[b1]) <= 2}

Entry(k, l, t) == [key |-> k, latest |-> l, time |-> t]

\* An empty store, and stores where the row marked latest is the older one and where
\* both rows are.
MCFirstRows ==
    {{},
     {Entry(a1, TRUE, 1), Entry(a2, FALSE, 2)},
     {Entry(a2, TRUE, 1), Entry(a1, TRUE, 2)}}

\* No remote, or one of the URL of a's version 1, where version 2 was found then.
MCFirstRemotes == {[r \in Refs |-> IF r = refA1 THEN k ELSE NoKey] : k \in {NoKey, a2}}
=============================================================================
