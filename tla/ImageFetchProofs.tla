---------------------------- MODULE ImageFetchProofs ----------------------------
(***************************************************************************)
(* Proofs about ImageFetch: the image that GetACI chooses, and the           *)
(* dependencies that the walk has fetched when it ends, for any number of    *)
(* images and names, any dependencies and any rows.                          *)
(*                                                                           *)
(* The loop of GetACI is a recursive function.  An induction on its turns is *)
(* made with the smallest turn at which the claim would fail.                *)
(***************************************************************************)
EXTENDS ImageFetch, FiniteSetTheorems, SequenceTheorems, TLAPS

\* A set of numbers has a smallest one.
LEMMA Smallest ==
    ASSUME NEW S \in SUBSET Nat, S # {}
    PROVE  \E m \in S : \A n \in S : m <= n
  <1>1. PICK m \in S : \A n \in S : ~(<<n, m>> \in OpToRel(<, Nat))
    BY NatLessThanWellFounded, WFMin
  <1>2. \A n \in S : ~(n < m)
    BY <1>1 DEF OpToRel
  <1> QED BY <1>2

\* What curaciinfo becomes in one turn of the loop of GetACI.
Turn(ref, cur, row) == IF Matches(ref, row) THEN Prefer(ref, cur, row) ELSE cur

\* The values of curaciinfo in a run of the loop over n rows.
IsLoop(f, order, ref, n) ==
    f = [i \in 0..n |-> IF i = 0 THEN NoRow ELSE Turn(ref, f[i - 1], order[i])]

LEMMA LoopExists ==
    ASSUME NEW order, NEW ref, NEW N \in Nat
    PROVE  \E f : IsLoop(f, order, ref, N)
  <1> DEFINE S == {n \in Nat : ~ \E f : IsLoop(f, order, ref, n)}
  <1>1. SUFFICES ASSUME S # {} PROVE FALSE
    OBVIOUS
  <1>2. PICK n \in S : \A m \in S : n <= m
    BY <1>1, Smallest
  <1>3. n \in Nat /\ ~ \E f : IsLoop(f, order, ref, n)
    OBVIOUS
  <1>4. CASE n = 0
    <2> DEFINE f == [i \in 0..0 |-> NoRow]
    <2>1. IsLoop(f, order, ref, 0)
      BY DEF IsLoop
    <2> QED BY <1>3, <1>4, <2>1
  <1>5. CASE n # 0
    <2>1. n - 1 \in Nat /\ n - 1 \notin S
      BY <1>2, <1>3, <1>5
    <2>2. PICK f : IsLoop(f, order, ref, n - 1)
      BY <2>1
    <2> DEFINE g == [i \in 0..n |-> IF i = n THEN Turn(ref, f[n - 1], order[n]) ELSE f[i]]
    <2>3. f = [i \in 0..n - 1 |-> IF i = 0 THEN NoRow ELSE Turn(ref, f[i - 1], order[i])]
      BY <2>2 DEF IsLoop
    <2>4. ASSUME NEW i \in 0..n
          PROVE  g[i] = IF i = 0 THEN NoRow ELSE Turn(ref, g[i - 1], order[i])
      <3>1. CASE i = 0
        BY <1>3, <1>5, <2>3, <3>1
      <3>2. CASE i = n
        BY <1>3, <1>5, <3>2
      <3>3. CASE i \in 1..n - 1
        <4>1. i \in 0..n - 1 /\ i - 1 \in 0..n - 1 /\ i # n /\ i - 1 # n /\ i # 0 /\ i - 1 \in 0..n
          BY <1>3, <3>3
        <4>2. f[i] = Turn(ref, f[i - 1], order[i])
          BY <2>3, <4>1
        <4>3. g[i] = f[i] /\ g[i - 1] = f[i - 1]
          BY <4>1
        <4> QED BY <4>1, <4>2, <4>3
      <3> QED BY <1>3, <1>5, <3>1, <3>2, <3>3
    <2>5. IsLoop(g, order, ref, n)
      BY <2>4, Zenon DEF IsLoop
    <2> QED BY <1>3, <2>5
  <1> QED BY <1>4, <1>5

LEMMA LoopOfGetACI ==
    ASSUME NEW order, NEW ref, Len(order) \in Nat
    PROVE  \E f : IsLoop(f, order, ref, Len(order)) /\ GetACI(order, ref) = f[Len(order)]
  <1> DEFINE cur == CHOOSE f : f = [i \in 0..Len(order) |->
                        IF i = 0 THEN NoRow
                        ELSE IF Matches(ref, order[i]) THEN Prefer(ref, f[i - 1], order[i])
                        ELSE f[i - 1]]
  <1>1. GetACI(order, ref) = cur[Len(order)]
    BY DEF GetACI
  <1>2. IsLoop(cur, order, ref, Len(order))
    <2>1. PICK f : IsLoop(f, order, ref, Len(order))
      BY LoopExists
    <2>2. f = [i \in 0..Len(order) |->
                        IF i = 0 THEN NoRow
                        ELSE IF Matches(ref, order[i]) THEN Prefer(ref, f[i - 1], order[i])
                        ELSE f[i - 1]]
      BY <2>1 DEF IsLoop, Turn
    <2>3. cur = [i \in 0..Len(order) |->
                        IF i = 0 THEN NoRow
                        ELSE IF Matches(ref, order[i]) THEN Prefer(ref, cur[i - 1], order[i])
                        ELSE cur[i - 1]]
      BY <2>2, Zenon
    <2> HIDE DEF cur
    <2> QED BY <2>3 DEF IsLoop, Turn
  <1> QED BY <1>1, <1>2

-----------------------------------------------------------------------------
(* The best match. *)

LEMMA NoRowIsNone == NoRow \notin ACIInfo
  BY ImageFetchAssumption DEF NoRow, ACIInfo

\* One turn of the loop keeps the best row.
LEMMA PreferKeepsBest ==
    ASSUME NEW ref, NEW S \in SUBSET ACIInfo, NEW row \in ACIInfo, NEW cur, BestOf(ref, S, cur)
    PROVE  BestOf(ref, S \cup {row}, Prefer(ref, cur, row))
  <1>1. CASE S = {}
    <2>1. Prefer(ref, cur, row) = row
      BY <1>1 DEF BestOf, Prefer
    <2>2. row.time \in Nat
      BY DEF ACIInfo
    <2> QED BY <1>1, <2>1, <2>2 DEF BestOf
  <1>2. CASE S # {}
    <2>1. cur \in S /\ cur \in ACIInfo /\ cur # NoRow
      BY <1>2, NoRowIsNone DEF BestOf
    <2>2. ASSUME NEW r \in S
          PROVE  IF VersionOf[ref] = NoVersion /\ r.latest # cur.latest THEN cur.latest ELSE r.time <= cur.time
      BY <1>2 DEF BestOf
    <2>3. \A r \in ACIInfo : r.time \in Nat /\ r.latest \in BOOLEAN
      BY DEF ACIInfo
    <2>4. CASE VersionOf[ref] = NoVersion /\ cur.latest # row.latest /\ row.latest
      <3>1. Prefer(ref, cur, row) = row
        BY <2>1, <2>4, Zenon DEF Prefer
      <3>2. cur.latest = FALSE
        BY <2>1, <2>3, <2>4, Zenon
      <3>3. ASSUME NEW r \in S PROVE r.latest = FALSE
        BY <2>2, <2>3, <2>4, <3>2, Zenon
      <3> QED BY <2>1, <2>2, <2>3, <2>4, <3>1, <3>2, <3>3 DEF BestOf
    <2>5. CASE VersionOf[ref] = NoVersion /\ cur.latest # row.latest /\ ~row.latest
      <3>1. Prefer(ref, cur, row) = cur
        BY <2>1, <2>5, Zenon DEF Prefer
      <3>2. cur.latest
        BY <2>1, <2>3, <2>5, Zenon
      <3> QED BY <2>1, <2>2, <2>3, <2>5, <3>1, <3>2 DEF BestOf
    <2>6. CASE ~(VersionOf[ref] = NoVersion /\ cur.latest # row.latest)
      <3>1. Prefer(ref, cur, row) = IF row.time > cur.time THEN row ELSE cur
        BY <2>1, <2>6, Zenon DEF Prefer
      <3>2. CASE row.time > cur.time
        <4>1. Prefer(ref, cur, row) = row
          BY <3>1, <3>2
        <4>2. ASSUME NEW r \in S
              PROVE  IF VersionOf[ref] = NoVersion /\ r.latest # row.latest
                     THEN row.latest ELSE r.time <= row.time
          <5>1. CASE VersionOf[ref] = NoVersion /\ r.latest # row.latest
            BY <2>2, <2>6, <5>1, Zenon
          <5>2. CASE ~(VersionOf[ref] = NoVersion /\ r.latest # row.latest)
            <6>1. r.time <= cur.time
              BY <2>2, <2>6, <5>2, Zenon
            <6> QED BY <2>1, <2>3, <3>2, <5>2, <6>1
          <5> QED BY <5>1, <5>2
        <4>3. row.time <= row.time
          BY <2>3
        <4> QED BY <4>1, <4>2, <4>3 DEF BestOf
      <3>3. CASE ~(row.time > cur.time)
        <4>1. Prefer(ref, cur, row) = cur
          BY <3>1, <3>3
        <4>2. row.time <= cur.time
          BY <2>1, <2>3, <3>3
        <4> QED BY <2>1, <2>2, <2>6, <4>1, <4>2 DEF BestOf
      <3> QED BY <3>2, <3>3
    <2> QED BY <2>4, <2>5, <2>6
  <1> QED BY <1>1, <1>2

\* The matching ones of the first n rows.
MatchingOf(ref, order, n) == {row \in {order[j] : j \in 1..n} : Matches(ref, row)}

\* After n rows curaciinfo is the best of the matching ones: by induction on n.
LEMMA LoopKeepsBest ==
    ASSUME NEW ref, NEW N \in Nat, NEW order \in [1..N -> ACIInfo], NEW f, IsLoop(f, order, ref, N),
           NEW n \in 0..N
    PROVE  BestOf(ref, MatchingOf(ref, order, n), f[n])
  <1> DEFINE S == {m \in 0..N : ~BestOf(ref, MatchingOf(ref, order, m), f[m])}
  <1>1. SUFFICES ASSUME S # {} PROVE FALSE
    OBVIOUS
  <1>2. PICK m \in S : \A k \in S : m <= k
    <2>1. S \in SUBSET Nat
      OBVIOUS
    <2> HIDE DEF S
    <2> QED BY <1>1, <2>1, Smallest
  <1>3. m \in 0..N /\ ~BestOf(ref, MatchingOf(ref, order, m), f[m])
    OBVIOUS
  <1>4. f = [i \in 0..N |-> IF i = 0 THEN NoRow ELSE Turn(ref, f[i - 1], order[i])]
    BY DEF IsLoop
  <1>5. CASE m = 0
    <2>1. MatchingOf(ref, order, 0) = {}
      BY DEF MatchingOf
    <2>2. f[0] = NoRow
      BY <1>4
    <2> QED BY <1>3, <1>5, <2>1, <2>2 DEF BestOf
  <1>6. CASE m # 0
    <2> DEFINE M == MatchingOf(ref, order, m - 1)
    <2>1. m - 1 \in 0..N /\ m - 1 \notin S /\ m \in 1..N
      BY <1>2, <1>3, <1>6
    <2>2. BestOf(ref, M, f[m - 1])
      BY <2>1
    <2>3. f[m] = Turn(ref, f[m - 1], order[m])
      BY <1>3, <1>4, <1>6
    <2>4. M \in SUBSET ACIInfo /\ order[m] \in ACIInfo
      BY <2>1 DEF MatchingOf
    <2>5. 1..m = 1..(m - 1) \cup {m}
      BY <2>1
    <2>6. {order[j] : j \in 1..m} = {order[j] : j \in 1..m - 1} \cup {order[m]}
      BY <2>5
    <2>7. CASE Matches(ref, order[m])
      <3>1. MatchingOf(ref, order, m) = M \cup {order[m]}
        BY <2>6, <2>7 DEF MatchingOf
      <3>2. f[m] = Prefer(ref, f[m - 1], order[m])
        BY <2>3, <2>7 DEF Turn
      <3> HIDE DEF M
      <3> QED BY <1>3, <2>2, <2>4, <3>1, <3>2, PreferKeepsBest
    <2>8. CASE ~Matches(ref, order[m])
      <3>1. MatchingOf(ref, order, m) = M
        BY <2>6, <2>8 DEF MatchingOf
      <3>2. f[m] = f[m - 1]
        BY <2>3, <2>8 DEF Turn
      <3> QED BY <1>3, <2>2, <3>1, <3>2
    <2> QED BY <2>7, <2>8
  <1> QED BY <1>5, <1>6

\* GetACI returns the best match, in whatever order the rows are listed.
LEMMA CandidatesAreBest ==
    ASSUME rows \subseteq ACIInfo, IsFiniteSet(rows), NEW ref, NEW best \in Candidates(ref)
    PROVE  BestOf(ref, {row \in rows : Matches(ref, row)}, best)
  <1> DEFINE N == Cardinality(rows)
  <1>1. N \in Nat
    BY FS_CardinalityType
  <1>2. PICK order \in SetToSeqs(rows) : best = GetACI(order, ref)
    BY DEF Candidates
  <1>3. /\ order \in [1..N -> rows]
        /\ \A i, j \in 1..N : i # j => order[i] # order[j]
    BY <1>2 DEF SetToSeqs
  <1>4. order \in Seq(rows) /\ Len(order) = N
    BY <1>1, <1>3
  <1>5. \A row \in rows : \E i \in 1..N : order[i] = row
    <2>1. order \in Injection(1..N, rows)
      BY <1>3 DEF Injection, IsInjective
    <2>2. Cardinality(1..N) = N
      BY <1>1, FS_Interval
    <2>3. order \in Surjection(1..N, rows)
      BY <2>1, <2>2, FS_Injection
    <2> QED BY <2>3 DEF Surjection
  <1>6. PICK f : IsLoop(f, order, ref, N) /\ best = f[N]
    BY <1>1, <1>2, <1>4, LoopOfGetACI
  <1>7. BestOf(ref, MatchingOf(ref, order, N), best)
    <2>1. order \in [1..N -> ACIInfo]
      BY <1>3
    <2> HIDE DEF N
    <2> QED BY <1>1, <1>6, <2>1, LoopKeepsBest
  <1>8. MatchingOf(ref, order, N) = {row \in rows : Matches(ref, row)}
    <2>1. {order[j] : j \in 1..N} = rows
      BY <1>3, <1>5
    <2> QED BY <2>1 DEF MatchingOf
  <1> QED BY <1>7, <1>8

-----------------------------------------------------------------------------
(* Types. *)

TypeOK ==
    /\ deps \in [Keys -> Seq(Refs)]
    /\ local \in BOOLEAN /\ withDeps \in BOOLEAN
    /\ rows \subseteq ACIInfo /\ IsFiniteSet(rows)
    /\ remote \in [Refs -> Keys \cup {NoKey}]
    /\ imgsl \in Seq(Refs)
    /\ seen \subseteq Refs /\ walked \subseteq Refs /\ read \in Seq(Keys)
    /\ pc \in {"fetch", "done", "failed"}
    /\ faults \in 0..MaxFaults

\* The walk ends where the list does.
ListEnds == (pc = "fetch" => imgsl # <<>>) /\ (pc = "done" => imgsl = <<>>)

\* A row that GetACI returns is one of the store.
LEMMA CandidatesAreRows ==
    ASSUME TypeOK, NEW ref, NEW best \in Candidates(ref) \ {NoRow}
    PROVE  best \in rows /\ best.key \in Keys
  <1>1. BestOf(ref, {row \in rows : Matches(ref, row)}, best)
    BY CandidatesAreBest DEF TypeOK
  <1>2. best \in rows
    BY <1>1 DEF BestOf
  <1> QED BY <1>2 DEF TypeOK, ACIInfo

\* The rows stay rows, and finitely many, when an image is imported.
LEMMA TypeWriteACIInfo ==
    ASSUME rows \subseteq ACIInfo, IsFiniteSet(rows),
           NEW key \in Keys, NEW latest \in BOOLEAN, WriteACIInfo(key, latest)
    PROVE  rows' \subseteq ACIInfo /\ IsFiniteSet(rows')
  <1> DEFINE rest == {row \in rows : row.key # key}
             rank(row) == Cardinality({r \in rest : r.time <= row.time})
             moved == {[row EXCEPT !.time = rank(row)] : row \in rest}
             new == [key |-> key, latest |-> latest, time |-> Cardinality(rest) + 1]
             f == [row \in rest |-> [row EXCEPT !.time = rank(row)]]
  <1>1. rows' = moved \cup {new}
    BY DEF WriteACIInfo
  <1>2. IsFiniteSet(rest) /\ Cardinality(rest) \in Nat
    <2>1. rest \in SUBSET rows
      OBVIOUS
    <2> HIDE DEF rest
    <2> QED BY <2>1, FS_Subset, FS_CardinalityType
  <1>3. new \in ACIInfo
    <2> HIDE DEF rest
    <2> QED BY <1>2 DEF ACIInfo
  <1>4. ASSUME NEW row \in rest PROVE rank(row) \in Nat
    <2>1. {r \in rest : r.time <= row.time} \in SUBSET rest
      OBVIOUS
    <2> HIDE DEF rest
    <2> QED BY <1>2, <2>1, FS_Subset, FS_CardinalityType
  <1>5. moved \subseteq ACIInfo
    <2>1. ASSUME NEW row \in rest PROVE [row EXCEPT !.time = rank(row)] \in ACIInfo
      <3>1. row \in ACIInfo /\ rank(row) \in Nat
        BY <1>4
      <3> HIDE DEF rank
      <3> QED BY <3>1 DEF ACIInfo
    <2> HIDE DEF rank, rest
    <2> QED BY <2>1
  <1>6. f \in Surjection(rest, moved)
    <2> HIDE DEF rank, rest
    <2> QED BY DEF Surjection
  <1>7. IsFiniteSet(moved)
    <2> HIDE DEF f, moved, rest
    <2> QED BY <1>2, <1>6, FS_Surjection
  <1>8. IsFiniteSet(moved \cup {new})
    <2> HIDE DEF moved, new
    <2> QED BY <1>7, FS_AddElement
  <1> HIDE DEF moved, new
  <1> QED BY <1>1, <1>3, <1>5, <1>8

-----------------------------------------------------------------------------
(* The walk. *)

\* Where the loop of addImageDeps over the names of key ends.
Again(key) == {i \in DOMAIN deps[key] :
                  deps[key][i] \in seen \cup {deps[key][j] : j \in 1..i - 1}}

\* addImageDeps appends the names up to a position, and if it is not the last
\* one then the name there was seen before.
LEMMA AddImageDepsFacts ==
    ASSUME TypeOK, NEW key \in Keys, AddImageDeps(key)
    PROVE  \E last \in 0..Len(deps[key]) :
              /\ imgsl' = Tail(imgsl) \o SubSeq(deps[key], 1, last)
              /\ seen' = seen \cup ToSet(SubSeq(deps[key], 1, last))
              /\ last = Len(deps[key]) \/ last \in Again(key)
  <1> DEFINE list == deps[key]
             last == IF Again(key) = {} THEN Len(list)
                     ELSE CHOOSE i \in Again(key) : \A j \in Again(key) : i <= j
  <1>1. /\ imgsl' = Tail(imgsl) \o SubSeq(list, 1, last)
        /\ seen' = seen \cup ToSet(SubSeq(list, 1, last))
    BY DEF AddImageDeps, Again
  <1>2. list \in Seq(Refs) /\ Len(list) \in Nat /\ DOMAIN list = 1..Len(list)
    BY DEF TypeOK
  <1>3. last = Len(list) \/ last \in Again(key)
    <2>1. CASE Again(key) # {}
      <3>1. Again(key) \in SUBSET Nat
        BY <1>2 DEF Again
      <3>2. \E i \in Again(key) : \A j \in Again(key) : i <= j
        BY <2>1, <3>1, Smallest
      <3> QED BY <2>1, <3>2
    <2>2. CASE Again(key) = {}
      BY <2>2
    <2> QED BY <2>1, <2>2
  <1>4. last \in 0..Len(list)
    BY <1>2, <1>3 DEF Again
  <1> HIDE DEF last
  <1> QED BY <1>1, <1>3, <1>4

\* The elements of what is taken from or added to a list.
LEMMA TailElements ==
    ASSUME NEW T, NEW s \in Seq(T), s # <<>>
    PROVE  /\ Head(s) \in T /\ Tail(s) \in Seq(T)
           /\ ToSet(s) \subseteq ToSet(Tail(s)) \cup {Head(s)}
  <1>1. Head(s) \in T /\ Tail(s) \in Seq(T) /\ Len(s) \in Nat \ {0}
    OBVIOUS
  <1>2. ASSUME NEW i \in DOMAIN s, i # 1 PROVE s[i] \in ToSet(Tail(s))
    <2>1. i - 1 \in 1..Len(Tail(s)) /\ Tail(s)[i - 1] = s[i]
      BY <1>1, <1>2
    <2> QED BY <1>1, <2>1 DEF ToSet
  <1>3. s[1] = Head(s)
    BY <1>1
  <1> QED BY <1>1, <1>2, <1>3 DEF ToSet

LEMMA AppendedElements ==
    ASSUME NEW T, NEW s \in Seq(T), NEW t \in Seq(T)
    PROVE  s \o t \in Seq(T) /\ ToSet(s) \cup ToSet(t) \subseteq ToSet(s \o t)
  <1>1. s \o t \in Seq(T) /\ Len(s \o t) = Len(s) + Len(t) /\ Len(s) \in Nat /\ Len(t) \in Nat
    OBVIOUS
  <1>2. ASSUME NEW i \in DOMAIN s PROVE s[i] \in ToSet(s \o t)
    <2>1. i \in 1..Len(s \o t) /\ (s \o t)[i] = s[i]
      BY <1>1, <1>2
    <2> QED BY <1>1, <2>1 DEF ToSet
  <1>3. ASSUME NEW i \in DOMAIN t PROVE t[i] \in ToSet(s \o t)
    <2>1. Len(s) + i \in 1..Len(s \o t) /\ (s \o t)[Len(s) + i] = t[i]
      BY <1>1, <1>3
    <2> QED BY <1>1, <2>1 DEF ToSet
  <1> QED BY <1>1, <1>2, <1>3 DEF ToSet

LEMMA PrefixElements ==
    ASSUME NEW T, NEW s \in Seq(T), NEW n \in 0..Len(s)
    PROVE  SubSeq(s, 1, n) \in Seq(T) /\ ToSet(SubSeq(s, 1, n)) = {s[i] : i \in 1..n}
  <1>1. /\ SubSeq(s, 1, n) \in Seq(T) /\ Len(SubSeq(s, 1, n)) = n
        /\ \A i \in 1..n : SubSeq(s, 1, n)[i] = s[i]
    OBVIOUS
  <1>2. DOMAIN SubSeq(s, 1, n) = 1..n
    BY <1>1
  <1> QED BY <1>1, <1>2 DEF ToSet

\* What Found leaves in the list, and in seen.
LEMMA FoundFacts ==
    ASSUME TypeOK, imgsl # <<>>, NEW key \in Keys, Found(key)
    PROVE  /\ imgsl' \in Seq(Refs)
           /\ walked \cup ToSet(imgsl) \subseteq walked' \cup ToSet(imgsl')
           /\ seen' \subseteq seen \cup ToSet(deps[key])
           /\ \/ UNCHANGED <<seen, read>>
              \/ /\ read' = IF key \in ToSet(read) THEN read ELSE Append(read, key)
                 /\ \E last \in 0..Len(deps[key]) :
                        /\ \A i \in 1..last : deps[key][i] \in ToSet(imgsl')
                        /\ last = Len(deps[key]) \/ last \in Again(key)
  <1>1. /\ Head(imgsl) \in Refs /\ Tail(imgsl) \in Seq(Refs)
        /\ ToSet(imgsl) \subseteq ToSet(Tail(imgsl)) \cup {Head(imgsl)}
    BY TailElements DEF TypeOK
  <1>2. walked' = walked \cup {Head(imgsl)}
    BY DEF Found
  <1>3. CASE imgsl' = Tail(imgsl) /\ UNCHANGED <<seen, read>>
    BY <1>1, <1>2, <1>3
  <1>4. CASE /\ AddImageDeps(key)
             /\ read' = IF key \in ToSet(read) THEN read ELSE Append(read, key)
    <2>0. deps[key] \in Seq(Refs)
      BY DEF TypeOK
    <2>1. PICK last \in 0..Len(deps[key]) :
              /\ imgsl' = Tail(imgsl) \o SubSeq(deps[key], 1, last)
              /\ seen' = seen \cup ToSet(SubSeq(deps[key], 1, last))
              /\ last = Len(deps[key]) \/ last \in Again(key)
      BY <1>4, AddImageDepsFacts
    <2> DEFINE pre == SubSeq(deps[key], 1, last)
    <2>2. pre \in Seq(Refs) /\ ToSet(pre) = {deps[key][i] : i \in 1..last}
      BY <2>0, PrefixElements
    <2>3. imgsl' \in Seq(Refs) /\ ToSet(Tail(imgsl)) \cup ToSet(pre) \subseteq ToSet(imgsl')
      <3> HIDE DEF pre
      <3>1. imgsl' = Tail(imgsl) \o pre
        BY <2>1 DEF pre
      <3> QED BY <1>1, <2>2, <3>1, AppendedElements
    <2>4. 1..last \subseteq DOMAIN deps[key]
      BY <2>0
    <2>5. ToSet(pre) \subseteq ToSet(deps[key])
      BY <2>2, <2>4 DEF ToSet
    <2> HIDE DEF pre
    <2>6. seen' = seen \cup ToSet(pre)
      BY <2>1 DEF pre
    <2> QED BY <1>1, <1>2, <1>4, <2>1, <2>2, <2>3, <2>5, <2>6
  <1> QED BY <1>3, <1>4 DEF Found

LEMMA TypeFound ==
    ASSUME TypeOK, imgsl # <<>>, NEW key \in Keys, Found(key)
    PROVE  /\ imgsl' \in Seq(Refs) /\ seen' \subseteq Refs /\ walked' \subseteq Refs
           /\ read' \in Seq(Keys) /\ pc' \in {"fetch", "done", "failed"}
           /\ faults' \in 0..MaxFaults
           /\ ListEnds'
  <1>1. imgsl' \in Seq(Refs) /\ seen' \subseteq seen \cup ToSet(deps[key])
    BY FoundFacts
  <1>2. seen' \subseteq Refs
    BY <1>1 DEF TypeOK, ToSet
  <1>3. walked' \subseteq Refs
    BY TailElements DEF TypeOK, Found
  <1>4. pc' \in {"fetch", "done", "failed"} /\ ListEnds'
    BY DEF Found, ListEnds
  <1>5. read' \in Seq(Keys)
    <2>1. read' = read \/ read' = Append(read, key)
      BY Zenon DEF Found
    <2>2. read \in Seq(Keys)
      BY DEF TypeOK
    <2> QED BY <2>1, <2>2, AppendProperties
  <1>6. faults' \in 0..MaxFaults
    BY ImageFetchAssumption DEF TypeOK, Found
  <1> QED BY <1>1, <1>2, <1>3, <1>4, <1>5, <1>6

LEMMA TypePreserved ==
    ASSUME TypeOK, ListEnds, [Next]_vars PROVE TypeOK' /\ ListEnds'
  <1>1. CASE UNCHANGED vars
    BY <1>1 DEF TypeOK, ListEnds, vars
  <1>2. CASE FetchImageFromStore
    <2>1. PICK row \in Candidates(Head(imgsl)) \ {NoRow} : Found(row.key)
      BY <1>2 DEF FetchImageFromStore
    <2>2. row.key \in Keys /\ imgsl # <<>>
      BY <1>2, CandidatesAreRows DEF FetchImageFromStore, ListEnds
    <2>3. UNCHANGED <<deps, local, withDeps, rows, remote>>
      BY <1>2 DEF FetchImageFromStore
    <2> QED BY <2>1, <2>2, <2>3, TypeFound DEF TypeOK
  <1>3. CASE UseCached
    <2>1. imgsl # <<>> /\ Head(imgsl) \in Refs
      BY <1>3, TailElements DEF UseCached, ListEnds, TypeOK
    <2>2. remote[Head(imgsl)] \in Keys
      BY <1>3, <2>1 DEF UseCached, TypeOK
    <2>3. Found(remote[Head(imgsl)]) /\ UNCHANGED <<deps, local, withDeps, rows, remote>>
      BY <1>3 DEF UseCached
    <2> QED BY <2>1, <2>2, <2>3, TypeFound DEF TypeOK
  <1>4. CASE Download
    <2>1. imgsl # <<>> /\ Head(imgsl) \in Refs
      BY <1>4, TailElements DEF Download, ListEnds, TypeOK
    <2>2. PICK key \in Keys :
            /\ WriteACIInfo(key, VersionOf[Head(imgsl)] = NoVersion)
            /\ \/ /\ remote' = [remote EXCEPT ![Head(imgsl)] = key]
                  /\ Found(key)
               \/ /\ pc' = "failed"
                  /\ UNCHANGED <<remote, imgsl, seen, walked, read, faults>>
      BY <1>4 DEF Download
    <2>3. rows' \subseteq ACIInfo /\ IsFiniteSet(rows')
      BY <2>2, TypeWriteACIInfo DEF TypeOK
    <2>4. UNCHANGED <<deps, local, withDeps>>
      BY <1>4 DEF Download
    <2>5. CASE Found(key) /\ remote' = [remote EXCEPT ![Head(imgsl)] = key]
      <3>1. remote' \in [Refs -> Keys \cup {NoKey}]
        BY <2>5 DEF TypeOK
      <3> QED BY <2>1, <2>3, <2>4, <2>5, <3>1, TypeFound DEF TypeOK
    <2>6. CASE pc' = "failed" /\ UNCHANGED <<remote, imgsl, seen, walked, read, faults>>
      BY <2>3, <2>4, <2>6 DEF TypeOK, ListEnds
    <2> QED BY <2>2, <2>5, <2>6
  <1>5. CASE FetchFails
    BY <1>5 DEF FetchFails, TypeOK, ListEnds
  <1> QED BY <1>1, <1>2, <1>3, <1>4, <1>5 DEF Next, Step

-----------------------------------------------------------------------------
(* The dependencies. *)

\* The manifests read so far list the names that were seen.
SeenIsListed ==
    \A r \in seen : \E m \in DOMAIN read : \E j \in DOMAIN deps[read[m]] : deps[read[m]][j] = r

\* A dependency listed in a manifest read so far was walked or is on the list,
\* unless the manifest lists it after a name that was listed before.
DependenciesListed ==
    \A n \in DOMAIN read : \A i \in DOMAIN deps[read[n]] :
        \/ deps[read[n]][i] \in walked \cup ToSet(imgsl)
        \/ \E j \in 1..i - 1 : ListedBefore(n, j)

WalkInv == SeenIsListed /\ DependenciesListed

\* A manifest that is read first joins the ones that were read before.
LEMMA ReadFacts ==
    ASSUME NEW s \in Seq(Keys), NEW key \in Keys,
           NEW t, t = IF key \in ToSet(s) THEN s ELSE Append(s, key)
    PROVE  /\ \A n \in DOMAIN s : n \in DOMAIN t /\ t[n] = s[n] /\ 1..n \subseteq DOMAIN s
           /\ \E n \in DOMAIN t : t[n] = key
           /\ \A n \in DOMAIN t \ DOMAIN s :
                /\ t[n] = key
                /\ \A m \in DOMAIN s : m \in 1..n /\ m < n
                /\ n \in 1..n
  <1>1. CASE key \in ToSet(s)
    BY <1>1 DEF ToSet
  <1>2. CASE key \notin ToSet(s)
    BY <1>2
  <1> QED BY <1>1, <1>2

\* A name that was listed before stays so.
LEMMA ListedStays ==
    ASSUME UNCHANGED deps, NEW n \in DOMAIN read,
           \A m \in DOMAIN read : read'[m] = read[m], 1..n \subseteq DOMAIN read,
           NEW i, ListedBefore(n, i)
    PROVE  ListedBefore(n, i)'
  BY DEF ListedBefore

\* The step of a name that is found.
LEMMA WalkFound ==
    ASSUME TypeOK, WalkInv, imgsl # <<>>, NEW key \in Keys, Found(key), UNCHANGED <<deps, withDeps>>
    PROVE  WalkInv'
  <1>1. /\ walked \cup ToSet(imgsl) \subseteq walked' \cup ToSet(imgsl')
        /\ seen' \subseteq seen \cup ToSet(deps[key])
        /\ \/ UNCHANGED <<seen, read>>
           \/ /\ read' = IF key \in ToSet(read) THEN read ELSE Append(read, key)
              /\ \E last \in 0..Len(deps[key]) :
                    /\ \A i \in 1..last : deps[key][i] \in ToSet(imgsl')
                    /\ last = Len(deps[key]) \/ last \in Again(key)
    BY FoundFacts
  <1>2. CASE UNCHANGED <<seen, read>>
    BY <1>1, <1>2 DEF WalkInv, SeenIsListed, DependenciesListed, ListedBefore
  <1>3. ASSUME read' = IF key \in ToSet(read) THEN read ELSE Append(read, key),
               NEW last \in 0..Len(deps[key]),
               \A i \in 1..last : deps[key][i] \in ToSet(imgsl'),
               last = Len(deps[key]) \/ last \in Again(key)
        PROVE  WalkInv'
    <2>1. /\ \A n \in DOMAIN read : n \in DOMAIN read' /\ read'[n] = read[n] /\ 1..n \subseteq DOMAIN read
          /\ \E n \in DOMAIN read' : read'[n] = key
          /\ \A n \in DOMAIN read' \ DOMAIN read :
                /\ read'[n] = key
                /\ \A m \in DOMAIN read : m \in 1..n /\ m < n
                /\ n \in 1..n
      BY <1>3, ReadFacts DEF TypeOK
    <2>2. SeenIsListed'
      <3> SUFFICES ASSUME NEW r \in seen'
                   PROVE  \E m \in DOMAIN read' : \E j \in DOMAIN deps[read'[m]] : deps[read'[m]][j] = r
        BY DEF SeenIsListed
      <3>1. CASE r \in seen
        <4>1. PICK m \in DOMAIN read : \E j \in DOMAIN deps[read[m]] : deps[read[m]][j] = r
          BY <3>1 DEF WalkInv, SeenIsListed
        <4> QED BY <2>1, <4>1
      <3>2. CASE r \in ToSet(deps[key])
        BY <2>1, <3>2 DEF ToSet
      <3> QED BY <1>1, <3>1, <3>2
    <2>3. DependenciesListed'
      <3> SUFFICES ASSUME NEW n \in DOMAIN read', NEW i \in DOMAIN deps[read'[n]],
                          deps[read'[n]][i] \notin walked' \cup ToSet(imgsl')
                   PROVE  \E j \in 1..i - 1 : ListedBefore(n, j)'
        BY DEF DependenciesListed
      <3>1. CASE n \in DOMAIN read
        <4>1. read'[n] = read[n] /\ 1..n \subseteq DOMAIN read
          BY <2>1, <3>1
        <4>2. PICK j \in 1..i - 1 : ListedBefore(n, j)
          BY <1>1, <3>1, <4>1 DEF WalkInv, DependenciesListed
        <4>3. ListedBefore(n, j)'
          BY <2>1, <3>1, <4>1, <4>2, ListedStays
        <4> QED BY <4>3
      <3>2. CASE n \notin DOMAIN read
        <4>1. /\ read'[n] = key /\ n \in 1..n
              /\ \A m \in DOMAIN read : m \in 1..n /\ m < n /\ read'[m] = read[m]
          BY <2>1, <3>2
        <4>2. deps[key] \in Seq(Refs) /\ Len(deps[key]) \in Nat /\ i \in 1..Len(deps[key])
          BY <4>1 DEF TypeOK
        <4>3. i > last
          BY <1>3, <4>1, <4>2
        <4>4. last \in Again(key) /\ last \in 1..i - 1
          BY <1>3, <4>2, <4>3 DEF Again
        <4>5. ListedBefore(n, last)'
          <5>1. CASE deps[key][last] \in seen
            <6>1. PICK m \in DOMAIN read : \E j \in DOMAIN deps[read[m]] : deps[read[m]][j] = deps[key][last]
              BY <5>1 DEF WalkInv, SeenIsListed
            <6> QED BY <4>1, <6>1 DEF ListedBefore
          <5>2. CASE deps[key][last] \in {deps[key][j] : j \in 1..last - 1}
            <6>1. PICK j \in 1..last - 1 : deps[key][j] = deps[key][last]
              BY <5>2
            <6>2. j < last /\ j \in DOMAIN deps[key]
              BY <4>2, <4>4
            <6> QED BY <4>1, <6>1, <6>2 DEF ListedBefore
          <5> QED BY <4>4, <5>1, <5>2 DEF Again
        <4> QED BY <4>4, <4>5
      <3> QED BY <3>1, <3>2
    <2> QED BY <2>2, <2>3 DEF WalkInv
  <1> QED BY <1>1, <1>2, <1>3

LEMMA WalkUnchanged ==
    ASSUME WalkInv, UNCHANGED <<deps, imgsl, seen, walked, read>>
    PROVE  WalkInv'
  BY DEF WalkInv, SeenIsListed, DependenciesListed, ListedBefore

LEMMA WalkPreserved ==
    ASSUME TypeOK, ListEnds, WalkInv, [Next]_vars PROVE WalkInv'
  <1>1. CASE UNCHANGED vars \/ FetchFails
    BY <1>1, WalkUnchanged DEF vars, FetchFails
  <1>2. CASE FetchImageFromStore
    <2>1. PICK row \in Candidates(Head(imgsl)) \ {NoRow} : Found(row.key)
      BY <1>2 DEF FetchImageFromStore
    <2>2. row.key \in Keys /\ imgsl # <<>>
      BY <1>2, CandidatesAreRows DEF FetchImageFromStore, ListEnds
    <2> QED BY <1>2, <2>1, <2>2, WalkFound DEF FetchImageFromStore
  <1>3. CASE UseCached
    <2>1. imgsl # <<>> /\ Head(imgsl) \in Refs
      BY <1>3, TailElements DEF UseCached, ListEnds, TypeOK
    <2>2. remote[Head(imgsl)] \in Keys
      BY <1>3, <2>1 DEF UseCached, TypeOK
    <2> QED BY <1>3, <2>1, <2>2, WalkFound DEF UseCached
  <1>4. CASE Download
    <2>1. imgsl # <<>> /\ UNCHANGED <<deps, withDeps>>
      BY <1>4 DEF Download, ListEnds
    <2>2. PICK key \in Keys :
            \/ Found(key)
            \/ UNCHANGED <<imgsl, seen, walked, read>>
      BY <1>4 DEF Download
    <2> QED BY <2>1, <2>2, WalkFound, WalkUnchanged
  <1> QED BY <1>1, <1>2, <1>3, <1>4 DEF Next, Step

-----------------------------------------------------------------------------
(* The theorems. *)

FetchInv == TypeOK /\ ListEnds /\ WalkInv

\* The inductive invariant: types, the end of the list, and the names that were
\* seen or are to be walked.
THEOREM FetchInvariance == Spec => []FetchInv
  <1>1. Init => FetchInv
    <2> SUFFICES ASSUME Init PROVE FetchInv
      OBVIOUS
    <2>1. imgsl \in Seq(Refs) /\ imgsl # <<>>
      <3>1. PICK r \in Refs : imgsl = <<r>>
        BY ImageFetchAssumption DEF Init
      <3> QED BY <3>1
    <2>2. deps \in [Keys -> Seq(Refs)] /\ rows \subseteq ACIInfo /\ IsFiniteSet(rows)
      BY ImageFetchAssumption DEF Init
    <2>3. local \in BOOLEAN /\ withDeps \in BOOLEAN
      BY DEF Init
    <2>4. TypeOK
      BY <2>1, <2>2, <2>3, ImageFetchAssumption DEF Init, TypeOK
    <2>5. ListEnds /\ WalkInv
      BY <2>1 DEF Init, ListEnds, WalkInv, SeenIsListed, DependenciesListed
    <2> QED BY <2>4, <2>5 DEF FetchInv
  <1>2. FetchInv /\ [Next]_vars => FetchInv'
    BY TypePreserved, WalkPreserved DEF FetchInv
  <1> QED BY <1>1, <1>2, PTL DEF Spec

\* A walk of fetchImageDeps that ends well has fetched every dependency of every
\* image whose manifest it read, for any dependency graph, except behind a name that
\* was listed before; nothing is said of images whose manifest was not readable.
THEOREM DependenciesAreFetched == Spec => []DependenciesFetched
  <1>1. FetchInv => DependenciesFetched
    <2> SUFFICES ASSUME FetchInv, pc = "done", NEW n \in DOMAIN read, NEW i \in DOMAIN deps[read[n]]
                 PROVE  deps[read[n]][i] \in walked \/ \E j \in 1..i - 1 : ListedBefore(n, j)
      BY DEF DependenciesFetched
    <2>1. ToSet(imgsl) = {}
      BY DEF FetchInv, ListEnds, ToSet
    <2> QED BY <2>1 DEF FetchInv, WalkInv, DependenciesListed
  <1> QED BY <1>1, FetchInvariance, PTL

\* GetACI returns the best match for any rows, in whatever order they are listed.
THEOREM GetACIReturnsBest == Spec => []BestMatch
  <1>1. FetchInv => BestMatch
    BY CandidatesAreBest DEF FetchInv, TypeOK, BestMatch
  <1> QED BY <1>1, FetchInvariance, PTL
=============================================================================
