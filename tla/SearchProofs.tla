---------------------------- MODULE SearchProofs ----------------------------
(***************************************************************************)
(* Proofs about Search, for every file system, every list of directories,  *)
(* every cache file, and whatever installs and removes files meanwhile:    *)
(* what a search returns was there, nothing of an earlier place was, and   *)
(* all goroutines have one cache, which is the file as it was read.        *)
(***************************************************************************)
EXTENDS Search, InductionTheorems, SequenceTheorems, TLAPS

USE SearchAssumption

\* The ghost variables keep up with the disk while a search goes on: the result is added
\* to what was there by the Stat that finds it, not by a file seen earlier
GhostTypes ==
    /\ state \in [Goroutines -> {"idle", "searching", "returned"}]
    /\ DOMAIN result = Goroutines /\ DOMAIN there = Goroutines
ThereInv ==
    /\ GhostTypes
    /\ \A g \in Goroutines : Searching(g) => disk \subseteq there[g]
    /\ ResultWasThere

LEMMA ThereInit == Init => ThereInv
BY DEF Init, ThereInv, GhostTypes, ResultWasThere, Searching, Returned

\* A search begins with all that is there
LEMMA FindThere ==
    ASSUME ThereInv, NEW g \in Goroutines, NEW r \in Requests, findLibrary(g, r)
    PROVE  ThereInv'
BY DEF findLibrary, ThereInv, GhostTypes, ResultWasThere, Searching, Returned

\* What a goroutine does by itself leaves the disk and the ghosts alone, and it returns
\* nothing, or what is on the disk now
LEMMA ProceedThere ==
    ASSUME ThereInv, NEW g \in Goroutines, Proceed(g)
    PROVE  ThereInv'
<1>1. UNCHANGED <<disk, there>>
  BY DEF Proceed, Stat, NotFound, EnterOnce, LoadCache, LookupInCache
<1>2. CASE UNCHANGED <<state, result>>
  BY <1>1, <1>2 DEF ThereInv, GhostTypes, ResultWasThere, Searching, Returned
<1>3. CASE \E p : Searching(g) /\ Return(g, p) /\ p \in disk \cup {None}
  BY <1>1, <1>3 DEF ThereInv, GhostTypes, ResultWasThere, Searching, Returned, Return
<1>4. \/ UNCHANGED <<state, result>>
      \/ \E p : Searching(g) /\ Return(g, p) /\ p \in disk \cup {None}
  BY DEF Proceed, Stat, NotFound, EnterOnce, LoadCache, LookupInCache, Consider, search
<1> QED BY <1>2, <1>3, <1>4

LEMMA EnvironmentThere ==
    ASSUME ThereInv, Environment
    PROVE  ThereInv'
<1>1. ASSUME NEW p \in Changing, Install(p)
      PROVE  ThereInv'
  BY <1>1 DEF Install, ThereInv, GhostTypes, ResultWasThere, Searching, Returned, search
<1>2. ASSUME NEW p \in Changing, Uninstall(p)
      PROVE  ThereInv'
  BY <1>2 DEF Uninstall, ThereInv, GhostTypes, ResultWasThere, Searching, Returned, search
<1>3. CASE Ldconfig
  BY <1>3 DEF Ldconfig, ThereInv, GhostTypes, ResultWasThere, Searching, Returned, search
<1> QED BY <1>1, <1>2, <1>3 DEF Environment

\* Whatever a search returns was there at some moment of it: a name in a stale cache is
\* never taken on trust (searchInCacheIfExists)
THEOREM NothingImagined == Spec => []ResultWasThere
<1>1. ThereInv /\ [Next]_vars => ThereInv'
  <2> SUFFICES ASSUME ThereInv, [Next]_vars PROVE ThereInv'
    OBVIOUS
  <2>1. CASE Environment
    BY <2>1, EnvironmentThere
  <2>2. ASSUME NEW g \in Goroutines, Proceed(g)
        PROVE  ThereInv'
    BY <2>2, ProceedThere
  <2>3. ASSUME NEW g \in Goroutines, NEW r \in Requests, findLibrary(g, r)
        PROVE  ThereInv'
    BY <2>3, FindThere
  <2>4. CASE UNCHANGED vars
    BY <2>4 DEF vars, search, ThereInv, GhostTypes, ResultWasThere, Searching, Returned
  <2> QED BY <2>1, <2>2, <2>3, <2>4 DEF Next
<1>2. ThereInv => ResultWasThere
  BY DEF ThereInv
<1> QED BY ThereInit, <1>1, <1>2, PTL DEF Spec

-----------------------------------------------------------------------------
(* The list of a path variable, and the cache file *)

\* What the loop of splitPaths has after i parts
Parts(list, F) ==
    /\ F[0] = <<>>
    /\ \A i \in 1 .. Len(list) :
        F[i] = IF list[i] # None THEN Append(F[i - 1], list[i]) ELSE F[i - 1]

LEMMA SplitLoop ==
    ASSUME NEW list \in PathList
    PROVE  \E F \in [0 .. Len(list) -> Seq(Dirs)] : Parts(list, F) /\ splitPaths(list) = F[Len(list)]
<1> DEFINE n == Len(list)
           V == Seq(Dirs)
           Body(F) == [i \in 0 .. n |-> IF i = 0 THEN <<>>
                                        ELSE IF list[i] # None THEN Append(F[i - 1], list[i]) ELSE F[i - 1]]
           step == [i \in 1 .. n |-> [v \in V |-> IF list[i] # None THEN Append(v, list[i]) ELSE v]]
<1>1. n \in Nat /\ <<>> \in V /\ \A i \in 1 .. n : list[i] \in Dirs \cup {None}
  BY LenProperties, ElementOfSeq, EmptySeq DEF PathList
<1>2. step \in Rounds(1 .. n, V)
  <2>1. \A i \in 1 .. n : \A v \in V : list[i] # None => Append(v, list[i]) \in V
    BY <1>1, AppendProperties
  <2> HIDE DEF V, n
  <2> QED BY <2>1 DEF Rounds
<1>3. PICK F \in [0 .. n -> V] : F[0] = <<>> /\ \A i \in 1 .. n : F[i] = step[i][F[i - 1]]
  <2> HIDE DEF step, n, V
  <2> QED BY <1>1, <1>2, UpwardRecursion
<1>4. F = Body(F)
  <2>1. \A i \in 1 .. n : i - 1 \in 0 .. n
    BY <1>1
  <2>2. \A i \in 1 .. n : F[i] = IF list[i] # None THEN Append(F[i - 1], list[i]) ELSE F[i - 1]
    <3> HIDE DEF V, n
    <3> QED BY <1>3, <2>1
  <2>3. \A i \in 0 .. n :
           F[i] = IF i = 0 THEN <<>> ELSE IF list[i] # None THEN Append(F[i - 1], list[i]) ELSE F[i - 1]
    <3>1. \A i \in 0 .. n : i = 0 \/ i \in 1 .. n
      BY <1>1
    <3> HIDE DEF V, n
    <3> QED BY <1>3, <2>2, <3>1
  <2> HIDE DEF V, n
  <2> QED BY <1>3, <2>3
<1>5. splitPaths(list) = (CHOOSE G : G = Body(G))[n]
  BY DEF splitPaths
<1>6. PICK K : K = (CHOOSE G : G = Body(G))
  OBVIOUS
<1>7. K = Body(K)
  <2> HIDE DEF n, V
  <2> QED BY <1>4, <1>6
<1>8. K[0] = <<>> /\ \A i \in 1 .. n : K[i] = IF list[i] # None THEN Append(K[i - 1], list[i]) ELSE K[i - 1]
  <2>1. 0 \in 0 .. n /\ \A i \in 1 .. n : i \in 0 .. n /\ i # 0
    BY <1>1
  <2> HIDE DEF n
  <2> QED BY <1>7, <2>1
<1>9. \A k \in 0 .. n : K[k] = F[k]
  <2>1. \A i \in 1 .. n : F[i] = IF list[i] # None THEN Append(F[i - 1], list[i]) ELSE F[i - 1]
    <3>1. \A i \in 1 .. n : i \in 0 .. n /\ i # 0
      BY <1>1
    <3> HIDE DEF V, n
    <3> QED BY <1>4, <3>1
  <2>2. \A i \in 1 .. n : K[i - 1] = F[i - 1] => K[i] = F[i]
    <3> HIDE DEF V, n, Body, step
    <3> QED BY <1>8, <2>1
  <2>3. K[0] = F[0]
    BY <1>3, <1>8
  <2>4. Alike(n, K, F)
    BY <2>2, <2>3 DEF Alike
  <2> HIDE DEF V, n, Body, step
  <2> QED BY <1>1, <2>4, SameRounds
<1>10. splitPaths(list) = F[n] /\ Parts(list, F)
  <2>1. n \in 0 .. n /\ splitPaths(list) = K[n]
    BY <1>1, <1>5, <1>6
  <2>2. Parts(list, F)
    <3>1. \A i \in 1 .. n : i \in 0 .. n /\ i # 0
      BY <1>1
    <3>2. \A i \in 1 .. n : F[i] = IF list[i] # None THEN Append(F[i - 1], list[i]) ELSE F[i - 1]
      <4> HIDE DEF V, n
      <4> QED BY <1>4, <3>1
    <3> QED BY <1>3, <3>2 DEF Parts
  <2> QED BY <1>9, <2>1, <2>2
<1> QED BY <1>10

Elements(s) == {s[i] : i \in DOMAIN s}

\* The parts of a list that are not empty, in their order: those, and no other
LEMMA PartsKept ==
    ASSUME NEW list \in PathList
    PROVE  /\ splitPaths(list) \in Seq(Dirs)
           /\ Elements(splitPaths(list)) = Elements(list) \ {None}
<1> DEFINE n == Len(list)
           Upto(k) == {list[i] : i \in 1 .. k} \ {None}
<1>1. n \in Nat /\ DOMAIN list = 1 .. n /\ \A i \in 1 .. n : list[i] \in Dirs \cup {None}
  BY LenProperties, ElementOfSeq DEF PathList
<1>2. PICK F \in [0 .. n -> Seq(Dirs)] : Parts(list, F) /\ splitPaths(list) = F[n]
  BY SplitLoop
<1> DEFINE P == {k \in 0 .. n : Elements(F[k]) = Upto(k)}
<1>3. 0 \in P
  <2>1. Elements(<<>>) = {} /\ Upto(0) = {}
    BY DEF Elements
  <2> QED BY <1>1, <1>2, <2>1 DEF Parts
<1>4. ASSUME NEW k \in 0 .. n, k < n, k \in P PROVE k + 1 \in P
  <2>1. PICK j \in 1 .. n : j = k + 1 /\ j - 1 = k
    BY <1>1, <1>4
  <2>2. Upto(j) = IF list[j] # None THEN Upto(k) \cup {list[j]} ELSE Upto(k)
    <3>1. 1 .. j = (1 .. k) \cup {j}
      BY <2>1
    <3> QED BY <3>1
  <2>3. F[j] = IF list[j] # None THEN Append(F[k], list[j]) ELSE F[k]
    BY <1>2, <2>1 DEF Parts
  <2>4. ASSUME NEW s \in Seq(Dirs), NEW d PROVE Elements(Append(s, d)) = Elements(s) \cup {d}
    <3> DEFINE t == Append(s, d)
    <3>1. t \in Seq(Dirs \cup {d}) /\ s \in Seq(Dirs \cup {d})
      BY AppendProperties
    <3>2. Len(s) \in Nat /\ DOMAIN s = 1 .. Len(s)
      BY LenProperties
    <3>3. DOMAIN t = 1 .. Len(s) + 1 /\ t[Len(s) + 1] = d /\ \A i \in 1 .. Len(s) : t[i] = s[i]
      BY <3>1, <3>2, AppendProperties, LenProperties
    <3>4. \A x : x \in Elements(t) <=> x \in Elements(s) \cup {d}
      <4> HIDE DEF t
      <4>1. ASSUME NEW x, x \in Elements(t) PROVE x \in Elements(s) \cup {d}
        <5>1. PICK i \in DOMAIN t : x = t[i]
          BY <4>1 DEF Elements
        <5>2. i = Len(s) + 1 \/ i \in 1 .. Len(s)
          BY <3>2, <3>3
        <5>3. CASE i = Len(s) + 1
          BY <3>3, <5>1, <5>3
        <5>4. CASE i \in 1 .. Len(s)
          BY <3>2, <3>3, <5>1, <5>4 DEF Elements
        <5> QED BY <5>2, <5>3, <5>4
      <4>2. d \in Elements(t)
        <5>1. PICK i \in DOMAIN t : i = Len(s) + 1
          BY <3>2, <3>3
        <5>2. t[i] = d
          BY <3>3, <5>1
        <5> QED BY <5>2 DEF Elements
      <4>3. ASSUME NEW x, x \in Elements(s) PROVE x \in Elements(t)
        <5>1. PICK i \in 1 .. Len(s) : x = s[i]
          BY <3>2, <4>3 DEF Elements
        <5>2. i \in DOMAIN t /\ t[i] = x
          BY <3>2, <3>3, <5>1
        <5> QED BY <5>2 DEF Elements
      <4> QED BY <4>1, <4>2, <4>3
    <3> QED BY <3>4
  <2>5. F[k] \in Seq(Dirs)
    BY <1>2
  <2>6. Elements(F[j]) = Upto(j)
    <3> HIDE DEF Upto, n
    <3> QED BY <1>4, <2>2, <2>3, <2>4, <2>5
  <2> QED BY <2>1, <2>6
<1>5. n \in P
  <2>1. \A k \in 0 .. n : k \in P
    <3> HIDE DEF P, n
    <3> QED BY <1>1, <1>3, <1>4, UpwardInduction
  <2> QED BY <1>1, <2>1
<1>6. Upto(n) = Elements(list) \ {None}
  BY <1>1 DEF Elements
<1> QED BY <1>1, <1>2, <1>5, <1>6

\* What the loop of parseCacheEntries has after i entries
Table == [Bases -> Paths \cup {None}]
Reads(entries, F) ==
    /\ F[0] = Empty
    /\ \A i \in 1 .. Len(entries) : F[i] = readCacheEntry(F[i - 1], entries[i])

LEMMA EntryInTable ==
    ASSUME NEW v \in Table, NEW e \in CacheEntry
    PROVE  readCacheEntry(v, e) \in Table
BY DEF readCacheEntry, Table, CacheEntry

LEMMA ParseLoop ==
    ASSUME NEW entries \in Seq(CacheEntry)
    PROVE  \E F \in [0 .. Len(entries) -> Table] :
               Reads(entries, F) /\ parseCacheEntries(entries) = F[Len(entries)]
<1> DEFINE n == Len(entries)
           Body(F) == [i \in 0 .. n |-> IF i = 0 THEN Empty ELSE readCacheEntry(F[i - 1], entries[i])]
           step == [i \in 1 .. n |-> [v \in Table |-> readCacheEntry(v, entries[i])]]
<1>1. n \in Nat /\ Empty \in Table /\ \A i \in 1 .. n : entries[i] \in CacheEntry
  <2>1. Empty \in Table
    BY DEF Empty, Table
  <2> QED BY <2>1, LenProperties, ElementOfSeq
<1>2. step \in Rounds(1 .. n, Table)
  <2>1. \A i \in 1 .. n : \A v \in Table : readCacheEntry(v, entries[i]) \in Table
    BY <1>1, EntryInTable
  <2> HIDE DEF n
  <2> QED BY <2>1 DEF Rounds
<1>3. PICK F \in [0 .. n -> Table] : F[0] = Empty /\ \A i \in 1 .. n : F[i] = step[i][F[i - 1]]
  <2> HIDE DEF step, n
  <2> QED BY <1>1, <1>2, UpwardRecursion
<1>4. \A i \in 1 .. n : i \in 0 .. n /\ i - 1 \in 0 .. n /\ i # 0
  BY <1>1
<1>5. \A i \in 1 .. n : F[i] = readCacheEntry(F[i - 1], entries[i])
  <2> HIDE DEF n
  <2> QED BY <1>3, <1>4
<1>6. F = Body(F)
  <2>1. \A i \in 0 .. n : F[i] = IF i = 0 THEN Empty ELSE readCacheEntry(F[i - 1], entries[i])
    <3>1. \A i \in 0 .. n : i = 0 \/ i \in 1 .. n
      BY <1>1
    <3> HIDE DEF n
    <3> QED BY <1>3, <1>5, <3>1
  <2> HIDE DEF n
  <2> QED BY <1>3, <2>1
<1>7. parseCacheEntries(entries) = (CHOOSE G : G = Body(G))[n]
  BY DEF parseCacheEntries
<1>8. PICK K : K = (CHOOSE G : G = Body(G))
  OBVIOUS
<1>9. K = Body(K)
  <2> HIDE DEF n
  <2> QED BY <1>6, <1>8
<1>10. K[0] = Empty /\ \A i \in 1 .. n : K[i] = readCacheEntry(K[i - 1], entries[i])
  <2>1. 0 \in 0 .. n
    BY <1>1
  <2> HIDE DEF n
  <2> QED BY <1>4, <1>9, <2>1
<1>11. Alike(n, K, F)
  <2> HIDE DEF n, step, Body
  <2> QED BY <1>3, <1>5, <1>10 DEF Alike
<1>12. K[n] = F[n]
  <2>1. n \in 0 .. n
    BY <1>1
  <2> HIDE DEF n, step, Body
  <2> QED BY <1>1, <1>11, <2>1, SameRounds
<1> QED BY <1>3, <1>5, <1>7, <1>8, <1>12 DEF Reads

\* The first k entries that give the name b a file (shouldIncludeEntry, readCacheEntry)
Usable(entries, b, k) ==
    {i \in 1 .. k : LET e == entries[i] IN
        e.libc6 /\ e.arch # "other" /\ e.whole /\ e.key = b}

LEMMA LastUsable ==
    ASSUME NEW entries \in Seq(CacheEntry), NEW b \in Bases
    PROVE  /\ parseCacheEntries(entries) \in Table
           /\ parseCacheEntries(entries)[b] =
                 IF Usable(entries, b, Len(entries)) = {} THEN None
                 ELSE entries[Max(Usable(entries, b, Len(entries)))].value
<1> DEFINE n == Len(entries)
           U(k) == Usable(entries, b, k)
<1>1. n \in Nat /\ \A i \in 1 .. n : entries[i] \in CacheEntry
  BY LenProperties, ElementOfSeq
<1>2. PICK F \in [0 .. n -> Table] : Reads(entries, F) /\ parseCacheEntries(entries) = F[n]
  BY ParseLoop
<1> DEFINE Latest(k) == \/ U(k) = {} /\ F[k][b] = None
                        \/ \E m \in U(k) : F[k][b] = entries[m].value /\ \A j \in U(k) : j <= m
           P == {k \in 0 .. n : Latest(k)}
<1>3. 0 \in P
  <2>1. U(0) = {} /\ 0 \in 0 .. n
    BY <1>1 DEF Usable
  <2>2. F[0][b] = None
    BY <1>2 DEF Reads, Empty
  <2> QED BY <2>1, <2>2
<1>4. ASSUME NEW k \in 0 .. n, k < n, k \in P PROVE k + 1 \in P
  <2>1. PICK i \in 1 .. n : i = k + 1 /\ i - 1 = k
    <3> HIDE DEF n, P
    <3> QED BY <1>1, <1>4
  <2>2. i \in 0 .. n /\ Latest(k) /\ U(k) \subseteq 1 .. k
    BY <1>1, <1>4 DEF Usable
  <2>3. F[i] = readCacheEntry(F[k], entries[i]) /\ F[k] \in Table /\ entries[i] \in CacheEntry
    BY <1>1, <1>2, <2>1 DEF Reads
  <2> DEFINE e == entries[i]
             new == e.libc6 /\ e.arch # "other" /\ e.whole /\ e.key = b
  <2>4. F[i][b] = IF new THEN e.value ELSE F[k][b]
    BY <2>3, SearchAssumption DEF readCacheEntry, shouldIncludeEntry, CacheEntry, Table
  <2>5. U(i) = IF new THEN U(k) \cup {i} ELSE U(k)
    <3>1. 1 .. i = (1 .. k) \cup {i}
      BY <2>1
    <3> QED BY <3>1 DEF Usable
  <2>6. Latest(i)
    <3> HIDE DEF U
    <3>1. CASE new
      <4>1. i \in U(i) /\ F[i][b] = entries[i].value
        BY <2>4, <2>5, <3>1
      <4>2. \A j \in U(i) : j <= i
        BY <2>1, <2>2, <2>5, <3>1
      <4> QED BY <4>1, <4>2
    <3>2. CASE ~ new
      <4>1. U(i) = U(k) /\ F[i][b] = F[k][b]
        BY <2>4, <2>5, <3>2
      <4> QED BY <2>2, <4>1
    <3> QED BY <3>1, <3>2
  <2> QED BY <2>1, <2>2, <2>6
<1>5. Latest(n)
  <2>1. \A k \in 0 .. n : k \in P
    <3> HIDE DEF P, n
    <3> QED BY <1>1, <1>3, <1>4, UpwardInduction
  <2>2. n \in P
    BY <1>1, <2>1
  <2> QED BY <2>2
<1>6. F[n] \in Table
  BY <1>1, <1>2
<1>7. CASE U(n) = {}
  BY <1>2, <1>5, <1>6, <1>7
<1>8. CASE U(n) # {}
  <2>1. PICK m \in U(n) : F[n][b] = entries[m].value /\ \A j \in U(n) : j <= m
    BY <1>5, <1>8
  <2>2. U(n) \subseteq Nat
    BY DEF Usable
  <2>3. Max(U(n)) = m
    <3>1. Max(U(n)) \in U(n) /\ \A j \in U(n) : Max(U(n)) >= j
      <4> HIDE DEF U
      <4> QED BY <2>1, <2>2 DEF Max
    <3> HIDE DEF U
    <3> QED BY <2>1, <2>2, <3>1
  <2> QED BY <1>2, <1>6, <1>8, <2>1, <2>3
<1> QED BY <1>7, <1>8

-----------------------------------------------------------------------------
(* The cache of the process *)

\* The cache is empty until the load is done, and then what one cache file gives
CacheInv ==
    /\ cacheFile \in CacheFiles /\ once \in {"new", "done"} \cup Goroutines
    /\ once # "done" => source = None /\ cache = None
    /\ once = "done" => source \in CacheFiles /\ cache = parseCache(source)

\* Reading a cache file gives nothing, or a table
LEMMA ParseInTable ==
    ASSUME NEW f \in CacheFiles
    PROVE  parseCache(f) \in Table \cup {None}
<1>1. f \in CacheFile
  BY SearchAssumption
<1>2. CASE f.readable
  <2>1. f.entries \in Seq(CacheEntry)
    BY <1>1 DEF CacheFile
  <2>2. PICK F \in [0 .. Len(f.entries) -> Table] : parseCacheEntries(f.entries) = F[Len(f.entries)]
    BY <2>1, ParseLoop
  <2>3. Len(f.entries) \in 0 .. Len(f.entries)
    BY <2>1, LenProperties
  <2> QED BY <1>2, <2>2, <2>3 DEF parseCache
<1>3. CASE ~ f.readable
  BY <1>3 DEF parseCache
<1> QED BY <1>2, <1>3

LEMMA CacheStep ==
    ASSUME CacheInv, [Next]_vars
    PROVE  /\ CacheInv'
           /\ UNCHANGED cache \/ (once # "done" /\ once' = "done")
           /\ once = "done" => once' = "done"
<1>1. CASE \E g \in Goroutines : LoadCache(g)
  BY <1>1, SearchAssumption DEF LoadCache, AfterLoad, CacheInv, parseCache
<1>2. CASE \E g \in Goroutines : EnterOnce(g)
  BY <1>2, SearchAssumption DEF EnterOnce, CacheInv, parseCache
<1>3. CASE Ldconfig
  BY <1>3 DEF Ldconfig, CacheInv, parseCache
<1>4. CASE UNCHANGED <<cacheFile, once, cache, source>>
  BY <1>4 DEF CacheInv, parseCache
<1>5. \/ UNCHANGED <<cacheFile, once, cache, source>> \/ Ldconfig
      \/ \E g \in Goroutines : LoadCache(g) \/ EnterOnce(g)
  BY DEF Next, Environment, Proceed, Install, Uninstall, Stat, NotFound, LookupInCache, findLibrary, vars
<1> QED BY <1>1, <1>2, <1>3, <1>4, <1>5

\* What the process has for a name is in the last usable entry of one cache file, the same
\* for every goroutine and for ever, whatever ldconfig does meanwhile (ldcache.go)
THEOREM CacheAsRead == Spec => []CacheFaithful
<1>1. Init => CacheInv
  BY SearchAssumption DEF Init, CacheInv
<1>2. CacheInv /\ [Next]_vars => CacheInv'
  BY CacheStep
<1>3. CacheInv => CacheFaithful
  <2> SUFFICES ASSUME CacheInv PROVE CacheFaithful
    OBVIOUS
  <2>1. once = "done" => source # None
    BY SearchAssumption DEF CacheInv
  <2>2. ASSUME source # None, source.readable, NEW b \in Bases
        PROVE  Cached(b) = IF Usable(source.entries, b, Len(source.entries)) = {} THEN None
                           ELSE source.entries[Max(Usable(source.entries, b, Len(source.entries)))].value
    <3>1. source \in CacheFile /\ cache = parseCacheEntries(source.entries)
      BY <2>2, SearchAssumption DEF CacheInv, parseCache
    <3>2. PICK entries \in Seq(CacheEntry) : entries = source.entries
      BY <3>1 DEF CacheFile
    <3>3. cache \in Table /\ cache # None
      BY <3>1, <3>2, <2>2, LastUsable, SearchAssumption DEF Table
    <3> QED BY <3>1, <3>2, <3>3, LastUsable DEF Cached
  <2>3. ASSUME source # None, source.readable, NEW b \in Bases
        PROVE  Usable(source.entries, b, Len(source.entries)) =
                 {i \in DOMAIN source.entries :
                    LET e == source.entries[i] IN
                    e.libc6 /\ e.arch # "other" /\ e.whole /\ e.key = b}
    <3>1. source \in CacheFile
      BY <2>3, SearchAssumption DEF CacheInv
    <3>2. DOMAIN source.entries = 1 .. Len(source.entries)
      BY <3>1, LenProperties DEF CacheFile
    <3> QED BY <3>2 DEF Usable
  <2> QED BY <2>1, <2>2, <2>3 DEF CacheFaithful
<1> QED BY <1>1, <1>2, <1>3, PTL DEF Spec

\* The cache file is read once: what the process has is never read again, not even if the
\* file could not be read (cacheLoadOnce, ldcache.go)
THEOREM CacheReadOnce == Spec => CacheKept
<1>1. Init => CacheInv
  BY SearchAssumption DEF Init, CacheInv
<1>2. CacheInv /\ [Next]_vars => CacheInv'
  BY CacheStep
<1>3. CacheInv /\ [Next]_vars => [source # None => UNCHANGED <<cache, source>>]_vars
  <2> SUFFICES ASSUME CacheInv, [Next]_vars, source # None PROVE UNCHANGED <<cache, source>>
    OBVIOUS
  <2>1. once = "done"
    BY DEF CacheInv
  <2>2. CASE \E g \in Goroutines : LoadCache(g) \/ EnterOnce(g)
    BY <2>1, <2>2, SearchAssumption DEF LoadCache, EnterOnce
  <2>3. \/ UNCHANGED <<cache, source>>
        \/ \E g \in Goroutines : LoadCache(g) \/ EnterOnce(g)
    BY DEF Next, Environment, Proceed, Install, Uninstall, Stat, NotFound, LookupInCache,
           findLibrary, Ldconfig, vars
  <2> QED BY <2>2, <2>3
<1> QED BY <1>1, <1>2, <1>3, PTL DEF Spec, CacheKept

-----------------------------------------------------------------------------
(* The order of the search *)

Items == {InCache} \cup {File(p) : p \in Paths}

\* A list of things to look at, and the place each comes from; a place never comes after
\* a later one
Rising(s, pl) ==
    /\ s \in Seq(Items) /\ pl \in [1 .. Len(s) -> 1 .. 5]
    /\ \A i, j \in 1 .. Len(s) : i <= j => pl[i] <= pl[j]
Placed(s, pl) == {<<pl[i], s[i]>> : i \in 1 .. Len(s)}

\* What a search of r still has to look at: only files of the places they are listed under,
\* and, until the cache is read, the cache; each file of a place was missing, or is listed,
\* or may be found through the cache
Proper(r, w) ==
    /\ w[1] \in 1 .. 5
    /\ IF w[2] = InCache THEN w[1] = 3 /\ ~ Direct(r.name) ELSE w[2].path \in Place(r, w[1])
Covered(r, k, W, missing) ==
    \A p \in Place(r, k) : p \in missing \/ <<k, File(p)>> \in W \/ <<k, InCache>> \in W
Planned(r, W, missing) ==
    /\ \A w \in W : Proper(r, w)
    /\ \A k \in 1 .. 5 : Covered(r, k, W, missing)
    /\ once = "done" \/ Direct(r.name) \/ <<3, InCache>> \in W

\* What a search that has returned p can say of the places
FirstFound(r, p, missing) ==
    \E k \in 1 .. 5 :
        /\ p \in Place(r, k) /\ \A j \in 1 .. k - 1 : Place(r, j) \subseteq missing
        /\ k <= 2 \/ once = "done" \/ Direct(r.name)
NoneFound(r, missing) ==
    /\ \A k \in 1 .. 5 : Place(r, k) \subseteq missing
    /\ once = "done" \/ Direct(r.name)

SearchTypes ==
    /\ disk \subseteq Paths
    /\ request \in [Goroutines -> Requests \cup {None}]
    /\ todo \in [Goroutines -> Seq(Items)]
    /\ state \in [Goroutines -> {"idle", "searching", "returned"}]
    /\ result \in [Goroutines -> Paths \cup {None}]
    /\ there \in [Goroutines -> SUBSET Paths] /\ gone \in [Goroutines -> SUBSET Paths]

InOrder(g) ==
    /\ state[g] # "idle" => request[g] \in Requests
    /\ Searching(g) =>
        /\ Paths \ disk \subseteq gone[g]
        /\ \E pl : Rising(todo[g], pl) /\ Planned(request[g], Placed(todo[g], pl), gone[g])
    /\ Returned(g) /\ result[g] # None => FirstFound(request[g], result[g], gone[g])
    /\ Returned(g) /\ result[g] = None => NoneFound(request[g], gone[g])

OrderInv == SearchTypes /\ CacheInv /\ \A g \in Goroutines : InOrder(g)

\* Two lists one after the other, if no place of the first comes after one of the second
LEMMA JoinPlans ==
    ASSUME NEW s, NEW pl, Rising(s, pl), NEW t, NEW ql, Rising(t, ql),
           \A w \in Placed(s, pl) : \A x \in Placed(t, ql) : w[1] <= x[1]
    PROVE  \E rl : Rising(s \o t, rl) /\ Placed(s \o t, rl) = Placed(s, pl) \cup Placed(t, ql)
<1>1. s \in Seq(Items) /\ t \in Seq(Items) /\ Len(s) \in Nat /\ Len(t) \in Nat
  BY LenProperties DEF Rising
<1>2. PICK m \in Nat : m = Len(s)
  BY <1>1
<1>3. PICK n \in Nat : n = Len(t)
  BY <1>1
<1>4. PICK u : u = s \o t
  OBVIOUS
<1>5. /\ u \in Seq(Items) /\ Len(u) = m + n
      /\ \A i \in 1 .. m + n : u[i] = IF i <= m THEN s[i] ELSE t[i - m]
  BY <1>1, <1>2, <1>3, <1>4, ConcatProperties
<1> DEFINE rl == [i \in 1 .. m + n |-> IF i <= m THEN pl[i] ELSE ql[i - m]]
<1>6. \A i \in 1 .. m + n : i > m => i - m \in 1 .. n
  OBVIOUS
<1>7. rl \in [1 .. Len(u) -> 1 .. 5]
  BY <1>2, <1>3, <1>5, <1>6 DEF Rising
<1>8. \A i \in 1 .. m : \A j \in 1 .. n : pl[i] <= ql[j]
  <2> SUFFICES ASSUME NEW i \in 1 .. m, NEW j \in 1 .. n PROVE pl[i] <= ql[j]
    OBVIOUS
  <2>1. <<pl[i], s[i]>> \in Placed(s, pl) /\ <<ql[j], t[j]>> \in Placed(t, ql)
    BY <1>2, <1>3 DEF Placed
  <2>2. <<pl[i], s[i]>>[1] <= <<ql[j], t[j]>>[1]
    BY <2>1
  <2> QED BY <2>2
<1>9. ASSUME NEW i \in 1 .. m + n, NEW j \in 1 .. m + n, i <= j PROVE rl[i] <= rl[j]
  <2>1. CASE j <= m
    BY <1>2, <1>9, <2>1 DEF Rising
  <2>2. CASE i > m
    <3>1. i - m \in 1 .. n /\ j - m \in 1 .. n /\ i - m <= j - m /\ j > m
      BY <1>9, <2>2
    <3>2. rl[i] = ql[i - m] /\ rl[j] = ql[j - m]
      BY <2>2, <3>1
    <3> QED BY <1>3, <3>1, <3>2 DEF Rising
  <2>3. CASE i <= m /\ j > m
    <3>1. rl[i] = pl[i] /\ rl[j] = ql[j - m] /\ i \in 1 .. m /\ j - m \in 1 .. n
      BY <2>3
    <3> QED BY <1>8, <3>1
  <2> QED BY <2>1, <2>2, <2>3
<1>10. Rising(u, rl)
  <2> HIDE DEF rl
  <2> QED BY <1>5, <1>7, <1>9 DEF Rising
<1>11. \A i \in 1 .. m : i \in 1 .. m + n /\ rl[i] = pl[i] /\ u[i] = s[i]
  BY <1>5
<1>12. \A i \in 1 .. n : i + m \in 1 .. m + n /\ rl[i + m] = ql[i] /\ u[i + m] = t[i]
  <2> SUFFICES ASSUME NEW i \in 1 .. n PROVE i + m \in 1 .. m + n /\ rl[i + m] = ql[i] /\ u[i + m] = t[i]
    OBVIOUS
  <2>1. PICK j \in 1 .. m + n : j = i + m /\ j - m = i /\ ~ (j <= m)
    OBVIOUS
  <2>2. rl[j] = ql[i] /\ u[j] = t[i]
    BY <1>5, <2>1
  <2> QED BY <2>1, <2>2
<1>13. ASSUME NEW w, w \in Placed(u, rl) PROVE w \in Placed(s, pl) \cup Placed(t, ql)
  <2>1. PICK i \in 1 .. m + n : w = <<rl[i], u[i]>>
    BY <1>5, <1>13 DEF Placed
  <2>2. CASE i <= m
    <3>1. i \in 1 .. m
      BY <2>2
    <3>2. w = <<pl[i], s[i]>>
      <4> HIDE DEF rl
      <4> QED BY <1>11, <2>1, <3>1
    <3> QED BY <1>2, <3>1, <3>2 DEF Placed
  <2>3. CASE i > m
    <3>1. PICK j \in 1 .. n : j = i - m /\ j + m = i
      BY <2>3
    <3>2. w = <<ql[j], t[j]>>
      <4> HIDE DEF rl
      <4> QED BY <1>12, <2>1, <3>1
    <3> QED BY <1>3, <3>2 DEF Placed
  <2> QED BY <2>2, <2>3
<1>14. ASSUME NEW w, w \in Placed(s, pl) PROVE w \in Placed(u, rl)
  <2> HIDE DEF rl
  <2> QED BY <1>2, <1>5, <1>11, <1>14 DEF Placed
<1>15. ASSUME NEW w, w \in Placed(t, ql) PROVE w \in Placed(u, rl)
  <2> HIDE DEF rl
  <2>1. PICK j \in 1 .. n : w = <<ql[j], t[j]>>
    BY <1>3, <1>15 DEF Placed
  <2>2. PICK i \in 1 .. m + n : i = j + m
    BY <1>12
  <2>3. w = <<rl[i], u[i]>>
    BY <1>12, <2>1, <2>2
  <2> QED BY <1>5, <2>3 DEF Placed
<1>16. Placed(u, rl) = Placed(s, pl) \cup Placed(t, ql)
  BY <1>13, <1>14, <1>15
<1> QED BY <1>4, <1>10, <1>16

\* A list of directories of one place
LEMMA DirsPlan ==
    ASSUME NEW dirs \in Seq(Dirs), NEW b \in Bases, NEW k \in 1 .. 5
    PROVE  \E pl : /\ Rising(InDirs(dirs, b), pl)
                   /\ Placed(InDirs(dirs, b), pl) = {<<k, Join(d, b)>> : d \in Elements(dirs)}
<1>1. Len(dirs) \in Nat /\ DOMAIN dirs = 1 .. Len(dirs) /\ \A i \in 1 .. Len(dirs) : dirs[i] \in Dirs
  BY LenProperties, ElementOfSeq
<1>2. PICK n \in Nat : n = Len(dirs)
  BY <1>1
<1>3. PICK s : s = InDirs(dirs, b)
  OBVIOUS
<1>4. s = [i \in 1 .. n |-> Join(dirs[i], b)]
  BY <1>1, <1>2, <1>3 DEF InDirs
<1>5. \A i \in 1 .. n : Join(dirs[i], b) \in Items
  BY <1>1, <1>2 DEF Join, Items, Paths
<1>6. s \in Seq(Items) /\ Len(s) = n
  <2>1. s \in [1 .. n -> Items]
    BY <1>4, <1>5
  <2>2. s \in Seq(Items)
    BY <2>1, SeqDef
  <2> QED BY <2>1, <2>2, LenProperties
<1> DEFINE pl == [i \in 1 .. n |-> k]
<1>7. Rising(s, pl)
  BY <1>6 DEF Rising
<1>8. Placed(s, pl) = {<<k, Join(d, b)>> : d \in Elements(dirs)}
  BY <1>1, <1>2, <1>4, <1>6 DEF Placed, Elements
<1> QED BY <1>3, <1>7, <1>8

\* A list of one thing
LEMMA OnePlan ==
    ASSUME NEW x \in Items, NEW k \in 1 .. 5
    PROVE  \E pl : Rising(<<x>>, pl) /\ Placed(<<x>>, pl) = {<<k, x>>}
<1> DEFINE pl == [i \in 1 .. 1 |-> k]
<1>1. <<x>> \in Seq(Items) /\ Len(<<x>>) = 1 /\ <<x>>[1] = x
  OBVIOUS
<1>2. Rising(<<x>>, pl)
  BY <1>1 DEF Rising
<1>3. Placed(<<x>>, pl) = {<<k, x>>}
  BY <1>1 DEF Placed
<1> QED BY <1>2, <1>3

\* What is left when the first thing has been looked at
LEMMA TailPlan ==
    ASSUME NEW s, NEW pl, Rising(s, pl), s # <<>>
    PROVE  /\ Head(s) \in Items /\ Tail(s) \in Seq(Items)
           /\ <<pl[1], Head(s)>> \in Placed(s, pl) /\ pl[1] \in 1 .. 5
           /\ \A w \in Placed(s, pl) : pl[1] <= w[1]
           /\ \E ql : /\ Rising(Tail(s), ql) /\ Placed(Tail(s), ql) \subseteq Placed(s, pl)
                       /\ Placed(s, pl) = {<<pl[1], Head(s)>>} \cup Placed(Tail(s), ql)
<1>1. s \in Seq(Items) /\ Len(s) \in Nat \ {0} /\ pl \in [1 .. Len(s) -> 1 .. 5]
  BY LenProperties, EmptySeq DEF Rising
<1>2. PICK n \in Nat : Len(s) = n + 1
  <2>1. Len(s) - 1 \in Nat /\ (Len(s) - 1) + 1 = Len(s)
    BY <1>1
  <2> QED BY <2>1
<1>3. PICK t : t = Tail(s)
  OBVIOUS
<1>4. /\ Head(s) = s[1] /\ Head(s) \in Items /\ t \in Seq(Items) /\ Len(t) = n
      /\ \A i \in 1 .. n : t[i] = s[i + 1]
  BY <1>1, <1>2, <1>3, HeadTailProperties, LenProperties, ElementOfSeq
<1> DEFINE ql == [i \in 1 .. n |-> pl[i + 1]]
<1>5. \A i \in 1 .. n : i + 1 \in 1 .. n + 1
  OBVIOUS
<1>6. Rising(t, ql)
  BY <1>1, <1>2, <1>4, <1>5 DEF Rising
<1>7. 1 \in 1 .. n + 1 /\ \A i \in 1 .. n + 1 : pl[1] <= pl[i]
  BY <1>1, <1>2 DEF Rising
<1>8. <<pl[1], s[1]>> \in Placed(s, pl) /\ \A w \in Placed(s, pl) : pl[1] <= w[1]
  BY <1>2, <1>7 DEF Placed
<1>9. ASSUME NEW w, w \in Placed(t, ql) PROVE w \in Placed(s, pl)
  <2>1. PICK i \in 1 .. n : w = <<ql[i], t[i]>>
    BY <1>4, <1>9 DEF Placed
  <2>2. PICK j \in 1 .. n + 1 : j = i + 1
    BY <1>5
  <2>3. w = <<pl[j], s[j]>>
    BY <1>4, <2>1, <2>2
  <2> QED BY <1>2, <2>3 DEF Placed
<1>10. ASSUME NEW w, w \in Placed(s, pl) PROVE w = <<pl[1], s[1]>> \/ w \in Placed(t, ql)
  <2>1. PICK j \in 1 .. n + 1 : w = <<pl[j], s[j]>>
    BY <1>2, <1>10 DEF Placed
  <2>2. CASE j # 1
    <3>1. PICK i \in 1 .. n : j = i + 1
      <4>1. j - 1 \in 1 .. n /\ j = (j - 1) + 1
        BY <2>2
      <4> QED BY <4>1
    <3>2. w = <<ql[i], t[i]>>
      BY <1>4, <2>1, <3>1
    <3> QED BY <1>4, <3>2 DEF Placed
  <2> QED BY <2>1, <2>2
<1>11. pl[1] \in 1 .. 5
  BY <1>1, <1>2, <1>7
<1>12. Placed(t, ql) \subseteq Placed(s, pl) /\ Placed(s, pl) = {<<pl[1], s[1]>>} \cup Placed(t, ql)
  BY <1>8, <1>9, <1>10
<1> QED BY <1>3, <1>4, <1>6, <1>8, <1>11, <1>12

\* The files that a list of directories has for a name
Named(dirs, b) == {[dir |-> d, base |-> b] : d \in Elements(dirs) \ {None}}

LEMMA Places ==
    ASSUME NEW r \in Requests
    PROVE  /\ Direct(r.name) => /\ r.name \in Paths /\ Place(r, 1) = {r.name}
                                /\ \A k \in 2 .. 5 : Place(r, k) = {}
           /\ ~ Direct(r.name) =>
                /\ Place(r, 1) = Named(r.runpath, r.name.base)
                /\ Place(r, 2) = Named(LibraryPath, r.name.base)
                /\ Place(r, 3) = {Cached(r.name.base)} \ {None}
                /\ Place(r, 4) = Named(r.rpath, r.name.base)
                /\ Place(r, 5) = Named(defaultSearchPaths, r.name.base)
           /\ r.name.base \in Bases /\ r.runpath \in PathList /\ r.rpath \in PathList
<1>1. r \in Request
  BY SearchAssumption
<1>2. r.name \in Name /\ r.name.base \in Bases /\ r.runpath \in PathList /\ r.rpath \in PathList
  BY <1>1 DEF Request, Name
<1>3. ASSUME Direct(r.name)
      PROVE  r.name \in Paths /\ Place(r, 1) = {r.name} /\ \A k \in 2 .. 5 : Place(r, k) = {}
  BY <1>2, <1>3 DEF Direct, Name, Paths, Place
<1>4. \A dirs, b : Named(dirs, b) =
                     {[dir |-> dirs[i], base |-> b] : i \in {i \in DOMAIN dirs : dirs[i] # None}}
  BY DEF Named, Elements
<1>5. ASSUME ~ Direct(r.name)
      PROVE  /\ Place(r, 1) = Named(r.runpath, r.name.base)
             /\ Place(r, 2) = Named(LibraryPath, r.name.base)
             /\ Place(r, 3) = {Cached(r.name.base)} \ {None}
             /\ Place(r, 4) = Named(r.rpath, r.name.base)
             /\ Place(r, 5) = Named(defaultSearchPaths, r.name.base)
  BY <1>4, <1>5 DEF Place
<1> QED BY <1>2, <1>3, <1>5

\* The parts of a list that are not empty are the files of its place
LEMMA ListPlan ==
    ASSUME NEW list \in PathList, NEW b \in Bases, NEW k \in 1 .. 5
    PROVE  \E pl : /\ Rising(InDirs(splitPaths(list), b), pl)
                   /\ Placed(InDirs(splitPaths(list), b), pl) = {<<k, File(p)>> : p \in Named(list, b)}
<1>1. splitPaths(list) \in Seq(Dirs) /\ Elements(splitPaths(list)) = Elements(list) \ {None}
  BY PartsKept
<1>2. PICK dirs \in Seq(Dirs) : dirs = splitPaths(list)
  BY <1>1
<1>3. PICK pl : /\ Rising(InDirs(dirs, b), pl)
                /\ Placed(InDirs(dirs, b), pl) = {<<k, Join(d, b)>> : d \in Elements(dirs)}
  BY DirsPlan
<1>4. {<<k, Join(d, b)>> : d \in Elements(dirs)} = {<<k, File(p)>> : p \in Named(list, b)}
  BY <1>1, <1>2 DEF Join, Named
<1> QED BY <1>2, <1>3, <1>4

\* The five places of buildSearchPaths, in their order
LEMMA AllPlanned ==
    ASSUME NEW r \in Requests, ~ Direct(r.name)
    PROVE  \E pl : Rising(SearchPaths(r), pl) /\ \A missing : Planned(r, Placed(SearchPaths(r), pl), missing)
<1> DEFINE b == r.name.base
           s1 == InDirs(splitPaths(r.runpath), b)
           s2 == InDirs(splitPaths(LibraryPath), b)
           s3 == <<InCache>>
           s4 == InDirs(splitPaths(r.rpath), b)
           s5 == InDirs(defaultSearchPaths, b)
           W(k, dirs) == {<<k, File(p)>> : p \in Named(dirs, b)}
<1>1. b \in Bases /\ r.runpath \in PathList /\ r.rpath \in PathList /\ LibraryPath \in PathList
      /\ defaultSearchPaths \in Seq(Dirs) /\ None \notin Dirs
  BY Places, SearchAssumption
<1>p. ASSUME NEW list \in PathList, NEW k \in 1 .. 5
      PROVE  \E pl : /\ Rising(InDirs(splitPaths(list), b), pl)
                     /\ Placed(InDirs(splitPaths(list), b), pl) = W(k, list)
  BY <1>1, ListPlan
<1>q. 1 \in 1 .. 5 /\ 2 \in 1 .. 5 /\ 4 \in 1 .. 5
  OBVIOUS
<1>2. PICK p1 : Rising(s1, p1) /\ Placed(s1, p1) = W(1, r.runpath)
  BY <1>1, <1>p, <1>q, Zenon
<1>3. PICK p2 : Rising(s2, p2) /\ Placed(s2, p2) = W(2, LibraryPath)
  BY <1>1, <1>p, <1>q, Zenon
<1>4. PICK p3 : Rising(s3, p3) /\ Placed(s3, p3) = {<<3, InCache>>}
  <2>1. InCache \in Items
    BY DEF Items
  <2>2. PICK x \in Items : x = InCache
    BY <2>1
  <2>3. PICK p3 : Rising(<<x>>, p3) /\ Placed(<<x>>, p3) = {<<3, x>>}
    <3>1. 3 \in 1 .. 5
      OBVIOUS
    <3> QED BY <3>1, OnePlan, Zenon
  <2> QED BY <2>2, <2>3
<1>5. PICK p4 : Rising(s4, p4) /\ Placed(s4, p4) = W(4, r.rpath)
  BY <1>1, <1>p, <1>q, Zenon
<1>6. PICK p5 : Rising(s5, p5) /\ Placed(s5, p5) = W(5, defaultSearchPaths)
  <2>1. PICK pl : Rising(s5, pl) /\ Placed(s5, pl) = {<<5, Join(d, b)>> : d \in Elements(defaultSearchPaths)}
    BY <1>1, DirsPlan
  <2>2. Elements(defaultSearchPaths) = Elements(defaultSearchPaths) \ {None}
    BY <1>1, ElementOfSeq, LenProperties DEF Elements
  <2>3. {<<5, Join(d, b)>> : d \in Elements(defaultSearchPaths)} = W(5, defaultSearchPaths)
    BY <2>2 DEF Join, Named
  <2> QED BY <2>1, <2>3
<1>7. \A k, dirs : \A w \in W(k, dirs) : w[1] = k
  OBVIOUS
<1> HIDE DEF s1, s2, s3, s4, s5, W
<1> DEFINE W2 == W(1, r.runpath) \cup W(2, LibraryPath)
           W3 == W2 \cup {<<3, InCache>>}
           W4 == W3 \cup W(4, r.rpath)
<1>a. PICK u2 : u2 = s1 \o s2
  OBVIOUS
<1>b. PICK u3 : u3 = u2 \o s3
  OBVIOUS
<1>c. PICK u4 : u4 = u3 \o s4
  OBVIOUS
<1>8. PICK q2 : Rising(u2, q2) /\ Placed(u2, q2) = W(1, r.runpath) \cup W(2, LibraryPath)
  <2>1. \A w \in Placed(s1, p1) : \A x \in Placed(s2, p2) : w[1] <= x[1]
    BY <1>2, <1>3, <1>7
  <2> QED BY <1>2, <1>3, <1>a, <2>1, JoinPlans
<1>9. PICK q3 : Rising(u3, q3) /\ Placed(u3, q3) = W2 \cup {<<3, InCache>>}
  <2>1. \A w \in Placed(u2, q2) : \A x \in Placed(s3, p3) : w[1] <= x[1]
    BY <1>4, <1>7, <1>8
  <2>2. PICK c : c = <<3, InCache>>
    OBVIOUS
  <2>3. Placed(s3, p3) = {c} /\ Rising(s3, p3) /\ Rising(u2, q2) /\ Placed(u2, q2) = W2
    BY <1>4, <1>8, <2>2
  <2>4. \E rl : Rising(u2 \o s3, rl) /\ Placed(u2 \o s3, rl) = Placed(u2, q2) \cup Placed(s3, p3)
    BY <2>1, <2>3, JoinPlans
  <2> HIDE DEF W2
  <2> QED BY <1>b, <2>2, <2>3, <2>4
<1>10. PICK q4 : Rising(u4, q4) /\ Placed(u4, q4) = W3 \cup W(4, r.rpath)
  <2>1. \A w \in Placed(u3, q3) : \A x \in Placed(s4, p4) : w[1] <= x[1]
    BY <1>5, <1>7, <1>9
  <2> QED BY <1>5, <1>9, <1>c, <2>1, JoinPlans
<1>11. PICK q5 : Rising(u4 \o s5, q5) /\ Placed(u4 \o s5, q5) = W4 \cup W(5, defaultSearchPaths)
  <2>1. \A w \in Placed(u4, q4) : \A x \in Placed(s5, p5) : w[1] <= x[1]
    BY <1>6, <1>7, <1>10
  <2> QED BY <1>6, <1>10, <2>1, JoinPlans
<1>12. u4 \o s5 = SearchPaths(r)
  BY <1>a, <1>b, <1>c DEF SearchPaths, s1, s2, s3, s4, s5
<1> DEFINE all == W4 \cup W(5, defaultSearchPaths)
<1>13. ASSUME NEW w \in all PROVE Proper(r, w)
  <2>1. CASE w = <<3, InCache>>
    BY <2>1 DEF Proper
  <2>2. ASSUME NEW k, NEW dirs, w \in W(k, dirs), Place(r, k) = Named(dirs, b)
        PROVE  Proper(r, w)
    BY <2>2 DEF W, Proper, File, InCache
  <2>3. \/ w = <<3, InCache>> \/ w \in W(1, r.runpath) \/ w \in W(2, LibraryPath)
        \/ w \in W(4, r.rpath) \/ w \in W(5, defaultSearchPaths)
    OBVIOUS
  <2> HIDE DEF all
  <2> QED BY <2>1, <2>2, <2>3, Places
<1>14. ASSUME NEW missing, NEW k \in 1 .. 5 PROVE Covered(r, k, all, missing)
  <2>1. CASE k = 3
    BY <2>1 DEF Covered
  <2>2. ASSUME NEW dirs, W(k, dirs) \subseteq all, Place(r, k) = Named(dirs, b)
        PROVE  Covered(r, k, all, missing)
    <3> HIDE DEF all
    <3> QED BY <2>2 DEF W, Covered
  <2>3. /\ W(1, r.runpath) \subseteq all /\ W(2, LibraryPath) \subseteq all
        /\ W(4, r.rpath) \subseteq all /\ W(5, defaultSearchPaths) \subseteq all
    OBVIOUS
  <2>4. k = 1 \/ k = 2 \/ k = 3 \/ k = 4 \/ k = 5
    OBVIOUS
  <2> HIDE DEF all
  <2> QED BY <2>1, <2>2, <2>3, <2>4, Places
<1>15. \A missing : Planned(r, all, missing)
  <2>1. <<3, InCache>> \in all
    OBVIOUS
  <2> HIDE DEF all
  <2> QED BY <1>13, <1>14, <2>1 DEF Planned
<1>16. Rising(SearchPaths(r), q5) /\ Placed(SearchPaths(r), q5) = all
  BY <1>11, <1>12
<1> HIDE DEF all, W4
<1>17. \A missing : Planned(r, Placed(SearchPaths(r), q5), missing)
  BY <1>15, <1>16
<1> QED BY <1>16, <1>17

\* A search begins with a plan, that of a name with a directory in it too
LEMMA BeginPlanned ==
    ASSUME NEW r \in Requests, NEW s, s = IF Direct(r.name) THEN <<File(r.name)>> ELSE SearchPaths(r)
    PROVE  \E pl : Rising(s, pl) /\ \A missing : Planned(r, Placed(s, pl), missing)
<1>1. CASE ~ Direct(r.name)
  BY <1>1, AllPlanned
<1>2. CASE Direct(r.name)
  <2>1. File(r.name) \in Items
    BY <1>2, Places DEF Items
  <2>2. PICK pl : Rising(s, pl) /\ Placed(s, pl) = {<<1, File(r.name)>>}
    <3>1. PICK x \in Items : x = File(r.name)
      BY <2>1
    <3>2. 1 \in 1 .. 5
      OBVIOUS
    <3>3. PICK pl : Rising(<<x>>, pl) /\ Placed(<<x>>, pl) = {<<1, x>>}
      BY <3>2, OnePlan, Zenon
    <3> QED BY <1>2, <3>1, <3>3
  <2>3. Proper(r, <<1, File(r.name)>>)
    BY <1>2, Places DEF Proper, File, InCache
  <2>4. ASSUME NEW missing, NEW k \in 1 .. 5 PROVE Covered(r, k, {<<1, File(r.name)>>}, missing)
    <3>1. CASE k = 1
      BY <1>2, <3>1, Places DEF Covered
    <3>2. CASE k \in 2 .. 5
      BY <1>2, <3>2, Places DEF Covered
    <3> QED BY <3>1, <3>2
  <2>5. \A missing : Planned(r, {<<1, File(r.name)>>}, missing)
    BY <1>2, <2>3, <2>4 DEF Planned
  <2>6. \A missing : Planned(r, Placed(s, pl), missing)
    <3>1. PICK W : W = {<<1, File(r.name)>>}
      OBVIOUS
    <3> QED BY <2>2, <2>5, <3>1, Zenon
  <2> QED BY <2>2, <2>6
<1> QED BY <1>1, <1>2

\* A place has the same files until the cache is read; before, the third has none
LEMMA PlaceStep ==
    ASSUME CacheInv, [Next]_vars, NEW r \in Requests
    PROVE  /\ \A k \in 1 .. 5 : (k # 3 \/ Direct(r.name) \/ once = "done") => Place(r, k)' = Place(r, k)
           /\ (once # "done" /\ ~ Direct(r.name)) => Place(r, 3) = {}
           /\ UNCHANGED cache => \A k \in 1 .. 5 : Place(r, k)' = Place(r, k)
<1>1. ASSUME UNCHANGED cache, NEW k \in 1 .. 5 PROVE Place(r, k)' = Place(r, k)
  BY <1>1 DEF Place, Cached
<1>2. ASSUME NEW k \in 1 .. 5, k # 3 \/ Direct(r.name) PROVE Place(r, k)' = Place(r, k)
  <2>1. CASE Direct(r.name)
    BY <2>1 DEF Place
  <2>2. CASE ~ Direct(r.name)
    <3>1. k = 1 \/ k = 2 \/ k = 4 \/ k = 5
      BY <1>2, <2>2
    <3> QED BY <2>2, <3>1 DEF Place
  <2> QED BY <2>1, <2>2
<1>3. once = "done" => UNCHANGED cache
  BY CacheStep
<1>4. ASSUME once # "done", ~ Direct(r.name) PROVE Place(r, 3) = {}
  BY <1>4, Places DEF CacheInv, Cached
<1> QED BY <1>1, <1>2, <1>3, <1>4

\* A plan stays one while the others work, files come and go, and the cache is read
LEMMA PlanStep ==
    ASSUME CacheInv, [Next]_vars, NEW r \in Requests, NEW W, NEW missing, NEW more,
           missing \subseteq more, Planned(r, W, missing)
    PROVE  Planned(r, W, more)'
<1>1. ASSUME NEW w \in W PROVE Proper(r, w)'
  <2>1. Proper(r, w)
    BY DEF Planned
  <2>2. CASE w[2] = InCache
    BY <2>1, <2>2 DEF Proper
  <2>3. CASE w[2] # InCache
    <3>1. w[1] \in 1 .. 5 /\ w[2].path \in Place(r, w[1])
      BY <2>1, <2>3 DEF Proper
    <3>2. PICK k \in 1 .. 5 : k = w[1]
      BY <3>1
    <3>3. Place(r, k)' = Place(r, k)
      BY <3>1, <3>2, PlaceStep
    <3> QED BY <2>3, <3>1, <3>2, <3>3 DEF Proper
  <2> QED BY <2>2, <2>3
<1>2. ASSUME NEW k \in 1 .. 5 PROVE Covered(r, k, W, more)'
  <2>1. Covered(r, k, W, missing)
    BY DEF Planned
  <2>2. CASE Place(r, k)' = Place(r, k)
    BY <2>1, <2>2 DEF Covered
  <2>3. CASE Place(r, k)' # Place(r, k)
    <3>1. k = 3 /\ ~ Direct(r.name) /\ once # "done"
      BY <2>3, PlaceStep
    <3>2. <<k, InCache>> \in W
      BY <3>1 DEF Planned
    <3> QED BY <3>2 DEF Covered
  <2> QED BY <2>2, <2>3
<1>3. (once = "done" \/ Direct(r.name) \/ <<3, InCache>> \in W)'
  BY CacheStep DEF Planned
<1> QED BY <1>1, <1>2, <1>3 DEF Planned

\* So does what a search that has returned can say
LEMMA FoundStep ==
    ASSUME CacheInv, [Next]_vars, NEW r \in Requests, NEW p, NEW missing
    PROVE  /\ FirstFound(r, p, missing) => FirstFound(r, p, missing)'
           /\ NoneFound(r, missing) => NoneFound(r, missing)'
<1>1. ASSUME FirstFound(r, p, missing) PROVE FirstFound(r, p, missing)'
  <2>1. PICK k \in 1 .. 5 :
           /\ p \in Place(r, k) /\ \A j \in 1 .. k - 1 : Place(r, j) \subseteq missing
           /\ k <= 2 \/ once = "done" \/ Direct(r.name)
    BY <1>1 DEF FirstFound
  <2>2. \A j \in 1 .. k : Place(r, j)' = Place(r, j)
    <3>1. \A j \in 1 .. k : j \in 1 .. 5 /\ (j # 3 \/ Direct(r.name) \/ once = "done")
      BY <2>1
    <3> QED BY <3>1, PlaceStep
  <2>3. once = "done" => once' = "done"
    BY CacheStep
  <2>4. k \in 1 .. k /\ \A j \in 1 .. k - 1 : j \in 1 .. k
    OBVIOUS
  <2> QED BY <2>1, <2>2, <2>3, <2>4 DEF FirstFound
<1>2. ASSUME NoneFound(r, missing) PROVE NoneFound(r, missing)'
  <2>1. \A k \in 1 .. 5 : Place(r, k)' = Place(r, k)
    BY <1>2, PlaceStep DEF NoneFound
  <2>2. once = "done" => once' = "done"
    BY CacheStep
  <2> QED BY <1>2, <2>1, <2>2 DEF NoneFound
<1> QED BY <1>1, <1>2

\* A goroutine that does nothing stays in order
LEMMA OthersInOrder ==
    ASSUME OrderInv, [Next]_vars, NEW g \in Goroutines,
           UNCHANGED <<request[g], todo[g], state[g], result[g]>>,
           gone[g] \subseteq gone'[g], Returned(g) => UNCHANGED gone[g],
           Searching(g) => Paths \ disk' \subseteq gone'[g]
    PROVE  InOrder(g)'
<1>1. CacheInv /\ InOrder(g)
  BY DEF OrderInv
<1>2. PICK r, s, missing, more, p : /\ r = request[g] /\ s = todo[g] /\ p = result[g]
                                   /\ missing = gone[g] /\ more = gone'[g]
  OBVIOUS
<1>3. r = request'[g] /\ s = todo'[g] /\ p = result'[g] /\ missing \subseteq more
  BY <1>2
<1>4. ASSUME Searching(g)
      PROVE  \E pl : Rising(s, pl) /\ Planned(r, Placed(s, pl), more)'
  <2>1. r \in Requests
    BY <1>1, <1>2, <1>4 DEF InOrder, Searching
  <2>2. PICK pl : Rising(s, pl) /\ Planned(r, Placed(s, pl), missing)
    BY <1>1, <1>2, <1>4 DEF InOrder
  <2>3. PICK W : W = Placed(s, pl)
    OBVIOUS
  <2>4. Planned(r, W, more)'
    BY <1>1, <1>3, <2>1, <2>2, <2>3, PlanStep
  <2> QED BY <2>2, <2>3, <2>4
<1>5. ASSUME Returned(g)
      PROVE  /\ p # None => FirstFound(r, p, more)'
             /\ p = None => NoneFound(r, more)'
  <2>1. r \in Requests /\ more = missing
    BY <1>1, <1>2, <1>5 DEF InOrder, Returned
  <2>2. /\ p # None => FirstFound(r, p, missing)
        /\ p = None => NoneFound(r, missing)
    BY <1>1, <1>2, <1>5 DEF InOrder
  <2> QED BY <1>1, <2>1, <2>2, FoundStep
<1>6. (state[g] # "idle" => request[g] \in Requests)'
  BY <1>1 DEF InOrder
<1> QED BY <1>2, <1>3, <1>4, <1>5, <1>6 DEF InOrder, Searching, Returned

LEMMA FindOrder ==
    ASSUME OrderInv, NEW g \in Goroutines, NEW r \in Requests, findLibrary(g, r)
    PROVE  SearchTypes' /\ InOrder(g)'
<1>1. PICK s : s = IF Direct(r.name) THEN <<File(r.name)>> ELSE SearchPaths(r)
  OBVIOUS
<1>2. PICK pl : Rising(s, pl) /\ \A missing : Planned(r, Placed(s, pl), missing)
  BY <1>1, BeginPlanned
<1>3. s \in Seq(Items)
  BY <1>2 DEF Rising
<1>4. /\ state' = [state EXCEPT ![g] = "searching"] /\ request' = [request EXCEPT ![g] = r]
      /\ todo' = [todo EXCEPT ![g] = s] /\ result' = [result EXCEPT ![g] = None]
      /\ there' = [there EXCEPT ![g] = disk] /\ gone' = [gone EXCEPT ![g] = Paths \ disk]
      /\ disk' = disk /\ once' = once /\ cache' = cache
  BY <1>1 DEF findLibrary
<1>5. SearchTypes'
  BY <1>3, <1>4 DEF OrderInv, SearchTypes
<1>6. request'[g] = r /\ todo'[g] = s /\ state'[g] = "searching" /\ Paths \ disk' \subseteq gone'[g]
  BY <1>4 DEF OrderInv, SearchTypes
<1>7. \A missing : Planned(r, Placed(s, pl), missing)'
  BY <1>2, <1>4 DEF Planned, Proper, Covered, Place, Cached
<1>8. PICK missing : missing = gone'[g]
  OBVIOUS
<1>9. InOrder(g)'
  BY <1>2, <1>6, <1>7, <1>8 DEF InOrder, Searching, Returned
<1> QED BY <1>5, <1>9

\* What a step of g leaves alone, if it only looks
Looks(g) == Stat(g) \/ NotFound(g) \/ LookupInCache(g)

LEMMA LooksKeep ==
    ASSUME NEW g \in Goroutines, Looks(g)
    PROVE  /\ Searching(g) /\ UNCHANGED <<disk, once, cache, there, gone, request>>
           /\ \A r, k : Place(r, k)' = Place(r, k)
           /\ \A r, W, missing : Planned(r, W, missing)' <=> Planned(r, W, missing)
           /\ \A r, p, missing : FirstFound(r, p, missing)' <=> FirstFound(r, p, missing)
           /\ \A r, missing : NoneFound(r, missing)' <=> NoneFound(r, missing)
<1>1. Searching(g) /\ UNCHANGED <<disk, once, cache, there, gone, request>>
  BY DEF Looks, Stat, NotFound, LookupInCache, AtCache, Consider, Return
<1>2. \A r, k : Place(r, k)' = Place(r, k)
  BY <1>1 DEF Place, Cached
<1>3. \A r, W, missing : Planned(r, W, missing)' <=> Planned(r, W, missing)
  BY <1>1, <1>2 DEF Planned, Proper, Covered
<1> QED BY <1>1, <1>2, <1>3 DEF FirstFound, NoneFound

\* The file that is looked at is the first that may be returned; if it is missing, the
\* search knows so, and goes on
LEMMA StatOrder ==
    ASSUME OrderInv, NEW g \in Goroutines, Stat(g)
    PROVE  SearchTypes' /\ InOrder(g)'
<1>1. Looks(g) /\ Searching(g) /\ todo[g] # <<>> /\ ~ First(g).cached /\ SearchTypes /\ InOrder(g)
  BY DEF Stat, Looks, OrderInv
<1>2. PICK r, s, missing : r = request[g] /\ s = todo[g] /\ missing = gone[g]
  OBVIOUS
<1>3. r \in Requests /\ Paths \ disk \subseteq missing
  BY <1>1, <1>2 DEF InOrder, Searching
<1>4. PICK pl : Rising(s, pl) /\ Planned(r, Placed(s, pl), missing)
  BY <1>1, <1>2 DEF InOrder
<1>5. PICK W : W = Placed(s, pl)
  OBVIOUS
<1>6. PICK k \in 1 .. 5 : k = pl[1]
  BY <1>1, <1>2, <1>4, TailPlan
<1>7. PICK x \in Items : x = Head(s)
  BY <1>1, <1>2, <1>4, TailPlan
<1>8. PICK t \in Seq(Items) : t = Tail(s)
  BY <1>1, <1>2, <1>4, TailPlan
<1>9. <<k, x>> \in W /\ \A w \in W : k <= w[1]
  BY <1>1, <1>2, <1>4, <1>5, <1>6, <1>7, TailPlan
<1>10. PICK q \in Paths : x = File(q)
  BY <1>1, <1>2, <1>7 DEF Items, InCache, First
<1>11. q = First(g).path /\ q \in Place(r, k) /\ q # None
  <2>1. Proper(r, <<k, x>>)
    BY <1>4, <1>5, <1>9 DEF Planned
  <2> QED BY <1>2, <1>7, <1>10, <2>1, SearchAssumption DEF Proper, File, InCache, First
<1>12. CASE q \in disk
  <2>1. /\ state' = [state EXCEPT ![g] = "returned"] /\ result' = [result EXCEPT ![g] = q]
        /\ todo' = [todo EXCEPT ![g] = <<>>] /\ UNCHANGED <<disk, there, gone, request>>
    BY <1>11, <1>12, <1>1, LooksKeep DEF Stat, Return
  <2>2. SearchTypes'
    BY <1>1, <2>1 DEF SearchTypes
  <2>3. state'[g] = "returned" /\ result'[g] = q /\ request'[g] = r /\ gone'[g] = missing
    BY <1>1, <1>2, <2>1 DEF SearchTypes
  <2>4. FirstFound(r, q, missing)
    <3>1. ASSUME NEW j \in 1 .. k - 1 PROVE Place(r, j) \subseteq missing
      <4>1. j \in 1 .. 5 /\ ~ (k <= j)
        OBVIOUS
      <4>2. Covered(r, j, W, missing)
        BY <1>4, <1>5, <4>1 DEF Planned
      <4>3. ASSUME NEW y PROVE <<j, y>> \notin W
        <5>1. <<j, y>> \in W => k <= <<j, y>>[1]
          BY <1>9
        <5> QED BY <4>1, <5>1
      <4> QED BY <4>2, <4>3 DEF Covered
    <3>2. k <= 2 \/ once = "done" \/ Direct(r.name)
      <4>1. CASE <<3, InCache>> \in W
        <5>1. k <= <<3, InCache>>[1]
          BY <1>9, <4>1
        <5>2. k # 3 \/ once = "done" \/ Direct(r.name)
          BY <1>11, <1>1, <1>3, Places DEF OrderInv, CacheInv, Cached
        <5> QED BY <5>1, <5>2
      <4>2. CASE once = "done" \/ Direct(r.name)
        BY <4>2
      <4> QED BY <1>4, <1>5, <4>1, <4>2 DEF Planned
    <3> QED BY <1>11, <3>1, <3>2 DEF FirstFound
  <2>5. FirstFound(r, q, missing)'
    BY <1>1, <2>4, LooksKeep
  <2>6. InOrder(g)'
    BY <1>3, <1>11, <2>3, <2>5 DEF InOrder, Searching, Returned
  <2> QED BY <2>2, <2>6
<1>13. CASE q \notin disk
  <2>1. todo' = [todo EXCEPT ![g] = t] /\ UNCHANGED <<disk, there, gone, request, state, result>>
    BY <1>1, <1>2, <1>8, <1>11, <1>13 DEF Stat
  <2>2. SearchTypes'
    BY <1>1, <2>1 DEF SearchTypes
  <2>3. PICK ql : Rising(t, ql) /\ W = {<<k, x>>} \cup Placed(t, ql)
    BY <1>1, <1>2, <1>4, <1>5, <1>6, <1>7, <1>8, TailPlan
  <2>4. PICK V : V = Placed(t, ql)
    OBVIOUS
  <2>5. Planned(r, V, missing)
    <3>1. \A w \in V : Proper(r, w)
      BY <1>4, <1>5, <2>3, <2>4 DEF Planned
    <3>2. ASSUME NEW j \in 1 .. 5, NEW p \in Place(r, j)
          PROVE  p \in missing \/ <<j, File(p)>> \in V \/ <<j, InCache>> \in V
      <4>1. p \in missing \/ <<j, File(p)>> \in W \/ <<j, InCache>> \in W
        BY <1>4, <1>5 DEF Planned, Covered
      <4>2. File(p) = x => p \in missing
        BY <1>3, <1>10, <1>13 DEF File
      <4>3. InCache # x
        BY <1>10 DEF File, InCache
      <4> QED BY <2>3, <2>4, <4>1, <4>2, <4>3
    <3>3. <<3, InCache>> \in W => <<3, InCache>> \in V
      BY <1>10, <2>3, <2>4 DEF File, InCache
    <3> QED BY <1>4, <1>5, <3>1, <3>2, <3>3 DEF Planned, Covered
  <2>6. Planned(r, V, missing)'
    BY <1>1, <2>5, LooksKeep
  <2>7. todo'[g] = t /\ request'[g] = r /\ gone'[g] = missing /\ state'[g] = "searching"
    BY <1>1, <1>2, <2>1 DEF SearchTypes, Searching
  <2>8. InOrder(g)'
    BY <1>3, <2>1, <2>3, <2>4, <2>6, <2>7 DEF InOrder, Searching, Returned
  <2> QED BY <2>2, <2>8
<1> QED BY <1>12, <1>13

\* Nothing is left: each place is covered by what was missing
LEMMA NotFoundOrder ==
    ASSUME OrderInv, NEW g \in Goroutines, NotFound(g)
    PROVE  SearchTypes' /\ InOrder(g)'
<1>1. Looks(g) /\ Searching(g) /\ todo[g] = <<>> /\ SearchTypes /\ InOrder(g)
  BY DEF NotFound, Looks, OrderInv
<1>2. PICK r, missing : r = request[g] /\ missing = gone[g]
  OBVIOUS
<1>3. PICK pl : Rising(<<>>, pl) /\ Planned(r, Placed(<<>>, pl), missing)
  BY <1>1, <1>2 DEF InOrder
<1>4. Placed(<<>>, pl) = {}
  BY DEF Placed
<1>5. NoneFound(r, missing)
  BY <1>3, <1>4 DEF Planned, Covered, NoneFound
<1>6. /\ state' = [state EXCEPT ![g] = "returned"] /\ result' = [result EXCEPT ![g] = None]
      /\ todo' = [todo EXCEPT ![g] = <<>>] /\ UNCHANGED <<disk, there, gone, request>>
  BY <1>1, LooksKeep DEF NotFound, Return
<1>7. SearchTypes'
  BY <1>1, <1>6 DEF SearchTypes
<1>8. /\ state'[g] = "returned" /\ result'[g] = None /\ request'[g] = r /\ gone'[g] = missing
      /\ r \in Requests
  BY <1>1, <1>2, <1>6 DEF SearchTypes, InOrder, Searching
<1>9. NoneFound(r, missing)'
  BY <1>1, <1>5, LooksKeep
<1> QED BY <1>7, <1>8, <1>9 DEF InOrder, Searching, Returned

\* The cache gives one more file to look at, or none, in the place of the cache
LEMMA LookupOrder ==
    ASSUME OrderInv, NEW g \in Goroutines, LookupInCache(g)
    PROVE  SearchTypes' /\ InOrder(g)'
<1>1. /\ Looks(g) /\ Searching(g) /\ todo[g] # <<>> /\ First(g).cached /\ once = "done"
      /\ SearchTypes /\ InOrder(g) /\ CacheInv
  BY DEF LookupInCache, AtCache, Looks, OrderInv
<1>2. PICK r, s, missing : r = request[g] /\ s = todo[g] /\ missing = gone[g]
  OBVIOUS
<1>3. r \in Requests /\ Paths \ disk \subseteq missing
  BY <1>1, <1>2 DEF InOrder, Searching
<1>4. PICK pl : Rising(s, pl) /\ Planned(r, Placed(s, pl), missing)
  BY <1>1, <1>2 DEF InOrder
<1>5. PICK W : W = Placed(s, pl)
  OBVIOUS
<1>6. PICK k \in 1 .. 5 : k = pl[1]
  BY <1>1, <1>2, <1>4, TailPlan
<1>7. PICK x \in Items : x = Head(s)
  BY <1>1, <1>2, <1>4, TailPlan
<1>8. PICK t \in Seq(Items) : t = Tail(s)
  BY <1>1, <1>2, <1>4, TailPlan
<1>9. <<k, x>> \in W /\ \A w \in W : k <= w[1]
  BY <1>1, <1>2, <1>4, <1>5, <1>6, <1>7, TailPlan
<1>10. x = InCache
  BY <1>1, <1>2, <1>7 DEF Items, File, First
<1>11. k = 3 /\ ~ Direct(r.name)
  <2>1. Proper(r, <<k, x>>)
    BY <1>4, <1>5, <1>9 DEF Planned
  <2> QED BY <1>10, <2>1 DEF Proper
<1>12. PICK ql : Rising(t, ql) /\ W = {<<k, x>>} \cup Placed(t, ql) /\ Placed(t, ql) \subseteq W
  BY <1>1, <1>2, <1>4, <1>5, <1>6, <1>7, <1>8, TailPlan
<1>13. PICK p : p = Cached(r.name.base)
  OBVIOUS
<1>14. p \in Paths \cup {None} /\ Place(r, 3) = {p} \ {None}
  <2>1. r.name.base \in Bases
    BY <1>3, Places
  <2>2. cache \in Table \cup {None}
    BY <1>1, ParseInTable DEF CacheInv
  <2>3. p \in Paths \cup {None}
    BY <1>13, <2>1, <2>2 DEF Cached, Table
  <2> QED BY <1>3, <1>11, <1>13, <2>3, Places
<1>15. PICK u : u = (IF p = None THEN <<>> ELSE <<File(p)>>) \o t
  OBVIOUS
<1>16. \E rl : Rising(u, rl) /\ Placed(u, rl) = Placed(t, ql) \cup (IF p = None THEN {} ELSE {<<3, File(p)>>})
  <2>1. CASE p = None
    <3>1. u = t
      BY <1>15, <2>1, ConcatEmptySeq
    <3> QED BY <1>12, <2>1, <3>1
  <2>2. CASE p # None
    <3>1. PICK y \in Items : y = File(p)
      BY <1>14, <2>2 DEF Items
    <3>2. 3 \in 1 .. 5
      OBVIOUS
    <3>3. PICK ol : Rising(<<y>>, ol) /\ Placed(<<y>>, ol) = {<<3, y>>}
      BY <3>2, OnePlan, Zenon
    <3>4. PICK v : v = <<y>>
      OBVIOUS
    <3>5. PICK c : c = <<3, y>>
      OBVIOUS
    <3>6. Rising(v, ol) /\ Placed(v, ol) = {c} /\ c[1] = 3
      BY <3>3, <3>4, <3>5
    <3>7. \A w \in Placed(v, ol) : \A z \in Placed(t, ql) : w[1] <= z[1]
      BY <1>9, <1>11, <1>12, <3>6
    <3>8. PICK rl : Rising(v \o t, rl) /\ Placed(v \o t, rl) = Placed(v, ol) \cup Placed(t, ql)
      BY <1>12, <3>6, <3>7, JoinPlans
    <3>9. u = v \o t
      BY <1>15, <2>2, <3>1, <3>4
    <3> QED BY <2>2, <3>1, <3>5, <3>6, <3>8, <3>9
  <2> QED BY <2>1, <2>2
<1>17. PICK rl : Rising(u, rl) /\ Placed(u, rl) = Placed(t, ql) \cup (IF p = None THEN {} ELSE {<<3, File(p)>>})
  BY <1>16
<1>18. PICK V : V = Placed(u, rl)
  OBVIOUS
<1>19. Planned(r, V, missing)
  <2>1. ASSUME NEW w \in V PROVE Proper(r, w)
    <3>1. CASE w \in W
      BY <1>4, <1>5, <3>1 DEF Planned
    <3>2. CASE p # None /\ w = <<3, File(p)>>
      BY <1>14, <3>2 DEF Proper, File, InCache
    <3> QED BY <1>12, <1>17, <1>18, <3>1, <3>2
  <2>2. ASSUME NEW j \in 1 .. 5, NEW q \in Place(r, j)
        PROVE  q \in missing \/ <<j, File(q)>> \in V \/ <<j, InCache>> \in V
    <3>1. CASE j = 3
      BY <1>14, <1>17, <1>18, <3>1
    <3>2. CASE j # 3
      <4>1. q \in missing \/ <<j, File(q)>> \in W \/ <<j, InCache>> \in W
        BY <1>4, <1>5 DEF Planned, Covered
      <4>2. <<j, File(q)>> # <<k, x>> /\ <<j, InCache>> # <<k, x>>
        BY <1>11, <3>2
      <4> QED BY <1>12, <1>17, <1>18, <4>1, <4>2
    <3> QED BY <3>1, <3>2
  <2> QED BY <1>1, <2>1, <2>2 DEF Planned, Covered
<1>20. Planned(r, V, missing)'
  BY <1>1, <1>19, LooksKeep
<1>21. todo' = [todo EXCEPT ![g] = u] /\ UNCHANGED <<disk, there, gone, request, state, result>>
  BY <1>1, <1>2, <1>8, <1>13, <1>15 DEF LookupInCache, Consider, SearchTypes
<1>22. u \in Seq(Items)
  BY <1>17 DEF Rising
<1>23. SearchTypes'
  BY <1>1, <1>21, <1>22 DEF SearchTypes
<1>24. todo'[g] = u /\ request'[g] = r /\ gone'[g] = missing /\ state'[g] = "searching"
  BY <1>1, <1>2, <1>21 DEF SearchTypes, Searching
<1>25. InOrder(g)'
  BY <1>3, <1>17, <1>18, <1>20, <1>21, <1>24 DEF InOrder, Searching, Returned
<1> QED BY <1>23, <1>25

\* Whatever one goroutine or the system does, the others stay in order
LEMMA OrderStep ==
    ASSUME OrderInv, [Next]_vars
    PROVE  OrderInv'
<1>1. CacheInv' /\ CacheInv /\ SearchTypes
  BY CacheStep DEF OrderInv
<1>2. ASSUME NEW g \in Goroutines, Looks(g) \/ \E r \in Requests : findLibrary(g, r)
      PROVE  OrderInv'
  <2>1. SearchTypes' /\ InOrder(g)'
    BY <1>2, StatOrder, NotFoundOrder, LookupOrder, FindOrder DEF Looks
  <2>2. ASSUME NEW h \in Goroutines, h # g PROVE InOrder(h)'
    <3>1. UNCHANGED <<disk, request[h], todo[h], state[h], result[h], gone[h]>>
      BY <1>1, <1>2, <2>2 DEF Looks, Stat, NotFound, LookupInCache, findLibrary, Consider, Return, SearchTypes
    <3>2. Searching(h) => Paths \ disk \subseteq gone[h]
      BY DEF OrderInv, InOrder
    <3> QED BY <3>1, <3>2, OthersInOrder
  <2> QED BY <1>1, <2>1, <2>2 DEF OrderInv
<1>3. ASSUME /\ UNCHANGED <<request, todo, state, result>> /\ SearchTypes'
             /\ \A g \in Goroutines : gone[g] \subseteq gone'[g] /\ (Returned(g) => UNCHANGED gone[g])
             /\ \A g \in Goroutines : Searching(g) => Paths \ disk' \subseteq gone'[g]
      PROVE  OrderInv'
  <2>1. ASSUME NEW g \in Goroutines PROVE InOrder(g)'
    BY <1>3, OthersInOrder
  <2> QED BY <1>1, <1>3, <2>1 DEF OrderInv
<1>4. \A g \in Goroutines : Searching(g) => Paths \ disk \subseteq gone[g]
  BY DEF OrderInv, InOrder
<1>5. CASE UNCHANGED <<disk, search, there, gone>>
  BY <1>1, <1>3, <1>4, <1>5 DEF search, SearchTypes, Returned, Searching
<1>6. ASSUME NEW p \in Changing, Install(p)
      PROVE  OrderInv'
  BY <1>1, <1>3, <1>4, <1>6, SearchAssumption DEF Install, search, SearchTypes, Returned, Searching
<1>7. ASSUME NEW p \in Changing, Uninstall(p)
      PROVE  OrderInv'
  BY <1>1, <1>3, <1>4, <1>7, SearchAssumption DEF Uninstall, search, SearchTypes, Returned, Searching
<1>8. \/ UNCHANGED <<disk, search, there, gone>>
      \/ \E p \in Changing : Install(p) \/ Uninstall(p)
      \/ \E g \in Goroutines : Looks(g) \/ \E r \in Requests : findLibrary(g, r)
  BY DEF Next, Environment, Proceed, Looks, Ldconfig, EnterOnce, LoadCache, vars
<1> QED BY <1>2, <1>5, <1>6, <1>7, <1>8

LEMMA OrderAlways == Spec => []OrderInv
<1>1. Init => OrderInv
  <2> SUFFICES ASSUME Init PROVE OrderInv
    OBVIOUS
  <2>1. CacheInv
    BY SearchAssumption DEF Init, CacheInv
  <2>2. SearchTypes
    BY SearchAssumption, EmptySeq DEF Init, SearchTypes
  <2>3. \A g \in Goroutines : InOrder(g)
    BY DEF Init, InOrder, Searching, Returned
  <2> QED BY <2>1, <2>2, <2>3 DEF OrderInv
<1>2. OrderInv /\ [Next]_vars => OrderInv'
  BY OrderStep
<1> QED BY <1>1, <1>2, PTL DEF Spec

\* The state is what the code can have: what is left of a search are files and the cache
THEOREM SearchTypeCorrect == Spec => []TypeOK
<1>1. OrderInv => TypeOK
  <2> SUFFICES ASSUME OrderInv PROVE TypeOK
    OBVIOUS
  <2>1. SearchTypes /\ CacheInv /\ \A g \in Goroutines : InOrder(g)
    BY DEF OrderInv
  <2>2. /\ disk \subseteq Paths /\ cacheFile \in CacheFiles /\ once \in {"new", "done"} \cup Goroutines
        /\ source = None \/ source \in CacheFiles
    BY <2>1 DEF SearchTypes, CacheInv
  <2>3. cache = None \/ cache \in [Bases -> Paths \cup {None}]
    BY <2>1, ParseInTable DEF CacheInv, Table
  <2>4. ASSUME NEW g \in Goroutines
        PROVE  /\ request[g] \in Requests \/ state[g] = "idle"
               /\ state[g] \in {"idle", "searching", "returned"}
               /\ result[g] \in Paths \cup {None}
               /\ there[g] \cup gone[g] \subseteq Paths
    BY <2>1 DEF SearchTypes, InOrder
  <2>5. ASSUME NEW g \in Goroutines, NEW i \in DOMAIN todo[g]
        PROVE  todo[g][i].cached \/ todo[g][i].path \in Paths
    <3>1. todo[g] \in Seq(Items)
      BY <2>1 DEF SearchTypes
    <3>2. todo[g][i] \in Items
      BY <3>1, ElementOfSeq, LenProperties
    <3> QED BY <3>2 DEF Items, InCache, File
  <2> QED BY <2>2, <2>3, <2>4, <2>5 DEF TypeOK
<1> QED BY <1>1, OrderAlways, PTL

\* A search returns a file of the first place that has one: each file of an earlier place
\* was missing at some moment of it, whatever is installed, removed and cached meanwhile
THEOREM EarlierPlacesMissing == Spec => []FirstPlaceWins
<1>1. OrderInv => FirstPlaceWins
  BY DEF OrderInv, InOrder, FirstFound, FirstPlaceWins
<1> QED BY <1>1, OrderAlways, PTL

\* A search that finds nothing has found each file missing, the one in the cache too
THEOREM NothingOverlooked == Spec => []FailureJustified
<1>1. OrderInv => FailureJustified
  BY DEF OrderInv, InOrder, NoneFound, FailureJustified
<1> QED BY <1>1, OrderAlways, PTL
=============================================================================
