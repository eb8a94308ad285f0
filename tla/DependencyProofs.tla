-------------------------- MODULE DependencyProofs --------------------------
(***************************************************************************)
(* Proofs about the dependencies of published libraries in Registry: with  *)
(* an acyclic DT_NEEDED graph, callers that close what they have opened,   *)
(* and no failing load, the dependencies of a library are there as long as *)
(* the library is, for every set of goroutines, files and calls.           *)
(***************************************************************************)
EXTENDS RegistryProofs

USE RegistryAssumption

\* The DT_NEEDED graph has no cycle: every file ranks above those it needs
Acyclic(rank) ==
    \A p \in Paths : \A n \in ToSet(Image[p].needed) :
        Find[p][n] # None => rank[Find[p][n]] < rank[p]

LoadFails == \E g \in Goroutines : ParseFails(g) \/ MapFails(g) \/ RelocateFails(g)

\* The file is loaded, and a dependent has a reference to it that nobody gives back
Settled(p) == loaded[p] # None /\ owed[loaded[p]] > 0

\* The call k of g has the names it has passed over settled, or on its way above it
Provided(g, k) ==
    LET f == stack[g][k] IN
    /\ f.pc \in {"deps", "load"} =>
        /\ ToSet(f.needed) \subseteq ToSet(Image[f.path].needed)
        /\ \A n \in ToSet(Image[f.path].needed) :
            \/ n \in ToSet(f.needed)
            \/ Find[f.path][n] = None
            \/ Settled(Find[f.path][n])
            \/ k + 1 \in DOMAIN stack[g] /\ stack[g][k + 1].path = Find[f.path][n]
    /\ f.pc = "load" => f.needed = <<>>

FramesProvided == \A g \in Goroutines : \A k \in DOMAIN stack[g] : Provided(g, k)

\* The calls of a goroutine go down the graph
StacksDescend(rank) ==
    \A g \in Goroutines : \A i, j \in DOMAIN stack[g] :
        i < j => rank[stack[g][j].path] < rank[stack[g][i].path]

Published ==
    \A h \in Handles : Live(h) =>
        \A n \in ToSet(Image[origin[h]].needed) :
            Find[origin[h]][n] # None => Settled(Find[origin[h]][n])

CountsPositive == \A h \in Handles : held[h] >= 0 /\ owed[h] >= 0

DepsInv(rank) ==
    RegistryInv /\ CountsPositive /\ StacksDescend(rank) /\ FramesProvided /\ Published
-----------------------------------------------------------------------------
(* What a step does to the references and to the `loaded` map *)

LEMMA TailSet ==
    ASSUME NEW S, NEW s \in Seq(S), s # <<>>
    PROVE  /\ ToSet(s) = {Head(s)} \cup ToSet(Tail(s))
           /\ Head(s) \in S /\ Tail(s) \in Seq(S)
<1>1. /\ Head(s) = s[1] /\ Head(s) \in S
      /\ Tail(s) \in Seq(S) /\ Len(Tail(s)) = Len(s) - 1
      /\ \A i \in 1 .. Len(s) - 1 : Tail(s)[i] = s[i + 1]
      /\ Len(s) \in Nat \ {0} /\ DOMAIN s = 1 .. Len(s)
  BY HeadTailProperties, EmptySeq, LenProperties
<1> DEFINE t == Tail(s)
<1>2. DOMAIN t = 1 .. Len(s) - 1
  BY <1>1, LenProperties
<1> HIDE DEF t
<1>3. ASSUME NEW x \in ToSet(s) PROVE x = Head(s) \/ x \in ToSet(t)
  <2>1. PICK i \in 1 .. Len(s) : x = s[i]
    BY <1>1 DEF ToSet
  <2>2. CASE i = 1
    BY <1>1, <2>1, <2>2
  <2>3. CASE i # 1
    <3>1. i - 1 \in 1 .. Len(s) - 1 /\ (i - 1) + 1 = i
      BY <1>1, <2>3
    <3>2. t[i - 1] = x
      BY <1>1, <2>1, <3>1 DEF t
    <3> QED BY <1>2, <3>1, <3>2 DEF ToSet
  <2> QED BY <2>2, <2>3
<1>4. Head(s) \in ToSet(s)
  <2>1. 1 \in DOMAIN s
    BY <1>1
  <2> QED BY <1>1, <2>1 DEF ToSet
<1>5. ASSUME NEW x \in ToSet(t) PROVE x \in ToSet(s)
  <2>1. PICK i \in 1 .. Len(s) - 1 : x = t[i]
    BY <1>2 DEF ToSet
  <2>2. i + 1 \in DOMAIN s /\ x = s[i + 1]
    BY <1>1, <2>1 DEF t
  <2> QED BY <2>2 DEF ToSet
<1> QED BY <1>1, <1>3, <1>4, <1>5 DEF t

\* A file that is needed is a file, and a path is found as itself
LEMMA FindFacts ==
    ASSUME NEW p \in Paths, NEW n \in ToSet(Image[p].needed)
    PROVE  /\ n \in Names /\ Find[p][n] \in Paths \cup {None}
           /\ n \in Paths => Find[p][n] \in {n, None}
<1>1. n \in Names
  <2>1. Image[p].needed \in Seq(Names)
    BY ImageFacts
  <2> QED BY <2>1, ElementOfSeq DEF ToSet
<1> QED BY <1>1 DEF RegistryAssumption

\* The innermost call returns h: to a dependent, that takes a reference to it, unless it
\* is the only one
LEMMA HandOverOwes ==
    ASSUME TypeOK, CountsPositive, NEW g \in Goroutines, NEW h \in Handles, HandOver(g, h)
    PROVE  /\ CountsPositive'
           /\ \A x \in Handles : owed'[x] >= owed[x]
           /\ Len(stack[g]) # 1 => owed'[h] > 0
<1>1. \/ /\ held' = [held EXCEPT ![h] = @ + 1] /\ owed' = owed /\ Len(stack[g]) = 1
      \/ /\ owed' = [owed EXCEPT ![h] = @ + 1] /\ held' = held
  BY Zenon DEF HandOver
<1>2. held \in [Handles -> Int] /\ owed \in [Handles -> Int]
  BY DEF TypeOK
<1>3. \A x \in Handles : /\ held[x] \in Int /\ owed[x] \in Int
                         /\ held[x] >= 0 /\ owed[x] >= 0
  BY <1>2 DEF CountsPositive
<1>4. \A x \in Handles : /\ held'[x] = held[x] \/ held'[x] = held[x] + 1
                         /\ owed'[x] = owed[x] \/ owed'[x] = owed[x] + 1
  BY <1>1, <1>2
<1>5. \A x \in Handles : held'[x] >= 0 /\ owed'[x] >= 0 /\ owed'[x] >= owed[x]
  BY <1>3, <1>4
<1>6. Len(stack[g]) # 1 => owed'[h] > 0
  BY <1>1, <1>2, <1>3
<1> QED BY <1>5, <1>6 DEF CountsPositive

\* What is settled stays, and so do the counts above zero, if callers close only what they
\* have opened
SettledStays == \A p \in Paths : Settled(p) => Settled(p)'

\* loaded keeps the files that are there, and nobody loses a reference
LEMMA KeepsSettled ==
    ASSUME TypeOK, \A p \in Paths : loaded[p] # None => loaded'[p] = loaded[p],
           \A x \in Handles : owed'[x] >= owed[x], TypeOK'
    PROVE  SettledStays
<1> SUFFICES ASSUME NEW p \in Paths, Settled(p) PROVE Settled(p)'
  BY DEF SettledStays
<1>1. loaded[p] \in Handles /\ loaded[p] # None /\ owed[loaded[p]] > 0
  BY DEF Settled, TypeOK, RegistryAssumption
<1>2. PICK h \in Handles : h = loaded[p]
  BY <1>1
<1>3. loaded'[p] = h /\ owed'[h] >= owed[h] /\ owed[h] > 0
  BY <1>1, <1>2
<1>4. owed'[h] \in Int /\ owed[h] \in Int
  BY DEF TypeOK
<1>5. owed'[h] > 0
  BY <1>3, <1>4
<1> QED BY <1>1, <1>2, <1>3, <1>5 DEF Settled

\* The keys that registerLibrary enters are new, those that are paths
LEMMA RegisterKeys ==
    ASSUME RegistryInv, NEW g \in Goroutines, Register(g)
    PROVE  /\ Top(g).path \in Paths /\ Top(g).path \in loading
           /\ Top(g).path \in Keys(Top(g).path, Top(g).name)
           /\ \A k \in Keys(Top(g).path, Top(g).name) : k \in Paths => loaded[k] = None
<1> DEFINE f == Top(g)
           n == Len(stack[g])
<1>1. stack[g] # <<>> /\ f \in Frame /\ f.pc # "enter"
  BY TopType DEF Register, At, RegistryInv, SlotInv
<1>2. f.path \in Paths /\ f.name \in Names
  BY <1>1, FrameFacts
<1>3. f = stack[g][n] /\ n \in DOMAIN stack[g]
  <2>1. stack[g] \in Seq(Frame)
    BY DEF RegistryInv, SlotInv, TypeOK
  <2>2. n \in Nat \ {0} /\ f = stack[g][n]
    BY <1>1, <2>1, FrontLast DEF Top
  <2>3. DOMAIN stack[g] = 1 .. n
    BY <2>1, LenProperties
  <2> QED BY <2>2, <2>3
<1>4. f.path \in loading /\ loaded[f.path] = None
  BY <1>1, <1>3 DEF RegistryInv, SlotInv, SlotOwnership, Claims, CacheCoherent
<1>5. f.name \in Paths => f.path = f.name
  BY <1>3 DEF RegistryInv, SlotInv, NamesResolve
<1>6. \A k \in Keys(f.path, f.name) : k \in Paths => k = f.path
  BY <1>2, <1>5 DEF Keys, RegistryAssumption
<1>7. f.path \in Keys(f.path, f.name)
  BY <1>2 DEF Keys, RegistryAssumption
<1> QED BY <1>2, <1>4, <1>6, <1>7

LEMMA StepSettles ==
    ASSUME RegistryInv, CountsPositive, NEW g \in Goroutines, Step(g), TypeOK'
    PROVE  SettledStays /\ CountsPositive'
<1>1. TypeOK
  BY DEF RegistryInv, SlotInv
<1>2. CASE UNCHANGED <<loaded, held, owed>>
  <2>1. \A x \in Handles : owed'[x] >= owed[x]
    BY <1>1, <1>2 DEF TypeOK
  <2> QED BY <1>1, <1>2, <2>1, KeepsSettled DEF CountsPositive
<1>3. ASSUME NEW h \in Handles, HandOver(g, h),
             \A p \in Paths : loaded[p] # None => loaded'[p] = loaded[p]
      PROVE  SettledStays /\ CountsPositive'
  BY <1>1, <1>3, HandOverOwes, KeepsSettled
<1>4. CASE (Revisit(g) /\ loaded[Top(g).path] # None) \/ CacheHit(g)
  <2>1. /\ loaded[Top(g).path] # None /\ HandOver(g, loaded[Top(g).path])
        /\ loaded' = loaded
    BY <1>4 DEF Revisit, CacheHit, Cached, tables
  <2>2. loaded[Top(g).path] \in Handles
    BY <2>1, TopPath, LoadedLive
  <2> QED BY <1>3, <2>1, <2>2
<1>5. CASE Register(g)
  <2> DEFINE h == CHOOSE x \in Handles : status[x] = "free"
             f == Top(g)
  <2>1. h \in Handles
    BY <1>5 DEF Register
  <2>2. HandOver(g, h)
    BY <1>5 DEF Register
  <2>3. \A p \in Paths : loaded[p] # None => loaded'[p] = loaded[p]
    <3>1. loaded' = [k \in Names \cup Keys(f.path, f.name) |->
                        IF k \in Keys(f.path, f.name) THEN h ELSE loaded[k]]
      BY <1>5 DEF Register
    <3>2. \A k \in Keys(f.path, f.name) : k \in Paths => loaded[k] = None
      BY <1>5, RegisterKeys
    <3> HIDE DEF f, h
    <3> QED BY <3>1, <3>2 DEF RegistryAssumption
  <2> HIDE DEF h
  <2> QED BY <1>3, <2>1, <2>2, <2>3
<1>6. CASE Revisit(g) /\ loaded[Top(g).path] = None
  BY <1>2, <1>6 DEF Revisit, tables, ghosts
<1>7. CASE ~ Revisit(g) /\ ~ CacheHit(g) /\ ~ Register(g)
  BY <1>2, <1>7 DEF Step, Wait, Claim, Parse, ParseFails, SkipDependency, LoadDependency,
     Map, MapFails, Relocate, RelocateFails, Abandon, tables, ghosts
<1> QED BY <1>4, <1>5, <1>6, <1>7

LEMMA RequestSettles ==
    ASSUME ~ OverClose, RegistryInv, CountsPositive, NEW g \in Goroutines, Request(g), TypeOK'
    PROVE  SettledStays /\ CountsPositive'
<1>1. /\ TypeOK
      /\ \A x \in Handles : held[x] \in Int /\ owed[x] \in Int /\ held[x] >= 0 /\ owed[x] >= 0
  BY DEF RegistryInv, SlotInv, TypeOK, CountsPositive
<1>2. owed' = owed
  BY DEF Request, OpenCached, OpenUncached, CloseShared, CloseLast, CloseRefused, vars, ghosts
<1>3. \A x \in Handles : owed'[x] >= owed[x]
  BY <1>1, <1>2
<1>4. CountsPositive'
  <2>1. CASE held' = held
    BY <1>1, <1>2, <2>1 DEF CountsPositive
  <2>2. CASE OpenCached(g)
    <3>1. PICK c \in Calls : loaded[c.name] # None
                          /\ held' = [held EXCEPT ![loaded[c.name]] = @ + 1]
      BY <2>2 DEF OpenCached
    <3>2. loaded[c.name] \in Handles
      BY <3>1, LoadedLive DEF RegistryAssumption
    <3>3. \A x \in Handles : held'[x] = held[x] \/ held'[x] = held[x] + 1
      BY <1>1, <3>1, <3>2 DEF TypeOK
    <3> QED BY <1>1, <1>2, <3>3 DEF CountsPositive
  <2>3. CASE CloseShared(g) \/ CloseLast(g)
    <3>1. PICK h \in Handles : MayClose(h) /\ held' = [held EXCEPT ![h] = @ - 1]
      BY <2>3 DEF CloseShared, CloseLast
    <3>2. held[h] > 0
      BY <3>1 DEF MayClose
    <3>3. \A x \in Handles : held'[x] = held[x] \/ (x = h /\ held'[x] = held[x] - 1)
      BY <1>1, <3>1 DEF TypeOK
    <3> QED BY <1>1, <1>2, <3>2, <3>3 DEF CountsPositive
  <2> QED BY <2>1, <2>2, <2>3 DEF Request, OpenUncached, CloseRefused, vars, ghosts
<1>5. CASE loaded' = loaded
  BY <1>1, <1>3, <1>4, <1>5, KeepsSettled
<1>6. CASE CloseLast(g)
  <2>1. PICK h \in Handles : MayClose(h) /\ refCount[h] = 1 /\ loaded' = Forget(h)
    BY <1>6 DEF CloseLast
  <2>2. owed[h] = 0
    <3>1. held[h] > 0 /\ 1 = held[h] + owed[h]
      BY <2>1 DEF MayClose, RegistryInv, RefsConserved
    <3> QED BY <1>1, <3>1
  <2>3. ASSUME NEW p \in Paths, Settled(p) PROVE Settled(p)'
    <3>1. loaded[p] # None /\ owed[loaded[p]] > 0 /\ p \in Names
      BY <2>3 DEF Settled, RegistryAssumption
    <3>2. loaded[p] # h
      BY <2>2, <3>1
    <3>3. loaded'[p] = loaded[p]
      BY <2>1, <3>1, <3>2 DEF Forget
    <3> QED BY <1>2, <3>1, <3>3 DEF Settled
  <2> QED BY <1>4, <2>3 DEF SettledStays
<1> QED BY <1>5, <1>6 DEF Request, OpenCached, OpenUncached, CloseShared, CloseRefused, vars, tables
-----------------------------------------------------------------------------
(* What a step does to the calls that wait for a dependency *)

\* A frame that stays as it is stays provided: what it waits for is still above it, or
\* has returned and is settled
LEMMA FrameStays ==
    ASSUME TypeOK, SettledStays, NEW g \in Goroutines, NEW k \in DOMAIN stack[g], Provided(g, k),
           stack'[g][k] = stack[g][k],
           k + 1 \in DOMAIN stack[g] =>
              \/ k + 1 \in DOMAIN stack'[g] /\ stack'[g][k + 1].path = stack[g][k + 1].path
              \/ \A p \in Paths : p = stack[g][k + 1].path => Settled(p)'
    PROVE  Provided(g, k)'
<1>1. PICK f \in Frame : f = stack[g][k]
  <2>1. stack[g] \in Seq(Frame)
    BY DEF TypeOK
  <2> QED BY <2>1, ElementOfSeq, LenProperties
<1>2. f.path \in Paths
  BY FrameFacts
<1>3. /\ f.pc = "load" => f.needed = <<>>
      /\ f.pc \in {"deps", "load"} => ToSet(f.needed) \subseteq ToSet(Image[f.path].needed)
  BY <1>1 DEF Provided
<1>4. ASSUME f.pc \in {"deps", "load"}, NEW n \in ToSet(Image[f.path].needed),
             n \notin ToSet(f.needed), Find[f.path][n] # None
      PROVE  \/ Settled(Find[f.path][n])'
             \/ k + 1 \in DOMAIN stack'[g] /\ stack'[g][k + 1].path = Find[f.path][n]
  <2>1. PICK p \in Paths : p = Find[f.path][n]
    BY <1>2, <1>4, FindFacts
  <2>2. Settled(p) \/ (k + 1 \in DOMAIN stack[g] /\ stack[g][k + 1].path = p)
    BY <1>1, <1>4, <2>1 DEF Provided
  <2>3. Settled(p)' \/ (k + 1 \in DOMAIN stack'[g] /\ stack'[g][k + 1].path = p)
    BY <2>2 DEF SettledStays
  <2> QED BY <2>1, <2>3
<1> QED BY <1>1, <1>3, <1>4 DEF Provided

\* The goroutines that do not move
LEMMA OthersStay ==
    ASSUME NEW rank \in [Paths -> Nat], DepsInv(rank), SettledStays, NEW g \in Goroutines,
           OthersKeep(g),
           \A k \in DOMAIN stack'[g] : Provided(g, k)',
           \A i, j \in DOMAIN stack'[g] :
              i < j => rank[stack'[g][j].path] < rank[stack'[g][i].path]
    PROVE  FramesProvided' /\ StacksDescend(rank)'
<1>1. TypeOK
  BY DEF DepsInv, RegistryInv, SlotInv
<1>2. ASSUME NEW h \in Goroutines \ {g}, NEW k \in DOMAIN stack'[h]
      PROVE  Provided(h, k)'
  <2>1. stack'[h] = stack[h] /\ Provided(h, k)
    BY <1>2 DEF OthersKeep, DepsInv, FramesProvided
  <2> QED BY <1>1, <1>2, <2>1, FrameStays
<1>3. ASSUME NEW h \in Goroutines \ {g}, NEW i \in DOMAIN stack'[h], NEW j \in DOMAIN stack'[h],
             i < j
      PROVE  rank[stack'[h][j].path] < rank[stack'[h][i].path]
  BY <1>3 DEF OthersKeep, DepsInv, StacksDescend
<1> QED BY <1>2, <1>3 DEF FramesProvided, StacksDescend

LEMMA SameStacks ==
    ASSUME NEW rank \in [Paths -> Nat], DepsInv(rank), SettledStays, UNCHANGED stack
    PROVE  FramesProvided' /\ StacksDescend(rank)'
<1>1. TypeOK
  BY DEF DepsInv, RegistryInv, SlotInv
<1>2. ASSUME NEW g \in Goroutines, NEW k \in DOMAIN stack[g]
      PROVE  Provided(g, k)'
  <2>1. Provided(g, k)
    BY DEF DepsInv, FramesProvided
  <2> QED BY <1>1, <2>1, FrameStays
<1>3. StacksDescend(rank)'
  BY DEF DepsInv, StacksDescend
<1> QED BY <1>2, <1>3 DEF FramesProvided

\* The innermost call returns, and what it loaded is settled if somebody needs it
LEMMA ReturnDeps ==
    ASSUME NEW rank \in [Paths -> Nat], DepsInv(rank), SettledStays, NEW g \in Goroutines,
           stack[g] # <<>>, Return(g),
           Len(stack[g]) # 1 => \A p \in Paths : p = Top(g).path => Settled(p)'
    PROVE  FramesProvided' /\ StacksDescend(rank)'
<1>1. TypeOK
  BY DEF DepsInv, RegistryInv, SlotInv
<1> DEFINE n == Len(stack[g])
<1>2. /\ OthersKeep(g) /\ n \in Nat \ {0} /\ DOMAIN stack[g] = 1 .. n
      /\ DOMAIN stack'[g] = 1 .. n - 1 /\ \A i \in 1 .. n - 1 : stack'[g][i] = stack[g][i]
      /\ Top(g) = stack[g][n]
  BY <1>1, ReturnStack
<1> HIDE DEF n
<1>3. ASSUME NEW k \in DOMAIN stack'[g] PROVE Provided(g, k)'
  <2>1. k \in DOMAIN stack[g] /\ stack'[g][k] = stack[g][k] /\ n # 1
    BY <1>2
  <2>2. Provided(g, k)
    BY <2>1 DEF DepsInv, FramesProvided
  <2>3. CASE k + 1 \in 1 .. n - 1
    BY <1>1, <1>2, <2>1, <2>2, <2>3, FrameStays
  <2>4. CASE k + 1 \notin 1 .. n - 1
    <3>1. k + 1 = n
      BY <1>2, <2>4
    <3>2. \A p \in Paths : p = stack[g][k + 1].path => Settled(p)'
      BY <1>2, <2>1, <3>1 DEF n
    <3> QED BY <1>1, <2>1, <2>2, <3>2, FrameStays
  <2> QED BY <2>3, <2>4
<1>4. ASSUME NEW i \in DOMAIN stack'[g], NEW j \in DOMAIN stack'[g], i < j
      PROVE  rank[stack'[g][j].path] < rank[stack'[g][i].path]
  <2>1. /\ i \in DOMAIN stack[g] /\ j \in DOMAIN stack[g]
        /\ stack'[g][i] = stack[g][i] /\ stack'[g][j] = stack[g][j]
    BY <1>2
  <2> QED BY <1>4, <2>1 DEF DepsInv, StacksDescend
<1> QED BY <1>2, <1>3, <1>4, OthersStay

\* The innermost call goes on with the same file
LEMMA ContinueDeps ==
    ASSUME NEW rank \in [Paths -> Nat], DepsInv(rank), SettledStays, NEW g \in Goroutines,
           stack[g] # <<>>, NEW f \in Frame, Continue(g, f), f.path = Top(g).path,
           NEW n, n = Len(stack[g]), Provided(g, n)'
    PROVE  FramesProvided' /\ StacksDescend(rank)'
<1>1. TypeOK
  BY DEF DepsInv, RegistryInv, SlotInv
<1>2. /\ OthersKeep(g) /\ n \in Nat \ {0} /\ DOMAIN stack[g] = 1 .. n
      /\ DOMAIN stack'[g] = 1 .. n /\ \A i \in 1 .. n - 1 : stack'[g][i] = stack[g][i]
      /\ Top(g) = stack[g][n] /\ stack'[g][n] = f
  BY <1>1, ContinueStack
<1>3. \A i \in 1 .. n : (i = n \/ i \in 1 .. n - 1) /\ stack'[g][i].path = stack[g][i].path
  BY <1>2
<1>4. ASSUME NEW k \in 1 .. n - 1 PROVE Provided(g, k)'
  <2>1. /\ k \in DOMAIN stack[g] /\ k + 1 \in 1 .. n /\ stack'[g][k] = stack[g][k]
        /\ stack'[g][k + 1].path = stack[g][k + 1].path
    BY <1>2, <1>3
  <2>2. Provided(g, k)
    BY <2>1 DEF DepsInv, FramesProvided
  <2> QED BY <1>1, <1>2, <2>1, <2>2, FrameStays
<1>5. \A k \in DOMAIN stack'[g] : Provided(g, k)'
  BY <1>2, <1>3, <1>4
<1>6. \A i, j \in DOMAIN stack'[g] :
        i < j => rank[stack'[g][j].path] < rank[stack'[g][i].path]
  BY <1>2, <1>3 DEF DepsInv, StacksDescend
<1> QED BY <1>2, <1>5, <1>6, OthersStay

\* In an acyclic graph the innermost call never meets a file that one below it claimed
LEMMA NoRevisit ==
    ASSUME NEW rank \in [Paths -> Nat], DepsInv(rank), NEW g \in Goroutines, stack[g] # <<>>,
           NEW p \in Paths, \/ rank[p] < rank[Top(g).path]
                            \/ Top(g).pc = "enter" /\ p = Top(g).path
    PROVE  p \notin visiting[g]
<1> SUFFICES ASSUME p \in visiting[g] PROVE FALSE
  OBVIOUS
<1> DEFINE n == Len(stack[g])
<1>1. /\ stack[g] \in Seq(Frame) /\ n \in Nat \ {0} /\ DOMAIN stack[g] = 1 .. n
      /\ Top(g) = stack[g][n] /\ Top(g).path \in Paths
  <2>1. stack[g] \in Seq(Frame)
    BY DEF DepsInv, RegistryInv, SlotInv, TypeOK
  <2>2. n \in Nat \ {0} /\ Top(g) = stack[g][n] /\ Top(g) \in Frame
    BY <2>1, FrontLast DEF Top
  <2> QED BY <2>1, <2>2, LenProperties, FrameFacts
<1> HIDE DEF n
<1>2. PICK i \in Claims(g) : p = stack[g][i].path
  BY DEF DepsInv, RegistryInv, SlotInv, SlotOwnership
<1>3. i \in 1 .. n /\ stack[g][i].pc # "enter"
  BY <1>1, <1>2 DEF Claims
<1>4. rank[p] \in Nat /\ rank[Top(g).path] \in Nat
  BY <1>1
<1>5. CASE i = n
  BY <1>1, <1>2, <1>3, <1>4, <1>5
<1>6. CASE i # n
  <2>1. i < n /\ n \in 1 .. n
    BY <1>1, <1>3, <1>6
  <2>2. rank[Top(g).path] < rank[p]
    BY <1>1, <1>2, <1>3, <2>1 DEF DepsInv, StacksDescend
  <2> QED BY <1>4, <2>2
<1> QED BY <1>5, <1>6
-----------------------------------------------------------------------------
(* Every step keeps the invariant *)

\* What the innermost call has passed over is settled
LEMMA TopProvided ==
    ASSUME NEW rank \in [Paths -> Nat], DepsInv(rank), NEW g \in Goroutines, stack[g] # <<>>
    PROVE  /\ Top(g) \in Frame /\ Top(g).path \in Paths /\ Top(g).needed \in Seq(Names)
           /\ Top(g).pc = "load" => Top(g).needed = <<>>
           /\ Top(g).pc \in {"deps", "load"} =>
                /\ ToSet(Top(g).needed) \subseteq ToSet(Image[Top(g).path].needed)
                /\ \A x \in ToSet(Image[Top(g).path].needed) :
                    \/ x \in ToSet(Top(g).needed)
                    \/ Find[Top(g).path][x] = None
                    \/ Settled(Find[Top(g).path][x])
<1> DEFINE n == Len(stack[g])
<1>1. stack[g] \in Seq(Frame)
  BY DEF DepsInv, RegistryInv, SlotInv, TypeOK
<1>2. /\ n \in Nat \ {0} /\ DOMAIN stack[g] = 1 .. n
      /\ Top(g) = stack[g][n] /\ Top(g) \in Frame
  BY <1>1, FrontLast, LenProperties DEF Top
<1> HIDE DEF n
<1>3. Provided(g, n) /\ n + 1 \notin DOMAIN stack[g]
  BY <1>2 DEF DepsInv, FramesProvided
<1> QED BY <1>2, <1>3, FrameFacts DEF Provided

\* The innermost call goes on with frame f, which has passed over settled files only
LEMMA ContinueProvided ==
    ASSUME NEW rank \in [Paths -> Nat], DepsInv(rank), SettledStays, NEW g \in Goroutines,
           stack[g] # <<>>, NEW f \in Frame, Continue(g, f), f.path = Top(g).path,
           f.pc = "load" => f.needed = <<>>,
           f.pc \in {"deps", "load"} =>
              /\ ToSet(f.needed) \subseteq ToSet(Image[f.path].needed)
              /\ \A x \in ToSet(Image[f.path].needed) :
                  \/ x \in ToSet(f.needed)
                  \/ Find[f.path][x] = None
                  \/ Settled(Find[f.path][x])
    PROVE  FramesProvided' /\ StacksDescend(rank)'
<1>1. TypeOK
  BY DEF DepsInv, RegistryInv, SlotInv
<1>2. PICK n \in Nat : n = Len(stack[g]) /\ stack'[g][n] = f
  BY <1>1, ContinueStack
<1>3. ASSUME NEW x \in ToSet(Image[f.path].needed), Find[f.path][x] # None,
             Settled(Find[f.path][x])
      PROVE  Settled(Find[f.path][x])'
  <2>1. Find[f.path][x] \in Paths
    BY <1>3, FrameFacts, FindFacts
  <2> QED BY <1>3, <2>1 DEF SettledStays
<1>4. Provided(g, n)'
  BY <1>2, <1>3 DEF Provided
<1> QED BY <1>2, <1>4, ContinueDeps

\* loadDependencies calls loadPath for a file that is needed
LEMMA PushDeps ==
    ASSUME NEW rank \in [Paths -> Nat], Acyclic(rank), DepsInv(rank), SettledStays,
           NEW g \in Goroutines, LoadDependency(g)
    PROVE  FramesProvided' /\ StacksDescend(rank)'
<1>1. /\ stack[g] # <<>> /\ Top(g).pc = "deps" /\ Top(g).needed # <<>>
      /\ TypeOK /\ stack[g] \in Seq(Frame)
  BY DEF LoadDependency, At, DepsInv, RegistryInv, SlotInv, TypeOK
<1>a. PICK f \in Frame : f = Top(g)
  BY <1>1, TopProvided
<1> DEFINE dep  == Head(f.needed)
           rest == [f EXCEPT !.needed = Tail(@)]
           call == Call(Find[f.path][dep], dep, TRUE)
           s    == Append(Front(stack[g]), rest)
<1>2. /\ f.pc = "deps" /\ f.needed # <<>>
      /\ f.path \in Paths /\ f.needed \in Seq(Names)
      /\ ToSet(f.needed) \subseteq ToSet(Image[f.path].needed)
      /\ \A x \in ToSet(Image[f.path].needed) :
            x \in ToSet(f.needed) \/ Find[f.path][x] = None \/ Settled(Find[f.path][x])
  BY <1>1, <1>a, TopProvided
<1>3. ToSet(f.needed) = {dep} \cup ToSet(Tail(f.needed)) /\ Tail(f.needed) \in Seq(Names)
  BY <1>2, TailSet
<1>4. /\ dep \in ToSet(Image[f.path].needed) /\ dep \in Names
      /\ Find[f.path][dep] \in Paths /\ Find[f.path][dep] # None
  <2>1. dep \in ToSet(Image[f.path].needed)
    BY <1>2, <1>3
  <2>2. Find[f.path][dep] # None
    BY <1>a DEF LoadDependency, Skips
  <2> QED BY <1>2, <2>1, <2>2, FindFacts
<1>5. rank[Find[f.path][dep]] < rank[f.path]
  BY <1>2, <1>4 DEF Acyclic
<1>6. /\ rest \in Frame /\ rest.pc = "deps" /\ rest.path = f.path
      /\ rest.needed = Tail(f.needed)
  BY <1>2, <1>3 DEF Frame
<1>7. call \in Frame /\ call.pc = "enter" /\ call.path = Find[f.path][dep]
  BY <1>4, CallType DEF Call
<1>8. stack' = [stack EXCEPT ![g] = Append(s, call)]
  BY <1>a DEF LoadDependency
<1>b. Len(stack[g]) \in Nat \ {0} /\ DOMAIN stack[g] = 1 .. Len(stack[g])
      /\ Top(g) = stack[g][Len(stack[g])]
  BY <1>1, FrontLast, LenProperties DEF Top
<1>9. PICK n \in Nat \ {0} : n = Len(stack[g]) /\ DOMAIN stack[g] = 1 .. n /\ f = stack[g][n]
  BY <1>a, <1>b
<1> HIDE DEF rest, call
<1>10. /\ s \in Seq(Frame) /\ Len(s) = n /\ s[n] = rest
       /\ \A i \in 1 .. n - 1 : s[i] = stack[g][i]
  BY <1>1, <1>6, <1>9, ReplaceTop
<1> HIDE DEF s
<1>11. /\ Append(s, call) \in Seq(Frame) /\ Len(Append(s, call)) = n + 1
       /\ Append(s, call)[n + 1] = call
       /\ \A i \in 1 .. n : Append(s, call)[i] = s[i]
  BY <1>7, <1>10, AppendProperties
<1>12. /\ OthersKeep(g) /\ DOMAIN stack'[g] = 1 .. n + 1
       /\ stack'[g][n] = rest /\ stack'[g][n + 1] = call
       /\ \A i \in 1 .. n - 1 : stack'[g][i] = stack[g][i]
  <2>1. stack'[g] = Append(s, call) /\ OthersKeep(g)
    BY <1>1, <1>8 DEF TypeOK, OthersKeep
  <2>2. DOMAIN stack'[g] = 1 .. n + 1
    BY <1>11, <2>1, LenProperties
  <2>3. \A i \in 1 .. n - 1 : i \in 1 .. n
    BY <1>9
  <2>4. n \in 1 .. n
    BY <1>9
  <2>5. stack'[g][n] = rest /\ stack'[g][n + 1] = call
    BY <1>10, <1>11, <2>1, <2>4
  <2>6. \A i \in 1 .. n - 1 : stack'[g][i] = stack[g][i]
    BY <1>10, <1>11, <2>1, <2>3
  <2> QED BY <2>1, <2>2, <2>5, <2>6
<1>13. \A i \in 1 .. n + 1 : i \in 1 .. n - 1 \/ i = n \/ i = n + 1
  BY <1>9
<1>14. \A i \in 1 .. n : i \in 1 .. n + 1 /\ stack'[g][i].path = stack[g][i].path
  <2>1. \A i \in 1 .. n : i \in 1 .. n - 1 \/ i = n
    BY <1>9
  <2>2. \A i \in 1 .. n : i \in 1 .. n + 1
    BY <1>9
  <2> QED BY <1>6, <1>9, <1>12, <2>1, <2>2
<1>15. ASSUME NEW k \in 1 .. n - 1 PROVE Provided(g, k)'
  <2>1. k \in DOMAIN stack[g] /\ k + 1 \in 1 .. n /\ stack'[g][k] = stack[g][k]
    BY <1>9, <1>12
  <2>2. Provided(g, k)
    BY <2>1 DEF DepsInv, FramesProvided
  <2>3. k + 1 \in DOMAIN stack'[g] /\ stack'[g][k + 1].path = stack[g][k + 1].path
    BY <1>12, <1>14, <2>1
  <2> QED BY <1>1, <2>1, <2>2, <2>3, FrameStays
<1>16. Provided(g, n)'
  <2>1. ASSUME NEW x \in ToSet(Image[f.path].needed), x \notin ToSet(Tail(f.needed)),
               Find[f.path][x] # None
        PROVE  Settled(Find[f.path][x])' \/ call.path = Find[f.path][x]
    <3>1. CASE x = dep
      BY <1>7, <3>1
    <3>2. CASE x # dep
      <4>1. Settled(Find[f.path][x])
        BY <1>2, <1>3, <2>1, <3>2
      <4>2. PICK p \in Paths : p = Find[f.path][x]
        BY <1>2, <2>1, FindFacts
      <4>3. Settled(p)'
        BY <4>1, <4>2 DEF SettledStays
      <4> QED BY <4>2, <4>3
    <3> QED BY <3>1, <3>2
  <2>2. n + 1 \in DOMAIN stack'[g]
    BY <1>9, <1>12
  <2> QED BY <1>2, <1>3, <1>6, <1>12, <2>1, <2>2 DEF Provided
<1>17. Provided(g, n + 1)'
  BY <1>7, <1>12 DEF Provided
<1>18. ASSUME NEW i \in 1 .. n + 1, NEW j \in 1 .. n + 1, i < j
       PROVE  rank[stack'[g][j].path] < rank[stack'[g][i].path]
  <2>1. i \in 1 .. n
    BY <1>9, <1>18
  <2>2. CASE j \in 1 .. n
    BY <1>9, <1>14, <1>18, <2>1, <2>2 DEF DepsInv, StacksDescend
  <2>3. CASE j = n + 1
    <3>1. stack'[g][j].path = Find[f.path][dep] /\ rank[Find[f.path][dep]] < rank[f.path]
      BY <1>5, <1>7, <1>12, <2>3
    <3>2. CASE i = n
      BY <1>9, <1>14, <2>1, <3>1, <3>2
    <3>3. CASE i # n
      <4>1. i < n /\ n \in 1 .. n
        BY <1>9, <2>1, <3>3
      <4>2. rank[f.path] < rank[stack[g][i].path]
        BY <1>9, <2>1, <4>1 DEF DepsInv, StacksDescend
      <4>3. /\ rank[f.path] \in Nat /\ rank[Find[f.path][dep]] \in Nat
            /\ rank[stack[g][i].path] \in Nat
        <5>1. stack[g][i] \in Frame
          BY <1>1, <1>9, <2>1, ElementOfSeq
        <5>2. stack[g][i].path \in Paths
          BY <5>1, FrameFacts
        <5> QED BY <1>2, <1>4, <5>2
      <4> QED BY <1>14, <2>1, <3>1, <4>2, <4>3
    <3> QED BY <3>2, <3>3
  <2>4. j \in 1 .. n \/ j = n + 1
    BY <1>9
  <2> QED BY <2>2, <2>3, <2>4
<1> QED BY <1>12, <1>13, <1>15, <1>16, <1>17, <1>18, OthersStay

\* A step inside Open that is no failure
LEMMA StepDeps ==
    ASSUME NEW rank \in [Paths -> Nat], Acyclic(rank), DepsInv(rank), SettledStays,
           NEW g \in Goroutines, Step(g), ~ LoadFails, TypeOK'
    PROVE  FramesProvided' /\ StacksDescend(rank)'
<1>1. TypeOK /\ RegistryInv /\ CountsPositive /\ stack[g] # <<>>
  BY DEF DepsInv, RegistryInv, SlotInv, Step, Revisit, Wait, CacheHit, Claim, Parse,
     ParseFails, SkipDependency, LoadDependency, Map, MapFails, Relocate, RelocateFails,
     Register, At
<1>2. PICK f \in Frame : f = Top(g)
  BY <1>1, TopProvided
<1>3. /\ f.path \in Paths /\ f.needed \in Seq(Names)
      /\ f.pc = "load" => f.needed = <<>>
      /\ f.pc \in {"deps", "load"} =>
            /\ ToSet(f.needed) \subseteq ToSet(Image[f.path].needed)
            /\ \A x \in ToSet(Image[f.path].needed) :
                \/ x \in ToSet(f.needed)
                \/ Find[f.path][x] = None
                \/ Settled(Find[f.path][x])
  BY <1>1, <1>2, TopProvided
<1>4. CASE Revisit(g)
  <2>1. f.path \in visiting[g] /\ f.pc = "enter"
    BY <1>2, <1>4 DEF Revisit, OnStack, At
  <2> QED BY <1>1, <1>2, <1>3, <2>1, NoRevisit
<1>5. CASE Wait(g)
  BY <1>5, SameStacks DEF Wait
<1>6. CASE CacheHit(g)
  <2>1. PICK h \in Handles : h = loaded[f.path] /\ h # None /\ HandOver(g, h)
    <3>1. loaded[f.path] # None /\ HandOver(g, loaded[f.path])
      BY <1>2, <1>6 DEF CacheHit, Cached
    <3>2. loaded[f.path] \in Handles
      BY <1>1, <1>3, <3>1, LoadedLive DEF RegistryAssumption
    <3> QED BY <3>1, <3>2
  <2>2. loaded' = loaded /\ Return(g)
    BY <1>6 DEF CacheHit, tables
  <2>3. Len(stack[g]) # 1 => Settled(f.path)'
    BY <1>1, <2>1, <2>2, HandOverOwes DEF Settled
  <2> QED BY <1>1, <1>2, <2>2, <2>3, ReturnDeps
<1>7. CASE Register(g)
  <2> DEFINE free == CHOOSE x \in Handles : status[x] = "free"
  <2>1. free \in Handles /\ HandOver(g, free)
    BY <1>7 DEF Register
  <2>2. loaded' = [k \in Names \cup Keys(f.path, f.name) |->
                      IF k \in Keys(f.path, f.name) THEN free ELSE loaded[k]]
    BY <1>2, <1>7 DEF Register
  <2> HIDE DEF free
  <2>3. PICK h \in Handles : h = free
    BY <2>1
  <2>4. loaded'[f.path] = h /\ h # None
    BY <1>2, <1>7, <2>2, <2>3, RegisterKeys, <1>1 DEF RegistryAssumption
  <2>5. Len(stack[g]) # 1 => Settled(f.path)'
    BY <1>1, <2>1, <2>3, <2>4, HandOverOwes DEF Settled
  <2>6. Return(g)
    BY <1>7 DEF Register
  <2> QED BY <1>1, <1>2, <2>5, <2>6, ReturnDeps
<1>8. CASE Claim(g)
  <2> DEFINE d == [f EXCEPT !.pc = "parse"]
  <2>1. d \in Frame /\ d.path = f.path /\ d.pc = "parse"
    BY <1>2 DEF Frame
  <2>2. Continue(g, d)
    BY <1>2, <1>8 DEF Claim
  <2> HIDE DEF d
  <2> QED BY <1>1, <1>2, <2>1, <2>2, ContinueProvided
<1>9. CASE Parse(g)
  <2> DEFINE d == [f EXCEPT !.pc = "deps", !.needed = Image[f.path].needed]
  <2>1. d \in Frame /\ d.path = f.path /\ d.pc = "deps" /\ d.needed = Image[f.path].needed
    BY <1>2, <1>3, ImageFacts DEF Frame
  <2>2. Continue(g, d)
    BY <1>2, <1>9 DEF Parse
  <2> HIDE DEF d
  <2> QED BY <1>1, <1>2, <2>1, <2>2, ContinueProvided
<1>10. CASE SkipDependency(g)
  <2> DEFINE d == [f EXCEPT !.needed = Tail(@)]
             x == Head(f.needed)
  <2>1. f.pc = "deps" /\ f.needed # <<>> /\ Skips(g, x) /\ Continue(g, d)
    BY <1>2, <1>10 DEF SkipDependency, At
  <2>2. /\ ToSet(f.needed) = {x} \cup ToSet(Tail(f.needed)) /\ Tail(f.needed) \in Seq(Names)
    BY <1>3, <2>1, TailSet
  <2>3. d \in Frame /\ d.path = f.path /\ d.pc = "deps" /\ d.needed = Tail(f.needed)
    BY <1>2, <2>1, <2>2 DEF Frame
  <2>4. x \in ToSet(Image[f.path].needed)
    BY <1>3, <2>1, <2>2
  <2>5. Find[f.path][x] = None
    <3> SUFFICES ASSUME Find[f.path][x] # None PROVE FALSE
      OBVIOUS
    <3>1. x \in visiting[g]
      BY <1>2, <2>1 DEF Skips
    <3>2. x \in Paths
      BY <1>1, <3>1 DEF TypeOK
    <3>3. Find[f.path][x] = x
      BY <1>3, <2>4, <3>2, FindFacts
    <3>4. rank[x] < rank[f.path]
      BY <1>3, <2>4, <3>3 DEF Acyclic
    <3> QED BY <1>1, <1>2, <3>1, <3>2, <3>4, NoRevisit
  <2> HIDE DEF d, x
  <2>6. \A y \in ToSet(Image[d.path].needed) :
            \/ y \in ToSet(d.needed)
            \/ Find[d.path][y] = None
            \/ Settled(Find[d.path][y])
    BY <1>3, <2>1, <2>2, <2>3, <2>5
  <2>7. ToSet(d.needed) \subseteq ToSet(Image[d.path].needed)
    BY <1>3, <2>1, <2>2, <2>3
  <2> QED BY <1>1, <1>2, <2>1, <2>3, <2>6, <2>7, ContinueProvided
<1>11. CASE LoadDependency(g)
  BY <1>11, PushDeps
<1>12. CASE Map(g)
  <2> DEFINE d == [f EXCEPT !.pc = "load", !.undef = Image[f.path].undef]
  <2>1. d \in Frame /\ d.path = f.path /\ d.pc = "load" /\ d.needed = f.needed
    BY <1>2, <1>3, ImageFacts DEF Frame
  <2>2. Continue(g, d) /\ f.pc = "deps" /\ f.needed = <<>>
    BY <1>2, <1>12 DEF Map, At
  <2> HIDE DEF d
  <2>3. d.path = Top(g).path
    BY <1>2, <2>1
  <2>4. /\ ToSet(d.needed) \subseteq ToSet(Image[d.path].needed)
        /\ \A y \in ToSet(Image[d.path].needed) :
              \/ y \in ToSet(d.needed) \/ Find[d.path][y] = None \/ Settled(Find[d.path][y])
    BY <1>3, <2>1, <2>2
  <2>5. d.needed = <<>>
    BY <2>1, <2>2
  <2> QED BY <1>1, <2>1, <2>2, <2>3, <2>4, <2>5, ContinueProvided
<1>13. CASE Relocate(g)
  <2>1. PICK u \in Seq(Syms), b \in SUBSET Handles :
            Continue(g, [f EXCEPT !.undef = u, !.binds = b])
    <3> DEFINE s == Head(f.undef)
               c == IF s \in Image[f.path].strong \cup Image[f.path].weak \/ Lookup(s) = None
                      THEN f.binds ELSE f.binds \cup {Lookup(s)}
    <3>1. Continue(g, [f EXCEPT !.undef = Tail(f.undef), !.binds = c]) /\ f.undef # <<>>
      BY <1>2, <1>13 DEF Relocate
    <3>2. f.binds \in SUBSET Handles /\ f.undef \in Seq(Syms)
      BY <1>2, FrameFacts
    <3>3. Lookup(s) # None => Lookup(s) \in Handles
      BY <1>1, LookupType
    <3>4. c = f.binds \/ (Lookup(s) # None /\ c = f.binds \cup {Lookup(s)})
      BY Zenon
    <3>5. Tail(f.undef) \in Seq(Syms)
      BY <3>1, <3>2, HeadTailProperties
    <3> HIDE DEF c, s
    <3>6. c \in SUBSET Handles
      BY <3>2, <3>3, <3>4
    <3> QED BY <3>1, <3>5, <3>6
  <2> DEFINE d == [f EXCEPT !.undef = u, !.binds = b]
  <2>2. d \in Frame /\ d.path = f.path /\ d.pc = f.pc /\ d.needed = f.needed
    BY <1>2, <2>1 DEF Frame
  <2>3. Continue(g, d)
    BY <2>1
  <2> HIDE DEF d
  <2>4. d.path = Top(g).path
    BY <1>2, <2>2
  <2>5. /\ d.pc = "load" => d.needed = <<>>
        /\ d.pc \in {"deps", "load"} =>
            /\ ToSet(d.needed) \subseteq ToSet(Image[d.path].needed)
            /\ \A x \in ToSet(Image[d.path].needed) :
                \/ x \in ToSet(d.needed) \/ Find[d.path][x] = None \/ Settled(Find[d.path][x])
    BY <1>3, <2>2
  <2> QED BY <1>1, <2>2, <2>3, <2>4, <2>5, ContinueProvided
<1>14. ~ ParseFails(g) /\ ~ MapFails(g) /\ ~ RelocateFails(g)
  BY DEF LoadFails
<1> QED BY <1>4, <1>5, <1>6, <1>7, <1>8, <1>9, <1>10, <1>11, <1>12, <1>13, <1>14 DEF Step

LEMMA RequestDeps ==
    ASSUME NEW rank \in [Paths -> Nat], DepsInv(rank), SettledStays,
           NEW g \in Goroutines, Request(g)
    PROVE  FramesProvided' /\ StacksDescend(rank)'
<1>1. CASE UNCHANGED stack
  BY <1>1, SameStacks
<1>2. CASE OpenUncached(g)
  <2>1. PICK c \in Calls :
          IF Find[None][c.name] = None
            THEN UNCHANGED stack
            ELSE stack' = [stack EXCEPT ![g] =
                    <<Call(Find[None][c.name], c.name, EffectiveFlag(c.flags) = RTLD_GLOBAL)>>]
    BY <1>2 DEF OpenUncached
  <2> DEFINE call == Call(Find[None][c.name], c.name, EffectiveFlag(c.flags) = RTLD_GLOBAL)
  <2>2. CASE Find[None][c.name] # None
    <3>1. stack' = [stack EXCEPT ![g] = <<call>>] /\ call.pc = "enter"
      BY <2>1, <2>2 DEF Call
    <3> HIDE DEF call
    <3>2. stack'[g] = <<call>> /\ OthersKeep(g)
      BY <3>1 DEF DepsInv, RegistryInv, SlotInv, TypeOK, OthersKeep
    <3>3. DOMAIN stack'[g] = {1} /\ stack'[g][1] = call
      BY <3>2
    <3>4. \A k \in DOMAIN stack'[g] : Provided(g, k)'
      BY <3>1, <3>3 DEF Provided
    <3>5. \A i, j \in DOMAIN stack'[g] : ~ (i < j)
      BY <3>3
    <3> QED BY <3>2, <3>4, <3>5, OthersStay
  <2> QED BY <1>1, <2>1, <2>2
<1> QED BY <1>1, <1>2
     DEF Request, OpenCached, CloseShared, CloseLast, CloseRefused, vars

\* What the library of the file q needs is settled, after the step
NeedsMet(q) ==
    \A n \in ToSet(Image[q].needed) : Find[q][n] # None =>
        \E p \in Paths : Find[q][n] = p /\ Settled(p)'

LEMMA PublishedNext ==
    ASSUME \A h \in Handles : status'[h] = "live" =>
               \E q \in Paths : origin'[h] = q /\ NeedsMet(q)
    PROVE  Published'
<1> SUFFICES ASSUME NEW h \in Handles, status'[h] = "live",
                    NEW n \in ToSet(Image[origin'[h]].needed), Find[origin'[h]][n] # None
             PROVE  /\ loaded'[Find[origin'[h]][n]] # None
                    /\ owed'[loaded'[Find[origin'[h]][n]]] > 0
  BY DEF Published, Live, Settled
<1>1. PICK q \in Paths : origin'[h] = q /\ NeedsMet(q)
  OBVIOUS
<1>2. PICK p \in Paths : Find[q][n] = p /\ Settled(p)'
  BY <1>1 DEF NeedsMet
<1> QED BY <1>1, <1>2 DEF Settled

\* A library that is published has all it needs settled
LEMMA PublishedStep ==
    ASSUME NEW rank \in [Paths -> Nat], DepsInv(rank), SettledStays, [Next]_vars, TypeOK'
    PROVE  Published'
<1>1. TypeOK /\ RegistryInv
  BY DEF DepsInv, RegistryInv, SlotInv
<1>2. ASSUME NEW h \in Handles, status[h] = "live", origin'[h] = origin[h]
      PROVE  \E q \in Paths : origin'[h] = q /\ NeedsMet(q)
  <2>1. PICK q \in Paths : origin[h] = q
    BY <1>1, <1>2 DEF RegistryInv, CacheCoherent, Live, TypeOK
  <2>2. \A n \in ToSet(Image[q].needed) : Find[q][n] # None => Settled(Find[q][n])
    BY <1>2, <2>1 DEF DepsInv, Published, Live
  <2>3. ASSUME NEW n \in ToSet(Image[q].needed), Find[q][n] # None
        PROVE  \E p \in Paths : Find[q][n] = p /\ Settled(p)'
    <3>1. PICK p \in Paths : Find[q][n] = p
      BY <2>3, FindFacts
    <3> QED BY <2>2, <2>3, <3>1 DEF SettledStays
  <2> QED BY <1>2, <2>1, <2>3 DEF NeedsMet
<1>3. CASE origin' = origin /\ \A h \in Handles : status'[h] = "live" => status[h] = "live"
  BY <1>2, <1>3, PublishedNext
<1>4. ASSUME NEW g \in Goroutines, Register(g)
      PROVE  Published'
  <2> DEFINE free == CHOOSE x \in Handles : status[x] = "free"
  <2>1. free \in Handles /\ status' = [status EXCEPT ![free] = "live"]
    BY <1>4 DEF Register
  <2>a. origin' = [origin EXCEPT ![free] = Top(g).path]
    BY <1>4 DEF Register
  <2>b. stack[g] # <<>> /\ Top(g).pc = "load"
    BY <1>4 DEF Register, At
  <2> HIDE DEF free
  <2>2. PICK x \in Handles : x = free
    BY <2>1
  <2>3. PICK f \in Frame : f = Top(g) /\ f.path \in Paths
    BY <2>b, TopProvided
  <2>4. /\ origin'[x] = f.path
        /\ \A h \in Handles \ {x} : origin'[h] = origin[h] /\ status'[h] = status[h]
    BY <1>1, <2>1, <2>2, <2>3, <2>a DEF TypeOK
  <2>5. \A n \in ToSet(Image[f.path].needed) :
            Find[f.path][n] = None \/ Settled(Find[f.path][n])
    <3>1. f.needed = <<>> /\ ToSet(<<>>) = {}
      BY <2>b, <2>3, TopProvided, EmptySeq DEF ToSet
    <3> QED BY <2>b, <2>3, <3>1, TopProvided
  <2>6. NeedsMet(f.path)
    <3> SUFFICES ASSUME NEW n \in ToSet(Image[f.path].needed), Find[f.path][n] # None
                 PROVE  \E p \in Paths : Find[f.path][n] = p /\ Settled(p)'
      BY DEF NeedsMet
    <3>1. PICK p \in Paths : Find[f.path][n] = p
      BY <2>3, FindFacts
    <3>2. Settled(p)
      BY <2>5, <3>1
    <3> QED BY <3>1, <3>2 DEF SettledStays
  <2>7. ASSUME NEW h \in Handles, status'[h] = "live"
        PROVE  \E q \in Paths : origin'[h] = q /\ NeedsMet(q)
    <3>1. CASE h = x
      BY <2>3, <2>4, <2>6, <3>1
    <3>2. CASE h # x
      BY <1>2, <2>4, <2>7, <3>2
    <3> QED BY <3>1, <3>2
  <2> QED BY <2>7, PublishedNext
<1>5. ASSUME NEW g \in Goroutines, Step(g), ~ Register(g)
      PROVE  origin' = origin /\ status' = status
  BY <1>5 DEF Step, Revisit, Wait, CacheHit, Claim, Parse, ParseFails,
     SkipDependency, LoadDependency, Map, MapFails, Relocate, RelocateFails, Abandon, tables
<1>6. ASSUME NEW g \in Goroutines, Request(g)
      PROVE  origin' = origin /\ \A h \in Handles : status'[h] = "live" => status[h] = "live"
  <2>1. CASE CloseLast(g)
    <3>1. PICK x \in Handles : status' = [status EXCEPT ![x] = "dead"]
      BY <2>1 DEF CloseLast
    <3>2. origin' = origin
      BY <2>1 DEF CloseLast
    <3> QED BY <1>1, <3>1, <3>2 DEF TypeOK
  <2>2. CASE ~ CloseLast(g)
    BY <1>6, <2>2 DEF Request, OpenCached, OpenUncached, CloseShared, CloseRefused, vars, tables
  <2> QED BY <2>1, <2>2
<1>7. UNCHANGED vars => origin' = origin /\ status' = status
  BY DEF vars
<1> QED BY <1>3, <1>4, <1>5, <1>6, <1>7 DEF Next, Finished

LEMMA DepsStep ==
    ASSUME NEW rank \in [Paths -> Nat], Acyclic(rank), ~ OverClose
    PROVE  DepsInv(rank) /\ [Next]_vars /\ [~ LoadFails]_vars => DepsInv(rank)'
<1> SUFFICES ASSUME DepsInv(rank), [Next]_vars, [~ LoadFails]_vars PROVE DepsInv(rank)'
  OBVIOUS
<1>1. RegistryInv /\ TypeOK /\ CountsPositive
  BY DEF DepsInv, RegistryInv, SlotInv
<1>2. RegistryInv' /\ TypeOK'
  BY <1>1, RegistryStep DEF RegistryInv, SlotInv
<1>3. SettledStays /\ CountsPositive'
  <2>1. CASE UNCHANGED vars
    BY <1>1, <2>1 DEF vars, SettledStays, Settled, CountsPositive
  <2>2. CASE \E g \in Goroutines : Step(g) \/ Request(g)
    BY <1>1, <1>2, <2>2, StepSettles, RequestSettles
  <2> QED BY <2>1, <2>2 DEF Next, Finished
<1>4. FramesProvided' /\ StacksDescend(rank)'
  <2>1. CASE UNCHANGED vars
    <3>1. UNCHANGED stack
      BY <2>1 DEF vars
    <3> QED BY <1>3, <3>1, SameStacks
  <2>2. CASE ~ LoadFails /\ \E g \in Goroutines : Step(g) \/ Request(g)
    BY <1>2, <1>3, <2>2, StepDeps, RequestDeps
  <2> QED BY <2>1, <2>2 DEF Next, Finished
<1>5. Published'
  BY <1>2, <1>3, PublishedStep
<1> QED BY <1>2, <1>3, <1>4, <1>5 DEF DepsInv

\* A published library has all the dependencies that can be found, and keeps them while it
\* is live, whatever its users and those of other libraries open and close: for DT_NEEDED
\* graphs without a cycle, callers that close what they opened, and as long as no load fails
THEOREM DependenciesStay ==
    ASSUME NEW rank \in [Paths -> Nat], Acyclic(rank), ~ OverClose
    PROVE  Spec /\ [][~ LoadFails]_vars => []DependenciesLoaded
<1>1. Init => DepsInv(rank)
  <2> SUFFICES ASSUME Init PROVE DepsInv(rank)
    OBVIOUS
  <2>1. \A g \in Goroutines : stack[g] = <<>> /\ DOMAIN stack[g] = {}
    BY EmptySeq DEF Init
  <2> QED BY <2>1, RegistryInit
       DEF Init, DepsInv, CountsPositive, StacksDescend, FramesProvided, Published, Live
<1>2. DepsInv(rank) => DependenciesLoaded
  <2> SUFFICES ASSUME DepsInv(rank), NEW h \in Handles, Live(h),
                      NEW i \in DOMAIN Image[origin[h]].needed,
                      Find[origin[h]][Image[origin[h]].needed[i]] # None
               PROVE  loaded[Find[origin[h]][Image[origin[h]].needed[i]]] # None
    BY DEF DependenciesLoaded
  <2>1. Image[origin[h]].needed[i] \in ToSet(Image[origin[h]].needed)
    BY DEF ToSet
  <2> QED BY <2>1 DEF DepsInv, Published, Settled
<1>3. DepsInv(rank) /\ [Next]_vars /\ [~ LoadFails]_vars => DepsInv(rank)'
  BY DepsStep
<1> QED BY <1>1, <1>2, <1>3, PTL DEF Spec
=============================================================================
