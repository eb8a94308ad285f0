------------------------- MODULE RegistryRefinement -------------------------
(***************************************************************************)
(* Proof that Registry implements HandleTable: seen file by file, the      *)
(* registry of package dl is a table of reference-counted instances,       *)
(* whatever names a file has, however goroutines wait for one another and  *)
(* whichever loads fail.                                                   *)
(***************************************************************************)
EXTENDS RegistryProofs

USE RegistryAssumption

Inst == [p \in Paths |-> loaded[p]]
Used == {h \in Handles : status[h] # "free"}

\* The actions of the contract that bind more than a reference count
LEMMA LoadIsNext ==
    ASSUME NEW p \in Paths, NEW h \in Handles, Contract!Load(p, h)
    PROVE  Contract!Next
BY Zenon DEF Contract!Next

LEMMA UnloadIsNext ==
    ASSUME NEW p \in Paths, Contract!Unload(p)
    PROVE  Contract!Next
BY Zenon DEF Contract!Next

\* A live library is the instance of its own file
LEMMA LiveInst ==
    ASSUME RegistryInv, NEW h \in Handles, Live(h)
    PROVE  origin[h] \in Paths /\ Inst[origin[h]] = h /\ h # None
BY DEF RegistryInv, SlotInv, TypeOK, CacheCoherent, Live, Inst

\* One more reference to a live library is an Acquire of its file
LEMMA TakeIsAcquire ==
    ASSUME RegistryInv, NEW h \in Handles, Live(h), Retain(h), UNCHANGED tables
    PROVE  Contract!Next
<1>1. origin[h] \in Paths /\ Inst[origin[h]] = h /\ h # None
  BY LiveInst
<1>2. Contract!Acquire(origin[h])
  BY <1>1 DEF Contract!Acquire, Retain, tables, Inst
<1> QED BY <1>1, <1>2 DEF Contract!Next

\* What Register is given: a frame of its own path, and keys of which that path is the
\* only one that is a path
LEMMA RegisterKeys ==
    ASSUME RegistryInv, NEW g \in Goroutines, Register(g)
    PROVE  LET f == Top(g) IN
           /\ f.path \in Paths /\ f.name \in Names /\ f.path \in loading
           /\ f.path \in Keys(f.path, f.name)
           /\ \A k \in Keys(f.path, f.name) : k \in Paths => k = f.path
<1> DEFINE f == Top(g)
           n == Len(stack[g])
<1>1. stack[g] # <<>> /\ f \in Frame /\ f.pc # "enter"
  BY TopType DEF Register, At, RegistryInv, SlotInv
<1>2. f.path \in Paths /\ f.name \in Names
  BY <1>1, FrameFacts
<1>3. f = stack[g][n] /\ n \in DOMAIN stack[g]
  <2>1. stack[g] \in Seq(Frame)
    BY DEF RegistryInv, SlotInv, TypeOK
  <2>2. n \in Nat \ {0} /\ f = stack[g][n]
    BY <1>1, <2>1, FrontLast DEF Top
  <2>3. DOMAIN stack[g] = 1 .. n
    BY <2>1, LenProperties
  <2> QED BY <2>2, <2>3
<1>4. f.path \in loading
  BY <1>1, <1>3 DEF RegistryInv, SlotInv, SlotOwnership, Claims
<1>5. f.name \in Paths => f.path = f.name
  BY <1>3 DEF RegistryInv, SlotInv, NamesResolve
<1>6. /\ f.path \in Keys(f.path, f.name)
      /\ \A k \in Keys(f.path, f.name) : k \in Paths => k = f.path
  BY <1>2, <1>5 DEF Keys
<1> QED BY <1>2, <1>4, <1>6

\* Publishing a library is a Load of its file
LEMMA RegisterIsLoad ==
    ASSUME RegistryInv, NEW g \in Goroutines, Register(g)
    PROVE  Contract!Next
<1>1. PICK h \in Handles : h = (CHOOSE x \in Handles : status[x] = "free") /\ status[h] = "free"
  BY DEF Register
<1>2. PICK p \in Paths : p = Top(g).path
  BY RegisterKeys
<1>3. /\ p \in loading /\ p \in Keys(p, Top(g).name)
      /\ \A k \in Keys(p, Top(g).name) : k \in Paths => k = p
  BY <1>2, RegisterKeys
<1>4. /\ loaded' = [k \in Names \cup Keys(p, Top(g).name) |->
                      IF k \in Keys(p, Top(g).name) THEN h ELSE loaded[k]]
      /\ status' = [status EXCEPT ![h] = "live"]
      /\ refCount' = [refCount EXCEPT ![h] = 1]
  BY <1>1, <1>2 DEF Register
<1>5. Inst[p] = None
  BY <1>3 DEF RegistryInv, CacheCoherent, Inst
<1>6. Inst' = [Inst EXCEPT ![p] = h]
  <2>1. \A q \in Paths : loaded'[q] = IF q = p THEN h ELSE loaded[q]
    BY <1>3, <1>4
  <2> QED BY <2>1 DEF Inst
<1>7. h \notin Used /\ Used' = Used \cup {h}
  BY <1>1, <1>4 DEF Used, RegistryInv, SlotInv, TypeOK
<1>8. Contract!Load(p, h)
  BY <1>4, <1>5, <1>6, <1>7 DEF Contract!Load, Inst, Used
<1> QED BY <1>8, LoadIsNext

\* Close of a library that others still hold
LEMMA CloseSharedIsRelease ==
    ASSUME RegistryInv, NEW g \in Goroutines, CloseShared(g)
    PROVE  Contract!Next
<1>1. PICK h \in Handles : refCount[h] > 1 /\ refCount' = [refCount EXCEPT ![h] = @ - 1]
  BY DEF CloseShared
<1>2. Live(h)
  BY <1>1 DEF RegistryInv, SlotInv, TypeOK, RefsConserved
<1>3. origin[h] \in Paths /\ Inst[origin[h]] = h /\ h # None
  BY <1>2, LiveInst
<1>4. Contract!Release(origin[h])
  BY <1>1, <1>3 DEF Contract!Release, CloseShared, tables, Inst
<1> QED BY <1>3, <1>4 DEF Contract!Next

\* A path is a key of the library that was loaded from it, and of no other
PathKeys == \A p \in Paths : loaded[p] # None => origin[loaded[p]] = p

\* Close of the last reference takes the instance away from its file, and from no other
LEMMA CloseLastIsUnload ==
    ASSUME RegistryInv, PathKeys, NEW g \in Goroutines, CloseLast(g)
    PROVE  Contract!Next
<1>1. PICK h \in Handles :
        /\ refCount[h] = 1
        /\ refCount' = [refCount EXCEPT ![h] = 0]
        /\ loaded' = Forget(h)
        /\ status' = [status EXCEPT ![h] = "dead"]
  BY DEF CloseLast
<1>2. Live(h)
  BY <1>1 DEF RegistryInv, RefsConserved
<1>3. PICK p \in Paths : p = origin[h] /\ Inst[p] = h /\ h # None
  BY <1>2, LiveInst
<1>4. Inst' = [Inst EXCEPT ![p] = None]
  <2>1. \A q \in Paths : loaded[q] = h => q = p
    BY <1>3 DEF PathKeys
  <2>2. \A q \in Paths : loaded'[q] = IF q = p THEN None ELSE loaded[q]
    BY <1>1, <1>3, <2>1 DEF Forget, Inst
  <2> QED BY <2>2 DEF Inst
<1>5. Used' = Used
  BY <1>1, <1>2 DEF Used, Live, RegistryInv, SlotInv, TypeOK
<1>6. Contract!Unload(p)
  BY <1>1, <1>3, <1>4, <1>5 DEF Contract!Unload, Inst, Used
<1> QED BY <1>6, UnloadIsNext

\* The steps that take one reference, to a library that a key names
LEMMA TakeStep ==
    ASSUME RegistryInv, NEW n \in Names, loaded[n] # None, Retain(loaded[n]), UNCHANGED tables
    PROVE  Contract!Next
<1>1. loaded[n] \in Handles /\ Live(loaded[n])
  BY DEF RegistryInv, SlotInv, TypeOK, CacheCoherent
<1> QED BY <1>1, TakeIsAcquire

LEMMA StutterStep ==
    ASSUME UNCHANGED <<tables, refCount>>
    PROVE  UNCHANGED <<Inst, refCount, Used>>
BY DEF tables, Inst, Used

LEMMA StepRefines ==
    ASSUME RegistryInv, PathKeys, NEW g \in Goroutines, Step(g) \/ Request(g)
    PROVE  Contract!Next \/ UNCHANGED <<Inst, refCount, Used>>
<1>1. CASE Revisit(g)
  <2>1. Top(g).path \in Names
    BY <1>1, TopType, FrameFacts DEF Revisit, At, RegistryInv, SlotInv
  <2>2. UNCHANGED tables
    BY <1>1 DEF Revisit
  <2>3. UNCHANGED refCount \/ (loaded[Top(g).path] # None /\ Retain(loaded[Top(g).path]))
    BY <1>1 DEF Revisit
  <2> QED BY <2>1, <2>2, <2>3, TakeStep, StutterStep
<1>2. CASE CacheHit(g)
  <2>1. Top(g).path \in Names
    BY <1>2, TopType, FrameFacts DEF CacheHit, At, RegistryInv, SlotInv
  <2>2. UNCHANGED tables /\ loaded[Top(g).path] # None /\ Retain(loaded[Top(g).path])
    BY <1>2 DEF CacheHit, Cached
  <2> QED BY <2>1, <2>2, TakeStep
<1>3. CASE OpenCached(g)
  <2>1. PICK c \in Calls : loaded[c.name] # None /\ Retain(loaded[c.name])
    BY <1>3 DEF OpenCached
  <2>2. c.name \in Names
    BY <2>1
  <2>3. UNCHANGED tables
    BY <1>3 DEF OpenCached
  <2> QED BY <2>1, <2>2, <2>3, TakeStep
<1>4. CASE Register(g)
  BY <1>4, RegisterIsLoad
<1>5. CASE CloseShared(g)
  BY <1>5, CloseSharedIsRelease
<1>6. CASE CloseLast(g)
  BY <1>6, CloseLastIsUnload
<1>7. CASE \/ Wait(g) \/ Claim(g) \/ Parse(g) \/ ParseFails(g) \/ SkipDependency(g)
           \/ LoadDependency(g) \/ Map(g) \/ MapFails(g) \/ Relocate(g)
           \/ RelocateFails(g) \/ OpenUncached(g) \/ CloseRefused(g)
  <2>1. UNCHANGED <<tables, refCount>>
    BY <1>7 DEF Wait, Claim, Parse, ParseFails, SkipDependency, LoadDependency, Map,
       MapFails, Relocate, RelocateFails, OpenUncached, CloseRefused, Abandon, vars, tables
  <2> QED BY <2>1, StutterStep
<1> QED BY <1>1, <1>2, <1>3, <1>4, <1>5, <1>6, <1>7 DEF Step, Request

LEMMA PathKeysStep ==
    ASSUME RegistryInv, PathKeys, [Next]_vars
    PROVE  PathKeys'
<1>1. CASE UNCHANGED tables
  BY <1>1 DEF PathKeys, tables
<1>2. ASSUME NEW g \in Goroutines, Register(g)
      PROVE  PathKeys'
  <2> DEFINE f == Top(g)
             h == CHOOSE x \in Handles : status[x] = "free"
  <2>1. h \in Handles /\ status[h] = "free"
    BY <1>2 DEF Register
  <2>2. /\ f.path \in Paths /\ f.name \in Names
        /\ \A k \in Keys(f.path, f.name) : k \in Paths => k = f.path
    BY <1>2, RegisterKeys
  <2>3. /\ loaded' = [k \in Names \cup Keys(f.path, f.name) |->
                        IF k \in Keys(f.path, f.name) THEN h ELSE loaded[k]]
        /\ origin' = [origin EXCEPT ![h] = f.path]
    BY <1>2 DEF Register
  <2> SUFFICES ASSUME NEW p \in Paths, loaded'[p] # None PROVE origin'[loaded'[p]] = p
    BY DEF PathKeys
  <2> HIDE DEF f, h
  <2>4. CASE p \in Keys(f.path, f.name)
    <3>1. loaded'[p] = h /\ p = f.path
      BY <2>2, <2>3, <2>4
    <3> QED BY <2>1, <2>3, <3>1 DEF RegistryInv, SlotInv, TypeOK
  <2>5. CASE p \notin Keys(f.path, f.name)
    <3>1. loaded'[p] = loaded[p] /\ p \in Names
      BY <2>3, <2>5
    <3>2. Live(loaded[p]) /\ loaded[p] # h
      BY <2>1, <3>1 DEF RegistryInv, CacheCoherent, Live
    <3> QED BY <2>3, <3>1, <3>2 DEF PathKeys, RegistryInv, SlotInv, TypeOK
  <2> QED BY <2>4, <2>5
<1>3. ASSUME NEW g \in Goroutines, CloseLast(g)
      PROVE  PathKeys'
  <2>1. UNCHANGED origin /\ \A p \in Paths : loaded'[p] \in {loaded[p], None}
    <3>1. UNCHANGED origin /\ \E h \in Handles : loaded' = Forget(h)
      BY <1>3 DEF CloseLast
    <3>2. Paths \subseteq Names
      BY DEF RegistryAssumption
    <3> QED BY <3>1, <3>2 DEF Forget
  <2> QED BY <2>1 DEF PathKeys
<1>4. UNCHANGED tables \/ \E g \in Goroutines : Register(g) \/ CloseLast(g)
  <2>1. ASSUME NEW g \in Goroutines,
               \/ Revisit(g) \/ Wait(g) \/ CacheHit(g) \/ Claim(g) \/ Parse(g)
               \/ ParseFails(g) \/ SkipDependency(g) \/ LoadDependency(g)
        PROVE  UNCHANGED tables
    BY <2>1 DEF tables, vars, Revisit, Wait, CacheHit, Claim, Parse, ParseFails, Abandon,
       SkipDependency, LoadDependency
  <2>2. ASSUME NEW g \in Goroutines,
               Map(g) \/ MapFails(g) \/ Relocate(g) \/ RelocateFails(g)
        PROVE  UNCHANGED tables
    BY <2>2 DEF tables, vars, Map, MapFails, Relocate, RelocateFails, Abandon
  <2>3. ASSUME NEW g \in Goroutines,
               OpenCached(g) \/ OpenUncached(g) \/ CloseShared(g) \/ CloseRefused(g)
        PROVE  UNCHANGED tables
    BY <2>3 DEF tables, vars, OpenCached, OpenUncached, CloseShared, CloseRefused
  <2>4. CASE Finished \/ UNCHANGED vars
    BY <2>4 DEF Finished, vars, tables
  <2>5. CASE \E g \in Goroutines : Step(g) \/ Request(g)
    BY <2>1, <2>2, <2>3, <2>5 DEF Step, Request
  <2> QED BY <2>4, <2>5 DEF Next
<1> QED BY <1>1, <1>2, <1>3, <1>4

\* The registry keeps the contract of dlopen and dlclose: at most one instance of a file
\* at a time, every Open and Close of it one reference more or fewer, the instance kept
\* until the last of them goes, and a fresh one after that
THEOREM ContractImplemented == Spec => ContractKept
<1>1. Init => Contract!Init /\ PathKeys
  BY DEF Init, Contract!Init, PathKeys
<1>2. RegistryInv /\ PathKeys /\ [Next]_vars => [Contract!Next]_(Contract!vars)
  <2> SUFFICES ASSUME RegistryInv, PathKeys, [Next]_vars
               PROVE  Contract!Next \/ UNCHANGED <<Inst, refCount, Used>>
    BY DEF Contract!vars, Inst, Used
  <2>1. CASE \E g \in Goroutines : Step(g) \/ Request(g)
    BY <2>1, StepRefines
  <2>2. CASE UNCHANGED vars
    BY <2>2, StutterStep DEF vars, tables
  <2> QED BY <2>1, <2>2 DEF Next, Finished
<1>3. RegistryInv /\ PathKeys /\ [Next]_vars => PathKeys'
  BY PathKeysStep
<1> QED BY <1>1, <1>2, <1>3, RegistryInit, RegistryStep, PTL DEF Spec, ContractKept, Contract!Spec
=============================================================================
