--------------------------- MODULE RegistryProofs ---------------------------
(***************************************************************************)
(* Proofs about Registry, for every set of goroutines, files, names and    *)
(* calls: the type invariant, and the invariant that ties together the     *)
(* load slots, the `loaded` map and the reference counts, and from it the  *)
(* list of global libraries and the waiters.                               *)
(***************************************************************************)
EXTENDS Registry, SequenceTheorems, WellFoundedInduction, TLAPS

-----------------------------------------------------------------------------
(* Sequences: the first index with a property, the top of a stack, a cut *)

\* A non-empty set of naturals has a least element
LEMMA LeastNatural ==
    ASSUME NEW T, T \subseteq Nat, T # {}
    PROVE  \E m \in T : \A k \in T : m <= k
<1> DEFINE R == {ss \in Nat \X Nat : ss[1] < ss[2]}
<1>1. PICK m \in T : \A k \in T : <<k, m>> \notin R
  <2>1. IsWellFoundedOn(R, Nat)
    BY NatLessThanWellFounded, Zenon DEF OpToRel
  <2> QED BY <2>1, WFMin, Zenon
<1>2. ASSUME NEW k \in T PROVE m <= k
  <2>1. <<k, m>> \notin R
    BY <1>1
  <2>2. k \in Nat /\ m \in Nat
    OBVIOUS
  <2>3. ~ (k < m)
    BY <2>1, <2>2, Zenon
  <2> QED BY <2>2, <2>3, SMT
<1> QED BY <1>2

\* What Front and Last of a stack are made of
LEMMA FrontLast ==
    ASSUME NEW S, NEW s \in Seq(S), s # <<>>
    PROVE  /\ Len(s) \in Nat \ {0}
           /\ Last(s) = s[Len(s)] /\ Last(s) \in S
           /\ Front(s) \in Seq(S)
           /\ Len(Front(s)) = Len(s) - 1
           /\ \A i \in 1 .. Len(s) - 1 : Front(s)[i] = s[i]
<1>1. Len(s) \in Nat \ {0}
  BY EmptySeq, LenProperties, SMT
<1>2. \A i \in 1 .. Len(s) - 1 : s[i] \in S
  BY <1>1, ElementOfSeq, SMT
<1>3. Last(s) = s[Len(s)] /\ Last(s) \in S
  BY <1>1, ElementOfSeq, SMT DEF Last
<1>4. Front(s) \in Seq(S) /\ \A i \in 1 .. Len(s) - 1 : Front(s)[i] = s[i]
  BY <1>1, SMT DEF Front
<1>5. Len(Front(s)) = Len(s) - 1
  <2> DEFINE n == Len(s) - 1
  <2>1. n \in Nat /\ \A i \in 1 .. n : s[i] \in S
    BY <1>1, <1>2
  <2>2. Len(SubSeq(s, 1, n)) = IF 1 <= n THEN n - 1 + 1 ELSE 0
    <3> HIDE DEF n
    <3> QED BY <2>1, SubSeqProperties
  <2>3. Len(SubSeq(s, 1, n)) = n
    <3> HIDE DEF n
    <3> QED BY <2>1, <2>2
  <2> QED BY <2>3 DEF Front
<1> QED BY <1>1, <1>3, <1>4, <1>5

\* Replacing the top of a stack leaves the rest of it alone
LEMMA ReplaceTop ==
    ASSUME NEW S, NEW s \in Seq(S), s # <<>>, NEW f \in S
    PROVE  /\ Append(Front(s), f) \in Seq(S)
           /\ Len(Append(Front(s), f)) = Len(s)
           /\ Append(Front(s), f)[Len(s)] = f
           /\ \A i \in 1 .. Len(s) - 1 : Append(Front(s), f)[i] = s[i]
<1>1. /\ Front(s) \in Seq(S) /\ Len(s) \in Nat
      /\ Len(Front(s)) = Len(s) - 1
      /\ \A i \in 1 .. Len(s) - 1 : Front(s)[i] = s[i]
  BY FrontLast
<1> QED BY <1>1, AppendProperties, SMT

\* Cutting a library out of the global list leaves a list of libraries
LEMMA CutFromType ==
    ASSUME NEW s \in Seq(Handles), NEW h \in Handles
    PROVE  CutFrom(s, h) \in Seq(Handles)
<1>1. CASE h \notin ToSet(s)
  BY <1>1 DEF CutFrom
<1>2. CASE h \in ToSet(s)
  <2> DEFINE T == {i \in DOMAIN s : s[i] = h}
  <2>1. DOMAIN s = 1 .. Len(s) /\ Len(s) \in Nat
    BY LenProperties
  <2>2. T # {} /\ T \subseteq Nat
    BY <1>2, <2>1, SMT DEF ToSet
  <2>3. PICK m \in T : \A k \in T : m <= k
    BY <2>2, LeastNatural
  <2>4. s[m] = h /\ \A j \in 1 .. m - 1 : s[j] # h
    BY <2>1, <2>3, SMT
  <2> DEFINE i == CHOOSE k \in DOMAIN s : s[k] = h /\ \A j \in 1 .. k - 1 : s[j] # h
  <2>5. i \in DOMAIN s
    BY <2>3, <2>4
  <2>6. RemoveAt(s, i) \in Seq(Handles)
    <3> HIDE DEF i
    <3>1. i \in 1 .. Len(s)
      BY <2>1, <2>5
    <3>2. \A k \in 1 .. Len(s) : s[k] \in Handles
      BY ElementOfSeq
    <3>3. SubSeq(s, 1, i - 1) \in Seq(Handles)
      BY <2>1, <3>1, <3>2, SubSeqProperties, SMT
    <3>4. SubSeq(s, i + 1, Len(s)) \in Seq(Handles)
      BY <2>1, <3>1, <3>2, SubSeqProperties, SMT
    <3> QED BY <3>3, <3>4, ConcatProperties DEF RemoveAt
  <2> QED BY <1>2, <2>6 DEF CutFrom
<1> QED BY <1>1, <1>2
-----------------------------------------------------------------------------
(* Type correctness *)

USE RegistryAssumption

\* The pieces the actions are made of keep the types
LEMMA TopType ==
    ASSUME TypeOK, NEW g \in Goroutines, stack[g] # <<>>
    PROVE  /\ stack[g] \in Seq(Frame)
           /\ Top(g) \in Frame
           /\ Front(stack[g]) \in Seq(Frame)
<1>1. stack[g] \in Seq(Frame)
  BY DEF TypeOK
<1> QED BY <1>1, FrontLast DEF Top

LEMMA ContinueType ==
    ASSUME TypeOK, NEW g \in Goroutines, stack[g] # <<>>, NEW f \in Frame, Continue(g, f)
    PROVE  stack' \in [Goroutines -> Seq(Frame)]
<1>1. Append(Front(stack[g]), f) \in Seq(Frame)
  BY TopType, AppendProperties
<1> QED BY <1>1 DEF TypeOK, Continue

LEMMA ReturnType ==
    ASSUME TypeOK, NEW g \in Goroutines, stack[g] # <<>>, Return(g)
    PROVE  stack' \in [Goroutines -> Seq(Frame)]
BY TopType DEF TypeOK, Return

LEMMA HandOverType ==
    ASSUME TypeOK, NEW g \in Goroutines, stack[g] # <<>>, NEW h \in Handles, HandOver(g, h)
    PROVE  /\ held' \in [Handles -> Int]
           /\ owed' \in [Handles -> Int]
           /\ given' \subseteq Handles
<1>1. \/ /\ held' = [held EXCEPT ![h] = @ + 1]
         /\ given' = given \cup {h}
         /\ owed' = owed
      \/ /\ owed' = [owed EXCEPT ![h] = @ + 1]
         /\ held' = held /\ given' = given
  BY Zenon DEF HandOver
<1> QED BY <1>1 DEF TypeOK

\* Lookup returns a library of the global list, or None
LEMMA LookupType ==
    ASSUME TypeOK, NEW s
    PROVE  Lookup(s) = None \/ Lookup(s) \in Handles
<1> DEFINE Defining(h) == h \in Providers(s, IF Providers(s, "strong") # {} THEN "strong" ELSE "weak")
<1>1. CASE ~ \E h \in ToSet(globals) : Defining(h)
  BY <1>1 DEF Lookup
<1>2. CASE \E h \in ToSet(globals) : Defining(h)
  <2> DEFINE T == {i \in DOMAIN globals : Defining(globals[i])}
             i == CHOOSE k \in DOMAIN globals :
                    Defining(globals[k]) /\ \A j \in 1 .. k - 1 : ~ Defining(globals[j])
  <2> HIDE DEF Defining
  <2>1. DOMAIN globals = 1 .. Len(globals) /\ Len(globals) \in Nat
    BY LenProperties DEF TypeOK
  <2>2. T # {} /\ T \subseteq Nat
    BY <1>2, <2>1 DEF ToSet
  <2>3. PICK m \in T : \A k \in T : m <= k
    BY <2>2, LeastNatural
  <2>4. Defining(globals[m]) /\ \A j \in 1 .. m - 1 : ~ Defining(globals[j])
    BY <2>1, <2>3
  <2>5. i \in DOMAIN globals
    BY <2>3, <2>4
  <2>6. globals[i] \in Handles
    <3> HIDE DEF i
    <3> QED BY <2>1, <2>5, ElementOfSeq DEF TypeOK
  <2> QED BY <1>2, <2>6 DEF Lookup, Defining
<1> QED BY <1>1, <1>2

\* What an image file says has the declared types
LEMMA ImageFacts ==
    ASSUME NEW p \in Paths
    PROVE  /\ Image[p].needed \in Seq(Names) /\ Image[p].undef \in Seq(Syms)
           /\ Keys(p, p) \subseteq Names
           /\ \A n \in Names : Keys(p, n) \subseteq Names
<1>1. Image[p] \in ImageType
  BY DEF RegistryAssumption
<1> QED BY <1>1 DEF ImageType, RegistryAssumption, Keys

\* A frame with one field changed is a frame
LEMMA FrameFacts ==
    ASSUME NEW f \in Frame
    PROVE  /\ f.path \in Paths /\ f.name \in Names
           /\ f.needed \in Seq(Names) /\ f.undef \in Seq(Syms)
           /\ f.binds \in SUBSET Handles
           /\ [f EXCEPT !.pc = "parse"] \in Frame
           /\ \A q \in Seq(Names) : /\ [f EXCEPT !.needed = q] \in Frame
                                     /\ [f EXCEPT !.pc = "deps", !.needed = q] \in Frame
           /\ \A u \in Seq(Syms) : [f EXCEPT !.pc = "load", !.undef = u] \in Frame
           /\ \A u \in Seq(Syms), b \in SUBSET Handles :
                [f EXCEPT !.undef = u, !.binds = b] \in Frame
BY DEF Frame

\* A new call of loadPath is a frame
LEMMA CallType ==
    ASSUME NEW path \in Paths, NEW n \in Names, NEW b \in BOOLEAN
    PROVE  Call(path, n, b) \in Frame
BY EmptySeq DEF Call, Frame

\* Every action keeps the types
LEMMA StepType ==
    ASSUME TypeOK, NEW g \in Goroutines, Step(g)
    PROVE  TypeOK'
<1> DEFINE f == Top(g)
<1>a. stack[g] # <<>> /\ f \in Frame /\ f.path \in Paths
  BY TopType, FrameFacts DEF Step, Revisit, Wait, CacheHit, Claim, Parse, ParseFails,
     SkipDependency, LoadDependency, Map, MapFails, Relocate, RelocateFails, Register, At
<1>b. stack[g] \in Seq(Frame)
  BY DEF TypeOK
<1> HIDE DEF f
<1>1. CASE Revisit(g)
  <2>1. stack' \in [Goroutines -> Seq(Frame)]
    BY <1>1, <1>a, ReturnType DEF Revisit
  <2> DEFINE h == loaded[f.path]
  <2>2. CASE h = None
    BY <1>1, <2>1, <2>2 DEF Revisit, TypeOK, tables, ghosts, f
  <2>3. CASE h # None
    <3>1. h \in Handles /\ Retain(h) /\ HandOver(g, h)
      BY <1>1, <1>a, <2>3 DEF Revisit, TypeOK, RegistryAssumption, f
    <3>2. refCount' \in [Handles -> Int]
      BY <3>1 DEF Retain, TypeOK
    <3> QED BY <1>1, <1>a, <2>1, <3>1, <3>2, HandOverType DEF Revisit, TypeOK, tables
  <2> QED BY <2>2, <2>3
<1>2. CASE Wait(g)
  BY <1>2 DEF Wait, TypeOK, tables, ghosts
<1>3. CASE CacheHit(g)
  <2>1. stack' \in [Goroutines -> Seq(Frame)]
    BY <1>3, <1>a, ReturnType DEF CacheHit
  <2> DEFINE h == loaded[f.path]
  <2>2. h \in Handles /\ Retain(h) /\ HandOver(g, h)
    BY <1>3, <1>a DEF CacheHit, Cached, TypeOK, RegistryAssumption, f
  <2>3. refCount' \in [Handles -> Int]
    BY <2>2 DEF Retain, TypeOK
  <2> QED BY <1>3, <1>a, <2>1, <2>2, <2>3, HandOverType DEF CacheHit, TypeOK, tables
<1>4. CASE Claim(g)
  <2>1. stack' \in [Goroutines -> Seq(Frame)]
    BY <1>4, <1>a, FrameFacts, ContinueType DEF Claim, f
  <2> QED BY <1>4, <1>a, <2>1 DEF Claim, TypeOK, tables, ghosts, f
<1>5. CASE Parse(g)
  <2>1. stack' \in [Goroutines -> Seq(Frame)]
    BY <1>5, <1>a, FrameFacts, ImageFacts, ContinueType DEF Parse, f
  <2> QED BY <1>5, <2>1 DEF Parse, TypeOK, tables, ghosts
<1>6. CASE ParseFails(g) \/ MapFails(g) \/ RelocateFails(g)
  <2>1. Abandon(g)
    BY <1>6 DEF ParseFails, MapFails, RelocateFails
  <2>2. stack' \in [Goroutines -> Seq(Frame)]
    BY <1>a, <2>1, ReturnType DEF Abandon
  <2> QED BY <1>a, <2>1, <2>2
       DEF Abandon, ReleaseSlot, Broadcast, TypeOK, tables, ghosts
<1>7. CASE SkipDependency(g)
  <2>1. Tail(f.needed) \in Seq(Names)
    BY <1>7, <1>a, FrameFacts, HeadTailProperties DEF SkipDependency, f
  <2>2. stack' \in [Goroutines -> Seq(Frame)]
    BY <1>7, <1>a, <2>1, FrameFacts, ContinueType DEF SkipDependency, f
  <2> QED BY <1>7, <2>2 DEF SkipDependency, TypeOK, tables, ghosts
<1>8. CASE LoadDependency(g)
  <2> DEFINE dep  == Head(f.needed)
             rest == [f EXCEPT !.needed = Tail(@)]
             call == Call(Find[f.path][dep], dep, TRUE)
  <2>1. dep \in Names /\ Tail(f.needed) \in Seq(Names)
    BY <1>8, <1>a, FrameFacts, HeadTailProperties DEF LoadDependency, f
  <2>2. Find[f.path][dep] \in Paths
    BY <1>8, <1>a, <2>1 DEF LoadDependency, Skips, RegistryAssumption, f
  <2>3. rest \in Frame /\ call \in Frame
    BY <1>a, <2>1, <2>2, FrameFacts, CallType
  <2>4. Append(Append(Front(stack[g]), rest), call) \in Seq(Frame)
    <3> HIDE DEF rest, call
    <3> QED BY <1>a, <2>3, TopType, AppendProperties
  <2>5. stack' = [stack EXCEPT ![g] = Append(Append(Front(stack[g]), rest), call)]
    BY <1>8 DEF LoadDependency, f
  <2>6. stack' \in [Goroutines -> Seq(Frame)]
    <3> HIDE DEF rest, call
    <3> QED BY <2>4, <2>5 DEF TypeOK
  <2> QED BY <1>8, <2>6 DEF LoadDependency, TypeOK, tables, ghosts
<1>9. CASE Map(g)
  <2>1. stack' \in [Goroutines -> Seq(Frame)]
    BY <1>9, <1>a, FrameFacts, ImageFacts, ContinueType DEF Map, f
  <2> QED BY <1>9, <2>1 DEF Map, TypeOK, tables, ghosts
<1>10. CASE Relocate(g)
  <2> DEFINE s  == Head(f.undef)
             im == Image[f.path]
             b  == IF s \in im.strong \cup im.weak \/ Lookup(s) = None
                     THEN f.binds ELSE f.binds \cup {Lookup(s)}
  <2>1. Tail(f.undef) \in Seq(Syms)
    BY <1>10, <1>a, FrameFacts, HeadTailProperties DEF Relocate, f
  <2>2. b \in SUBSET Handles
    <3>1. f.binds \in SUBSET Handles
      BY <1>a, FrameFacts
    <3>2. Lookup(s) # None => Lookup(s) \in Handles
      BY LookupType
    <3>3. b = f.binds \/ (Lookup(s) # None /\ b = f.binds \cup {Lookup(s)})
      BY Zenon
    <3> HIDE DEF b
    <3> QED BY <3>1, <3>2, <3>3
  <2>3. [f EXCEPT !.undef = Tail(f.undef), !.binds = b] \in Frame
    BY <1>a, <2>1, <2>2, FrameFacts
  <2>4. Continue(g, [f EXCEPT !.undef = Tail(f.undef), !.binds = b])
    BY <1>10 DEF Relocate, f
  <2>5. stack' \in [Goroutines -> Seq(Frame)]
    BY <1>a, <2>3, <2>4, ContinueType
  <2> QED BY <1>10, <2>5 DEF Relocate, TypeOK, tables, ghosts
<1>11. CASE Register(g)
  <2> DEFINE h == CHOOSE x \in Handles : status[x] = "free"
  <2>1. h \in Handles
    BY <1>11 DEF Register
  <2> HIDE DEF h
  <2>2. stack' \in [Goroutines -> Seq(Frame)]
    BY <1>11, <1>a, ReturnType DEF Register
  <2>3. HandOver(g, h)
    BY <1>11 DEF Register, h
  <2>4. loaded' \in [Names -> Handles \cup {None}]
    <3>1. Keys(f.path, f.name) \subseteq Names
      BY <1>a, FrameFacts, ImageFacts
    <3>2. Names \cup Keys(f.path, f.name) = Names
      BY <3>1
    <3>3. loaded' = [n \in Names |-> IF n \in Keys(f.path, f.name) THEN h ELSE loaded[n]]
      BY <1>11, <3>2 DEF Register, f, h
    <3> QED BY <2>1, <3>3 DEF TypeOK
  <2>5. globals' \in Seq(Handles)
    <3>1. globals' = globals \/ globals' = Append(globals, h)
      BY <1>11 DEF Register, h
    <3>2. globals \in Seq(Handles)
      BY DEF TypeOK
    <3>3. Append(globals, h) \in Seq(Handles)
      BY <2>1, <3>2, AppendProperties
    <3> QED BY <3>1, <3>2, <3>3
  <2>6. /\ status' \in [Handles -> {"free", "live", "dead"}]
        /\ refCount' \in [Handles -> Int]
        /\ origin' \in [Handles -> Paths \cup {None}]
        /\ bound' \in [Handles -> SUBSET Handles]
    <3>1. /\ status' = [status EXCEPT ![h] = "live"]
          /\ refCount' = [refCount EXCEPT ![h] = 1]
          /\ origin' = [origin EXCEPT ![h] = f.path]
          /\ bound' = [bound EXCEPT ![h] = f.binds]
      BY <1>11 DEF Register, f, h
    <3>2. f.path \in Paths /\ f.binds \in SUBSET Handles
      BY <1>a, FrameFacts
    <3>3. /\ status' \in [Handles -> {"free", "live", "dead"}]
          /\ refCount' \in [Handles -> Int]
      BY <2>1, <3>1 DEF TypeOK
    <3>4. origin' \in [Handles -> Paths \cup {None}]
      BY <2>1, <3>1, <3>2 DEF TypeOK
    <3>5. bound' \in [Handles -> SUBSET Handles]
      BY <2>1, <3>1, <3>2 DEF TypeOK
    <3> QED BY <3>3, <3>4, <3>5
  <2>7. /\ loading' \in SUBSET Paths
        /\ waiting' \in SUBSET Goroutines
        /\ visiting' \in [Goroutines -> SUBSET Paths]
        /\ opens' \in Nat
    BY <1>11 DEF Register, Broadcast, TypeOK
  <2>8. /\ held' \in [Handles -> Int]
        /\ owed' \in [Handles -> Int]
        /\ given' \subseteq Handles
    BY <1>a, <2>1, <2>3, HandOverType
  <2> QED BY <2>2, <2>4, <2>5, <2>6, <2>7, <2>8 DEF TypeOK
<1> QED BY <1>1, <1>2, <1>3, <1>4, <1>5, <1>6, <1>7, <1>8, <1>9, <1>10, <1>11 DEF Step

LEMMA RequestType ==
    ASSUME TypeOK, NEW g \in Goroutines, Request(g)
    PROVE  TypeOK'
<1>1. CASE OpenCached(g)
  <2>1. PICK c \in Calls : LET h == loaded[c.name] IN
          /\ h # None
          /\ Retain(h)
          /\ held' = [held EXCEPT ![h] = @ + 1]
          /\ given' = given \cup {h}
    BY <1>1 DEF OpenCached
  <2> DEFINE h == loaded[c.name]
  <2>2. h \in Handles
    BY <2>1 DEF TypeOK, RegistryAssumption
  <2>3. refCount' \in [Handles -> Int] /\ held' \in [Handles -> Int]
    BY <2>1, <2>2 DEF Retain, TypeOK
  <2>4. given' \subseteq Handles
    BY <2>1, <2>2 DEF TypeOK
  <2> QED BY <1>1, <2>3, <2>4 DEF OpenCached, TypeOK, tables
<1>2. CASE OpenUncached(g)
  <2>1. PICK c \in Calls : LET path == Find[None][c.name] IN
          IF path = None
            THEN UNCHANGED stack
            ELSE stack' = [stack EXCEPT ![g] =
                    <<Call(path, c.name, EffectiveFlag(c.flags) = RTLD_GLOBAL)>>]
    BY <1>2 DEF OpenUncached
  <2> DEFINE path == Find[None][c.name]
             glob == EffectiveFlag(c.flags) = RTLD_GLOBAL
  <2>2. c.name \in Names /\ (path # None => path \in Paths)
    BY DEF RegistryAssumption
  <2>3. glob \in BOOLEAN
    OBVIOUS
  <2>4. CASE path = None
    BY <1>2, <2>1, <2>4 DEF OpenUncached, TypeOK, tables, ghosts
  <2>5. CASE path # None
    <3>1. stack' = [stack EXCEPT ![g] = <<Call(path, c.name, glob)>>]
      BY <2>1, <2>5
    <3>2. Call(path, c.name, glob) \in Frame
      <4> HIDE DEF path, glob
      <4> QED BY <2>2, <2>3, <2>5, CallType
    <3> HIDE DEF path, glob
    <3>3. stack' \in [Goroutines -> Seq(Frame)]
      BY <3>1, <3>2 DEF TypeOK
    <3> QED BY <1>2, <3>3 DEF OpenUncached, TypeOK, tables, ghosts
  <2> QED BY <2>4, <2>5
<1>3. CASE CloseShared(g)
  BY <1>3 DEF CloseShared, TypeOK, tables
<1>4. CASE CloseLast(g)
  <2>1. PICK h \in Handles :
          /\ refCount' = [refCount EXCEPT ![h] = 0]
          /\ held' = [held EXCEPT ![h] = @ - 1]
          /\ loaded' = Forget(h)
          /\ globals' = CutFrom(globals, h)
          /\ status' = [status EXCEPT ![h] = "dead"]
    BY <1>4 DEF CloseLast
  <2>2. globals' \in Seq(Handles)
    BY <2>1, CutFromType DEF TypeOK
  <2>3. loaded' \in [Names -> Handles \cup {None}]
    BY <2>1 DEF Forget, TypeOK
  <2> QED BY <1>4, <2>1, <2>2, <2>3 DEF CloseLast, TypeOK
<1>5. CASE CloseRefused(g)
  BY <1>5 DEF CloseRefused, TypeOK, vars
<1> QED BY <1>1, <1>2, <1>3, <1>4, <1>5 DEF Request

LEMMA InitType == Init => TypeOK
BY EmptySeq DEF Init, TypeOK

\* Whatever the program opens and closes, and however its goroutines interleave, the
\* registry's variables keep their types
THEOREM TypeCorrect == Spec => []TypeOK
<1>1. TypeOK /\ [Next]_vars => TypeOK'
  <2> SUFFICES ASSUME TypeOK, [Next]_vars PROVE TypeOK'
    OBVIOUS
  <2>1. CASE \E g \in Goroutines : Step(g) \/ Request(g)
    BY <2>1, StepType, RequestType
  <2>2. CASE UNCHANGED vars
    BY <2>2 DEF TypeOK, vars
  <2> QED BY <2>1, <2>2 DEF Next, Finished
<1> QED BY <1>1, InitType, PTL DEF Spec
-----------------------------------------------------------------------------
(* The call stacks: what a step does to the calls that hold a slot *)

\* A name that is a path is resolved to itself, in every call of loadPath
NamesResolve ==
    \A g \in Goroutines : \A i \in DOMAIN stack[g] :
        stack[g][i].name \in Paths => stack[g][i].path = stack[g][i].name

OthersKeep(g) == \A k \in Goroutines \ {g} : stack'[k] = stack[k]

PathsKeep(g) == \A i \in Claims(g) \cap DOMAIN stack'[g] : stack'[g][i].path = stack[g][i].path

NamesKeep(g) ==
    \A i \in DOMAIN stack'[g] :
        \/ /\ i \in DOMAIN stack[g]
           /\ stack'[g][i].name = stack[g][i].name /\ stack'[g][i].path = stack[g][i].path
        \/ stack'[g][i].name \in Paths => stack'[g][i].path = stack'[g][i].name

\* The three things a step of g can do to the slots of its calls
Keeps(g) == OthersKeep(g) /\ PathsKeep(g) /\ Claims(g)' = Claims(g)

Gains(g) ==
    /\ OthersKeep(g) /\ PathsKeep(g)
    /\ Len(stack[g]) \notin Claims(g)
    /\ Claims(g)' = Claims(g) \cup {Len(stack[g])}
    /\ stack'[g][Len(stack[g])].path = Top(g).path

Loses(g) ==
    /\ OthersKeep(g) /\ PathsKeep(g)
    /\ Len(stack[g]) \in Claims(g)
    /\ Claims(g)' = Claims(g) \ {Len(stack[g])}

LEMMA ReturnStack ==
    ASSUME TypeOK, NEW g \in Goroutines, stack[g] # <<>>, Return(g)
    PROVE  /\ OthersKeep(g)
           /\ Len(stack[g]) \in Nat \ {0} /\ DOMAIN stack[g] = 1 .. Len(stack[g])
           /\ DOMAIN stack'[g] = 1 .. Len(stack[g]) - 1
           /\ \A i \in DOMAIN stack'[g] : stack'[g][i] = stack[g][i]
           /\ Top(g) = stack[g][Len(stack[g])]
<1>1. stack'[g] = Front(stack[g]) /\ OthersKeep(g)
  BY DEF Return, TypeOK, OthersKeep
<1>2. stack[g] \in Seq(Frame)
  BY DEF TypeOK
<1>3. /\ Len(stack[g]) \in Nat \ {0}
      /\ Last(stack[g]) = stack[g][Len(stack[g])]
      /\ Front(stack[g]) \in Seq(Frame) /\ Len(Front(stack[g])) = Len(stack[g]) - 1
      /\ \A i \in 1 .. Len(stack[g]) - 1 : Front(stack[g])[i] = stack[g][i]
  BY <1>2, FrontLast
<1>4. DOMAIN stack[g] = 1 .. Len(stack[g]) /\ DOMAIN Front(stack[g]) = 1 .. Len(stack[g]) - 1
  BY <1>2, <1>3, LenProperties
<1> QED BY <1>1, <1>3, <1>4 DEF Top

LEMMA ContinueStack ==
    ASSUME TypeOK, NEW g \in Goroutines, stack[g] # <<>>, NEW f \in Frame, Continue(g, f)
    PROVE  /\ OthersKeep(g)
           /\ Len(stack[g]) \in Nat \ {0} /\ DOMAIN stack[g] = 1 .. Len(stack[g])
           /\ DOMAIN stack'[g] = 1 .. Len(stack[g])
           /\ \A i \in 1 .. Len(stack[g]) - 1 : stack'[g][i] = stack[g][i]
           /\ stack'[g][Len(stack[g])] = f
           /\ Top(g) = stack[g][Len(stack[g])]
<1>1. stack'[g] = Append(Front(stack[g]), f) /\ OthersKeep(g)
  BY DEF Continue, TypeOK, OthersKeep
<1>2. stack[g] \in Seq(Frame)
  BY DEF TypeOK
<1>3. /\ stack'[g] \in Seq(Frame) /\ Len(stack'[g]) = Len(stack[g])
      /\ stack'[g][Len(stack[g])] = f
      /\ \A i \in 1 .. Len(stack[g]) - 1 : stack'[g][i] = stack[g][i]
  BY <1>1, <1>2, ReplaceTop
<1>4. DOMAIN stack[g] = 1 .. Len(stack[g]) /\ DOMAIN stack'[g] = 1 .. Len(stack[g])
  BY <1>2, <1>3, LenProperties
<1> QED BY <1>1, <1>2, <1>3, <1>4, FrontLast DEF Top

\* Going on with a frame of the same path and name, neither claiming nor releasing
LEMMA ContinueKeeps ==
    ASSUME TypeOK, NEW g \in Goroutines, stack[g] # <<>>, NEW f \in Frame, Continue(g, f),
           f.path = Top(g).path, f.name = Top(g).name,
           f.pc # "enter", Top(g).pc # "enter"
    PROVE  Keeps(g) /\ NamesKeep(g)
<1> DEFINE n == Len(stack[g])
<1>1. /\ n \in Nat \ {0} /\ DOMAIN stack[g] = 1 .. n /\ DOMAIN stack'[g] = 1 .. n
      /\ \A i \in 1 .. n - 1 : stack'[g][i] = stack[g][i]
      /\ stack'[g][n] = f /\ Top(g) = stack[g][n] /\ OthersKeep(g)
  BY ContinueStack
<1> HIDE DEF n
<1>2. \A i \in 1 .. n : i = n \/ i \in 1 .. n - 1
  BY <1>1
<1>3. \A i \in 1 .. n : /\ stack'[g][i].path = stack[g][i].path
                        /\ stack'[g][i].name = stack[g][i].name
                        /\ stack'[g][i].pc # "enter" <=> stack[g][i].pc # "enter"
  BY <1>1, <1>2
<1> QED BY <1>1, <1>3 DEF Keeps, NamesKeep, PathsKeep, Claims

\* A call that holds no slot returns
LEMMA ReturnKeeps ==
    ASSUME TypeOK, NEW g \in Goroutines, stack[g] # <<>>, Return(g), Top(g).pc = "enter"
    PROVE  Keeps(g) /\ NamesKeep(g)
<1> DEFINE n == Len(stack[g])
<1>1. /\ n \in Nat \ {0} /\ DOMAIN stack[g] = 1 .. n /\ DOMAIN stack'[g] = 1 .. n - 1
      /\ \A i \in 1 .. n - 1 : stack'[g][i] = stack[g][i]
      /\ Top(g) = stack[g][n] /\ OthersKeep(g)
  BY ReturnStack
<1> HIDE DEF n
<1>2. \A i \in 1 .. n : i = n \/ i \in 1 .. n - 1
  BY <1>1
<1>3. Claims(g)' = Claims(g)
  BY <1>1, <1>2 DEF Claims
<1> QED BY <1>1, <1>3 DEF Keeps, NamesKeep, PathsKeep

\* A call that holds a slot returns
LEMMA ReturnLoses ==
    ASSUME TypeOK, NEW g \in Goroutines, stack[g] # <<>>, Return(g), Top(g).pc # "enter"
    PROVE  Loses(g) /\ NamesKeep(g)
<1> DEFINE n == Len(stack[g])
<1>1. /\ n \in Nat \ {0} /\ DOMAIN stack[g] = 1 .. n /\ DOMAIN stack'[g] = 1 .. n - 1
      /\ \A i \in 1 .. n - 1 : stack'[g][i] = stack[g][i]
      /\ Top(g) = stack[g][n] /\ OthersKeep(g)
  BY ReturnStack
<1>2. /\ n \in Claims(g) /\ Claims(g)' = Claims(g) \ {n} /\ PathsKeep(g) /\ NamesKeep(g)
  <2> HIDE DEF n
  <2>1. \A i \in 1 .. n : i = n \/ i \in 1 .. n - 1
    BY <1>1
  <2>2. n \notin 1 .. n - 1 /\ n \in 1 .. n
    BY <1>1
  <2>3. n \in Claims(g) /\ Claims(g)' = Claims(g) \ {n}
    BY <1>1, <2>1, <2>2 DEF Claims
  <2> QED BY <1>1, <2>1, <2>3 DEF PathsKeep, NamesKeep
<1> QED BY <1>1, <1>2 DEF Loses

\* checkLoadingCache takes the slot for the innermost call
LEMMA ClaimGains ==
    ASSUME TypeOK, NEW g \in Goroutines, Claim(g)
    PROVE  Gains(g) /\ NamesKeep(g)
<1> DEFINE n == Len(stack[g])
           f == [Top(g) EXCEPT !.pc = "parse"]
<1>1. stack[g] # <<>> /\ Top(g) \in Frame /\ Top(g).pc = "enter"
  BY TopType DEF Claim, At
<1>2. /\ f \in Frame /\ f.pc = "parse"
      /\ f.path = Top(g).path /\ f.name = Top(g).name
  BY <1>1 DEF Frame
<1>3. /\ n \in Nat \ {0} /\ DOMAIN stack[g] = 1 .. n /\ DOMAIN stack'[g] = 1 .. n
      /\ \A i \in 1 .. n - 1 : stack'[g][i] = stack[g][i]
      /\ stack'[g][n] = f /\ Top(g) = stack[g][n] /\ OthersKeep(g)
  <2>1. Continue(g, f)
    BY DEF Claim
  <2> HIDE DEF f
  <2> QED BY <1>1, <1>2, <2>1, ContinueStack
<1>4. /\ n \notin Claims(g) /\ Claims(g)' = Claims(g) \cup {n}
      /\ PathsKeep(g) /\ NamesKeep(g) /\ stack'[g][n].path = Top(g).path
  <2> HIDE DEF n, f
  <2>1. \A i \in 1 .. n : i = n \/ i \in 1 .. n - 1
    BY <1>3
  <2>2. n \notin 1 .. n - 1 /\ n \in 1 .. n
    BY <1>3
  <2>3. n \notin Claims(g) /\ Claims(g)' = Claims(g) \cup {n}
    BY <1>1, <1>2, <1>3, <2>1, <2>2 DEF Claims
  <2>4. PathsKeep(g) /\ NamesKeep(g)
    BY <1>2, <1>3, <2>1 DEF PathsKeep, NamesKeep, Claims
  <2> QED BY <1>2, <1>3, <2>3, <2>4
<1> QED BY <1>3, <1>4 DEF Gains

\* loadDependencies calls loadPath: a frame that holds no slot, on top
LEMMA LoadDependencyKeeps ==
    ASSUME TypeOK, NEW g \in Goroutines, LoadDependency(g)
    PROVE  Keeps(g) /\ NamesKeep(g)
<1> DEFINE f    == Top(g)
           dep  == Head(f.needed)
           rest == [f EXCEPT !.needed = Tail(@)]
           call == Call(Find[f.path][dep], dep, TRUE)
           n    == Len(stack[g])
           s    == Append(Front(stack[g]), rest)
<1>1. stack[g] # <<>> /\ f \in Frame /\ f.pc = "deps" /\ stack[g] \in Seq(Frame)
  BY TopType DEF LoadDependency, At
<1>2. f.needed \in Seq(Names) /\ f.needed # <<>> /\ f.path \in Paths
  BY <1>1, FrameFacts DEF LoadDependency
<1>3. dep \in Names /\ Tail(f.needed) \in Seq(Names)
  BY <1>2, HeadTailProperties
<1>4. Find[f.path][dep] \in Paths /\ (dep \in Paths => Find[f.path][dep] = dep)
  <2>1. Find[f.path][dep] \in Paths \cup {None} /\ Find[f.path][dep] # None
    BY <1>2, <1>3 DEF LoadDependency, Skips, RegistryAssumption
  <2>2. dep \in Paths => Find[f.path][dep] \in {dep, None}
    BY <1>2 DEF RegistryAssumption
  <2> QED BY <2>1, <2>2
<1>5. /\ rest \in Frame /\ rest.pc = "deps"
      /\ rest.path = f.path /\ rest.name = f.name
  BY <1>1, <1>3 DEF Frame
<1>6. /\ call \in Frame /\ call.pc = "enter"
      /\ (call.name \in Paths => call.path = call.name)
  BY <1>3, <1>4, CallType DEF Call
<1>7. stack' = [stack EXCEPT ![g] = Append(s, call)]
  BY DEF LoadDependency
<1> HIDE DEF rest, call
<1>8. /\ n \in Nat \ {0} /\ Top(g) = stack[g][n]
      /\ s \in Seq(Frame) /\ Len(s) = n /\ s[n] = rest
      /\ \A i \in 1 .. n - 1 : s[i] = stack[g][i]
  <2>1. n \in Nat \ {0} /\ Top(g) = stack[g][n]
    BY <1>1, FrontLast DEF Top
  <2> HIDE DEF f, dep
  <2>2. /\ s \in Seq(Frame) /\ Len(s) = n /\ s[n] = rest
        /\ \A i \in 1 .. n - 1 : s[i] = stack[g][i]
    BY <1>1, <1>5, ReplaceTop
  <2> QED BY <2>1, <2>2
<1> HIDE DEF s, n, f
<1>9. /\ Append(s, call) \in Seq(Frame) /\ Len(Append(s, call)) = n + 1
      /\ Append(s, call)[n + 1] = call
      /\ \A i \in 1 .. n : Append(s, call)[i] = s[i]
  BY <1>6, <1>8, AppendProperties
<1>10. /\ stack'[g] = Append(s, call) /\ OthersKeep(g)
       /\ DOMAIN stack[g] = 1 .. n /\ DOMAIN stack'[g] = 1 .. n + 1
  BY <1>1, <1>7, <1>9, LenProperties DEF TypeOK, OthersKeep, n
<1>11. \A i \in 1 .. n + 1 : i = n + 1 \/ i = n \/ i \in 1 .. n - 1
  BY <1>8
<1>12. /\ \A i \in 1 .. n : /\ stack'[g][i].path = stack[g][i].path
                            /\ stack'[g][i].name = stack[g][i].name
                            /\ stack'[g][i].pc # "enter" <=> stack[g][i].pc # "enter"
       /\ stack'[g][n + 1] = call
  <2>1. \A i \in 1 .. n : i = n \/ i \in 1 .. n - 1
    BY <1>8
  <2>2. n \in 1 .. n /\ n + 1 \in 1 .. n + 1
    BY <1>8
  <2>3. stack'[g][n] = rest /\ stack[g][n] = f /\ stack'[g][n + 1] = call
    BY <1>8, <1>9, <1>10, <2>2 DEF f
  <2>4. \A i \in 1 .. n - 1 : stack'[g][i] = stack[g][i]
    BY <1>8, <1>9, <1>10
  <2> QED BY <1>1, <1>5, <2>1, <2>3, <2>4
<1>13. Claims(g)' = Claims(g)
  <2>1. \A i \in 1 .. n + 1 : i \in 1 .. n \/ i = n + 1
    BY <1>8
  <2>2. 1 .. n \subseteq 1 .. n + 1
    BY <1>8
  <2> QED BY <1>6, <1>10, <1>12, <2>1, <2>2 DEF Claims
<1>14. PathsKeep(g)
  BY <1>10, <1>12 DEF PathsKeep, Claims
<1>15. NamesKeep(g)
  <2>1. \A i \in 1 .. n + 1 : i \in 1 .. n \/ i = n + 1
    BY <1>8
  <2> QED BY <1>6, <1>10, <1>12, <2>1 DEF NamesKeep
<1> QED BY <1>10, <1>13, <1>14, <1>15 DEF Keeps

\* Open starts a stack with a frame that holds no slot, or leaves all stacks alone
LEMMA OpenUncachedKeeps ==
    ASSUME TypeOK, NEW g \in Goroutines, OpenUncached(g)
    PROVE  Keeps(g) /\ NamesKeep(g)
<1>1. PICK c \in Calls : LET path == Find[None][c.name] IN
        IF path = None
          THEN UNCHANGED stack
          ELSE stack' = [stack EXCEPT ![g] =
                  <<Call(path, c.name, EffectiveFlag(c.flags) = RTLD_GLOBAL)>>]
  BY DEF OpenUncached
<1> DEFINE path == Find[None][c.name]
           call == Call(path, c.name, EffectiveFlag(c.flags) = RTLD_GLOBAL)
<1>2. CASE path = None
  BY <1>1, <1>2 DEF Keeps, NamesKeep, PathsKeep, OthersKeep, Claims
<1>3. CASE path # None
  <2>1. c.name \in Paths => path = c.name
    BY <1>3 DEF RegistryAssumption
  <2>2. call.pc = "enter" /\ (call.name \in Paths => call.path = call.name)
    BY <2>1 DEF Call
  <2>3. stack' = [stack EXCEPT ![g] = <<call>>]
    BY <1>1, <1>3
  <2> HIDE DEF call
  <2>4. stack'[g] = <<call>> /\ OthersKeep(g) /\ stack[g] = <<>>
    BY <2>3 DEF TypeOK, OthersKeep, OpenUncached, Idle
  <2>5. Claims(g)' = {} /\ Claims(g) = {}
    BY <2>2, <2>4 DEF Claims
  <2> QED BY <2>2, <2>4, <2>5 DEF Keeps, NamesKeep, PathsKeep
<1> QED BY <1>2, <1>3

\* Every step inside Open keeps the slots of its goroutine, takes one that is free, or
\* gives back the one of its innermost call; `loading` and `visiting` follow
LEMMA StepSlots ==
    ASSUME TypeOK, NEW g \in Goroutines, Step(g)
    PROVE  /\ NamesKeep(g)
           /\ \/ Keeps(g) /\ UNCHANGED <<loading, visiting>>
              \/ /\ Gains(g)
                 /\ Top(g).path \notin loading
                 /\ loading' = loading \cup {Top(g).path}
                 /\ visiting' = [visiting EXCEPT ![g] = @ \cup {Top(g).path}]
              \/ /\ Loses(g)
                 /\ loading' = loading \ {Top(g).path}
                 /\ visiting' = [visiting EXCEPT ![g] = @ \ {Top(g).path}]
<1> DEFINE f == Top(g)
<1>a. stack[g] # <<>> /\ f \in Frame /\ f.path \in Paths
  BY TopType, FrameFacts DEF Step, Revisit, Wait, CacheHit, Claim, Parse, ParseFails,
     SkipDependency, LoadDependency, Map, MapFails, Relocate, RelocateFails, Register, At
<1>1. CASE Revisit(g) \/ CacheHit(g)
  BY <1>1, <1>a, ReturnKeeps DEF Revisit, CacheHit, At
<1>2. CASE Wait(g)
  BY <1>2 DEF Wait, Keeps, NamesKeep, PathsKeep, OthersKeep, Claims
<1>3. CASE Claim(g)
  BY <1>3, ClaimGains DEF Claim, Busy
<1>4. CASE Parse(g)
  <2> DEFINE d == [f EXCEPT !.pc = "deps", !.needed = Image[f.path].needed]
  <2>1. d \in Frame /\ d.pc = "deps" /\ d.path = f.path /\ d.name = f.name
    BY <1>a, ImageFacts DEF Frame
  <2>2. Continue(g, d) /\ f.pc = "parse"
    BY <1>4 DEF Parse, At
  <2> HIDE DEF d
  <2> QED BY <1>4, <1>a, <2>1, <2>2, ContinueKeeps DEF Parse
<1>5. CASE ParseFails(g) \/ MapFails(g) \/ RelocateFails(g)
  <2>1. Abandon(g) /\ f.pc # "enter"
    BY <1>5 DEF ParseFails, MapFails, RelocateFails, At
  <2> QED BY <1>a, <2>1, ReturnLoses DEF Abandon, ReleaseSlot
<1>6. CASE SkipDependency(g)
  <2> DEFINE d == [f EXCEPT !.needed = Tail(@)]
  <2>1. Tail(f.needed) \in Seq(Names)
    BY <1>6, <1>a, FrameFacts, HeadTailProperties DEF SkipDependency
  <2>2. d \in Frame /\ d.pc = f.pc /\ d.path = f.path /\ d.name = f.name
    BY <1>a, <2>1 DEF Frame
  <2>3. Continue(g, d) /\ f.pc = "deps"
    BY <1>6 DEF SkipDependency, At
  <2> HIDE DEF d
  <2> QED BY <1>6, <1>a, <2>2, <2>3, ContinueKeeps DEF SkipDependency
<1>7. CASE LoadDependency(g)
  BY <1>7, LoadDependencyKeeps DEF LoadDependency
<1>8. CASE Map(g)
  <2> DEFINE d == [f EXCEPT !.pc = "load", !.undef = Image[f.path].undef]
  <2>1. d \in Frame /\ d.pc = "load" /\ d.path = f.path /\ d.name = f.name
    BY <1>a, ImageFacts DEF Frame
  <2>2. Continue(g, d) /\ f.pc = "deps"
    BY <1>8 DEF Map, At
  <2> HIDE DEF d
  <2> QED BY <1>8, <1>a, <2>1, <2>2, ContinueKeeps DEF Map
<1>9. CASE Relocate(g)
  <2>1. PICK b : Continue(g, [f EXCEPT !.undef = Tail(f.undef), !.binds = b]) /\ b \in SUBSET Handles
    <3> DEFINE s  == Head(f.undef)
               b  == IF s \in Image[f.path].strong \cup Image[f.path].weak \/ Lookup(s) = None
                       THEN f.binds ELSE f.binds \cup {Lookup(s)}
    <3>1. Continue(g, [f EXCEPT !.undef = Tail(f.undef), !.binds = b])
      BY <1>9 DEF Relocate
    <3>2. f.binds \in SUBSET Handles
      BY <1>a, FrameFacts
    <3>3. Lookup(s) # None => Lookup(s) \in Handles
      BY LookupType
    <3>4. b = f.binds \/ (Lookup(s) # None /\ b = f.binds \cup {Lookup(s)})
      BY Zenon
    <3> HIDE DEF b, s
    <3>5. b \in SUBSET Handles
      BY <3>2, <3>3, <3>4
    <3> QED BY <3>1, <3>5
  <2> DEFINE d == [f EXCEPT !.undef = Tail(f.undef), !.binds = b]
  <2>2. Tail(f.undef) \in Seq(Syms)
    BY <1>9, <1>a, FrameFacts, HeadTailProperties DEF Relocate
  <2>3. d \in Frame /\ d.pc = f.pc /\ d.path = f.path /\ d.name = f.name
    BY <1>a, <2>1, <2>2 DEF Frame
  <2>4. Continue(g, d) /\ f.pc = "load"
    BY <1>9, <2>1 DEF Relocate, At
  <2> HIDE DEF d
  <2> QED BY <1>9, <1>a, <2>3, <2>4, ContinueKeeps DEF Relocate
<1>10. CASE Register(g)
  BY <1>10, <1>a, ReturnLoses DEF Register, At
<1> QED BY <1>1, <1>2, <1>3, <1>4, <1>5, <1>6, <1>7, <1>8, <1>9, <1>10 DEF Step
-----------------------------------------------------------------------------
(* Slot ownership *)

\* The paths and names of the calls stay resolved
LEMMA NamesStep ==
    ASSUME NamesResolve, NEW g \in Goroutines, OthersKeep(g), NamesKeep(g)
    PROVE  NamesResolve'
<1> SUFFICES ASSUME NEW k \in Goroutines, NEW i \in DOMAIN stack'[k],
                    stack'[k][i].name \in Paths
             PROVE  stack'[k][i].path = stack'[k][i].name
  BY DEF NamesResolve
<1>1. CASE k = g
  BY <1>1 DEF NamesResolve, NamesKeep
<1>2. CASE k # g
  BY <1>2 DEF NamesResolve, OthersKeep
<1> QED BY <1>1, <1>2

\* Ownership, goroutine by goroutine: the form the steps below are about
LEMMA OwnershipKept ==
    ASSUME TypeOK, SlotOwnership, NEW g \in Goroutines, Keeps(g),
           UNCHANGED <<loading, visiting>>
    PROVE  SlotOwnership'
<1>1. \A k \in Goroutines : Claims(k)' = Claims(k)
  BY DEF Keeps, OthersKeep, Claims
<1>2. \A k \in Goroutines : \A i \in Claims(k) : stack'[k][i].path = stack[k][i].path
  <2> SUFFICES ASSUME NEW k \in Goroutines, NEW i \in Claims(k)
               PROVE  stack'[k][i].path = stack[k][i].path
    OBVIOUS
  <2>1. CASE k = g
    <3>1. i \in DOMAIN stack'[g]
      BY <1>1, <2>1 DEF Claims
    <3> QED BY <2>1, <3>1 DEF Keeps, PathsKeep
  <2>2. CASE k # g
    BY <2>2 DEF Keeps, OthersKeep
  <2> QED BY <2>1, <2>2
<1>3. loading' = UNION {visiting'[k] : k \in Goroutines}
  BY DEF SlotOwnership
<1>4. ASSUME NEW k \in Goroutines
      PROVE  /\ visiting'[k] = {stack'[k][i].path : i \in Claims(k)'}
             /\ \A i, j \in Claims(k)' : stack'[k][i].path = stack'[k][j].path => i = j
             /\ \A q \in Goroutines \ {k} : visiting'[k] \cap visiting'[q] = {}
  <2>1. visiting[k] = {stack[k][i].path : i \in Claims(k)}
    BY DEF SlotOwnership
  <2>2. \A i, j \in Claims(k) : stack[k][i].path = stack[k][j].path => i = j
    BY DEF SlotOwnership
  <2>3. \A q \in Goroutines \ {k} : visiting[k] \cap visiting[q] = {}
    BY DEF SlotOwnership
  <2> QED BY <1>1, <1>2, <2>1, <2>2, <2>3
<1> QED BY <1>3, <1>4 DEF SlotOwnership

LEMMA OwnershipGained ==
    ASSUME TypeOK, SlotOwnership, NEW g \in Goroutines, Gains(g), NEW p \in Paths,
           p = Top(g).path, p \notin loading,
           loading' = loading \cup {p}, visiting' = [visiting EXCEPT ![g] = @ \cup {p}]
    PROVE  SlotOwnership'
<1> DEFINE n == Len(stack[g])
<1>1. /\ \A k \in Goroutines \ {g} : Claims(k)' = Claims(k) /\ stack'[k] = stack[k]
      /\ Claims(g)' = Claims(g) \cup {n} /\ n \notin Claims(g) /\ stack'[g][n].path = p
  BY DEF Gains, OthersKeep, Claims
<1> HIDE DEF n
<1>2. \A i \in Claims(g) : stack'[g][i].path = stack[g][i].path
  <2>1. \A i \in Claims(g) : i \in DOMAIN stack'[g]
    BY <1>1 DEF Claims
  <2> QED BY <2>1 DEF Gains, PathsKeep
<1>3. /\ visiting'[g] = visiting[g] \cup {p}
      /\ \A k \in Goroutines \ {g} : visiting'[k] = visiting[k]
  BY DEF TypeOK
<1>4. /\ loading = UNION {visiting[k] : k \in Goroutines}
      /\ \A k \in Goroutines :
           /\ visiting[k] = {stack[k][i].path : i \in Claims(k)}
           /\ \A i, j \in Claims(k) : stack[k][i].path = stack[k][j].path => i = j
           /\ \A q \in Goroutines \ {k} : visiting[k] \cap visiting[q] = {}
  BY DEF SlotOwnership
<1>5. loading' = UNION {visiting'[k] : k \in Goroutines}
  BY <1>3, <1>4
<1>6. \A k \in Goroutines : p \notin visiting[k]
  BY <1>4
<1>7. ASSUME NEW k \in Goroutines
      PROVE  visiting'[k] = {stack'[k][i].path : i \in Claims(k)'}
  <2>1. CASE k = g
    BY <1>1, <1>2, <1>3, <1>4, <2>1
  <2>2. CASE k # g
    BY <1>1, <1>3, <1>4, <2>2
  <2> QED BY <2>1, <2>2
<1>8. ASSUME NEW k \in Goroutines, NEW i \in Claims(k)', NEW j \in Claims(k)',
             stack'[k][i].path = stack'[k][j].path
      PROVE  i = j
  <2>1. CASE k = g
    <3>1. \A m \in Claims(g) : stack'[g][m].path \in visiting[g]
      BY <1>2, <1>4
    <3> QED BY <1>1, <1>2, <1>4, <1>6, <1>8, <2>1, <3>1
  <2>2. CASE k # g
    BY <1>1, <1>4, <1>8, <2>2
  <2> QED BY <2>1, <2>2
<1>9. ASSUME NEW k \in Goroutines, NEW q \in Goroutines \ {k}
      PROVE  visiting'[k] \cap visiting'[q] = {}
  BY <1>3, <1>4, <1>6
<1> QED BY <1>5, <1>7, <1>8, <1>9 DEF SlotOwnership

LEMMA OwnershipLost ==
    ASSUME TypeOK, SlotOwnership, NEW g \in Goroutines, Loses(g), NEW p \in Paths,
           p = stack[g][Len(stack[g])].path,
           loading' = loading \ {p}, visiting' = [visiting EXCEPT ![g] = @ \ {p}]
    PROVE  SlotOwnership'
<1> DEFINE n == Len(stack[g])
<1>1. /\ \A k \in Goroutines \ {g} : Claims(k)' = Claims(k) /\ stack'[k] = stack[k]
      /\ Claims(g)' = Claims(g) \ {n} /\ n \in Claims(g) /\ stack[g][n].path = p
  BY DEF Loses, OthersKeep, Claims
<1> HIDE DEF n
<1>2. \A i \in Claims(g)' : stack'[g][i].path = stack[g][i].path
  <2>1. \A i \in Claims(g)' : i \in Claims(g) /\ i \in DOMAIN stack'[g]
    BY <1>1 DEF Claims
  <2> QED BY <2>1 DEF Loses, PathsKeep
<1>3. /\ visiting'[g] = visiting[g] \ {p}
      /\ \A k \in Goroutines \ {g} : visiting'[k] = visiting[k]
  BY DEF TypeOK
<1>4. /\ loading = UNION {visiting[k] : k \in Goroutines}
      /\ \A k \in Goroutines :
           /\ visiting[k] = {stack[k][i].path : i \in Claims(k)}
           /\ \A i, j \in Claims(k) : stack[k][i].path = stack[k][j].path => i = j
           /\ \A q \in Goroutines \ {k} : visiting[k] \cap visiting[q] = {}
  BY DEF SlotOwnership
<1>5. p \in visiting[g] /\ \A k \in Goroutines \ {g} : p \notin visiting[k]
  BY <1>1, <1>4
<1>6. loading' = UNION {visiting'[k] : k \in Goroutines}
  BY <1>3, <1>4, <1>5
<1>7. ASSUME NEW k \in Goroutines
      PROVE  visiting'[k] = {stack'[k][i].path : i \in Claims(k)'}
  <2>1. CASE k = g
    <3>1. \A i \in Claims(g) : stack[g][i].path = p <=> i = n
      BY <1>1, <1>4
    <3>2. visiting[g] \ {p} = {stack[g][i].path : i \in Claims(g) \ {n}}
      BY <1>4, <3>1
    <3>3. {stack'[g][i].path : i \in Claims(g)'} = {stack[g][i].path : i \in Claims(g) \ {n}}
      BY <1>1, <1>2
    <3>4. visiting'[g] = {stack'[g][i].path : i \in Claims(g)'}
      BY <1>3, <3>2, <3>3, Zenon
    <3> QED BY <2>1, <3>4
  <2>2. CASE k # g
    BY <1>1, <1>3, <1>4, <2>2
  <2> QED BY <2>1, <2>2
<1>8. ASSUME NEW k \in Goroutines, NEW i \in Claims(k)', NEW j \in Claims(k)',
             stack'[k][i].path = stack'[k][j].path
      PROVE  i = j
  <2>1. CASE k = g
    BY <1>1, <1>2, <1>4, <1>8, <2>1
  <2>2. CASE k # g
    BY <1>1, <1>4, <1>8, <2>2
  <2> QED BY <2>1, <2>2
<1>9. ASSUME NEW k \in Goroutines, NEW q \in Goroutines \ {k}
      PROVE  visiting'[k] \cap visiting'[q] = {}
  BY <1>3, <1>4
<1> QED BY <1>6, <1>7, <1>8, <1>9 DEF SlotOwnership

SlotInv == TypeOK /\ SlotOwnership /\ NamesResolve

LEMMA SlotStep == SlotInv /\ [Next]_vars => SlotInv'
<1> SUFFICES ASSUME SlotInv, [Next]_vars PROVE SlotInv'
  OBVIOUS
<1>1. TypeOK'
  <2>1. CASE \E g \in Goroutines : Step(g) \/ Request(g)
    BY <2>1, StepType, RequestType DEF SlotInv
  <2>2. CASE UNCHANGED vars
    BY <2>2 DEF SlotInv, TypeOK, vars
  <2> QED BY <2>1, <2>2 DEF Next, Finished
<1>2. ASSUME NEW g \in Goroutines, Step(g) PROVE SlotOwnership' /\ NamesResolve'
  <2>1. NamesKeep(g) /\ OthersKeep(g)
    BY <1>2, StepSlots DEF SlotInv, Keeps, Gains, Loses
  <2>2. NamesResolve'
    BY <2>1, NamesStep DEF SlotInv
  <2>3. stack[g] # <<>> /\ Top(g).path \in Paths /\ Top(g) = stack[g][Len(stack[g])]
    <3>1. stack[g] # <<>>
      BY <1>2 DEF Step, Revisit, Wait, CacheHit, Claim, Parse, ParseFails,
         SkipDependency, LoadDependency, Map, MapFails, Relocate, RelocateFails, Register, At
    <3>2. stack[g] \in Seq(Frame)
      BY DEF SlotInv, TypeOK
    <3>3. Top(g) = stack[g][Len(stack[g])]
      BY <3>1, <3>2, FrontLast DEF Top
    <3> QED BY <3>1, <3>3, TopType, FrameFacts DEF SlotInv
  <2>4. SlotOwnership'
    BY <1>2, <2>3, StepSlots, OwnershipKept, OwnershipGained, OwnershipLost DEF SlotInv
  <2> QED BY <2>2, <2>4
<1>3. ASSUME NEW g \in Goroutines, Request(g) PROVE SlotOwnership' /\ NamesResolve'
  <2>1. CASE OpenUncached(g)
    <3>1. Keeps(g) /\ NamesKeep(g) /\ UNCHANGED <<loading, visiting>>
      BY <2>1, OpenUncachedKeeps DEF SlotInv, OpenUncached
    <3> QED BY <3>1, OwnershipKept, NamesStep DEF SlotInv, Keeps
  <2>2. CASE UNCHANGED <<stack, loading, visiting>>
    BY <2>2 DEF SlotInv, SlotOwnership, NamesResolve, Claims
  <2>3. Request(g) => OpenUncached(g) \/ UNCHANGED <<stack, loading, visiting>>
    BY DEF Request, OpenCached, CloseShared, CloseLast, CloseRefused, vars
  <2> QED BY <1>3, <2>1, <2>2, <2>3
<1>4. SlotOwnership' /\ NamesResolve'
  <2>1. CASE \E g \in Goroutines : Step(g) \/ Request(g)
    BY <1>2, <1>3, <2>1
  <2>2. CASE UNCHANGED vars
    <3>1. UNCHANGED <<stack, loading, visiting>>
      BY <2>2 DEF vars
    <3> QED BY <3>1 DEF SlotInv, SlotOwnership, NamesResolve, Claims
  <2> QED BY <2>1, <2>2 DEF Next, Finished
<1> QED BY <1>1, <1>4 DEF SlotInv

LEMMA SlotInit == Init => SlotInv
<1> SUFFICES ASSUME Init PROVE SlotInv
  OBVIOUS
<1>1. \A g \in Goroutines : stack[g] = <<>> /\ Claims(g) = {} /\ visiting[g] = {}
  BY DEF Init, Claims
<1>2. SlotOwnership /\ NamesResolve
  BY <1>1 DEF Init, SlotOwnership, NamesResolve
<1> QED BY <1>2, InitType DEF SlotInv

\* Every entry of `loading` is one running call's, on every path through loadPath, the
\* error paths included, and no two goroutines ever load one file at the same time
THEOREM SlotsOwned == Spec => []SlotOwnership
<1>1. Spec => []SlotInv
  BY SlotInit, SlotStep, PTL DEF Spec
<1>2. SlotInv => SlotOwnership
  BY DEF SlotInv
<1> QED BY <1>1, <1>2, PTL
-----------------------------------------------------------------------------
(* The `loaded` map and the reference counts *)

\* Counts do not go below zero, and a library not yet loaded has none to its name
CountsStart ==
    \A h \in Handles :
        /\ refCount[h] >= 0
        /\ status[h] = "free" => held[h] = 0 /\ owed[h] = 0

\* The inductive invariant
RegistryInv == SlotInv /\ CacheCoherent /\ RefsConserved /\ CountsStart

\* The ghost counters gain one reference to h, whoever the caller is
LEMMA HandOverCounts ==
    ASSUME TypeOK, NEW g \in Goroutines, NEW h \in Handles, HandOver(g, h)
    PROVE  /\ held'[h] + owed'[h] = held[h] + owed[h] + 1
           /\ \A x \in Handles \ {h} : held'[x] = held[x] /\ owed'[x] = owed[x]
<1>1. \/ held' = [held EXCEPT ![h] = @ + 1] /\ owed' = owed
      \/ owed' = [owed EXCEPT ![h] = @ + 1] /\ held' = held
  BY Zenon DEF HandOver
<1> QED BY <1>1 DEF TypeOK

\* A step that takes one more reference to a live library
LEMMA TakeReference ==
    ASSUME RegistryInv, NEW h \in Handles, Live(h), Retain(h), TypeOK',
           held'[h] + owed'[h] = held[h] + owed[h] + 1,
           \A x \in Handles \ {h} : held'[x] = held[x] /\ owed'[x] = owed[x],
           UNCHANGED <<tables, loading>>
    PROVE  CacheCoherent' /\ RefsConserved' /\ CountsStart'
<1>1. /\ refCount'[h] = refCount[h] + 1
      /\ \A x \in Handles \ {h} : refCount'[x] = refCount[x]
      /\ refCount \in [Handles -> Int]
  BY DEF RegistryInv, SlotInv, TypeOK, Retain
<1>2. loaded' = loaded /\ status' = status /\ origin' = origin /\ loading' = loading
  BY DEF tables
<1>3. CacheCoherent'
  BY <1>2 DEF RegistryInv, CacheCoherent, Live
<1>4. ASSUME NEW x \in Handles
      PROVE  /\ refCount'[x] = held'[x] + owed'[x]
             /\ status'[x] = "live" <=> refCount'[x] > 0
             /\ refCount'[x] >= 0
             /\ status'[x] = "free" => held'[x] = 0 /\ owed'[x] = 0
  <2>1. /\ refCount[x] = held[x] + owed[x]
        /\ status[x] = "live" <=> refCount[x] > 0
        /\ refCount[x] >= 0
        /\ status[x] = "free" => held[x] = 0 /\ owed[x] = 0
    BY DEF RegistryInv, RefsConserved, CountsStart, Live
  <2>2. CASE x = h
    <3>1. status'[x] = "live" /\ refCount'[x] = refCount[x] + 1
      BY <1>1, <1>2, <2>2 DEF Live
    <3>2. refCount'[x] > 0 /\ status'[x] # "free"
      BY <1>1, <2>1, <3>1
    <3>3. held[x] \in Int /\ owed[x] \in Int /\ refCount[x] \in Int
      BY DEF RegistryInv, SlotInv, TypeOK
    <3>4. held'[x] + owed'[x] = held[x] + owed[x] + 1
      BY <2>2
    <3>5. refCount'[x] = held'[x] + owed'[x]
      BY <2>1, <3>1, <3>3, <3>4
    <3>6. refCount'[x] >= 0
      BY <2>1, <3>1, <3>3
    <3> QED BY <3>1, <3>2, <3>5, <3>6
  <2>3. CASE x # h
    BY <1>1, <1>2, <2>1, <2>3
  <2> QED BY <2>2, <2>3
<1>5. RefsConserved' /\ CountsStart'
  BY <1>4 DEF RefsConserved, CountsStart, Live
<1> QED BY <1>3, <1>5

\* A step that touches neither the tables nor the counts, and starts to load only a file
\* that is not loaded
LEMMA TablesKept ==
    ASSUME RegistryInv, UNCHANGED <<tables, refCount, held, owed>>,
           \A p \in loading' : p \in loading \/ loaded[p] = None
    PROVE  CacheCoherent' /\ RefsConserved' /\ CountsStart'
<1>1. /\ loaded' = loaded /\ status' = status /\ origin' = origin
      /\ refCount' = refCount /\ held' = held /\ owed' = owed
  BY DEF tables
<1>2. CacheCoherent'
  BY <1>1 DEF RegistryInv, CacheCoherent, Live
<1>3. RefsConserved' /\ CountsStart'
  BY <1>1 DEF RegistryInv, RefsConserved, CountsStart, Live
<1> QED BY <1>2, <1>3

\* registerLibrary: the keys of the new library hide no other live library's own path
LEMMA RegisterInv ==
    ASSUME RegistryInv, NEW g \in Goroutines, Register(g), TypeOK'
    PROVE  CacheCoherent' /\ RefsConserved' /\ CountsStart'
<1> DEFINE f == Top(g)
           h == CHOOSE x \in Handles : status[x] = "free"
           n == Len(stack[g])
<1>1. h \in Handles /\ status[h] = "free"
  BY DEF Register
<1> HIDE DEF h
<1>2. stack[g] # <<>> /\ f \in Frame /\ f.pc # "enter"
  BY TopType DEF Register, At, RegistryInv, SlotInv
<1>3. f.path \in Paths /\ f.name \in Names /\ f.path \in Names
  BY <1>2, FrameFacts DEF RegistryAssumption
<1>4. f = stack[g][n] /\ n \in DOMAIN stack[g]
  <2>1. stack[g] \in Seq(Frame)
    BY DEF RegistryInv, SlotInv, TypeOK
  <2>2. n \in Nat \ {0} /\ f = stack[g][n]
    BY <1>2, <2>1, FrontLast DEF Top
  <2>3. DOMAIN stack[g] = 1 .. n
    BY <2>1, LenProperties
  <2> QED BY <2>2, <2>3
<1>5. f.path \in loading
  BY <1>2, <1>4 DEF RegistryInv, SlotInv, SlotOwnership, Claims
<1>6. f.name \in Paths => f.path = f.name
  BY <1>4 DEF RegistryInv, SlotInv, NamesResolve
<1>7. /\ f.path \in Keys(f.path, f.name)
      /\ \A k \in Keys(f.path, f.name) : k \in Names /\ (k \in Paths => k = f.path)
  BY <1>3, <1>6, ImageFacts DEF Keys, RegistryAssumption
<1>8. /\ loading' = loading \ {f.path}
      /\ status' = [status EXCEPT ![h] = "live"]
      /\ refCount' = [refCount EXCEPT ![h] = 1]
      /\ origin' = [origin EXCEPT ![h] = f.path]
      /\ loaded' = [k \in Names \cup Keys(f.path, f.name) |->
                      IF k \in Keys(f.path, f.name) THEN h ELSE loaded[k]]
      /\ HandOver(g, h)
  BY DEF Register, h
<1>9. /\ status'[h] = "live" /\ refCount'[h] = 1 /\ origin'[h] = f.path
      /\ \A x \in Handles \ {h} : /\ status'[x] = status[x] /\ origin'[x] = origin[x]
                                  /\ refCount'[x] = refCount[x]
  BY <1>1, <1>8 DEF RegistryInv, SlotInv, TypeOK
<1>10. \A k \in Names : loaded'[k] = IF k \in Keys(f.path, f.name) THEN h ELSE loaded[k]
  BY <1>8
<1>11. CacheCoherent'
  <2>1. ASSUME NEW k \in Names, loaded'[k] # None
        PROVE  status'[loaded'[k]] = "live"
    <3>1. CASE k \in Keys(f.path, f.name)
      BY <1>9, <1>10, <3>1
    <3>2. CASE k \notin Keys(f.path, f.name)
      <4>1. loaded'[k] = loaded[k] /\ loaded[k] \in Handles /\ status[loaded[k]] = "live"
        BY <1>10, <2>1, <3>2 DEF RegistryInv, SlotInv, TypeOK, CacheCoherent, Live
      <4> QED BY <1>1, <1>9, <4>1
    <3> QED BY <3>1, <3>2
  <2>2. ASSUME NEW x \in Handles, status'[x] = "live"
        PROVE  origin'[x] # None /\ loaded'[origin'[x]] = x
    <3>1. CASE x = h
      BY <1>3, <1>7, <1>9, <1>10, <3>1 DEF RegistryAssumption
    <3>2. CASE x # h
      <4>1. origin'[x] = origin[x] /\ status[x] = "live"
        BY <1>9, <2>2, <3>2
      <4>2. origin[x] \in Paths /\ loaded[origin[x]] = x /\ origin[x] # None
        BY <4>1 DEF RegistryInv, SlotInv, TypeOK, CacheCoherent, Live
      <4>3. loaded[f.path] = None
        BY <1>5 DEF RegistryInv, CacheCoherent
      <4>4. origin[x] # f.path
        BY <4>2, <4>3 DEF RegistryAssumption
      <4>5. origin[x] \notin Keys(f.path, f.name) /\ origin[x] \in Names
        BY <1>7, <4>2, <4>4 DEF RegistryAssumption
      <4> QED BY <1>10, <4>1, <4>2, <4>5
    <3> QED BY <3>1, <3>2
  <2>3. ASSUME NEW q \in loading' PROVE loaded'[q] = None
    <3>1. q \in loading /\ q # f.path /\ q \in Paths /\ q \in Names
      BY <1>8 DEF RegistryInv, SlotInv, TypeOK, RegistryAssumption
    <3>2. q \notin Keys(f.path, f.name)
      BY <1>7, <3>1
    <3>3. loaded[q] = None
      BY <3>1 DEF RegistryInv, CacheCoherent
    <3> QED BY <1>10, <3>1, <3>2, <3>3
  <2> QED BY <2>1, <2>2, <2>3 DEF CacheCoherent, Live
<1>12. ASSUME NEW x \in Handles
       PROVE  /\ refCount'[x] = held'[x] + owed'[x]
              /\ status'[x] = "live" <=> refCount'[x] > 0
              /\ refCount'[x] >= 0
              /\ status'[x] = "free" => held'[x] = 0 /\ owed'[x] = 0
  <2>1. /\ refCount[x] = held[x] + owed[x]
        /\ status[x] = "live" <=> refCount[x] > 0
        /\ refCount[x] >= 0
        /\ status[x] = "free" => held[x] = 0 /\ owed[x] = 0
    BY DEF RegistryInv, RefsConserved, CountsStart, Live
  <2>2. /\ held'[h] + owed'[h] = held[h] + owed[h] + 1
        /\ \A y \in Handles \ {h} : held'[y] = held[y] /\ owed'[y] = owed[y]
    BY <1>1, <1>8, HandOverCounts DEF RegistryInv, SlotInv
  <2>3. CASE x = h
    BY <1>1, <1>9, <2>1, <2>2, <2>3
  <2>4. CASE x # h
    BY <1>9, <2>1, <2>2, <2>4
  <2> QED BY <2>3, <2>4
<1>13. RefsConserved' /\ CountsStart'
  BY <1>12 DEF RefsConserved, CountsStart, Live
<1> QED BY <1>11, <1>13

\* Close of the last reference: no key, no count and no live mark of the library is left
LEMMA CloseLastInv ==
    ASSUME RegistryInv, NEW g \in Goroutines, CloseLast(g), TypeOK'
    PROVE  CacheCoherent' /\ RefsConserved' /\ CountsStart'
<1>1. PICK h \in Handles :
        /\ refCount[h] = 1
        /\ refCount' = [refCount EXCEPT ![h] = 0]
        /\ held' = [held EXCEPT ![h] = @ - 1]
        /\ loaded' = Forget(h)
        /\ status' = [status EXCEPT ![h] = "dead"]
  BY DEF CloseLast
<1>2. loading' = loading /\ origin' = origin /\ owed' = owed
  BY DEF CloseLast
<1>3. /\ refCount'[h] = 0 /\ status'[h] = "dead" /\ held'[h] = held[h] - 1
      /\ \A x \in Handles \ {h} : /\ refCount'[x] = refCount[x] /\ status'[x] = status[x]
                                  /\ held'[x] = held[x]
  BY <1>1 DEF RegistryInv, SlotInv, TypeOK
<1>4. \A n \in Names : loaded'[n] = IF loaded[n] = h THEN None ELSE loaded[n]
  BY <1>1 DEF Forget
<1>5. CacheCoherent'
  <2>1. ASSUME NEW n \in Names, loaded'[n] # None
        PROVE  status'[loaded'[n]] = "live"
    <3>1. loaded'[n] = loaded[n] /\ loaded[n] # h
      BY <1>4, <2>1
    <3>2. loaded[n] \in Handles /\ status[loaded[n]] = "live"
      BY <2>1, <3>1 DEF RegistryInv, SlotInv, TypeOK, CacheCoherent, Live
    <3> QED BY <1>3, <3>1, <3>2
  <2>2. ASSUME NEW x \in Handles, status'[x] = "live"
        PROVE  origin'[x] # None /\ loaded'[origin'[x]] = x
    <3>1. x # h /\ status[x] = "live"
      BY <1>3, <2>2
    <3>2. origin[x] \in Paths /\ origin[x] # None /\ loaded[origin[x]] = x
      BY <3>1 DEF RegistryInv, SlotInv, TypeOK, CacheCoherent, Live
    <3> QED BY <1>2, <1>4, <3>1, <3>2 DEF RegistryAssumption
  <2>3. ASSUME NEW q \in loading' PROVE loaded'[q] = None
    <3>1. q \in Names /\ loaded[q] = None
      BY <1>2 DEF RegistryInv, SlotInv, TypeOK, CacheCoherent, RegistryAssumption
    <3> QED BY <1>4, <3>1
  <2> QED BY <2>1, <2>2, <2>3 DEF CacheCoherent, Live
<1>6. ASSUME NEW x \in Handles
      PROVE  /\ refCount'[x] = held'[x] + owed'[x]
             /\ status'[x] = "live" <=> refCount'[x] > 0
             /\ refCount'[x] >= 0
             /\ status'[x] = "free" => held'[x] = 0 /\ owed'[x] = 0
  <2>1. /\ refCount[x] = held[x] + owed[x]
        /\ status[x] = "live" <=> refCount[x] > 0
        /\ refCount[x] >= 0
        /\ status[x] = "free" => held[x] = 0 /\ owed[x] = 0
        /\ held[x] \in Int /\ owed[x] \in Int
    BY DEF RegistryInv, SlotInv, TypeOK, RefsConserved, CountsStart, Live
  <2>2. CASE x = h
    BY <1>1, <1>2, <1>3, <2>1, <2>2
  <2>3. CASE x # h
    BY <1>2, <1>3, <2>1, <2>3
  <2> QED BY <2>2, <2>3
<1>7. RefsConserved' /\ CountsStart'
  BY <1>6 DEF RefsConserved, CountsStart, Live
<1> QED BY <1>5, <1>7

\* Close while other references are left
LEMMA CloseSharedInv ==
    ASSUME RegistryInv, NEW g \in Goroutines, CloseShared(g), TypeOK'
    PROVE  CacheCoherent' /\ RefsConserved' /\ CountsStart'
<1>1. PICK h \in Handles :
        /\ refCount[h] > 1
        /\ refCount' = [refCount EXCEPT ![h] = @ - 1]
        /\ held' = [held EXCEPT ![h] = @ - 1]
  BY DEF CloseShared
<1>2. /\ loading' = loading /\ origin' = origin /\ owed' = owed
      /\ loaded' = loaded /\ status' = status
  BY DEF CloseShared, tables
<1>3. CacheCoherent'
  BY <1>2 DEF RegistryInv, CacheCoherent, Live
<1>4. ASSUME NEW x \in Handles
      PROVE  /\ refCount'[x] = held'[x] + owed'[x]
             /\ status'[x] = "live" <=> refCount'[x] > 0
             /\ refCount'[x] >= 0
             /\ status'[x] = "free" => held'[x] = 0 /\ owed'[x] = 0
  <2>1. /\ refCount[x] = held[x] + owed[x]
        /\ status[x] = "live" <=> refCount[x] > 0
        /\ refCount[x] >= 0
        /\ status[x] = "free" => held[x] = 0 /\ owed[x] = 0
        /\ held[x] \in Int /\ owed[x] \in Int /\ refCount[x] \in Int
    BY DEF RegistryInv, SlotInv, TypeOK, RefsConserved, CountsStart, Live
  <2>2. CASE x = h
    <3>1. refCount'[x] = refCount[x] - 1 /\ held'[x] = held[x] - 1
      BY <1>1, <2>2 DEF RegistryInv, SlotInv, TypeOK
    <3>2. refCount'[x] > 0 /\ status[x] = "live"
      BY <1>1, <2>1, <2>2, <3>1
    <3> QED BY <1>2, <2>1, <3>1, <3>2
  <2>3. CASE x # h
    <3>1. refCount'[x] = refCount[x] /\ held'[x] = held[x]
      BY <1>1, <2>3 DEF RegistryInv, SlotInv, TypeOK
    <3> QED BY <1>2, <2>1, <3>1
  <2> QED BY <2>2, <2>3
<1>5. RefsConserved' /\ CountsStart'
  BY <1>4 DEF RefsConserved, CountsStart, Live
<1> QED BY <1>3, <1>5

\* A key of `loaded` is a live library
LEMMA LoadedLive ==
    ASSUME RegistryInv, NEW n \in Names, loaded[n] # None
    PROVE  loaded[n] \in Handles /\ Live(loaded[n])
BY DEF RegistryInv, SlotInv, TypeOK, CacheCoherent

\* The innermost call of a goroutine inside Open works on a file, which is a name as well
LEMMA TopPath ==
    ASSUME RegistryInv, NEW g \in Goroutines, Step(g)
    PROVE  Top(g).path \in Paths /\ Top(g).path \in Names
<1>1. stack[g] # <<>>
  BY DEF Step, Revisit, Wait, CacheHit, Claim, Parse, ParseFails,
     SkipDependency, LoadDependency, Map, MapFails, Relocate, RelocateFails, Register, At
<1> QED BY <1>1, TopType, FrameFacts DEF RegistryInv, SlotInv, RegistryAssumption

LEMMA StepInv ==
    ASSUME RegistryInv, NEW g \in Goroutines, Step(g), TypeOK'
    PROVE  CacheCoherent' /\ RefsConserved' /\ CountsStart'
<1>1. CASE (Revisit(g) /\ loaded[Top(g).path] # None) \/ CacheHit(g)
  <2> DEFINE h == loaded[Top(g).path]
  <2>1. /\ h # None /\ Retain(h) /\ HandOver(g, h) /\ UNCHANGED <<tables, loading>>
    BY <1>1 DEF Revisit, CacheHit, Cached
  <2>2. h \in Handles /\ Live(h)
    BY <2>1, TopPath, LoadedLive
  <2> HIDE DEF h
  <2>3. /\ held'[h] + owed'[h] = held[h] + owed[h] + 1
        /\ \A x \in Handles \ {h} : held'[x] = held[x] /\ owed'[x] = owed[x]
    BY <2>1, <2>2, HandOverCounts DEF RegistryInv, SlotInv
  <2> QED BY <2>1, <2>2, <2>3, TakeReference
<1>2. CASE Revisit(g) /\ loaded[Top(g).path] = None
  <2>1. UNCHANGED <<tables, refCount, held, owed>> /\ loading' = loading
    BY <1>2 DEF Revisit, ghosts
  <2> QED BY <2>1, TablesKept
<1>3. CASE Wait(g) \/ Parse(g) \/ SkipDependency(g) \/ LoadDependency(g) \/ Map(g) \/ Relocate(g)
  <2>1. UNCHANGED <<tables, refCount, held, owed>> /\ loading' = loading
    BY <1>3 DEF Wait, Parse, SkipDependency, LoadDependency, Map, Relocate, ghosts
  <2> QED BY <2>1, TablesKept
<1>4. CASE Claim(g)
  <2>1. /\ UNCHANGED <<tables, refCount, held, owed>>
        /\ loading' = loading \cup {Top(g).path} /\ loaded[Top(g).path] = None
    BY <1>4 DEF Claim, Cached, ghosts
  <2> QED BY <2>1, TablesKept
<1>5. CASE ParseFails(g) \/ MapFails(g) \/ RelocateFails(g)
  <2>1. UNCHANGED <<tables, refCount, held, owed>> /\ loading' = loading \ {Top(g).path}
    BY <1>5 DEF ParseFails, MapFails, RelocateFails, Abandon, ReleaseSlot, ghosts
  <2> QED BY <2>1, TablesKept
<1>6. CASE Register(g)
  BY <1>6, RegisterInv
<1> QED BY <1>1, <1>2, <1>3, <1>4, <1>5, <1>6 DEF Step

LEMMA RequestInv ==
    ASSUME RegistryInv, NEW g \in Goroutines, Request(g), TypeOK'
    PROVE  CacheCoherent' /\ RefsConserved' /\ CountsStart'
<1>1. CASE OpenCached(g)
  <2>1. PICK c \in Calls :
          /\ loaded[c.name] # None
          /\ Retain(loaded[c.name])
          /\ held' = [held EXCEPT ![loaded[c.name]] = @ + 1]
    BY <1>1 DEF OpenCached
  <2> DEFINE h == loaded[c.name]
  <2>2. h \in Handles /\ Live(h)
    BY <2>1, LoadedLive DEF RegistryAssumption
  <2> HIDE DEF h
  <2>3. UNCHANGED <<tables, loading>> /\ owed' = owed
    BY <1>1 DEF OpenCached
  <2>4. held' = [held EXCEPT ![h] = @ + 1] /\ Retain(h)
    BY <2>1 DEF h
  <2>5. /\ held'[h] + owed'[h] = held[h] + owed[h] + 1
        /\ \A x \in Handles \ {h} : held'[x] = held[x] /\ owed'[x] = owed[x]
    BY <2>2, <2>3, <2>4 DEF RegistryInv, SlotInv, TypeOK
  <2> QED BY <2>2, <2>3, <2>4, <2>5, TakeReference
<1>2. CASE OpenUncached(g)
  <2>1. UNCHANGED <<tables, refCount, held, owed>> /\ loading' = loading
    BY <1>2 DEF OpenUncached, ghosts
  <2> QED BY <2>1, TablesKept
<1>3. CASE CloseShared(g)
  BY <1>3, CloseSharedInv
<1>4. CASE CloseLast(g)
  BY <1>4, CloseLastInv
<1>5. CASE CloseRefused(g)
  <2>1. UNCHANGED <<tables, refCount, held, owed>> /\ loading' = loading
    BY <1>5 DEF CloseRefused, vars, tables
  <2> QED BY <2>1, TablesKept
<1> QED BY <1>1, <1>2, <1>3, <1>4, <1>5 DEF Request

LEMMA RegistryStep == RegistryInv /\ [Next]_vars => RegistryInv'
<1> SUFFICES ASSUME RegistryInv, [Next]_vars PROVE RegistryInv'
  OBVIOUS
<1>1. SlotInv' /\ TypeOK'
  BY SlotStep DEF RegistryInv, SlotInv
<1>2. CASE \E g \in Goroutines : Step(g) \/ Request(g)
  BY <1>1, <1>2, StepInv, RequestInv DEF RegistryInv
<1>3. CASE UNCHANGED vars
  <2>1. UNCHANGED <<tables, refCount, held, owed>> /\ loading' = loading
    BY <1>3 DEF vars, tables
  <2>2. CacheCoherent' /\ RefsConserved' /\ CountsStart'
    BY <2>1, TablesKept
  <2> QED BY <1>1, <2>2 DEF RegistryInv
<1> QED BY <1>2, <1>3 DEF Next, Finished

LEMMA RegistryInit == Init => RegistryInv
<1> SUFFICES ASSUME Init PROVE RegistryInv
  OBVIOUS
<1>1. CacheCoherent
  BY DEF Init, CacheCoherent, Live
<1>2. RefsConserved /\ CountsStart
  BY DEF Init, RefsConserved, CountsStart, Live
<1> QED BY <1>1, <1>2, SlotInit DEF RegistryInv

\* One live instance per file, found under its own path, and nothing but live libraries
\* under any key, for all interleavings of Open, of failing loads and of Close
THEOREM CacheIsCoherent == Spec => []CacheCoherent
<1>1. RegistryInv => CacheCoherent
  BY DEF RegistryInv
<1> QED BY <1>1, RegistryInit, RegistryStep, PTL DEF Spec

\* RefCount is the number of references that callers and dependents own, and a library
\* is unloaded exactly when there is none
THEOREM ReferencesConserved == Spec => []RefsConserved
<1>1. RegistryInv => RefsConserved
  BY DEF RegistryInv
<1> QED BY <1>1, RegistryInit, RegistryStep, PTL DEF Spec
-----------------------------------------------------------------------------
(* What a step may never do *)

\* A step leaves the status of a library alone, publishes a new one, or unloads a live one
LEMMA StatusStep ==
    ASSUME RegistryInv, [Next]_vars
    PROVE  \/ status' = status
           \/ \E h \in Handles : status[h] = "free" /\ status' = [status EXCEPT ![h] = "live"]
           \/ \E h \in Handles : status[h] = "live" /\ status' = [status EXCEPT ![h] = "dead"]
<1>1. ASSUME NEW g \in Goroutines, Step(g)
      PROVE  \/ status' = status
             \/ \E h \in Handles : status[h] = "free" /\ status' = [status EXCEPT ![h] = "live"]
  <2>1. CASE Register(g)
    <3> DEFINE h == CHOOSE x \in Handles : status[x] = "free"
    <3>1. h \in Handles /\ status[h] = "free"
      BY <2>1 DEF Register
    <3>2. status' = [status EXCEPT ![h] = "live"]
      BY <2>1 DEF Register
    <3> QED BY <3>1, <3>2
  <2>2. CASE ~ Register(g)
    BY <1>1, <2>2 DEF Step, Revisit, Wait, CacheHit, Claim, Parse, ParseFails,
       SkipDependency, LoadDependency, Map, MapFails, Relocate, RelocateFails, Abandon, tables
  <2> QED BY <2>1, <2>2
<1>2. ASSUME NEW g \in Goroutines, Request(g)
      PROVE  \/ status' = status
             \/ \E h \in Handles : status[h] = "live" /\ status' = [status EXCEPT ![h] = "dead"]
  <2>1. CASE CloseLast(g)
    <3>1. PICK h \in Handles : refCount[h] = 1 /\ status' = [status EXCEPT ![h] = "dead"]
      BY <2>1 DEF CloseLast
    <3>2. status[h] = "live"
      BY <3>1 DEF RegistryInv, RefsConserved, Live
    <3> QED BY <3>1, <3>2
  <2>2. CASE ~ CloseLast(g)
    BY <1>2, <2>2 DEF Request, OpenCached, OpenUncached, CloseShared, CloseRefused, vars, tables
  <2> QED BY <2>1, <2>2
<1>3. CASE UNCHANGED vars
  BY <1>3 DEF vars
<1> QED BY <1>1, <1>2, <1>3 DEF Next, Finished

\* No call brings an unloaded library back or takes a reference to it: a *Library that
\* Close has unloaded stays unloaded, and a later Open of the file makes a new one
THEOREM UnloadIsFinal == Spec => UnloadedForGood
<1>1. RegistryInv /\ RegistryInv' /\ [Next]_vars
        => [\A h \in Handles : status[h] = "dead" => status'[h] = "dead" /\ refCount'[h] = 0]_vars
  <2> SUFFICES ASSUME RegistryInv, RegistryInv', [Next]_vars,
                      NEW h \in Handles, status[h] = "dead"
               PROVE  status'[h] = "dead" /\ refCount'[h] = 0
    OBVIOUS
  <2>1. status'[h] = "dead"
    BY StatusStep DEF RegistryInv, SlotInv, TypeOK
  <2>2. ~ (refCount'[h] > 0) /\ refCount'[h] >= 0 /\ refCount'[h] \in Int
    BY <2>1 DEF RegistryInv, SlotInv, TypeOK, RefsConserved, CountsStart, Live
  <2> QED BY <2>1, <2>2
<1> QED BY <1>1, RegistryInit, RegistryStep, PTL DEF Spec, UnloadedForGood
-----------------------------------------------------------------------------
(* The global list *)

\* Cutting the element at i out of a list keeps the others, in their order
LEMMA RemoveAtFacts ==
    ASSUME NEW S, NEW s \in Seq(S), NEW i \in DOMAIN s
    PROVE  /\ RemoveAt(s, i) \in Seq(S) /\ Len(s) \in Nat /\ i \in 1 .. Len(s)
           /\ DOMAIN RemoveAt(s, i) = 1 .. Len(s) - 1
           /\ \A k \in 1 .. Len(s) - 1 : RemoveAt(s, i)[k] = IF k < i THEN s[k] ELSE s[k + 1]
<1>1. /\ Len(s) \in Nat /\ i \in 1 .. Len(s) /\ Len(s) - i \in Nat /\ i - 1 \in Nat
      /\ \A k \in 1 .. Len(s) : s[k] \in S
  BY LenProperties, ElementOfSeq
<1> DEFINE a == SubSeq(s, 1, i - 1)
           b == SubSeq(s, i + 1, Len(s))
<1>2. /\ a \in Seq(S) /\ Len(a) = i - 1
      /\ \A k \in 1 .. i - 1 : a[k] = s[k]
  <2>1. \A k \in 1 .. i - 1 : s[k] \in S
    BY <1>1
  <2>2. /\ a \in Seq(S)
        /\ Len(a) = IF 1 <= i - 1 THEN (i - 1) - 1 + 1 ELSE 0
        /\ \A k \in 1 .. (i - 1) - 1 + 1 : a[k] = s[1 + k - 1]
    BY <1>1, <2>1, SubSeqProperties
  <2> HIDE DEF a
  <2> QED BY <1>1, <2>2
<1>3. /\ b \in Seq(S) /\ Len(b) = Len(s) - i
      /\ \A k \in 1 .. Len(s) - i : b[k] = s[i + k]
  <2>1. \A k \in i + 1 .. Len(s) : s[k] \in S
    BY <1>1
  <2>2. /\ b \in Seq(S)
        /\ Len(b) = IF i + 1 <= Len(s) THEN Len(s) - (i + 1) + 1 ELSE 0
        /\ \A k \in 1 .. Len(s) - (i + 1) + 1 : b[k] = s[(i + 1) + k - 1]
    BY <1>1, <2>1, SubSeqProperties
  <2> HIDE DEF b
  <2>3. ASSUME NEW k \in 1 .. Len(s) - i PROVE b[k] = s[i + k]
    <3>1. k \in 1 .. Len(s) - (i + 1) + 1 /\ (i + 1) + k - 1 = i + k
      BY <1>1
    <3> QED BY <2>2, <3>1
  <2>4. Len(b) = Len(s) - i
    BY <1>1, <2>2
  <2> QED BY <2>2, <2>3, <2>4
<1>4. RemoveAt(s, i) = a \o b
  BY DEF RemoveAt
<1> HIDE DEF a, b
<1>5. /\ a \o b \in Seq(S) /\ Len(a \o b) = Len(a) + Len(b)
      /\ \A k \in 1 .. Len(a) + Len(b) :
            (a \o b)[k] = IF k <= Len(a) THEN a[k] ELSE b[k - Len(a)]
  BY <1>2, <1>3, ConcatProperties
<1>6. Len(a) + Len(b) = Len(s) - 1
  BY <1>1, <1>2, <1>3
<1>7. DOMAIN (a \o b) = 1 .. Len(s) - 1
  BY <1>5, <1>6, LenProperties
<1>8. ASSUME NEW k \in 1 .. Len(s) - 1
      PROVE  (a \o b)[k] = IF k < i THEN s[k] ELSE s[k + 1]
  <2>1. (a \o b)[k] = IF k <= Len(a) THEN a[k] ELSE b[k - Len(a)]
    BY <1>5, <1>6
  <2>2. CASE k < i
    <3>1. k <= Len(a) /\ k \in 1 .. i - 1
      BY <1>1, <1>2, <2>2
    <3> QED BY <1>2, <2>1, <2>2, <3>1
  <2>3. CASE ~ (k < i)
    <3>1. ~ (k <= Len(a)) /\ k - Len(a) \in 1 .. Len(s) - i /\ i + (k - Len(a)) = k + 1
      BY <1>1, <1>2, <2>3
    <3> QED BY <1>3, <2>1, <2>3, <3>1
  <2> QED BY <2>2, <2>3
<1> QED BY <1>1, <1>4, <1>5, <1>7, <1>8

\* removeFromGlobals, on a list that holds every library once: the others are left, once
LEMMA CutFromFacts ==
    ASSUME NEW s \in Seq(Handles), NEW h \in Handles,
           \A i, j \in DOMAIN s : s[i] = s[j] => i = j
    PROVE  /\ \A k \in DOMAIN CutFrom(s, h) :
                CutFrom(s, h)[k] # h /\ \E j \in DOMAIN s : CutFrom(s, h)[k] = s[j]
           /\ \A k, l \in DOMAIN CutFrom(s, h) : CutFrom(s, h)[k] = CutFrom(s, h)[l] => k = l
<1>1. DOMAIN s = 1 .. Len(s) /\ Len(s) \in Nat
  BY LenProperties
<1>2. CASE h \notin ToSet(s)
  <2>1. CutFrom(s, h) = s
    BY <1>2 DEF CutFrom
  <2>2. \A k \in DOMAIN s : s[k] # h
    BY <1>2 DEF ToSet
  <2> QED BY <2>1, <2>2
<1>3. CASE h \in ToSet(s)
  <2> DEFINE First(i) == s[i] = h /\ \A j \in 1 .. i - 1 : s[j] # h
             c == CHOOSE i \in DOMAIN s : First(i)
             q == CutFrom(s, h)
  <2>1. PICK m \in DOMAIN s : s[m] = h
    BY <1>3 DEF ToSet
  <2>2. First(m)
    <3>1. \A j \in 1 .. m - 1 : j \in DOMAIN s /\ j # m
      BY <1>1
    <3> QED BY <2>1, <3>1
  <2>3. c \in DOMAIN s /\ s[c] = h
    BY <2>2
  <2>4. q = RemoveAt(s, c)
    BY <1>3 DEF CutFrom
  <2> HIDE DEF c, q, First
  <2>5. /\ DOMAIN q = 1 .. Len(s) - 1 /\ c \in 1 .. Len(s)
        /\ \A k \in 1 .. Len(s) - 1 : q[k] = IF k < c THEN s[k] ELSE s[k + 1]
    BY <2>3, <2>4, RemoveAtFacts
  <2>6. ASSUME NEW k \in DOMAIN q
        PROVE  \E j \in DOMAIN s : q[k] = s[j] /\ j # c /\ j = IF k < c THEN k ELSE k + 1
    <3>1. CASE k < c
      <4>1. k \in DOMAIN s /\ k # c /\ q[k] = s[k]
        BY <1>1, <2>5, <3>1
      <4> QED BY <3>1, <4>1
    <3>2. CASE ~ (k < c)
      <4>1. k + 1 \in DOMAIN s /\ k + 1 # c /\ q[k] = s[k + 1]
        BY <1>1, <2>5, <3>2
      <4> QED BY <3>2, <4>1
    <3> QED BY <3>1, <3>2
  <2>7. ASSUME NEW k \in DOMAIN q
        PROVE  q[k] # h /\ \E j \in DOMAIN s : q[k] = s[j]
    BY <2>3, <2>6
  <2>8. ASSUME NEW k \in DOMAIN q, NEW l \in DOMAIN q, q[k] = q[l]
        PROVE  k = l
    <3>1. PICK i \in DOMAIN s : q[k] = s[i] /\ i # c /\ i = IF k < c THEN k ELSE k + 1
      BY <2>6
    <3>2. PICK j \in DOMAIN s : q[l] = s[j] /\ j # c /\ j = IF l < c THEN l ELSE l + 1
      BY <2>6
    <3>3. i = j
      BY <2>8, <3>1, <3>2
    <3>4. k \in Int /\ l \in Int /\ c \in Int
      BY <1>1, <2>5
    <3> QED BY <3>1, <3>2, <3>3, <3>4
  <2> QED BY <2>7, <2>8 DEF q
<1> QED BY <1>2, <1>3

GlobalsInv == RegistryInv /\ GlobalsCurrent

LEMMA GlobalsStep == GlobalsInv /\ [Next]_vars => GlobalsInv'
<1> SUFFICES ASSUME GlobalsInv, [Next]_vars PROVE GlobalsCurrent'
  BY RegistryStep DEF GlobalsInv
<1>1. /\ RegistryInv /\ TypeOK
      /\ \A i \in DOMAIN globals : status[globals[i]] = "live"
      /\ \A i, j \in DOMAIN globals : globals[i] = globals[j] => i = j
      /\ globals \in Seq(Handles) /\ DOMAIN globals = 1 .. Len(globals) /\ Len(globals) \in Nat
      /\ \A i \in DOMAIN globals : globals[i] \in Handles
  BY LenProperties, ElementOfSeq DEF GlobalsInv, RegistryInv, SlotInv, TypeOK, GlobalsCurrent, Live
<1>2. CASE globals' = globals /\ status' = status
  BY <1>1, <1>2 DEF GlobalsCurrent, Live
<1>3. ASSUME NEW g \in Goroutines, Register(g)
      PROVE  GlobalsCurrent'
  <2>1. PICK h \in Handles :
          /\ status[h] = "free" /\ status' = [status EXCEPT ![h] = "live"]
          /\ globals' = globals \/ globals' = Append(globals, h)
    <3> DEFINE h == CHOOSE x \in Handles : status[x] = "free"
    <3>1. h \in Handles /\ status[h] = "free"
      BY <1>3 DEF Register
    <3>2. status' = [status EXCEPT ![h] = "live"]
      BY <1>3 DEF Register
    <3>3. globals' = globals \/ globals' = Append(globals, h)
      BY <1>3 DEF Register
    <3> QED BY <3>1, <3>2, <3>3
  <2>2. status'[h] = "live" /\ \A x \in Handles : status[x] = "live" => status'[x] = "live"
    BY <1>1, <2>1 DEF TypeOK
  <2>3. \A i \in DOMAIN globals : globals[i] # h /\ status'[globals[i]] = "live"
    BY <1>1, <2>1, <2>2
  <2>4. CASE globals' = globals
    BY <1>1, <2>3, <2>4 DEF GlobalsCurrent, Live
  <2>5. CASE globals' = Append(globals, h)
    <3> DEFINE q == Append(globals, h)
    <3>1. /\ q \in Seq(Handles) /\ Len(q) = Len(globals) + 1
          /\ \A i \in 1 .. Len(globals) : q[i] = globals[i]
          /\ q[Len(globals) + 1] = h
      BY <1>1, AppendProperties
    <3> HIDE DEF q
    <3>2. DOMAIN q = 1 .. Len(globals) + 1
      BY <3>1, LenProperties
    <3>3. \A i \in 1 .. Len(globals) + 1 : i \in 1 .. Len(globals) \/ i = Len(globals) + 1
      BY <1>1
    <3>4. \A i \in DOMAIN q : status'[q[i]] = "live"
      BY <1>1, <2>2, <2>3, <3>1, <3>2, <3>3
    <3>5. \A i, j \in DOMAIN q : q[i] = q[j] => i = j
      BY <1>1, <2>3, <3>1, <3>2, <3>3
    <3> QED BY <2>5, <3>4, <3>5 DEF GlobalsCurrent, Live, q
  <2> QED BY <2>1, <2>4, <2>5
<1>4. ASSUME NEW g \in Goroutines, CloseLast(g)
      PROVE  GlobalsCurrent'
  <2>1. PICK h \in Handles :
          /\ status' = [status EXCEPT ![h] = "dead"]
          /\ globals' = CutFrom(globals, h)
    BY <1>4 DEF CloseLast
  <2> DEFINE q == CutFrom(globals, h)
  <2>2. /\ \A k \in DOMAIN q : q[k] # h /\ \E j \in DOMAIN globals : q[k] = globals[j]
        /\ \A k, l \in DOMAIN q : q[k] = q[l] => k = l
    BY <1>1, CutFromFacts
  <2> HIDE DEF q
  <2>3. \A k \in DOMAIN q : q[k] \in Handles /\ q[k] # h /\ status[q[k]] = "live"
    BY <1>1, <2>2
  <2>4. \A k \in DOMAIN q : status'[q[k]] = "live"
    BY <1>1, <2>1, <2>3 DEF TypeOK
  <2> QED BY <2>1, <2>2, <2>4 DEF GlobalsCurrent, Live, q
<1>5. ASSUME NEW g \in Goroutines, Step(g), ~ Register(g)
      PROVE  globals' = globals /\ status' = status
  BY <1>5 DEF Step, Revisit, Wait, CacheHit, Claim, Parse, ParseFails,
     SkipDependency, LoadDependency, Map, MapFails, Relocate, RelocateFails, Abandon, tables
<1>6. ASSUME NEW g \in Goroutines, Request(g), ~ CloseLast(g)
      PROVE  globals' = globals /\ status' = status
  BY <1>6 DEF Request, OpenCached, OpenUncached, CloseShared, CloseRefused, vars, tables
<1>7. UNCHANGED vars => globals' = globals /\ status' = status
  BY DEF vars
<1> QED BY <1>2, <1>3, <1>4, <1>5, <1>6, <1>7 DEF Next, Finished

\* The list that globalResolver searches holds live libraries only, and each of them
\* once: a lookup never finds a symbol in a library that Close has unmapped
THEOREM GlobalsAreCurrent == Spec => []GlobalsCurrent
<1>1. Init => GlobalsInv
  BY RegistryInit, EmptySeq DEF Init, GlobalsInv, GlobalsCurrent
<1>2. GlobalsInv => GlobalsCurrent
  BY DEF GlobalsInv
<1> QED BY <1>1, <1>2, GlobalsStep, PTL DEF Spec
-----------------------------------------------------------------------------
(* Waiting *)

\* The top of a stack that a step does not change
LEMMA OtherTop ==
    ASSUME NEW g \in Goroutines, OthersKeep(g), NEW k \in Goroutines \ {g}
    PROVE  Top(k)' = Top(k) /\ Idle(k)' = Idle(k)
BY DEF OthersKeep, Top, Idle, Last

LEMMA WakeupStep ==
    ASSUME RegistryInv, NoLostWakeup, [Next]_vars
    PROVE  NoLostWakeup'
<1>1. ASSUME NEW g \in Goroutines, Step(g)
      PROVE  NoLostWakeup'
  <2>1. g \notin waiting /\ ~ Idle(g) /\ OthersKeep(g)
    BY <1>1, StepSlots DEF RegistryInv, SlotInv, Keeps, Gains, Loses, Idle,
       Step, Revisit, Wait, CacheHit, Claim, Parse, ParseFails,
       SkipDependency, LoadDependency, Map, MapFails, Relocate, RelocateFails, Register, At
  <2>2. CASE waiting' = {}
    BY <2>2 DEF NoLostWakeup
  <2>3. CASE waiting' = waiting /\ loading \subseteq loading'
    <3> SUFFICES ASSUME NEW k \in waiting
                 PROVE  ~ Idle(k)' /\ Top(k)'.pc = "enter" /\ Top(k)'.path \in loading'
      BY <2>3 DEF NoLostWakeup
    <3>1. k \in Goroutines \ {g}
      BY <2>1 DEF RegistryInv, SlotInv, TypeOK
    <3> QED BY <2>1, <2>3, <3>1, OtherTop DEF NoLostWakeup
  <2>4. CASE Wait(g)
    <3>1. stack' = stack /\ loading' = loading /\ waiting' = waiting \cup {g}
      BY <2>4 DEF Wait
    <3>2. Top(g).pc = "enter" /\ Top(g).path \in loading
      BY <2>4 DEF Wait, At, Busy
    <3> QED BY <2>1, <3>1, <3>2 DEF NoLostWakeup, Top, Idle
  <2>5. waiting' = {} \/ (waiting' = waiting /\ loading \subseteq loading') \/ Wait(g)
    BY <1>1 DEF Step, Revisit, CacheHit, Claim, Parse, ParseFails, SkipDependency,
       LoadDependency, Map, MapFails, Relocate, RelocateFails, Register, Abandon,
       ReleaseSlot, Broadcast
  <2> QED BY <2>2, <2>3, <2>4, <2>5
<1>2. ASSUME NEW g \in Goroutines, Request(g)
      PROVE  NoLostWakeup'
  <2>1. Idle(g) /\ waiting' = waiting /\ loading' = loading
    BY <1>2 DEF Request, OpenCached, OpenUncached, CloseShared, CloseLast, CloseRefused, vars
  <2>2. OthersKeep(g)
    <3>1. CASE OpenUncached(g)
      BY <3>1, OpenUncachedKeeps DEF RegistryInv, SlotInv, Keeps
    <3>2. CASE stack' = stack
      BY <3>2 DEF OthersKeep
    <3> QED BY <1>2, <3>1, <3>2
         DEF Request, OpenCached, CloseShared, CloseLast, CloseRefused, vars
  <2> SUFFICES ASSUME NEW k \in waiting
               PROVE  ~ Idle(k)' /\ Top(k)'.pc = "enter" /\ Top(k)'.path \in loading'
    BY <2>1 DEF NoLostWakeup
  <2>3. k \in Goroutines \ {g}
    BY <2>1 DEF NoLostWakeup, RegistryInv, SlotInv, TypeOK
  <2> QED BY <2>1, <2>2, <2>3, OtherTop DEF NoLostWakeup
<1>3. CASE UNCHANGED vars
  <2>1. waiting' = waiting /\ stack' = stack /\ loading' = loading
    BY <1>3 DEF vars
  <2> QED BY <2>1 DEF NoLostWakeup, Top, Idle
<1> QED BY <1>1, <1>2, <1>3 DEF Next, Finished

\* A goroutine asleep in cond.Wait wants a path that somebody is still loading, so that a
\* Broadcast is still to come: no release of a slot passes it by
THEOREM NobodySleepsThrough == Spec => []NoLostWakeup
<1>1. Init => NoLostWakeup
  BY DEF Init, NoLostWakeup
<1>2. RegistryInv /\ NoLostWakeup /\ [Next]_vars => NoLostWakeup'
  BY WakeupStep
<1> QED BY <1>1, <1>2, RegistryInit, RegistryStep, PTL DEF Spec
=============================================================================
