---------------------------- MODULE LoaderProofs ----------------------------
(***************************************************************************)
(* Proofs about Loader, for every set of objects, threads, thread IDs,     *)
(* regions and files, whatever fails: the type invariant, who owns what is *)
(* mapped, what is given back, what a thread finds for a module, and the   *)
(* GOT entries of the relocations that need one.                           *)
(***************************************************************************)
EXTENDS Loader, SequenceTheorems, FiniteSetTheorems, TLAPS

USE TlsAssumption, LoaderAssumption
USE DEF CurrentThreadID

-----------------------------------------------------------------------------
(* The books of the loader: module IDs, relocations done, GOT entries *)

\* IDs are given out one after the other, to one object each, and lead to the base of
\* that object; an object with PT_TLS has one from the moment its relocations start
ModulesInv ==
    /\ nextID = Len(modules) + 1
    /\ \A o \in Objects : module[o] # 0 =>
        module[o] \in DOMAIN modules /\ modules[module[o]] = base[o]
    /\ \A o, p \in Objects : module[o] = module[p] /\ module[o] # 0 => o = p
    /\ \A o \in Objects : phase[o] \in {"none", "mapped"} => module[o] = 0
    /\ \A o \in Objects : HasPages(o) /\ File[o].tls => module[o] # 0

\* The relocations that give an object a module ID give it its own; one that is in the
\* middle of a block has found a module that was registered
PatchesInv ==
    \A o \in Objects :
        /\ phase[o] \in {"none", "mapped"} => patched[o] = <<>>
        /\ \A i \in DOMAIN patched[o] : patched[o][i].kind \in {"mod", "gd", "ld"} =>
                patched[o][i].mod = module[o] /\ module[o] # 0
        /\ phase[o] = "block" =>
                patched[o] # <<>> /\ Last(patched[o]).mod \in DOMAIN modules

\* There are pages for all the entries, each of which is a pair, and none before
\* relocations start
GotInv ==
    \A o \in Objects :
        /\ Len(got[o]) <= Len(pages[o]) * PagePairs
        /\ Len(pairs[o]) = Len(got[o])
        /\ phase[o] \in {"none", "mapped"} => got[o] = <<>> /\ pages[o] = <<>>

BookInv == TypeOK /\ ModulesInv /\ PatchesInv /\ GotInv
-----------------------------------------------------------------------------
(* The kinds of step: what an action does to the books of one object *)

Books == <<modules, nextID, base, module, got, pairs, pages, patched>>

\* The steps between phases that are no more than that in the books
Advances ==
    {<<"none", "failed">>, <<"mapped", "failed">>, <<"reloc", "failed">>,
     <<"block", "failed">>, <<"block", "reloc">>, <<"reloc", "init">>, <<"init", "ready">>,
     <<"ready", "fini">>, <<"fini", "unmap">>, <<"fini", "stuck">>, <<"unmap", "gone">>,
     <<"unmap", "stuck">>}

Moves(o) == UNCHANGED Books /\ \E p \in Phases : <<phase[o], p>> \in Advances /\ Goto(o, p)

\* A relocation that is done, but for the block of a TPOFF
Writes(o) == ApplySymbol(o) \/ ApplyDTPMod(o) \/ ReuseGotEntry(o) \/ AllocateGotEntry(o)
                \/ ResolveTPOff(o)

\* A step of a thread
Elsewhere == UNCHANGED <<loaderVars, modules, nextID>>

LEMMA ClassOf ==
    ASSUME NEW o \in Objects, Load(o) \/ Unload(o)
    PROVE  Reserve(o) \/ Populate(o) \/ Writes(o) \/ Moves(o)
<1>1. CASE ReserveFails(o) \/ RunConstructors(o) \/ Loaded(o) \/ RunFini(o)
  BY <1>1 DEF ReserveFails, RunConstructors, Loaded, RunFini, Moves, Books, Goto, Advances,
     Phases, tlsVars
<1>2. CASE PopulateFails(o) \/ RegisterRefused(o) \/ UndefinedSymbol(o)
           \/ NoTLSSegment(o) \/ GotPageFails(o) \/ TPBlockFails(o)
  BY <1>2 DEF PopulateFails, RegisterRefused, UndefinedSymbol, NoTLSSegment, GotPageFails,
     TPBlockFails, Pending, Fail, Moves, Books, Goto, Advances, Phases
<1>3. CASE AllocateTPBlock(o) \/ UnmapGotPages(o) \/ UnmapGotFails(o) \/ UnmapImage(o)
  BY <1>3 DEF AllocateTPBlock, UnmapGotPages, UnmapGotFails, UnmapImage, Moves, Books, Goto,
     Advances, Phases
<1> QED BY <1>1, <1>2, <1>3, Zenon DEF Load, Unload, Writes

LEMMA Classes ==
    ASSUME Next
    PROVE  \/ \E o \in Objects : Reserve(o) \/ Populate(o) \/ Writes(o) \/ Moves(o)
           \/ Elsewhere
<1>1. ASSUME NEW t \in Threads, NEW o \in Objects, TLSAccess(t, o)
      PROVE  Elsewhere
  BY <1>1 DEF TLSAccess, GetTLSAddr, GetTLSAddrAgain, Elsewhere, tlsVars
<1>2. ASSUME NEW t \in Threads, ThreadStart(t) \/ ThreadExit(t), UNCHANGED loaderVars
      PROVE  Elsewhere
  BY <1>2 DEF ThreadStart, ThreadExit, Elsewhere
<1> QED BY <1>1, <1>2, ClassOf DEF Next
-----------------------------------------------------------------------------
(* Type correctness *)

\* What an element of a sequence, and the last one, is
LEMMA LastOf ==
    ASSUME NEW S, NEW s \in Seq(S), s # <<>>
    PROVE  Len(s) \in DOMAIN s /\ Last(s) = s[Len(s)] /\ Last(s) \in S
<1>1. Len(s) \in Nat \ {0} /\ DOMAIN s = 1 .. Len(s)
  BY EmptySeq, LenProperties, SMT
<1>2. s[Len(s)] \in S
  BY <1>1, ElementOfSeq, SMT
<1> QED BY <1>1, <1>2 DEF Last

LEMMA AppendType ==
    ASSUME NEW S, NEW s \in Seq(S), NEW e \in S
    PROVE  /\ Append(s, e) \in Seq(S)
           /\ Len(Append(s, e)) = Len(s) + 1 /\ DOMAIN s = 1 .. Len(s)
           /\ DOMAIN Append(s, e) = 1 .. Len(s) + 1
           /\ \A i \in 1 .. Len(s) : Append(s, e)[i] = s[i]
           /\ Append(s, e)[Len(s) + 1] = e
           /\ Append(s, e) # <<>> /\ Last(Append(s, e)) = e
<1> DEFINE q == Append(s, e)
<1>1. /\ q \in Seq(S) /\ Len(q) = Len(s) + 1 /\ Len(s) \in Nat /\ DOMAIN s = 1 .. Len(s)
      /\ \A i \in 1 .. Len(s) : q[i] = s[i]
      /\ q[Len(s) + 1] = e
  BY AppendProperties, LenProperties, SMT
<1>2. DOMAIN q = 1 .. Len(q) /\ q # <<>>
  <2> HIDE DEF q
  <2> QED BY <1>1, LenProperties, EmptySeq, SMT
<1>3. Last(q) = e
  <2> HIDE DEF q
  <2> QED BY <1>1, <1>2, LastOf
<1> QED BY <1>1, <1>2, <1>3

\* The template a module ID leads to, and a block filled from it
LEMMA AllocateBlockType ==
    ASSUME TlsTypeOK, NEW r \in Regions, NEW id \in DOMAIN modules,
           NEW kind \in {"block", "static"}, NEW t \in Threads \cup {None},
           AllocateBlock(r, id, kind, t)
    PROVE  mem' \in [Regions -> Mapping]
<1>1. modules[id] \in Regions \cup {None}
  BY ElementOfSeq, LenProperties, SMT DEF TlsTypeOK
<1>2. ImageAt(modules[id]) \in Objects \cup {None}
  BY <1>1 DEF ImageAt, TlsTypeOK, Mapping
<1>3. [kind |-> kind, of |-> ImageAt(modules[id]), by |-> t] \in Mapping
  BY <1>2 DEF Mapping
<1> QED BY <1>3 DEF AllocateBlock, Put, TlsTypeOK

LEMMA FreeType == Free \in Mapping
BY DEF Free, Mapping

LEMMA GetTLSAddrType ==
    ASSUME TlsTypeOK, NEW t \in Threads, NEW id, GetTLSAddr(t, id)
    PROVE  TlsTypeOK'
<1>1. PICK r \in Regions :
        AllocateBlock(r, id, "block", t) /\ blocks' = [blocks EXCEPT ![tid[t]][id] = r]
  BY DEF GetTLSAddr
<1>2. mem' \in [Regions -> Mapping]
  BY <1>1, AllocateBlockType DEF GetTLSAddr
<1>3. blocks' \in [Tids -> [ModuleIDs -> Regions \cup {None}]]
  BY <1>1 DEF TlsTypeOK
<1> QED BY <1>2, <1>3 DEF GetTLSAddr, TlsTypeOK

LEMMA ThreadType ==
    ASSUME TlsTypeOK, NEW t \in Threads, ThreadStart(t) \/ ThreadExit(t)
    PROVE  TlsTypeOK'
<1>1. CASE ThreadStart(t)
  BY <1>1 DEF ThreadStart, TlsTypeOK
<1>2. CASE ThreadExit(t)
  <2>1. CASE UNCHANGED <<mem, blocks>>
    BY <1>2, <2>1 DEF ThreadExit, TlsTypeOK
  <2>2. CASE CleanupThread(tid[t])
    <3>1. mem' \in [Regions -> Mapping]
      BY <2>2, FreeType DEF CleanupThread, TlsTypeOK
    <3>2. blocks' \in [Tids -> [ModuleIDs -> Regions \cup {None}]]
      BY <2>2 DEF CleanupThread, Forgotten, TlsTypeOK
    <3> QED BY <1>2, <3>1, <3>2 DEF ThreadExit, TlsTypeOK
  <2> QED BY <1>2, <2>1, <2>2 DEF ThreadExit, AtExit
<1> QED BY <1>1, <1>2

\* A patch that fits the relocation that is next keeps the type of `patched`
LEMMA WroteType ==
    ASSUME TypeOK, NEW o \in Objects, NEW kinds, Pending(o, kinds),
           NEW mod \in Nat, NEW page \in Regions \cup {None}, NEW slot \in Nat,
           Wrote(o, mod, page, slot)
    PROVE  /\ Current(o).kind \in Kinds \cap kinds /\ Current(o).sym \in Syms \cup {None}
           /\ patched' \in [Objects -> Seq(Patch)]
           /\ \A p \in Objects \ {o} : patched'[p] = patched[p]
           /\ patched'[o] = Append(patched[o], [kind |-> Current(o).kind, sym |-> Current(o).sym,
                                               mod |-> mod, page |-> page, slot |-> slot])
           /\ [kind |-> Current(o).kind, sym |-> Current(o).sym,
               mod |-> mod, page |-> page, slot |-> slot] \in Patch
<1>1. /\ Len(patched[o]) \in Nat /\ patched[o] \in Seq(Patch)
      /\ File[o].relocs \in Seq([kind : Kinds, sym : Syms \cup {None}, addend : Nat])
  BY LenProperties DEF TypeOK, FileType, LoaderAssumption
<1>2. Len(File[o].relocs) \in Nat /\ Len(patched[o]) + 1 \in 1 .. Len(File[o].relocs)
  BY <1>1, LenProperties, SMT DEF Pending
<1>3. Current(o) \in [kind : Kinds, sym : Syms \cup {None}, addend : Nat]
  BY <1>1, <1>2, ElementOfSeq DEF Current
<1> DEFINE e == [kind |-> Current(o).kind, sym |-> Current(o).sym,
                 mod |-> mod, page |-> page, slot |-> slot]
<1>4. e \in Patch
  BY <1>3 DEF Patch
<1>5. patched' = [patched EXCEPT ![o] = Append(@, e)]
  BY DEF Wrote
<1>6. Append(patched[o], e) \in Seq(Patch)
  BY <1>1, <1>4, AppendType
<1> HIDE DEF e
<1>7. patched' \in [Objects -> Seq(Patch)] /\ patched'[o] = Append(patched[o], e)
      /\ \A p \in Objects \ {o} : patched'[p] = patched[p]
  BY <1>5, <1>6 DEF TypeOK
<1> QED BY <1>3, <1>4, <1>7 DEF Pending, e

\* Pages of PagePairs entries: entry n of fewer than L pages' worth is on one of the L
LEMMA PageBound ==
    ASSUME NEW n \in Nat, NEW L \in Nat, NEW P \in Nat \ {0}, n < L * P
    PROVE  n \div P \in 0 .. L - 1 /\ n % P \in 0 .. P - 1 /\ n = P * (n \div P) + (n % P)
<1> DEFINE q == n \div P
           r == n % P
<1>1. q \in Int /\ r \in 0 .. P - 1 /\ n = P * q + r
  BY SMT
<1> HIDE DEF q, r
<1>2. q >= 0
  <2> SUFFICES ASSUME q <= -1 PROVE FALSE
    BY <1>1
  <2>1. P * q <= P * (-1)
    BY <1>1, SMT
  <2> QED BY <1>1, <2>1, SMT
<1>3. q <= L - 1
  <2> SUFFICES ASSUME q >= L PROVE FALSE
    BY <1>1
  <2>1. P * q >= P * L
    BY <1>1, SMT
  <2>2. P * L = L * P
    BY SMT
  <2> QED BY <1>1, <2>1, <2>2, SMT
<1> QED BY <1>1, <1>2, <1>3 DEF q, r

\* The key of an entry, and what allocating one does to the lists of entries and pages
LEMMA AllocateGotEntryFacts ==
    ASSUME TypeOK, GotInv, NEW o \in Objects, AllocateGotEntry(o)
    PROVE  /\ GotKey(o) \in Keys
           /\ got' \in [Objects -> Seq(Keys)]
           /\ got'[o] = Append(got[o], GotKey(o))
           /\ Len(got[o]) \in Nat /\ Len(got'[o]) = Len(got[o]) + 1
           /\ \A p \in Objects \ {o} : got'[p] = got[p] /\ pages'[p] = pages[p]
           /\ pages' \in [Objects -> Seq(Regions)]
           /\ \/ mem' = mem /\ pages' = pages
              \/ \E r \in Regions :
                    Unused(r) /\ Put(r, "got", o, None) /\ pages'[o] = Append(pages[o], r)
           /\ Len(got'[o]) <= Len(pages'[o]) * PagePairs
           /\ Len(pages'[o]) \in Nat /\ DOMAIN pages'[o] = 1 .. Len(pages'[o])
           /\ PageIndex(Len(got[o])) + 1 \in DOMAIN pages'[o]
           /\ pages'[o][PageIndex(Len(got[o])) + 1] \in Regions
           /\ Len(got[o]) % PagePairs \in 0 .. PagePairs - 1
           /\ Wrote(o, module[o], pages'[o][PageIndex(Len(got[o])) + 1],
                    Len(got[o]) % PagePairs)
<1>1. /\ Len(patched[o]) \in Nat
      /\ File[o].relocs \in Seq([kind : Kinds, sym : Syms \cup {None}, addend : Nat])
  BY LenProperties DEF TypeOK, FileType, LoaderAssumption
<1>2. Len(File[o].relocs) \in Nat /\ Len(patched[o]) + 1 \in 1 .. Len(File[o].relocs)
  BY <1>1, LenProperties, SMT DEF AllocateGotEntry, Pending
<1>3. Current(o) \in [kind : Kinds, sym : Syms \cup {None}, addend : Nat]
  BY <1>1, <1>2, ElementOfSeq DEF Current
<1>4. GotKey(o) \in Keys
  BY <1>3 DEF GotKey, Keys
<1>5. /\ got[o] \in Seq(Keys) /\ Len(got[o]) \in Nat
      /\ pages[o] \in Seq(Regions) /\ Len(pages[o]) \in Nat
  BY LenProperties DEF TypeOK
<1>6. got' = [got EXCEPT ![o] = Append(got[o], GotKey(o))]
  BY DEF AllocateGotEntry
<1>7. /\ Append(got[o], GotKey(o)) \in Seq(Keys)
      /\ Len(Append(got[o], GotKey(o))) = Len(got[o]) + 1
  BY <1>4, <1>5, AppendType
<1>8. /\ got'[o] = Append(got[o], GotKey(o)) /\ Len(got'[o]) = Len(got[o]) + 1
      /\ got' \in [Objects -> Seq(Keys)]
      /\ \A p \in Objects \ {o} : got'[p] = got[p]
  BY <1>6, <1>7 DEF TypeOK
<1>9. Len(got[o]) <= Len(pages[o]) * PagePairs
  BY DEF GotInv
<1>10. /\ pages' \in [Objects -> Seq(Regions)]
       /\ \A p \in Objects \ {o} : pages'[p] = pages[p]
       /\ \/ mem' = mem /\ pages' = pages
          \/ \E r \in Regions :
                Unused(r) /\ Put(r, "got", o, None) /\ pages'[o] = Append(pages[o], r)
       /\ Len(got[o]) + 1 <= Len(pages'[o]) * PagePairs
  <2>1. CASE Len(got[o]) + 1 > Len(pages[o]) * PagePairs
    <3>1. PICK r \in Regions :
            /\ Unused(r) /\ Put(r, "got", o, None)
            /\ pages' = [pages EXCEPT ![o] = Append(pages[o], r)]
      BY <2>1 DEF AllocateGotEntry
    <3>2. Append(pages[o], r) \in Seq(Regions) /\ Len(Append(pages[o], r)) = Len(pages[o]) + 1
      BY <1>5, AppendType
    <3>3. /\ pages' \in [Objects -> Seq(Regions)] /\ pages'[o] = Append(pages[o], r)
          /\ \A p \in Objects \ {o} : pages'[p] = pages[p]
      BY <3>1, <3>2 DEF TypeOK
    <3>4. (Len(pages[o]) + 1) * PagePairs = Len(pages[o]) * PagePairs + PagePairs
      BY <1>5, SMT DEF LoaderAssumption
    <3>5. Len(pages[o]) * PagePairs \in Nat
      BY <1>5, SMT DEF LoaderAssumption
    <3>6. Len(got[o]) + 1 <= Len(pages'[o]) * PagePairs
      BY <1>5, <1>9, <3>2, <3>3, <3>4, <3>5, SMT DEF LoaderAssumption
    <3> QED BY <3>1, <3>3, <3>6
  <2>2. CASE ~ (Len(got[o]) + 1 > Len(pages[o]) * PagePairs)
    <3>1. mem' = mem /\ pages' = pages
      BY <2>2 DEF AllocateGotEntry
    <3>2. Len(pages[o]) * PagePairs \in Nat
      BY <1>5, SMT DEF LoaderAssumption
    <3>3. Len(got[o]) + 1 <= Len(pages[o]) * PagePairs
      BY <1>5, <2>2, <3>2, SMT
    <3> QED BY <3>1, <3>3 DEF TypeOK
  <2> QED BY <2>1, <2>2
<1>11. /\ pages'[o] \in Seq(Regions) /\ Len(pages'[o]) \in Nat
       /\ DOMAIN pages'[o] = 1 .. Len(pages'[o])
  BY <1>10, LenProperties
<1>12. /\ PageIndex(Len(got[o])) \in 0 .. Len(pages'[o]) - 1
       /\ Len(got[o]) % PagePairs \in 0 .. PagePairs - 1
  <2>1. Len(pages'[o]) * PagePairs \in Nat
    BY <1>11, SMT DEF LoaderAssumption
  <2>2. Len(got[o]) < Len(pages'[o]) * PagePairs
    BY <1>5, <1>10, <2>1, SMT
  <2> QED BY <1>5, <1>11, <2>2, PageBound DEF PageIndex, LoaderAssumption
<1>13. PageIndex(Len(got[o])) + 1 \in 1 .. Len(pages'[o])
  BY <1>11, <1>12, SMT
<1>14. pages'[o][PageIndex(Len(got[o])) + 1] \in Regions
  BY <1>11, <1>13, ElementOfSeq
<1>15. Wrote(o, module[o], pages'[o][PageIndex(Len(got[o])) + 1], Len(got[o]) % PagePairs)
  BY DEF AllocateGotEntry
<1> QED BY <1>4, <1>5, <1>8, <1>10, <1>11, <1>12, <1>13, <1>14, <1>15, Zenon

\* What a relocation writes into a pair
LEMMA NewPairType ==
    ASSUME TypeOK, NEW o \in Objects, NEW kinds, Pending(o, kinds)
    PROVE  NewPair(o) \in Pair
<1>1. /\ Len(patched[o]) \in Nat
      /\ File[o].relocs \in Seq([kind : Kinds, sym : Syms \cup {None}, addend : Nat])
  BY LenProperties DEF TypeOK, FileType, LoaderAssumption
<1>2. Len(File[o].relocs) \in Nat /\ Len(patched[o]) + 1 \in 1 .. Len(File[o].relocs)
  BY <1>1, LenProperties, SMT DEF Pending
<1>3. Current(o) \in [kind : Kinds, sym : Syms \cup {None}, addend : Nat]
  BY <1>1, <1>2, ElementOfSeq DEF Current
<1> QED BY <1>3 DEF NewPair, Pair, TypeOK

\* A store into a pair
LEMMA StoreFacts ==
    ASSUME TypeOK, NEW o \in Objects, NEW e \in DOMAIN pairs[o], NEW x \in Pair,
           pairs' = [pairs EXCEPT ![o][e] = x]
    PROVE  /\ pairs' \in [Objects -> Seq(Pair)]
           /\ \A p \in Objects : Len(pairs'[p]) = Len(pairs[p])
           /\ \A p \in Objects \ {o} : pairs'[p] = pairs[p]
           /\ DOMAIN pairs[o] = 1 .. Len(pairs[o])
           /\ \A k \in DOMAIN pairs[o] : pairs'[o][k] = IF k = e THEN x ELSE pairs[o][k]
<1>1. pairs[o] \in Seq(Pair) /\ DOMAIN pairs[o] = 1 .. Len(pairs[o])
  BY LenProperties DEF TypeOK
<1> DEFINE q == [pairs[o] EXCEPT ![e] = x]
<1>2. /\ q \in Seq(Pair) /\ Len(q) = Len(pairs[o])
      /\ \A k \in 1 .. Len(pairs[o]) : q[k] = IF k = e THEN x ELSE pairs[o][k]
  BY <1>1, ExceptSeq
<1>3. pairs' = [pairs EXCEPT ![o] = q]
  OBVIOUS
<1> HIDE DEF q
<1> QED BY <1>1, <1>2, <1>3 DEF TypeOK

\* Every entry stays a pair, whatever relocation is done
LEMMA PairsStep ==
    ASSUME TypeOK, GotInv, NEW o \in Objects, Writes(o)
    PROVE  /\ pairs' \in [Objects -> Seq(Pair)]
           /\ \A p \in Objects : Len(pairs'[p]) = Len(got'[p])
<1>1. \A p \in Objects : Len(pairs[p]) = Len(got[p])
  BY DEF GotInv
<1>2. CASE ApplySymbol(o) \/ ApplyDTPMod(o) \/ ResolveTPOff(o)
  BY <1>1, <1>2 DEF ApplySymbol, ApplyDTPMod, ResolveTPOff, TypeOK
<1>3. CASE ReuseGotEntry(o)
  <2>1. got' = got /\ NewPair(o) \in Pair
    BY <1>3, NewPairType DEF ReuseGotEntry
  <2>2. CASE pairs' = pairs
    BY <1>1, <2>1, <2>2 DEF TypeOK
  <2>3. CASE \E p \in Objects : \E e \in DOMAIN pairs[p] :
                pairs' = [pairs EXCEPT ![p][e] = NewPair(o)]
    <3>1. PICK p \in Objects : \E e \in DOMAIN pairs[p] :
                pairs' = [pairs EXCEPT ![p][e] = NewPair(o)]
      BY <2>3
    <3>2. PICK e \in DOMAIN pairs[p] : pairs' = [pairs EXCEPT ![p][e] = NewPair(o)]
      BY <3>1
    <3>3. /\ pairs' \in [Objects -> Seq(Pair)]
          /\ \A q \in Objects : Len(pairs'[q]) = Len(pairs[q])
      BY <2>1, <3>2, StoreFacts
    <3> QED BY <1>1, <2>1, <3>3
  <2>4. \A i \in DOMAIN got[o] : i \in DOMAIN pairs[o]
    <3>1. DOMAIN got[o] = 1 .. Len(got[o]) /\ DOMAIN pairs[o] = 1 .. Len(pairs[o])
      BY LenProperties DEF TypeOK
    <3> QED BY <1>1, <3>1
  <2>5. \/ pairs' = pairs
        \/ \E p \in Objects : \E e \in DOMAIN pairs[p] :
                pairs' = [pairs EXCEPT ![p][e] = NewPair(o)]
    BY <1>3, <2>4 DEF ReuseGotEntry, StoreAstray
  <2> QED BY <2>2, <2>3, <2>5
<1>4. CASE AllocateGotEntry(o)
  <2>1. /\ pairs' = [pairs EXCEPT ![o] = Append(pairs[o], NewPair(o))]
        /\ NewPair(o) \in Pair
    BY <1>4, NewPairType DEF AllocateGotEntry
  <2>2. /\ Append(pairs[o], NewPair(o)) \in Seq(Pair)
        /\ Len(Append(pairs[o], NewPair(o))) = Len(pairs[o]) + 1
    BY <2>1, AppendType DEF TypeOK
  <2>3. /\ Len(got'[o]) = Len(got[o]) + 1
        /\ \A p \in Objects \ {o} : got'[p] = got[p]
    BY <1>4, AllocateGotEntryFacts
  <2> QED BY <1>1, <2>1, <2>2, <2>3 DEF TypeOK
<1> QED BY <1>2, <1>3, <1>4 DEF Writes

\* What the other relocations write
LEMMA WritesFacts ==
    ASSUME TypeOK, GotInv, NEW o \in Objects, Writes(o)
    PROVE  /\ UNCHANGED <<modules, nextID, blocks, tid, exited, base, module>>
           /\ phase[o] = "reloc"
           /\ mem' \in [Regions -> Mapping]
           /\ phase' \in [Objects -> Phases]
           /\ \A p \in Objects \ {o} :
                phase'[p] = phase[p] /\ got'[p] = got[p] /\ pages'[p] = pages[p]
           /\ got' \in [Objects -> Seq(Keys)]
           /\ pages' \in [Objects -> Seq(Regions)]
           /\ Len(got'[o]) <= Len(pages'[o]) * PagePairs
           /\ \E mod \in Nat, page \in Regions \cup {None}, slot \in Nat :
                /\ Wrote(o, mod, page, slot)
                /\ Pending(o, Kinds)
                /\ Current(o).kind \in {"mod", "gd", "ld"} => mod = module[o] /\ mod # 0
                /\ \/ phase'[o] = "reloc"
                   \/ /\ phase'[o] = "block" /\ mod # 0
                      /\ \/ mod = module[o]
                         \/ \E p \in Objects : mod = module[p]
<1> DEFINE Post(mod, page, slot) ==
                /\ Wrote(o, mod, page, slot)
                /\ Pending(o, Kinds)
                /\ Current(o).kind \in {"mod", "gd", "ld"} => mod = module[o] /\ mod # 0
                /\ \/ phase'[o] = "reloc"
                   \/ /\ phase'[o] = "block" /\ mod # 0
                      /\ \/ mod = module[o]
                         \/ \E p \in Objects : mod = module[p]
           Same == /\ mem' = mem /\ got' = got /\ pages' = pages
                   /\ UNCHANGED <<modules, nextID, blocks, tid, exited, base, module>>
<1>a. /\ module[o] \in Nat /\ 0 \in Nat /\ None \in Regions \cup {None}
      /\ mem \in [Regions -> Mapping] /\ phase \in [Objects -> Phases]
      /\ got \in [Objects -> Seq(Keys)] /\ pages \in [Objects -> Seq(Regions)]
      /\ Len(got[o]) <= Len(pages[o]) * PagePairs
  BY DEF TypeOK, TlsTypeOK, GotInv
<1>1. CASE ApplySymbol(o)
  <2>1. phase[o] = "reloc" /\ Same /\ phase' = phase /\ Post(0, None, 0)
    BY <1>1 DEF ApplySymbol, Pending, Kinds, tlsVars
  <2> QED BY <1>a, <2>1
<1>2. CASE ApplyDTPMod(o)
  <2>1. phase[o] = "reloc" /\ Same /\ phase' = phase /\ Post(module[o], None, 0)
    BY <1>2 DEF ApplyDTPMod, Pending, Kinds, tlsVars
  <2> QED BY <1>a, <2>1
<1>3. CASE ReuseGotEntry(o)
  <2>1. PICK i \in DOMAIN got[o] : Wrote(o, module[o], pages[o][1], i - 1)
    BY <1>3 DEF ReuseGotEntry
  <2>2. phase[o] = "reloc" /\ Same /\ phase' = phase /\ Post(module[o], pages[o][1], i - 1)
    BY <1>3, <2>1 DEF ReuseGotEntry, Pending, Kinds, tlsVars
  <2>3. got[o] \in Seq(Keys) /\ pages[o] \in Seq(Regions)
    BY <1>a
  <2>4. /\ Len(got[o]) \in Nat /\ DOMAIN got[o] = 1 .. Len(got[o])
        /\ Len(pages[o]) \in Nat /\ DOMAIN pages[o] = 1 .. Len(pages[o])
    BY <2>3, LenProperties
  <2>5. i - 1 \in Nat /\ Len(pages[o]) # 0
    BY <1>a, <2>4, SMT DEF LoaderAssumption
  <2>6. 1 \in 1 .. Len(pages[o])
    BY <2>4, <2>5, SMT
  <2>7. pages[o][1] \in Regions \cup {None}
    BY <2>3, <2>6, ElementOfSeq
  <2>8. \E mod \in Nat, page \in Regions \cup {None}, slot \in Nat : Post(mod, page, slot)
    BY <1>a, <2>2, <2>5, <2>7
  <2> QED BY <1>a, <2>2, <2>8
<1>4. CASE AllocateGotEntry(o)
  <2> DEFINE page == pages'[o][PageIndex(Len(got[o])) + 1]
             slot == Len(got[o]) % PagePairs
  <2>1. /\ Wrote(o, module[o], page, slot) /\ page \in Regions /\ slot \in 0 .. PagePairs - 1
        /\ got' \in [Objects -> Seq(Keys)]
        /\ pages' \in [Objects -> Seq(Regions)]
        /\ \A p \in Objects \ {o} : got'[p] = got[p] /\ pages'[p] = pages[p]
        /\ Len(got'[o]) <= Len(pages'[o]) * PagePairs
        /\ \/ mem' = mem
           \/ \E r \in Regions : Put(r, "got", o, None)
    BY <1>4, AllocateGotEntryFacts
  <2>2. mem' \in [Regions -> Mapping]
    <3>1. [kind |-> "got", of |-> o, by |-> None] \in Mapping
      BY DEF Mapping
    <3> QED BY <1>a, <2>1, <3>1 DEF Put
  <2>3. slot \in Nat
    <3> HIDE DEF slot
    <3> QED BY <2>1, SMT DEF LoaderAssumption
  <2> HIDE DEF page, slot
  <2>4. /\ phase[o] = "reloc" /\ phase' = phase /\ Post(module[o], page, slot)
        /\ UNCHANGED <<modules, nextID, blocks, tid, exited, base, module>>
    BY <1>4, <2>1 DEF AllocateGotEntry, Pending, Kinds
  <2>5. \E m \in Nat, g \in Regions \cup {None}, s \in Nat : Post(m, g, s)
    BY <1>a, <2>1, <2>3, <2>4
  <2> QED BY <1>a, <2>1, <2>2, <2>4, <2>5
<1>5. CASE ResolveTPOff(o)
  <2>1. PICK m \in TPModules(o) :
          Wrote(o, m, None, 0) /\ IF m = 0 THEN UNCHANGED phase ELSE Goto(o, "block")
    BY <1>5 DEF ResolveTPOff
  <2>2. \/ m = 0
        \/ m = module[o]
        \/ \E p \in Objects : m = module[p]
    BY Zenon DEF TPModules, Providers
  <2>3. m \in Nat
    BY <1>a, <2>2 DEF TypeOK
  <2>4. /\ phase[o] = "reloc" /\ Same
        /\ Pending(o, Kinds) /\ Current(o).kind \notin {"mod", "gd", "ld"}
    BY <1>5 DEF ResolveTPOff, Pending, Kinds, tlsVars
  <2>5. /\ phase' \in [Objects -> Phases]
        /\ \A p \in Objects \ {o} : phase'[p] = phase[p]
        /\ \/ phase'[o] = "reloc"
           \/ m # 0 /\ phase'[o] = "block"
    BY <1>a, <2>1, <2>4 DEF Goto, Phases
  <2>6. Post(m, None, 0)
    BY <2>1, <2>2, <2>4, <2>5
  <2> QED BY <1>a, <2>3, <2>4, <2>5, <2>6
<1> QED BY <1>1, <1>2, <1>3, <1>4, <1>5 DEF Writes

\* Every action keeps the types
LEMMA StepType ==
    ASSUME BookInv, Next
    PROVE  TypeOK'
<1>1. ASSUME NEW o \in Objects, Load(o) \/ Unload(o)
      PROVE  TypeOK'
  <2>1. CASE Reserve(o)
    <3>1. PICK r \in Regions : Put(r, "image", o, None) /\ base' = [base EXCEPT ![o] = r]
      BY <2>1 DEF Reserve
    <3>2. [kind |-> "image", of |-> o, by |-> None] \in Mapping
      BY DEF Mapping
    <3>3. mem' \in [Regions -> Mapping]
      BY <3>1, <3>2 DEF Put, BookInv, TypeOK, TlsTypeOK
    <3> QED BY <2>1, <3>1, <3>3 DEF Reserve, Goto, Phases, BookInv, TypeOK, TlsTypeOK
  <2>2. CASE Populate(o)
    <3>1. CASE File[o].tls
      <4>1. /\ modules' = Append(modules, base[o]) /\ nextID' = nextID + 1
            /\ module' = [module EXCEPT ![o] = nextID] /\ ~ (nextID >= MaxModuleID)
        BY <2>2, <3>1 DEF Populate, RegisterModule, Full
      <4>2. modules' \in Seq(Regions \cup {None})
        <5>1. modules \in Seq(Regions \cup {None}) /\ base[o] \in Regions \cup {None}
          BY DEF BookInv, TypeOK, TlsTypeOK
        <5> QED BY <4>1, <5>1, AppendType
      <4>3. nextID \in Nat /\ nextID' \in 1 .. MaxModuleID
        BY <4>1, SMT DEF BookInv, TypeOK, TlsTypeOK, TlsAssumption
      <4>4. module' \in [Objects -> Nat]
        BY <4>1, <4>3 DEF BookInv, TypeOK
      <4> QED BY <2>2, <4>2, <4>3, <4>4 DEF Populate, Goto, Phases, BookInv, TypeOK, TlsTypeOK
    <3>2. CASE ~ File[o].tls
      BY <2>2, <3>2 DEF Populate, Goto, Phases, BookInv, TypeOK, TlsTypeOK
    <3> QED BY <3>1, <3>2
  <2>3. CASE Writes(o)
    <3>1. PICK mod \in Nat, page \in Regions \cup {None}, slot \in Nat :
            Wrote(o, mod, page, slot) /\ Pending(o, Kinds)
      BY <2>3, WritesFacts DEF BookInv
    <3>2. patched' \in [Objects -> Seq(Patch)]
      BY <3>1, WroteType DEF BookInv
    <3>3. pairs' \in [Objects -> Seq(Pair)]
      BY <2>3, PairsStep DEF BookInv
    <3>4. /\ UNCHANGED <<modules, nextID, blocks, tid, exited, base, module>>
          /\ mem' \in [Regions -> Mapping] /\ phase' \in [Objects -> Phases]
          /\ got' \in [Objects -> Seq(Keys)] /\ pages' \in [Objects -> Seq(Regions)]
      BY <2>3, WritesFacts DEF BookInv
    <3>5. TlsTypeOK'
      BY <3>4 DEF BookInv, TypeOK, TlsTypeOK
    <3> QED BY <3>2, <3>3, <3>4, <3>5 DEF BookInv, TypeOK
  <2>4. CASE ReserveFails(o) \/ RunConstructors(o) \/ Loaded(o) \/ RunFini(o)
    <3>1. UNCHANGED <<tlsVars, base, module, got, pairs, pages, patched>>
      BY <2>4 DEF ReserveFails, RunConstructors, Loaded, RunFini
    <3>2. \E p \in Phases : Goto(o, p)
      BY <2>4 DEF ReserveFails, RunConstructors, Loaded, RunFini, Phases
    <3>3. phase' \in [Objects -> Phases]
      BY <3>2 DEF Goto, BookInv, TypeOK
    <3>4. TlsTypeOK'
      BY <3>1 DEF tlsVars, BookInv, TypeOK, TlsTypeOK
    <3> QED BY <3>1, <3>3, <3>4 DEF BookInv, TypeOK
  <2>5. CASE Fail(o)
    <3>1. mem' \in [Regions -> Mapping]
      BY <2>5, FreeType DEF Fail, DropImage, BookInv, TypeOK, TlsTypeOK
    <3> QED BY <2>5, <3>1 DEF Fail, Goto, Phases, BookInv, TypeOK, TlsTypeOK
  <2>6. CASE AllocateTPBlock(o)
    <3>1. Last(patched[o]).mod \in DOMAIN modules
      BY <2>6 DEF AllocateTPBlock, BookInv, PatchesInv
    <3>2. mem' \in [Regions -> Mapping]
      BY <2>6, <3>1, AllocateBlockType DEF AllocateTPBlock, BookInv, TypeOK
    <3> QED BY <2>6, <3>2 DEF AllocateTPBlock, Goto, Phases, BookInv, TypeOK, TlsTypeOK
  <2>7. CASE UnmapGotPages(o) \/ UnmapGotFails(o)
    <3>1. mem' \in [Regions -> Mapping]
      BY <2>7, FreeType DEF UnmapGotPages, UnmapGotFails, BookInv, TypeOK, TlsTypeOK
    <3>2. /\ UNCHANGED <<modules, nextID, blocks, tid, exited, base, module, got, pairs, pages, patched>>
          /\ Goto(o, "unmap") \/ Goto(o, "stuck")
      BY <2>7 DEF UnmapGotPages, UnmapGotFails
    <3>3. phase' \in [Objects -> Phases]
      BY <3>2 DEF Goto, Phases, BookInv, TypeOK
    <3>4. TlsTypeOK'
      BY <3>1, <3>2 DEF BookInv, TypeOK, TlsTypeOK
    <3> QED BY <3>2, <3>3, <3>4 DEF BookInv, TypeOK
  <2>8. CASE UnmapImage(o)
    <3>1. mem' \in [Regions -> Mapping]
      BY <2>8, FreeType DEF UnmapImage, BookInv, TypeOK, TlsTypeOK
    <3>2. /\ UNCHANGED <<modules, nextID, blocks, tid, exited, base, module, got, pairs, pages, patched>>
          /\ Goto(o, "gone") \/ Goto(o, "stuck")
      BY <2>8 DEF UnmapImage
    <3>3. phase' \in [Objects -> Phases]
      BY <3>2 DEF Goto, Phases, BookInv, TypeOK
    <3>4. TlsTypeOK'
      BY <3>1, <3>2 DEF BookInv, TypeOK, TlsTypeOK
    <3> QED BY <3>2, <3>3, <3>4 DEF BookInv, TypeOK
  <2>9. CASE PopulateFails(o) \/ RegisterRefused(o) \/ UndefinedSymbol(o)
             \/ NoTLSSegment(o) \/ GotPageFails(o) \/ TPBlockFails(o)
    BY <2>5, <2>9 DEF PopulateFails, RegisterRefused, UndefinedSymbol, NoTLSSegment,
       GotPageFails, TPBlockFails
  <2> QED BY <1>1, <2>1, <2>2, <2>3, <2>4, <2>6, <2>7, <2>8, <2>9, Zenon
          DEF Load, Unload, Writes
<1>2. ASSUME NEW t \in Threads, NEW o \in Objects, TLSAccess(t, o)
      PROVE  TypeOK'
  <2>1. TlsTypeOK'
    <3>1. PICK id : GetTLSAddr(t, id) \/ GetTLSAddrAgain(t, id)
      BY <1>2 DEF TLSAccess
    <3>2. CASE GetTLSAddrAgain(t, id)
      BY <3>2 DEF GetTLSAddrAgain, tlsVars, BookInv, TypeOK, TlsTypeOK
    <3> QED BY <3>1, <3>2, GetTLSAddrType DEF BookInv, TypeOK
  <2> QED BY <1>2, <2>1 DEF TLSAccess, loaderVars, BookInv, TypeOK
<1>3. ASSUME NEW t \in Threads, ThreadStart(t) \/ ThreadExit(t), UNCHANGED loaderVars
      PROVE  TypeOK'
  BY <1>3, ThreadType DEF loaderVars, BookInv, TypeOK
<1> QED BY <1>1, <1>2, <1>3 DEF Next
-----------------------------------------------------------------------------
(* The books are kept *)

LEMMA MovesFacts ==
    ASSUME TypeOK, NEW o \in Objects, Moves(o)
    PROVE  /\ \A p \in Objects \ {o} : phase'[p] = phase[p]
           /\ <<phase[o], phase'[o]>> \in Advances
           /\ modules' = modules /\ nextID' = nextID /\ base' = base /\ module' = module
           /\ got' = got /\ pairs' = pairs /\ pages' = pages /\ patched' = patched
BY DEF Moves, Books, Goto, TypeOK

LEMMA ModulesStep ==
    ASSUME BookInv, TypeOK', Next
    PROVE  ModulesInv'
<1> USE DEF BookInv
<1>1. ASSUME NEW o \in Objects, Reserve(o)
      PROVE  ModulesInv'
  <2>1. phase[o] = "none" /\ module[o] = 0 /\ phase' = [phase EXCEPT ![o] = "mapped"]
        /\ UNCHANGED <<modules, nextID, module>> /\ \E r : base' = [base EXCEPT ![o] = r]
    BY <1>1 DEF Reserve, Goto, ModulesInv
  <2> QED BY <2>1 DEF ModulesInv, HasPages, TypeOK
<1>2. ASSUME NEW o \in Objects, Populate(o)
      PROVE  ModulesInv'
  <2>1. /\ phase[o] = "mapped" /\ module[o] = 0 /\ phase' = [phase EXCEPT ![o] = "reloc"]
        /\ base' = base
    BY <1>2 DEF Populate, Goto, ModulesInv
  <2>2. CASE File[o].tls
    <3>1. /\ modules' = Append(modules, base[o]) /\ nextID' = nextID + 1
          /\ module' = [module EXCEPT ![o] = nextID]
      BY <1>2, <2>2 DEF Populate, RegisterModule
    <3>2. modules \in Seq(Regions \cup {None}) /\ base[o] \in Regions \cup {None}
      BY DEF TypeOK, TlsTypeOK
    <3>3. /\ nextID = Len(modules) + 1 /\ Len(modules) \in Nat
          /\ Len(modules') = Len(modules) + 1
          /\ DOMAIN modules = 1 .. Len(modules) /\ DOMAIN modules' = 1 .. Len(modules) + 1
          /\ \A i \in 1 .. Len(modules) : modules'[i] = modules[i]
          /\ modules'[nextID] = base[o]
      <4>1. DOMAIN modules' = 1 .. Len(modules) + 1
        BY <3>1, <3>2, AppendType
      <4> QED BY <3>1, <3>2, <4>1, AppendProperties, LenProperties DEF ModulesInv
    <3>4. module'[o] = nextID /\ \A p \in Objects \ {o} : module'[p] = module[p]
      BY <3>1 DEF TypeOK
    <3>5. \A p \in Objects \ {o} : module[p] # nextID
      BY <3>3 DEF ModulesInv
    <3>6. nextID \in DOMAIN modules' /\ nextID # 0
      BY <3>3
    <3>7. nextID' = Len(modules') + 1
      BY <3>1, <3>3
    <3>8. \A p \in Objects : module'[p] # 0 =>
            module'[p] \in DOMAIN modules' /\ modules'[module'[p]] = base'[p]
      BY <2>1, <3>3, <3>4, <3>6 DEF ModulesInv
    <3>9. \A p, q \in Objects : module'[p] = module'[q] /\ module'[p] # 0 => p = q
      BY <3>4, <3>5 DEF ModulesInv
    <3>10. \A p \in Objects : phase'[p] \in {"none", "mapped"} => module'[p] = 0
      BY <2>1, <3>4 DEF ModulesInv, TypeOK
    <3>11. \A p \in Objects : HasPages(p)' /\ File[p].tls => module'[p] # 0
      BY <2>1, <3>4, <3>6 DEF ModulesInv, TypeOK, HasPages
    <3> QED BY <3>7, <3>8, <3>9, <3>10, <3>11 DEF ModulesInv
  <2>3. CASE ~ File[o].tls
    <3>1. UNCHANGED <<modules, nextID, module>>
      BY <1>2, <2>3 DEF Populate
    <3> QED BY <2>1, <2>3, <3>1 DEF ModulesInv, HasPages, TypeOK
  <2> QED BY <2>2, <2>3
<1>3. ASSUME NEW o \in Objects, Writes(o)
      PROVE  ModulesInv'
  <2>1. /\ UNCHANGED <<modules, nextID, base, module>> /\ phase[o] = "reloc"
        /\ phase'[o] \in {"reloc", "block"} /\ \A p \in Objects \ {o} : phase'[p] = phase[p]
    BY <1>3, WritesFacts
  <2> QED BY <2>1 DEF ModulesInv, HasPages
<1>4. ASSUME NEW o \in Objects, Moves(o)
      PROVE  ModulesInv'
  <2>1. /\ \A p \in Objects \ {o} : phase'[p] = phase[p]
        /\ phase'[o] \notin {"none", "mapped"}
        /\ phase'[o] \in {"reloc", "block", "init", "ready", "fini"} =>
             phase[o] \in {"reloc", "block", "init", "ready", "fini"}
        /\ UNCHANGED <<modules, nextID, base, module>>
    BY <1>4, MovesFacts DEF Advances
  <2> QED BY <2>1 DEF ModulesInv, HasPages
<1>5. CASE Elsewhere
  BY <1>5 DEF Elsewhere, loaderVars, ModulesInv, HasPages
<1> QED BY <1>1, <1>2, <1>3, <1>4, <1>5, Classes

LEMMA PatchesStep ==
    ASSUME BookInv, TypeOK', Next
    PROVE  PatchesInv'
<1> USE DEF BookInv
<1>1. ASSUME NEW o \in Objects, Reserve(o)
      PROVE  PatchesInv'
  BY <1>1 DEF Reserve, Goto, PatchesInv, TypeOK
<1>2. ASSUME NEW o \in Objects, Populate(o)
      PROVE  PatchesInv'
  <2>1. /\ phase[o] = "mapped" /\ patched[o] = <<>> /\ patched' = patched
        /\ phase' = [phase EXCEPT ![o] = "reloc"] /\ UNCHANGED patched
    BY <1>2 DEF Populate, Goto, PatchesInv
  <2>2. \A p \in Objects \ {o} : module'[p] = module[p]
    BY <1>2 DEF Populate, TypeOK
  <2>3. \A i \in DOMAIN modules : i \in DOMAIN modules'
    <3>1. modules \in Seq(Regions \cup {None}) /\ base[o] \in Regions \cup {None}
      BY DEF TypeOK, TlsTypeOK
    <3>2. modules' = modules \/ modules' = Append(modules, base[o])
      BY <1>2 DEF Populate, RegisterModule
    <3>3. DOMAIN modules = 1 .. Len(modules) /\ Len(modules) \in Nat
          /\ DOMAIN Append(modules, base[o]) = 1 .. Len(modules) + 1
      BY <3>1, AppendType, LenProperties
    <3> QED BY <3>2, <3>3, SMT
  <2>4. DOMAIN patched[o] = {}
    BY <2>1
  <2> QED BY <2>1, <2>2, <2>3, <2>4 DEF PatchesInv, TypeOK
<1>3. ASSUME NEW o \in Objects, Writes(o)
      PROVE  PatchesInv'
  <2>1. /\ UNCHANGED <<modules, nextID, base, module>> /\ phase[o] = "reloc"
        /\ \A p \in Objects \ {o} : phase'[p] = phase[p]
    BY <1>3, WritesFacts
  <2>2. PICK mod \in Nat, page \in Regions \cup {None}, slot \in Nat :
          /\ Wrote(o, mod, page, slot)
          /\ Pending(o, Kinds)
          /\ Current(o).kind \in {"mod", "gd", "ld"} => mod = module[o] /\ mod # 0
          /\ \/ phase'[o] = "reloc"
             \/ /\ phase'[o] = "block" /\ mod # 0
                /\ \/ mod = module[o]
                   \/ \E p \in Objects : mod = module[p]
    BY <1>3, WritesFacts
  <2> DEFINE e == [kind |-> Current(o).kind, sym |-> Current(o).sym,
                   mod |-> mod, page |-> page, slot |-> slot]
  <2>3. /\ \A p \in Objects \ {o} : patched'[p] = patched[p]
        /\ patched'[o] = Append(patched[o], e) /\ e \in Patch
    BY <2>2, WroteType
  <2>4. e.kind = Current(o).kind /\ e.mod = mod
    OBVIOUS
  <2> HIDE DEF e
  <2>5. /\ patched'[o] # <<>> /\ Last(patched'[o]) = e
        /\ DOMAIN patched'[o] = 1 .. Len(patched[o]) + 1 /\ DOMAIN patched[o] = 1 .. Len(patched[o])
        /\ \A i \in 1 .. Len(patched[o]) : patched'[o][i] = patched[o][i]
        /\ patched'[o][Len(patched[o]) + 1] = e
        /\ Len(patched[o]) \in Nat
    <3>1. patched[o] \in Seq(Patch)
      BY DEF TypeOK
    <3> QED BY <2>3, <3>1, AppendType, LenProperties
  <2>6. \A i \in DOMAIN patched'[o] : patched'[o][i].kind \in {"mod", "gd", "ld"} =>
           patched'[o][i].mod = module[o] /\ module[o] # 0
    <3> SUFFICES ASSUME NEW i \in DOMAIN patched'[o],
                        patched'[o][i].kind \in {"mod", "gd", "ld"}
                 PROVE  patched'[o][i].mod = module[o] /\ module[o] # 0
      OBVIOUS
    <3>1. i \in 1 .. Len(patched[o]) \/ i = Len(patched[o]) + 1
      BY <2>5, SMT
    <3>2. CASE i \in 1 .. Len(patched[o])
      BY <2>5, <3>2 DEF PatchesInv
    <3>3. CASE i = Len(patched[o]) + 1
      <4>1. patched'[o][i] = e
        BY <2>5, <3>3
      <4>2. Current(o).kind \in {"mod", "gd", "ld"}
        BY <2>4, <4>1
      <4> QED BY <2>2, <2>4, <4>1, <4>2
    <3> QED BY <3>1, <3>2, <3>3
  <2>7. phase'[o] = "block" => mod \in DOMAIN modules
    BY <2>2 DEF ModulesInv
  <2>8. phase'[o] \notin {"none", "mapped"}
    BY <2>2
  <2>9. /\ phase'[o] \in {"none", "mapped"} => patched'[o] = <<>>
        /\ \A i \in DOMAIN patched'[o] : patched'[o][i].kind \in {"mod", "gd", "ld"} =>
                patched'[o][i].mod = module'[o] /\ module'[o] # 0
        /\ phase'[o] = "block" =>
                patched'[o] # <<>> /\ Last(patched'[o]).mod \in DOMAIN modules'
    BY <2>1, <2>4, <2>5, <2>6, <2>7, <2>8
  <2>10. \A p \in Objects \ {o} :
           phase'[p] = phase[p] /\ patched'[p] = patched[p] /\ module'[p] = module[p]
    BY <2>1, <2>3
  <2>11. modules' = modules
    BY <2>1
  <2> QED BY <2>9, <2>10, <2>11 DEF PatchesInv
<1>4. ASSUME NEW o \in Objects, Moves(o)
      PROVE  PatchesInv'
  BY <1>4, MovesFacts DEF Advances, PatchesInv
<1>5. CASE Elsewhere
  BY <1>5 DEF Elsewhere, loaderVars, PatchesInv
<1> QED BY <1>1, <1>2, <1>3, <1>4, <1>5, Classes

LEMMA GotStep ==
    ASSUME BookInv, TypeOK', Next
    PROVE  GotInv'
<1> USE DEF BookInv
<1>1. ASSUME NEW o \in Objects, Reserve(o) \/ Populate(o)
      PROVE  GotInv'
  BY <1>1 DEF Reserve, Populate, Goto, GotInv, TypeOK
<1>2. ASSUME NEW o \in Objects, Writes(o)
      PROVE  GotInv'
  BY <1>2, WritesFacts, PairsStep DEF GotInv
<1>3. ASSUME NEW o \in Objects, Moves(o)
      PROVE  GotInv'
  BY <1>3, MovesFacts DEF Advances, GotInv
<1>4. CASE Elsewhere
  BY <1>4 DEF Elsewhere, loaderVars, GotInv
<1> QED BY <1>1, <1>2, <1>3, <1>4, Classes

LEMMA BooksStart == Init => BookInv
<1> SUFFICES ASSUME Init PROVE BookInv
  OBVIOUS
<1>1. TypeOK
  <2>1. \A S : <<>> \in Seq(S)
    BY EmptySeq
  <2>2. TlsTypeOK
    BY <2>1, FreeType DEF Init, TlsInit, TlsTypeOK, ModuleIDs, TlsAssumption
  <2> QED BY <2>1, <2>2 DEF Init, TypeOK, Phases
<1>2. ModulesInv
  BY EmptySeq DEF Init, TlsInit, ModulesInv, HasPages
<1>3. PatchesInv
  BY DEF Init, PatchesInv
<1>4. GotInv
  <2>1. Len(<<>>) = 0 /\ 0 <= 0 * PagePairs
    BY EmptySeq, SMT DEF LoaderAssumption
  <2> QED BY <2>1 DEF Init, GotInv
<1> QED BY <1>1, <1>2, <1>3, <1>4 DEF BookInv

LEMMA BooksStep == BookInv /\ [Next]_vars => BookInv'
<1> SUFFICES ASSUME BookInv, [Next]_vars PROVE BookInv'
  OBVIOUS
<1>1. CASE Next
  BY <1>1, StepType, ModulesStep, PatchesStep, GotStep DEF BookInv
<1>2. CASE UNCHANGED vars
  BY <1>2 DEF vars, tlsVars, loaderVars, BookInv, TypeOK, TlsTypeOK, ModulesInv, PatchesInv,
     GotInv, HasPages
<1> QED BY <1>1, <1>2

\* The books of every object stay in order, whatever is loaded and whatever fails
THEOREM BooksKept == Spec => []BookInv
BY BooksStart, BooksStep, PTL DEF Spec

\* Type correctness: no module ID, GOT entry or page is ever looked up that is not there
THEOREM LoaderTypeCorrect == Spec => []TypeOK
<1>1. BookInv => TypeOK
  BY DEF BookInv
<1> QED BY <1>1, BooksKept, PTL
-----------------------------------------------------------------------------
(* Who maps a region, and who unmaps it *)

\* r goes back: with the image or the pages of an object that is done with them, or with
\* the blocks of a thread that ends, none of which is found again
Disposes(r) ==
    \/ \E o \in Objects : HasImage(o) /\ ~ HasImage(o)' /\ r = base[o]
    \/ \E o \in Objects : HasPages(o) /\ ~ HasPages(o)' /\ r \in GotPages(o)
    \/ \E t \in Threads :
        /\ tid[t] # None /\ tid'[t] = None
        /\ r \in BlocksOf(tid[t])
        /\ blocks' = Forgotten(tid[t])

\* Code of o gets thread t the block r, for the module with the number id
NewBlock(r, t, o, id) ==
    /\ Runs(o)
    /\ UNCHANGED <<loaderVars, tid>>
    /\ tid[t] \in Tids /\ id \in DOMAIN modules /\ blocks[tid[t]][id] = None
    /\ blocks' = [blocks EXCEPT ![tid[t]][id] = r]
    /\ mem' = [mem EXCEPT ![r] = [kind |-> "block", of |-> ImageAt(modules[id]), by |-> t]]

\* r is mapped for an object, or for a thread that accesses a module of one
Maps(r) ==
    \/ \E o \in Objects :
        /\ Reserve(o)
        /\ base' = [base EXCEPT ![o] = r]
        /\ mem' = [mem EXCEPT ![r] = [kind |-> "image", of |-> o, by |-> None]]
    \/ \E o \in Objects :
        /\ AllocateGotEntry(o)
        /\ pages' = [pages EXCEPT ![o] = Append(@, r)]
        /\ mem' = [mem EXCEPT ![r] = [kind |-> "got", of |-> o, by |-> None]]
    \/ \E o \in Objects : \E source \in Objects \cup {None} :
        /\ AllocateTPBlock(o)
        /\ mem' = [mem EXCEPT ![r] = [kind |-> "static", of |-> source, by |-> None]]
    \/ \E t \in Threads, o \in Objects : \E id \in ModuleIDs : NewBlock(r, t, o, id)

LEMMA MapsOne ==
    ASSUME NEW r, Maps(r)
    PROVE  \E m : mem' = [mem EXCEPT ![r] = m]
<1>1. ASSUME NEW t, NEW o, NEW i, NewBlock(r, t, o, i)
      PROVE  \E m : mem' = [mem EXCEPT ![r] = m]
  BY <1>1 DEF NewBlock
<1> QED BY <1>1 DEF Maps

\* A step maps one region, unmaps what is its own, or leaves memory alone
Unmaps == \A r \in Regions : mem'[r] = mem[r] \/ (mem'[r] = Free /\ Disposes(r))

LEMMA NewBlockStep ==
    ASSUME BookInv, NEW t \in Threads, NEW o \in Objects, NEW id,
           TLSAccess(t, o), GetTLSAddr(t, id)
    PROVE  id \in ModuleIDs /\ \E r \in Regions : mem[r] = Free /\ NewBlock(r, t, o, id)
<1>1. PICK r \in Regions :
        AllocateBlock(r, id, "block", t) /\ blocks' = [blocks EXCEPT ![tid[t]][id] = r]
  BY DEF GetTLSAddr
<1>2. Runs(o) /\ UNCHANGED loaderVars
  BY DEF TLSAccess
<1>3. id \in DOMAIN modules /\ blocks[tid[t]][id] = None /\ tid[t] \in Tids
      /\ UNCHANGED tid
  BY DEF GetTLSAddr, FirstAccess, BookInv, TypeOK, TlsTypeOK
<1>4. /\ mem[r] = Free
      /\ mem' = [mem EXCEPT ![r] =
                  [kind |-> "block", of |-> ImageAt(modules[id]), by |-> t]]
  BY <1>1 DEF AllocateBlock, Put, Unused
<1>5. id \in ModuleIDs
  <2>1. /\ DOMAIN modules = 1 .. Len(modules) /\ Len(modules) \in Nat
        /\ nextID = Len(modules) + 1 /\ nextID \in 1 .. MaxModuleID
    BY LenProperties DEF BookInv, TypeOK, TlsTypeOK, ModulesInv
  <2> QED BY <1>3, <2>1, SMT DEF ModuleIDs, TlsAssumption
<1> QED BY <1>1, <1>2, <1>3, <1>4, <1>5 DEF NewBlock

LEMMA MemorySteps ==
    ASSUME BookInv, Next
    PROVE  Unmaps \/ \E r \in Regions : mem[r] = Free /\ Maps(r)
<1> USE DEF BookInv
<1>a. ASSUME NEW o \in Objects, HasImage(o), ~ HasImage(o)',
             \A r \in Regions : mem'[r] = mem[r] \/ (mem'[r] = Free /\ r = base[o])
      PROVE  Unmaps
  BY <1>a, Zenon DEF Unmaps, Disposes
<1>b. ASSUME NEW o \in Objects, HasPages(o), ~ HasPages(o)',
             \A r \in Regions : mem'[r] = mem[r] \/ (mem'[r] = Free /\ r \in GotPages(o))
      PROVE  Unmaps
  BY <1>b, Zenon DEF Unmaps, Disposes
<1>c. ASSUME NEW t \in Threads, tid[t] # None, tid'[t] = None, blocks' = Forgotten(tid[t]),
             \A r \in Regions : mem'[r] = mem[r] \/ (mem'[r] = Free /\ r \in BlocksOf(tid[t]))
      PROVE  Unmaps
  BY <1>c, Zenon DEF Unmaps, Disposes
<1>1. ASSUME NEW o \in Objects, Load(o) \/ Unload(o)
      PROVE  Unmaps \/ \E r \in Regions : mem[r] = Free /\ Maps(r)
  <2>1. CASE Reserve(o)
    BY <2>1 DEF Reserve, Maps, Put, Unused
  <2>2. CASE AllocateGotEntry(o)
    <3>1. CASE UNCHANGED mem
      BY <3>1 DEF Unmaps
    <3>2. CASE ~ UNCHANGED mem
      <4>1. PICK r \in Regions :
              /\ Unused(r) /\ Put(r, "got", o, None)
              /\ pages' = [pages EXCEPT ![o] = Append(@, r)]
        BY <2>2, <3>2 DEF AllocateGotEntry
      <4> QED BY <2>2, <4>1 DEF Maps, Put, Unused
    <3> QED BY <3>1, <3>2
  <2>3. CASE AllocateTPBlock(o)
    <3>1. PICK r \in Regions : AllocateBlock(r, Last(patched[o]).mod, "static", None)
      BY <2>3 DEF AllocateTPBlock
    <3> DEFINE source == ImageAt(modules[Last(patched[o]).mod])
    <3>2. source \in Objects \cup {None}
      <4>1. Last(patched[o]).mod \in DOMAIN modules
        BY <2>3 DEF AllocateTPBlock, PatchesInv
      <4>2. modules[Last(patched[o]).mod] \in Regions \cup {None}
        BY <4>1, ElementOfSeq, LenProperties, SMT DEF TypeOK, TlsTypeOK
      <4> QED BY <4>2 DEF ImageAt, TypeOK, TlsTypeOK, Mapping
    <3>3. mem' = [mem EXCEPT ![r] = [kind |-> "static", of |-> source, by |-> None]]
          /\ mem[r] = Free
      BY <3>1 DEF AllocateBlock, Put, Unused
    <3> HIDE DEF source
    <3>4. Maps(r)
      BY <2>3, <3>2, <3>3, Zenon DEF Maps
    <3> QED BY <3>3, <3>4
  <2>4. CASE Fail(o) /\ HasImage(o)
    <3>1. ~ HasImage(o)'
      BY <2>4 DEF Fail, Goto, HasImage, TypeOK
    <3>2. \A r \in Regions : mem'[r] = mem[r] \/ (mem'[r] = Free /\ r = base[o])
      BY <2>4 DEF Fail, DropImage, TypeOK, TlsTypeOK
    <3> QED BY <1>a, <2>4, <3>1, <3>2
  <2>5. CASE PopulateFails(o) \/ RegisterRefused(o) \/ UndefinedSymbol(o)
             \/ NoTLSSegment(o) \/ GotPageFails(o) \/ TPBlockFails(o)
    <3>1. Fail(o) /\ HasImage(o)
      BY <2>5 DEF PopulateFails, RegisterRefused, UndefinedSymbol, NoTLSSegment,
         GotPageFails, TPBlockFails, HasImage, Pending
    <3> QED BY <2>4, <3>1
  <2>6. CASE UnmapImage(o)
    <3>1. HasImage(o) /\ ~ HasImage(o)'
      BY <2>6 DEF UnmapImage, Goto, HasImage, TypeOK
    <3>2. \A r \in Regions : mem'[r] = mem[r] \/ (mem'[r] = Free /\ r = base[o])
      BY <2>6 DEF UnmapImage, TypeOK, TlsTypeOK
    <3> QED BY <1>a, <3>1, <3>2
  <2>7. CASE UnmapGotPages(o)
    <3>1. HasPages(o) /\ ~ HasPages(o)'
      BY <2>7 DEF UnmapGotPages, Goto, HasPages, TypeOK
    <3>2. \A r \in Regions : mem'[r] = mem[r] \/ (mem'[r] = Free /\ r \in GotPages(o))
      BY <2>7 DEF UnmapGotPages
    <3> QED BY <1>b, <3>1, <3>2
  <2>8. CASE UnmapGotFails(o)
    <3>1. HasPages(o) /\ ~ HasPages(o)'
      BY <2>8 DEF UnmapGotFails, Goto, HasPages, TypeOK
    <3>2. PICK n \in 0 .. Len(pages[o]) - 1 :
            mem' = [r \in Regions |-> IF \E i \in 1 .. n : pages[o][i] = r THEN Free ELSE mem[r]]
      BY <2>8 DEF UnmapGotFails
    <3>3. DOMAIN pages[o] = 1 .. Len(pages[o]) /\ Len(pages[o]) \in Nat
      BY LenProperties DEF TypeOK
    <3>4. \A i \in 1 .. n : pages[o][i] \in GotPages(o)
      BY <3>3 DEF GotPages
    <3>5. \A r \in Regions : mem'[r] = mem[r] \/ (mem'[r] = Free /\ r \in GotPages(o))
      BY <3>2, <3>4
    <3> QED BY <1>b, <3>1, <3>5
  <2>9. CASE ReserveFails(o) \/ RunConstructors(o) \/ Loaded(o) \/ RunFini(o) \/ Populate(o)
             \/ ApplySymbol(o) \/ ApplyDTPMod(o) \/ ReuseGotEntry(o) \/ ResolveTPOff(o)
    <3>1. UNCHANGED mem
      BY <2>9 DEF ReserveFails, RunConstructors, Loaded, RunFini, Populate, ApplySymbol,
         ApplyDTPMod, ReuseGotEntry, ResolveTPOff, tlsVars
    <3> QED BY <3>1 DEF Unmaps
  <2> QED BY <1>1, <2>1, <2>2, <2>3, <2>5, <2>6, <2>7, <2>8, <2>9, Zenon DEF Load, Unload
<1>2. ASSUME NEW t \in Threads, NEW o \in Objects, TLSAccess(t, o)
      PROVE  Unmaps \/ \E r \in Regions : mem[r] = Free /\ Maps(r)
  <2>1. PICK id : GetTLSAddr(t, id) \/ GetTLSAddrAgain(t, id)
    BY <1>2 DEF TLSAccess
  <2>2. CASE GetTLSAddrAgain(t, id)
    BY <2>2 DEF GetTLSAddrAgain, tlsVars, Unmaps
  <2>3. CASE GetTLSAddr(t, id)
    <3>0. id \in ModuleIDs
      BY <1>2, <2>3, NewBlockStep
    <3>1. PICK r \in Regions : mem[r] = Free /\ NewBlock(r, t, o, id)
      BY <1>2, <2>3, NewBlockStep
    <3>2. Maps(r)
      BY <3>0, <3>1, Zenon DEF Maps
    <3> QED BY <3>1, <3>2
  <2> QED BY <2>1, <2>2, <2>3
<1>3. ASSUME NEW t \in Threads, ThreadStart(t) \/ ThreadExit(t)
      PROVE  Unmaps
  <2>1. CASE UNCHANGED mem
    BY <2>1 DEF Unmaps
  <2>2. CASE ~ UNCHANGED mem
    <3>1. ThreadExit(t) /\ CleanupThread(tid[t])
      BY <1>3, <2>2 DEF ThreadStart, ThreadExit, AtExit
    <3>2. tid[t] # None /\ tid'[t] = None /\ blocks' = Forgotten(tid[t])
      BY <3>1 DEF ThreadExit, CleanupThread, TypeOK, TlsTypeOK
    <3>3. PICK stuck \in SUBSET BlocksOf(tid[t]) :
            mem' = [r \in Regions |-> IF r \in BlocksOf(tid[t]) \ stuck THEN Free ELSE mem[r]]
      BY <3>1 DEF CleanupThread
    <3>4. \A r \in Regions : mem'[r] = mem[r] \/ (mem'[r] = Free /\ r \in BlocksOf(tid[t]))
      BY <3>3
    <3> QED BY <1>c, <3>2, <3>4
  <2> QED BY <2>1, <2>2
<1> QED BY <1>1, <1>2, <1>3 DEF Next
-----------------------------------------------------------------------------
(* Everyone's mappings are its own *)

ImagesOwned ==
    \A o \in Objects : HasImage(o) =>
        base[o] \in Regions /\ mem[base[o]].kind = "image" /\ mem[base[o]].of = o

PagesOwned ==
    \A o \in Objects : HasPages(o) =>
        /\ \A i \in DOMAIN pages[o] : mem[pages[o][i]].kind = "got" /\ mem[pages[o][i]].of = o
        /\ \A i, j \in DOMAIN pages[o] : pages[o][i] = pages[o][j] => i = j

BlocksOwned ==
    \A i, j \in Tids, k, l \in ModuleIDs : blocks[i][k] # None =>
        /\ mem[blocks[i][k]].kind = "block"
        /\ blocks[i][k] = blocks[j][l] => i = j /\ k = l

\* Running threads have IDs of their own
TidsOwned == \A t, u \in Threads : tid[t] = tid[u] /\ tid[t] # None => t = u

Owned == ImagesOwned /\ PagesOwned /\ BlocksOwned /\ TidsOwned

LEMMA OwnedMeaning == BookInv /\ Owned => OwnMappings
BY DEF BookInv, TypeOK, TlsTypeOK, TlsAssumption, Owned, ImagesOwned, PagesOwned, BlocksOwned,
   OwnMappings

\* What is unmapped is an image that its object has, a page that it has, or a block of a
\* thread that ends: the three are told apart by what is mapped there
LEMMA DisposedKind ==
    ASSUME BookInv, Owned, NEW r \in Regions, Disposes(r)
    PROVE  \/ /\ mem[r].kind = "image"
              /\ \E o \in Objects :
                    mem[r].of = o /\ HasImage(o) /\ ~ HasImage(o)' /\ r = base[o]
           \/ /\ mem[r].kind = "got"
              /\ \E o \in Objects :
                    mem[r].of = o /\ HasPages(o) /\ ~ HasPages(o)' /\ r \in GotPages(o)
           \/ /\ mem[r].kind = "block"
              /\ \E t \in Threads :
                    /\ tid[t] # None /\ tid'[t] = None
                    /\ r \in BlocksOf(tid[t]) /\ blocks' = Forgotten(tid[t])
<1>1. CASE \E o \in Objects : HasImage(o) /\ ~ HasImage(o)' /\ r = base[o]
  <2>1. PICK o \in Objects : HasImage(o) /\ ~ HasImage(o)' /\ r = base[o]
    BY <1>1
  <2>2. mem[r].kind = "image" /\ mem[r].of = o
    BY <2>1 DEF Owned, ImagesOwned
  <2> QED BY <2>1, <2>2
<1>2. CASE \E o \in Objects : HasPages(o) /\ ~ HasPages(o)' /\ r \in GotPages(o)
  <2>1. PICK o \in Objects : HasPages(o) /\ ~ HasPages(o)' /\ r \in GotPages(o)
    BY <1>2
  <2>2. mem[r].kind = "got" /\ mem[r].of = o
    BY <2>1 DEF Owned, PagesOwned, GotPages
  <2> QED BY <2>1, <2>2
<1>3. CASE \E t \in Threads :
             /\ tid[t] # None /\ tid'[t] = None
             /\ r \in BlocksOf(tid[t]) /\ blocks' = Forgotten(tid[t])
  <2>1. PICK t \in Threads :
             /\ tid[t] # None /\ tid'[t] = None
             /\ r \in BlocksOf(tid[t]) /\ blocks' = Forgotten(tid[t])
    BY <1>3
  <2>2. tid[t] \in Tids
    BY <2>1 DEF BookInv, TypeOK, TlsTypeOK
  <2>3. mem[r].kind = "block"
    BY <2>1, <2>2 DEF BlocksOf, Owned, BlocksOwned
  <2> QED BY <2>1, <2>3, Zenon
<1> QED BY <1>1, <1>2, <1>3, Zenon DEF Disposes

\* What an object or a thread has stays mapped for as long as it has it
LEMMA ImageStays ==
    ASSUME BookInv, Owned, Next, NEW o \in Objects, HasImage(o), HasImage(o)'
    PROVE  mem'[base[o]] = mem[base[o]]
<1>1. base[o] \in Regions /\ mem[base[o]].kind = "image" /\ mem[base[o]].of = o
  BY DEF Owned, ImagesOwned
<1>2. ASSUME NEW r \in Regions, mem[r] = Free, Maps(r)
      PROVE  mem'[base[o]] = mem[base[o]]
  <2>1. base[o] # r
    BY <1>1, <1>2 DEF Free
  <2>2. \E m : mem' = [mem EXCEPT ![r] = m]
    BY <1>2, MapsOne
  <2> QED BY <1>1, <2>1, <2>2 DEF BookInv, TypeOK, TlsTypeOK
<1>3. ~ Disposes(base[o])
  <2> SUFFICES ASSUME Disposes(base[o]) PROVE FALSE
    OBVIOUS
  <2>1. \/ \E p \in Objects : mem[base[o]].of = p /\ ~ HasImage(p)'
        \/ mem[base[o]].kind \in {"got", "block"}
    BY <1>1, DisposedKind
  <2> QED BY <1>1, <2>1
<1> QED BY <1>1, <1>2, <1>3, MemorySteps DEF Unmaps

LEMMA PageStays ==
    ASSUME BookInv, Owned, Next, NEW o \in Objects, HasPages(o), HasPages(o)',
           NEW i \in DOMAIN pages[o]
    PROVE  pages[o][i] \in Regions /\ mem'[pages[o][i]] = mem[pages[o][i]]
<1> DEFINE g == pages[o][i]
<1>1. g \in Regions /\ mem[g].kind = "got" /\ mem[g].of = o
  <2>1. g \in Regions
    BY LenProperties, ElementOfSeq DEF BookInv, TypeOK
  <2> QED BY <2>1 DEF Owned, PagesOwned
<1> HIDE DEF g
<1>2. ASSUME NEW r \in Regions, mem[r] = Free, Maps(r)
      PROVE  mem'[g] = mem[g]
  <2>1. g # r
    BY <1>1, <1>2 DEF Free
  <2>2. \E m : mem' = [mem EXCEPT ![r] = m]
    BY <1>2, MapsOne
  <2> QED BY <1>1, <2>1, <2>2 DEF BookInv, TypeOK, TlsTypeOK
<1>3. ~ Disposes(g)
  <2> SUFFICES ASSUME Disposes(g) PROVE FALSE
    OBVIOUS
  <2>1. \/ \E p \in Objects : mem[g].of = p /\ ~ HasPages(p)'
        \/ mem[g].kind \in {"image", "block"}
    BY <1>1, DisposedKind
  <2> QED BY <1>1, <2>1
<1>4. mem'[g] = mem[g]
  BY <1>1, <1>2, <1>3, MemorySteps DEF Unmaps
<1> QED BY <1>1, <1>4 DEF g

LEMMA BlockStays ==
    ASSUME BookInv, Owned, Next, NEW i \in Tids, NEW k \in ModuleIDs, blocks[i][k] # None
    PROVE  /\ blocks[i][k] \in Regions
           /\ \/ mem'[blocks[i][k]] = mem[blocks[i][k]]
              \/ \E t \in Threads : tid[t] = i /\ tid'[t] = None /\ blocks' = Forgotten(i)
<1> DEFINE b == blocks[i][k]
<1>1. b \in Regions /\ mem[b].kind = "block"
  BY DEF BookInv, TypeOK, TlsTypeOK, Owned, BlocksOwned
<1>2. ASSUME NEW t \in Threads, tid[t] # None, b \in BlocksOf(tid[t])
      PROVE  tid[t] = i
  BY <1>2 DEF BlocksOf, BookInv, TypeOK, TlsTypeOK, Owned, BlocksOwned
<1> HIDE DEF b
<1>3. ASSUME NEW r \in Regions, mem[r] = Free, Maps(r)
      PROVE  mem'[b] = mem[b]
  <2>1. b # r
    BY <1>1, <1>3 DEF Free
  <2>2. \E m : mem' = [mem EXCEPT ![r] = m]
    BY <1>3, MapsOne
  <2> QED BY <1>1, <2>1, <2>2 DEF BookInv, TypeOK, TlsTypeOK
<1>4. Disposes(b) => \E t \in Threads : tid[t] = i /\ tid'[t] = None /\ blocks' = Forgotten(i)
  BY <1>1, <1>2, DisposedKind
<1>5. \/ mem'[b] = mem[b]
      \/ \E t \in Threads : tid[t] = i /\ tid'[t] = None /\ blocks' = Forgotten(i)
  BY <1>1, <1>3, <1>4, MemorySteps DEF Unmaps
<1> QED BY <1>1, <1>5 DEF b

\* What changes in the books of one object, and in which step
LEMMA ObjectSteps ==
    ASSUME BookInv, Next, NEW o \in Objects
    PROVE  /\ HasImage(o)' => HasImage(o) \/ Reserve(o)
           /\ HasPages(o)' => HasPages(o) \/ Populate(o)
           /\ base'[o] = base[o] \/ Reserve(o)
           /\ pages'[o] = pages[o] \/ AllocateGotEntry(o)
           /\ module'[o] = module[o] \/ Populate(o)
<1> DEFINE Goal == /\ HasImage(o)' => HasImage(o) \/ Reserve(o)
                   /\ HasPages(o)' => HasPages(o) \/ Populate(o)
                   /\ base'[o] = base[o] \/ Reserve(o)
                   /\ pages'[o] = pages[o] \/ AllocateGotEntry(o)
                   /\ module'[o] = module[o] \/ Populate(o)
<1> USE DEF BookInv
<1>1. ASSUME NEW p \in Objects, Reserve(p) PROVE Goal
  BY <1>1 DEF Reserve, Goto, TypeOK, HasImage, HasPages
<1>2. ASSUME NEW p \in Objects, Populate(p) PROVE Goal
  <2>1. /\ phase[p] = "mapped" /\ phase' = [phase EXCEPT ![p] = "reloc"]
        /\ base' = base /\ pages' = pages
        /\ module' = module \/ module' = [module EXCEPT ![p] = nextID]
    BY <1>2 DEF Populate, Goto
  <2> QED BY <1>2, <2>1 DEF TypeOK, HasImage, HasPages
<1>3. ASSUME NEW p \in Objects, Writes(p) PROVE Goal
  <2>1. /\ base' = base /\ module' = module /\ phase[p] = "reloc"
        /\ \A q \in Objects \ {p} : phase'[q] = phase[q] /\ pages'[q] = pages[q]
    BY <1>3, WritesFacts
  <2>2. pages' = pages \/ AllocateGotEntry(p)
    BY <1>3 DEF Writes, ApplySymbol, ApplyDTPMod, ReuseGotEntry, ResolveTPOff
  <2>3. CASE p = o
    BY <2>1, <2>2, <2>3 DEF HasImage, HasPages
  <2>4. CASE p # o
    BY <2>1, <2>4 DEF HasImage, HasPages
  <2> QED BY <2>3, <2>4
<1>4. ASSUME NEW p \in Objects, Moves(p) PROVE Goal
  BY <1>4, MovesFacts DEF Advances, HasImage, HasPages
<1>5. CASE Elsewhere
  BY <1>5 DEF Elsewhere, loaderVars, HasImage, HasPages
<1> QED BY <1>1, <1>2, <1>3, <1>4, <1>5, Classes

\* What changes for a thread: it starts, it ends, or it gets a block it did not have
LEMMA ThreadSteps ==
    ASSUME BookInv, Next
    PROVE  \/ UNCHANGED <<blocks, tid>>
           \/ \E t \in Threads : ThreadStart(t) /\ UNCHANGED <<blocks, loaderVars, mem>>
           \/ \E t \in Threads : ThreadExit(t) /\ UNCHANGED loaderVars
           \/ \E r \in Regions, t \in Threads, o \in Objects : \E id \in ModuleIDs :
                mem[r] = Free /\ NewBlock(r, t, o, id)
<1>1. ASSUME NEW o \in Objects, Load(o) \/ Unload(o)
      PROVE  UNCHANGED <<blocks, tid>>
  <2>1. CASE ReserveFails(o) \/ RunConstructors(o) \/ Loaded(o) \/ RunFini(o) \/ Reserve(o)
             \/ Populate(o) \/ Writes(o) \/ AllocateTPBlock(o)
    BY <2>1 DEF ReserveFails, RunConstructors, Loaded, RunFini, Reserve, Populate, Writes,
       ApplySymbol, ApplyDTPMod, ReuseGotEntry, AllocateGotEntry, ResolveTPOff,
       AllocateTPBlock, tlsVars
  <2>2. CASE PopulateFails(o) \/ RegisterRefused(o) \/ UndefinedSymbol(o)
             \/ NoTLSSegment(o) \/ GotPageFails(o) \/ TPBlockFails(o)
    BY <2>2 DEF PopulateFails, RegisterRefused, UndefinedSymbol, NoTLSSegment, GotPageFails,
       TPBlockFails, Fail
  <2>3. CASE UnmapGotPages(o) \/ UnmapGotFails(o) \/ UnmapImage(o)
    BY <2>3 DEF UnmapGotPages, UnmapGotFails, UnmapImage
  <2> QED BY <1>1, <2>1, <2>2, <2>3, Zenon DEF Load, Unload, Writes
<1>3. ASSUME NEW t \in Threads, NEW id, GetTLSAddrAgain(t, id)
      PROVE  UNCHANGED <<blocks, tid>>
  BY <1>3 DEF GetTLSAddrAgain, tlsVars
<1>4. ASSUME NEW t \in Threads, ThreadStart(t), UNCHANGED loaderVars
      PROVE  ThreadStart(t) /\ UNCHANGED <<blocks, loaderVars, mem>>
  BY <1>4 DEF ThreadStart
<1>5. CASE \E t \in Threads, o \in Objects : TLSAccess(t, o)
  <2>1. PICK t \in Threads, o \in Objects : TLSAccess(t, o)
    BY <1>5
  <2>2. PICK id : GetTLSAddr(t, id) \/ GetTLSAddrAgain(t, id)
    BY <2>1 DEF TLSAccess
  <2>3. CASE GetTLSAddr(t, id)
    <3>1. id \in ModuleIDs
      BY <2>1, <2>3, NewBlockStep
    <3>2. PICK r \in Regions : mem[r] = Free /\ NewBlock(r, t, o, id)
      BY <2>1, <2>3, NewBlockStep
    <3> QED BY <3>1, <3>2, Zenon
  <2> QED BY <1>3, <2>2, <2>3
<1> QED BY <1>1, <1>4, <1>5, Zenon DEF Next

LEMMA ImagesStep ==
    ASSUME BookInv, Owned, TypeOK', Next
    PROVE  ImagesOwned'
<1> SUFFICES ASSUME NEW o \in Objects, HasImage(o)'
             PROVE  base'[o] \in Regions /\ mem'[base'[o]].kind = "image"
                    /\ mem'[base'[o]].of = o
  BY DEF ImagesOwned
<1>1. CASE Reserve(o)
  <2>1. PICK r \in Regions : Put(r, "image", o, None) /\ base' = [base EXCEPT ![o] = r]
    BY <1>1 DEF Reserve
  <2>2. base'[o] = r /\ mem'[r] = [kind |-> "image", of |-> o, by |-> None]
    BY <2>1 DEF Put, BookInv, TypeOK, TlsTypeOK
  <2> QED BY <2>2
<1>2. CASE ~ Reserve(o)
  <2>1. HasImage(o) /\ base'[o] = base[o]
    BY <1>2, ObjectSteps
  <2>2. mem'[base[o]] = mem[base[o]]
    BY <2>1, ImageStays
  <2> QED BY <2>1, <2>2 DEF Owned, ImagesOwned
<1> QED BY <1>1, <1>2

LEMMA PagesStep ==
    ASSUME BookInv, Owned, TypeOK', Next
    PROVE  PagesOwned'
<1> USE DEF BookInv
<1> SUFFICES ASSUME NEW o \in Objects, HasPages(o)'
             PROVE  /\ \A i \in DOMAIN pages'[o] :
                        mem'[pages'[o][i]].kind = "got" /\ mem'[pages'[o][i]].of = o
                    /\ \A i, j \in DOMAIN pages'[o] : pages'[o][i] = pages'[o][j] => i = j
  BY DEF PagesOwned
<1>1. CASE Populate(o)
  <2>1. pages'[o] = <<>>
    BY <1>1 DEF Populate, GotInv
  <2> QED BY <2>1
<1>2. CASE AllocateGotEntry(o)
  <2>1. HasPages(o)
    BY <1>2 DEF AllocateGotEntry, Pending, HasPages
  <2>2. \A i \in DOMAIN pages[o] :
          /\ pages[o][i] \in Regions /\ mem'[pages[o][i]] = mem[pages[o][i]]
          /\ mem[pages[o][i]].kind = "got" /\ mem[pages[o][i]].of = o
    BY <2>1, PageStays DEF Owned, PagesOwned
  <2>3. CASE pages' = pages
    BY <2>1, <2>2, <2>3 DEF Owned, PagesOwned
  <2>4. CASE pages' # pages
    <3>1. PICK r \in Regions :
            Unused(r) /\ Put(r, "got", o, None) /\ pages'[o] = Append(pages[o], r)
      BY <1>2, <2>4, AllocateGotEntryFacts
    <3>2. pages[o] \in Seq(Regions)
      BY DEF TypeOK
    <3>3. /\ DOMAIN pages[o] = 1 .. Len(pages[o]) /\ Len(pages[o]) \in Nat
          /\ DOMAIN pages'[o] = 1 .. Len(pages[o]) + 1
          /\ \A i \in 1 .. Len(pages[o]) : pages'[o][i] = pages[o][i]
          /\ pages'[o][Len(pages[o]) + 1] = r
      BY <3>1, <3>2, AppendType, LenProperties
    <3>4. mem'[r] = [kind |-> "got", of |-> o, by |-> None] /\ mem[r].kind = "free"
      BY <3>1 DEF Put, Unused, Free, TypeOK, TlsTypeOK
    <3>5. \A i \in DOMAIN pages[o] : pages[o][i] # r
      BY <2>2, <3>4
    <3>6. \A i \in DOMAIN pages'[o] :
            \/ i \in DOMAIN pages[o] /\ pages'[o][i] = pages[o][i]
            \/ i = Len(pages[o]) + 1 /\ pages'[o][i] = r
      BY <3>3
    <3>7. \A i \in DOMAIN pages'[o] :
            mem'[pages'[o][i]].kind = "got" /\ mem'[pages'[o][i]].of = o
      BY <2>2, <3>4, <3>6
    <3>8. \A i, j \in DOMAIN pages'[o] : pages'[o][i] = pages'[o][j] => i = j
      BY <2>1, <3>5, <3>6 DEF Owned, PagesOwned
    <3> QED BY <3>7, <3>8
  <2> QED BY <2>3, <2>4
<1>3. CASE ~ Populate(o) /\ ~ AllocateGotEntry(o)
  <2>1. HasPages(o) /\ pages'[o] = pages[o]
    BY <1>3, ObjectSteps
  <2>2. \A i \in DOMAIN pages[o] : mem'[pages[o][i]] = mem[pages[o][i]]
    BY <2>1, PageStays
  <2> QED BY <2>1, <2>2 DEF Owned, PagesOwned
<1> QED BY <1>1, <1>2, <1>3

LEMMA TidsStep ==
    ASSUME BookInv, TidsOwned, Next
    PROVE  TidsOwned'
<1>1. CASE UNCHANGED tid
  BY <1>1 DEF TidsOwned
<1>2. ASSUME NEW t \in Threads, ThreadStart(t) PROVE TidsOwned'
  <2>1. PICK i \in Tids : (\A u \in Threads : tid[u] # i) /\ tid' = [tid EXCEPT ![t] = i]
    BY <1>2 DEF ThreadStart
  <2> QED BY <2>1 DEF TidsOwned, BookInv, TypeOK, TlsTypeOK
<1>3. ASSUME NEW t \in Threads, ThreadExit(t) PROVE TidsOwned'
  <2>1. tid' = [tid EXCEPT ![t] = None]
    BY <1>3 DEF ThreadExit
  <2> QED BY <2>1 DEF TidsOwned, BookInv, TypeOK, TlsTypeOK
<1>4. ASSUME NEW r, NEW t, NEW o, NEW i, NewBlock(r, t, o, i) PROVE UNCHANGED tid
  BY <1>4 DEF NewBlock
<1> QED BY <1>1, <1>2, <1>3, <1>4, ThreadSteps

\* A block that a thread finds after a step is one it found before, or the one it got
LEMMA BlockSteps ==
    ASSUME BookInv, Owned, Next, NEW i \in Tids, NEW k \in ModuleIDs, blocks'[i][k] # None
    PROVE  \/ /\ blocks'[i][k] = blocks[i][k] /\ blocks[i][k] \in Regions
              /\ mem'[blocks[i][k]] = mem[blocks[i][k]]
           \/ /\ blocks[i][k] = None
              /\ \E r \in Regions, t \in Threads, o \in Objects : \E n \in ModuleIDs :
                    /\ mem[r] = Free /\ NewBlock(r, t, o, n)
                    /\ tid[t] = i /\ n = k /\ blocks'[i][k] = r
<1> USE DEF BookInv
<1>a. blocks \in [Tids -> [ModuleIDs -> Regions \cup {None}]]
  BY DEF TypeOK, TlsTypeOK
<1>b. ASSUME blocks'[i][k] = blocks[i][k]
      PROVE  blocks[i][k] \in Regions /\ mem'[blocks[i][k]] = mem[blocks[i][k]]
  <2>1. blocks[i][k] # None
    BY <1>b
  <2>2. blocks' # Forgotten(i)
    BY <1>a DEF Forgotten
  <2> QED BY <2>1, <2>2, BlockStays
<1>1. CASE UNCHANGED <<blocks, tid>>
  BY <1>1, <1>b
<1>2. ASSUME NEW t \in Threads, ThreadStart(t) PROVE blocks'[i][k] = blocks[i][k]
  BY <1>2 DEF ThreadStart
<1>3. ASSUME NEW t \in Threads, ThreadExit(t) PROVE blocks'[i][k] = blocks[i][k]
  <2>1. tid[t] \in Tids /\ (blocks' = blocks \/ blocks' = Forgotten(tid[t]))
    BY <1>3 DEF ThreadExit, AtExit, CleanupThread, TypeOK, TlsTypeOK
  <2>2. blocks' = Forgotten(tid[t]) => i # tid[t]
    BY <1>a DEF Forgotten
  <2>3. blocks' = Forgotten(tid[t]) => blocks'[i] = blocks[i]
    BY <1>a, <2>1, <2>2 DEF Forgotten
  <2> QED BY <2>1, <2>3
<1>4. ASSUME NEW r \in Regions, NEW t \in Threads, NEW o \in Objects,
             NEW n \in ModuleIDs, NewBlock(r, t, o, n)
      PROVE  \/ blocks'[i][k] = blocks[i][k]
             \/ /\ tid[t] = i /\ n = k /\ blocks'[i][k] = r
                /\ blocks[i][k] = None
  BY <1>4, <1>a DEF NewBlock
<1>5. CASE blocks'[i][k] = blocks[i][k]
  BY <1>5, <1>b
<1>6. CASE blocks'[i][k] # blocks[i][k]
  <2>1. PICK r \in Regions, t \in Threads, o \in Objects : \E n \in ModuleIDs :
          mem[r] = Free /\ NewBlock(r, t, o, n)
    BY <1>1, <1>2, <1>3, <1>6, ThreadSteps
  <2>2. PICK n \in ModuleIDs : mem[r] = Free /\ NewBlock(r, t, o, n)
    BY <2>1
  <2>3. /\ tid[t] = i /\ n = k /\ blocks'[i][k] = r
        /\ blocks[i][k] = None
    BY <1>4, <1>6, <2>2
  <2> QED BY <2>2, <2>3, Zenon
<1> QED BY <1>5, <1>6

LEMMA BlocksStep ==
    ASSUME BookInv, Owned, TypeOK', Next
    PROVE  BlocksOwned'
<1> SUFFICES ASSUME NEW i \in Tids, NEW j \in Tids, NEW k \in ModuleIDs, NEW l \in ModuleIDs,
                    blocks'[i][k] # None
             PROVE  /\ mem'[blocks'[i][k]].kind = "block"
                    /\ blocks'[i][k] = blocks'[j][l] => i = j /\ k = l
  BY DEF BlocksOwned
<1>1. ASSUME NEW a \in Tids, NEW b \in ModuleIDs, blocks'[a][b] # None
      PROVE  \/ /\ blocks'[a][b] = blocks[a][b] /\ mem[blocks'[a][b]].kind = "block"
                /\ mem'[blocks'[a][b]].kind = "block"
             \/ /\ mem[blocks'[a][b]].kind = "free"
                /\ mem'[blocks'[a][b]].kind = "block"
                /\ \A c \in Tids, d \in ModuleIDs :
                    (c # a \/ d # b) => blocks'[c][d] = blocks[c][d]
  <2>1. CASE /\ blocks'[a][b] = blocks[a][b] /\ blocks[a][b] \in Regions
             /\ mem'[blocks[a][b]] = mem[blocks[a][b]]
    BY <1>1, <2>1 DEF Owned, BlocksOwned
  <2>2. CASE \E r \in Regions, t \in Threads, o \in Objects : \E n \in ModuleIDs :
                /\ mem[r] = Free /\ NewBlock(r, t, o, n)
                /\ tid[t] = a /\ n = b /\ blocks'[a][b] = r
    <3>1. PICK r \in Regions, t \in Threads, o \in Objects : \E n \in ModuleIDs :
                /\ mem[r] = Free /\ NewBlock(r, t, o, n)
                /\ tid[t] = a /\ n = b /\ blocks'[a][b] = r
      BY <2>2
    <3>2. PICK n \in ModuleIDs :
                /\ mem[r] = Free /\ NewBlock(r, t, o, n)
                /\ tid[t] = a /\ n = b /\ blocks'[a][b] = r
      BY <3>1
    <3>3. mem[r].kind = "free"
      BY <3>2 DEF Free
    <3>4. mem'[r].kind = "block" /\ blocks' = [blocks EXCEPT ![a][b] = r]
      BY <3>2 DEF NewBlock, BookInv, TypeOK, TlsTypeOK
    <3>5. \A c \in Tids, d \in ModuleIDs : (c # a \/ d # b) => blocks'[c][d] = blocks[c][d]
      BY <3>4 DEF BookInv, TypeOK, TlsTypeOK
    <3> QED BY <3>2, <3>3, <3>4, <3>5
  <2> QED BY <1>1, <2>1, <2>2, BlockSteps
<1>2. mem'[blocks'[i][k]].kind = "block"
  BY <1>1
<1>3. ASSUME blocks'[i][k] = blocks'[j][l]
      PROVE  i = j /\ k = l
  <2>1. CASE mem[blocks'[i][k]].kind = "block"
    <3>1. blocks[i][k] = blocks'[i][k] /\ blocks[j][l] = blocks'[j][l]
      BY <1>1, <1>3, <2>1
    <3> QED BY <1>3, <3>1 DEF Owned, BlocksOwned
  <2>2. CASE mem[blocks'[i][k]].kind = "free"
    <3> SUFFICES ASSUME j # i \/ l # k PROVE FALSE
      BY Zenon
    <3>1. blocks'[j][l] = blocks[j][l]
      BY <1>1, <2>2
    <3>2. mem[blocks[j][l]].kind = "block"
      BY <1>3, <3>1 DEF Owned, BlocksOwned
    <3> QED BY <1>3, <2>2, <3>1, <3>2
  <2> QED BY <1>1, <2>1, <2>2
<1> QED BY <1>2, <1>3

\* What holds of books and mappings together
LoaderInv == BookInv /\ Owned

LEMMA OwnedStart == Init => LoaderInv
<1> SUFFICES ASSUME Init PROVE LoaderInv
  OBVIOUS
<1>1. BookInv
  BY BooksStart
<1>2. ImagesOwned /\ PagesOwned
  BY DEF Init, ImagesOwned, PagesOwned, HasImage, HasPages
<1>3. BlocksOwned /\ TidsOwned
  BY DEF Init, TlsInit, BlocksOwned, TidsOwned
<1> QED BY <1>1, <1>2, <1>3 DEF LoaderInv, Owned

LEMMA OwnedStep == LoaderInv /\ [Next]_vars => LoaderInv'
<1> SUFFICES ASSUME LoaderInv, [Next]_vars PROVE LoaderInv'
  OBVIOUS
<1>1. BookInv /\ Owned /\ BookInv' /\ TypeOK'
  BY BooksStep DEF LoaderInv, BookInv
<1>2. CASE Next
  <2>1. ImagesOwned'
    BY <1>1, <1>2, ImagesStep
  <2>2. PagesOwned'
    BY <1>1, <1>2, PagesStep
  <2>3. BlocksOwned'
    BY <1>1, <1>2, BlocksStep
  <2>4. TidsOwned'
    BY <1>1, <1>2, TidsStep DEF Owned
  <2> QED BY <1>1, <2>1, <2>2, <2>3, <2>4 DEF LoaderInv, Owned
<1>3. CASE UNCHANGED vars
  BY <1>1, <1>3 DEF vars, tlsVars, loaderVars, LoaderInv, Owned, ImagesOwned, PagesOwned,
     BlocksOwned, TidsOwned, HasImage, HasPages
<1> QED BY <1>2, <1>3

LEMMA LoaderInvariant == Spec => []LoaderInv
BY OwnedStart, OwnedStep, PTL DEF Spec

\* No error path of Load, no Unload and no cleanup of a thread unmaps what is another's,
\* and every pointer that is followed later leads to what was mapped for it
THEOREM MappingsOwned == Spec => []OwnMappings
<1>1. LoaderInv => OwnMappings
  BY OwnedMeaning DEF LoaderInv
<1> QED BY <1>1, LoaderInvariant, PTL

\* What __tls_get_addr has returned to a thread stays where it is for as long as the
\* thread runs: the pointers into it that compiled code keeps stay good
LEMMA AddressStays ==
    ASSUME LoaderInv, [Next]_vars, NEW t \in Threads, tid[t] # None, tid'[t] = tid[t],
           NEW k \in ModuleIDs, blocks[tid[t]][k] # None
    PROVE  /\ blocks'[tid[t]][k] = blocks[tid[t]][k]
           /\ mem'[blocks[tid[t]][k]] = mem[blocks[tid[t]][k]]
<1> DEFINE i == tid[t]
<1>a. BookInv /\ Owned /\ i \in Tids
      /\ blocks \in [Tids -> [ModuleIDs -> Regions \cup {None}]]
  BY DEF LoaderInv, BookInv, TypeOK, TlsTypeOK
<1>b. ASSUME NEW u \in Threads, tid[u] = i PROVE u = t
  BY <1>a, <1>b DEF Owned, TidsOwned
<1>c. CASE UNCHANGED vars
  BY <1>c DEF vars, tlsVars
<1>d. CASE Next
  <2>1. mem'[blocks[i][k]] = mem[blocks[i][k]]
    <3>1. ~ \E u \in Threads : tid[u] = i /\ tid'[u] = None /\ blocks' = Forgotten(i)
      BY <1>b
    <3> QED BY <1>a, <1>d, <3>1, BlockStays
  <2>2. ASSUME NEW u \in Threads, ThreadStart(u) PROVE blocks'[i][k] = blocks[i][k]
    BY <2>2 DEF ThreadStart
  <2>3. ASSUME NEW u \in Threads, ThreadExit(u) PROVE blocks'[i][k] = blocks[i][k]
    <3>1. /\ tid[u] # None /\ tid'[u] = None /\ tid[u] \in Tids
          /\ blocks' = blocks \/ blocks' = Forgotten(tid[u])
      BY <1>a, <2>3 DEF ThreadExit, AtExit, CleanupThread, BookInv, TypeOK, TlsTypeOK
    <3>2. tid[u] # i
      BY <1>b, <3>1
    <3>3. blocks' = Forgotten(tid[u]) => blocks'[i] = blocks[i]
      BY <1>a, <3>1, <3>2 DEF Forgotten
    <3> QED BY <3>1, <3>3
  <2>4. ASSUME NEW r, NEW u, NEW o, NEW n, NewBlock(r, u, o, n)
        PROVE  blocks'[i][k] = blocks[i][k]
    BY <2>4, <1>a DEF NewBlock
  <2>5. blocks'[i][k] = blocks[i][k]
    BY <1>a, <1>d, <2>2, <2>3, <2>4, ThreadSteps
  <2> QED BY <2>1, <2>5
<1> QED BY <1>c, <1>d

THEOREM AddressesKept == Spec => AddressesStay
<1> DEFINE Stay == \A t \in Threads : tid[t] # None /\ tid'[t] = tid[t] =>
                    \A id \in ModuleIDs : blocks[tid[t]][id] # None =>
                        /\ blocks'[tid[t]][id] = blocks[tid[t]][id]
                        /\ mem'[blocks[tid[t]][id]] = mem[blocks[tid[t]][id]]
<1>1. LoaderInv /\ [Next]_vars => [Stay]_tlsVars
  BY AddressStays
<1>2. AddressesStay <=> [][Stay]_tlsVars
  BY DEF AddressesStay
<1> HIDE DEF Stay
<1> QED BY <1>1, <1>2, LoaderInvariant, PTL DEF Spec
-----------------------------------------------------------------------------
(* What a thread finds for a module comes from the object that has the module's ID *)

BlocksFilled ==
    \A o \in Objects, i \in Tids :
        HasImage(o) /\ module[o] # 0 /\ blocks[i][module[o]] # None =>
            mem[blocks[i][module[o]]].of = o

\* No block is there before its module is
BlocksNumbered == \A i \in Tids, k \in ModuleIDs : blocks[i][k] # None => k < nextID

TemplateInv == LoaderInv /\ BlocksFilled /\ BlocksNumbered

\* A module's ID is one a block can be found by
LEMMA ModuleBound ==
    ASSUME BookInv, NEW o \in Objects, module[o] # 0
    PROVE  module[o] \in ModuleIDs /\ module[o] < nextID
<1>1. /\ module[o] \in DOMAIN modules /\ nextID = Len(modules) + 1
      /\ DOMAIN modules = 1 .. Len(modules) /\ Len(modules) \in Nat
      /\ nextID \in 1 .. MaxModuleID
  BY LenProperties DEF BookInv, TypeOK, TlsTypeOK, ModulesInv
<1> QED BY <1>1, SMT DEF ModuleIDs, TlsAssumption

\* A new block for the module of an object that is mapped is filled from its image
LEMMA NewBlockFacts ==
    ASSUME LoaderInv, NEW r \in Regions, NEW t \in Threads, NEW p \in Objects,
           NEW id \in ModuleIDs, NewBlock(r, t, p, id)
    PROVE  /\ id < nextID
           /\ \A o \in Objects : module[o] = id /\ HasImage(o) =>
                mem'[r] = [kind |-> "block", of |-> o, by |-> t]
<1>1. id < nextID
  <2>1. /\ DOMAIN modules = 1 .. Len(modules) /\ Len(modules) \in Nat
        /\ nextID = Len(modules) + 1
    BY LenProperties DEF LoaderInv, BookInv, TypeOK, TlsTypeOK, ModulesInv
  <2>2. id \in DOMAIN modules
    BY DEF NewBlock
  <2> QED BY <2>1, <2>2, SMT
<1>2. ASSUME NEW o \in Objects, module[o] = id, HasImage(o)
      PROVE  mem'[r] = [kind |-> "block", of |-> o, by |-> t]
  <2>1. id # 0
    BY SMT DEF ModuleIDs
  <2>2. modules[id] = base[o]
    BY <1>2, <2>1 DEF LoaderInv, BookInv, ModulesInv
  <2>3. ImageAt(modules[id]) = o
    BY <1>2, <2>2 DEF ImageAt, LoaderInv, BookInv, TypeOK, TlsTypeOK, Owned, ImagesOwned,
       TlsAssumption
  <2>4. mem' = [mem EXCEPT ![r] = [kind |-> "block", of |-> ImageAt(modules[id]), by |-> t]]
    BY DEF NewBlock
  <2> QED BY <2>3, <2>4 DEF LoaderInv, BookInv, TypeOK, TlsTypeOK
<1> QED BY <1>1, <1>2

LEMMA TemplateStep == TemplateInv /\ [Next]_vars => TemplateInv'
<1> SUFFICES ASSUME TemplateInv, [Next]_vars PROVE TemplateInv'
  OBVIOUS
<1>1. LoaderInv /\ LoaderInv' /\ BookInv /\ Owned /\ BookInv'
  BY OwnedStep DEF TemplateInv, LoaderInv
<1>2. CASE UNCHANGED vars
  BY <1>1, <1>2 DEF vars, tlsVars, loaderVars, TemplateInv, BlocksFilled, BlocksNumbered,
     HasImage
<1>3. CASE Next
  <2>a. \A o \in Objects : module'[o] # module[o] =>
          /\ module'[o] = nextID /\ nextID \in ModuleIDs /\ blocks' = blocks
    <3> SUFFICES ASSUME NEW o \in Objects, module'[o] # module[o]
                 PROVE  module'[o] = nextID /\ nextID \in ModuleIDs /\ blocks' = blocks
      OBVIOUS
    <3>1. Populate(o)
      BY <1>1, <1>3, ObjectSteps
    <3>2. module' = [module EXCEPT ![o] = nextID] /\ ~ Full /\ blocks' = blocks
      BY <3>1 DEF Populate
    <3> QED BY <1>1, <3>2, SMT DEF Full, ModuleIDs, BookInv, TypeOK, TlsTypeOK, TlsAssumption
  <2>b. nextID \in Nat /\ nextID' \in Nat /\ nextID <= nextID'
    <3>1. nextID \in Nat
      BY <1>1, SMT DEF BookInv, TypeOK, TlsTypeOK, TlsAssumption
    <3>2. nextID' = nextID \/ nextID' = nextID + 1
      <4>1. ASSUME NEW o \in Objects, Reserve(o) \/ Populate(o) \/ Moves(o)
            PROVE  nextID' = nextID \/ nextID' = nextID + 1
        BY <4>1 DEF Reserve, Populate, RegisterModule, Moves, Books
      <4>2. ASSUME NEW o \in Objects, Writes(o) PROVE nextID' = nextID
        BY <1>1, <4>2, WritesFacts DEF BookInv
      <4> QED BY <1>3, <4>1, <4>2, Classes DEF Elsewhere
    <3> QED BY <3>1, <3>2
  <2>1. BlocksFilled'
    <3> SUFFICES ASSUME NEW o \in Objects, NEW i \in Tids, HasImage(o)',
                        module'[o] # 0, blocks'[i][module'[o]] # None
                 PROVE  mem'[blocks'[i][module'[o]]].of = o
      BY DEF BlocksFilled
    <3>1. CASE module'[o] # module[o]
      <4>1. blocks[i][nextID] # None /\ nextID \in ModuleIDs
        BY <2>a, <3>1
      <4> QED BY <2>b, <4>1, SMT DEF TemplateInv, BlocksNumbered
    <3>2. CASE module'[o] = module[o]
      <4> DEFINE k == module[o]
      <4>1. k \in ModuleIDs /\ blocks'[i][k] # None /\ k # 0
        BY <1>1, <3>2, ModuleBound
      <4>a. HasImage(o)
        <5>1. HasImage(o) \/ Reserve(o)
          BY <1>1, <1>3, ObjectSteps
        <5>2. Reserve(o) => module[o] = 0
          BY <1>1 DEF Reserve, BookInv, ModulesInv
        <5> QED BY <4>1, <5>1, <5>2
      <4>2. CASE /\ blocks'[i][k] = blocks[i][k]
                 /\ mem'[blocks[i][k]] = mem[blocks[i][k]]
        BY <3>2, <4>1, <4>2, <4>a DEF TemplateInv, BlocksFilled
      <4>3. CASE \E r \in Regions, t \in Threads, p \in Objects : \E n \in ModuleIDs :
                    /\ mem[r] = Free /\ NewBlock(r, t, p, n)
                    /\ tid[t] = i /\ n = k /\ blocks'[i][k] = r
        <5>1. PICK r \in Regions, t \in Threads, p \in Objects : \E n \in ModuleIDs :
                    /\ mem[r] = Free /\ NewBlock(r, t, p, n)
                    /\ tid[t] = i /\ n = k /\ blocks'[i][k] = r
          BY <4>3
        <5>2. PICK n \in ModuleIDs :
                    /\ mem[r] = Free /\ NewBlock(r, t, p, n)
                    /\ tid[t] = i /\ n = k /\ blocks'[i][k] = r
          BY <5>1
        <5>3. mem'[r] = [kind |-> "block", of |-> o, by |-> t]
          BY <1>1, <4>a, <5>2, NewBlockFacts
        <5> QED BY <3>2, <5>2, <5>3
      <4> QED BY <1>1, <1>3, <4>1, <4>2, <4>3, BlockSteps
    <3> QED BY <3>1, <3>2
  <2>2. BlocksNumbered'
    <3> SUFFICES ASSUME NEW i \in Tids, NEW k \in ModuleIDs, blocks'[i][k] # None
                 PROVE  k < nextID'
      BY DEF BlocksNumbered
    <3>0. k \in Nat
      BY SMT DEF ModuleIDs, TlsAssumption
    <3>1. CASE blocks[i][k] # None
      BY <2>b, <3>0, <3>1, SMT DEF TemplateInv, BlocksNumbered
    <3>2. CASE blocks[i][k] = None
      <4>1. PICK r \in Regions, t \in Threads, p \in Objects : \E n \in ModuleIDs :
                    NewBlock(r, t, p, n) /\ n = k
        BY <1>1, <1>3, <3>2, BlockSteps
      <4>2. PICK n \in ModuleIDs : NewBlock(r, t, p, n) /\ n = k
        BY <4>1
      <4>3. k < nextID
        BY <1>1, <4>2, NewBlockFacts
      <4> QED BY <2>b, <3>0, <4>3, SMT
    <3> QED BY <3>1, <3>2
  <2> QED BY <1>1, <2>1, <2>2 DEF TemplateInv
<1> QED BY <1>2, <1>3

\* A thread never sees the initial values of another library, or of memory mapped since an
\* image was unmapped: its block for a module is filled from the image of the object that
\* has the module's ID, and no two objects have the same
THEOREM TemplatesKept == Spec => []TemplatesCurrent
<1>1. Init => TemplateInv
  <2>1. Init => BlocksFilled /\ BlocksNumbered
    BY DEF Init, TlsInit, BlocksFilled, BlocksNumbered
  <2> QED BY <2>1, OwnedStart DEF TemplateInv
<1>2. TemplateInv => TemplatesCurrent
  <2> SUFFICES ASSUME TemplateInv PROVE TemplatesCurrent
    OBVIOUS
  <2>1. \A o \in Objects : Runs(o) /\ File[o].tls => module[o] # 0
    BY DEF TemplateInv, LoaderInv, BookInv, ModulesInv, Runs, HasPages
  <2>2. \A o \in Objects : Runs(o) => HasImage(o)
    BY DEF Runs, HasImage
  <2> QED BY <2>1, <2>2 DEF TemplateInv, LoaderInv, BookInv, ModulesInv, BlocksFilled,
             TemplatesCurrent
<1> QED BY <1>1, <1>2, TemplateStep, PTL DEF Spec
-----------------------------------------------------------------------------
(* What is given back *)

\* A GOT page is its object's until it is unmapped: while the object can be unloaded, it is
\* on the list of pages that Unload will unmap
PagesListed ==
    \A r \in Regions : mem[r].kind = "got" =>
        /\ mem[r].of \in Objects
        /\ phase[mem[r].of] \notin {"none", "mapped", "unmap", "gone"}
        /\ HasPages(mem[r].of) => r \in GotPages(mem[r].of)

\* What a new mapping is
LEMMA MapsFacts ==
    ASSUME BookInv, NEW r \in Regions, Maps(r)
    PROVE  /\ \A q \in Regions \ {r} : mem'[q] = mem[q]
           /\ \/ \E o \in Objects : Reserve(o) /\ base'[o] = r
                    /\ mem'[r] = [kind |-> "image", of |-> o, by |-> None]
              \/ \E o \in Objects : AllocateGotEntry(o) /\ pages' = [pages EXCEPT ![o] = Append(@, r)]
                    /\ mem'[r] = [kind |-> "got", of |-> o, by |-> None]
              \/ mem'[r].kind \in {"static", "block"}
<1>a. mem \in [Regions -> Mapping] /\ base \in [Objects -> Regions \cup {None}]
  BY DEF BookInv, TypeOK, TlsTypeOK
<1>1. \A q \in Regions \ {r} : mem'[q] = mem[q]
  BY <1>a, MapsOne
<1>2. ASSUME NEW o \in Objects, Reserve(o), base' = [base EXCEPT ![o] = r],
             mem' = [mem EXCEPT ![r] = [kind |-> "image", of |-> o, by |-> None]]
      PROVE  \E p \in Objects : Reserve(p) /\ base'[p] = r
                    /\ mem'[r] = [kind |-> "image", of |-> p, by |-> None]
  <2>1. base'[o] = r /\ mem'[r] = [kind |-> "image", of |-> o, by |-> None]
    BY <1>a, <1>2
  <2> QED BY <1>2, <2>1, Zenon
<1>3. ASSUME NEW o \in Objects, AllocateGotEntry(o),
             pages' = [pages EXCEPT ![o] = Append(@, r)],
             mem' = [mem EXCEPT ![r] = [kind |-> "got", of |-> o, by |-> None]]
      PROVE  \E p \in Objects :
                /\ AllocateGotEntry(p) /\ pages' = [pages EXCEPT ![p] = Append(@, r)]
                /\ mem'[r] = [kind |-> "got", of |-> p, by |-> None]
  <2>1. mem'[r] = [kind |-> "got", of |-> o, by |-> None]
    BY <1>a, <1>3
  <2> QED BY <1>3, <2>1, Zenon
<1>4. ASSUME NEW source,
             mem' = [mem EXCEPT ![r] = [kind |-> "static", of |-> source, by |-> None]]
      PROVE  mem'[r].kind \in {"static", "block"}
  BY <1>a, <1>4
<1>5. ASSUME NEW t, NEW o, NEW i, NewBlock(r, t, o, i)
      PROVE  mem'[r].kind \in {"static", "block"}
  BY <1>a, <1>5 DEF NewBlock
<1> QED BY <1>1, <1>2, <1>3, <1>4, <1>5 DEF Maps

LEMMA PagesListedStep ==
    ASSUME LoaderInv, PagesListed, [Next]_vars
    PROVE  PagesListed'
<1>1. BookInv /\ Owned /\ BookInv'
  BY OwnedStep DEF LoaderInv
<1>2. CASE UNCHANGED vars
  BY <1>2 DEF vars, tlsVars, loaderVars, PagesListed, HasPages, GotPages
<1>3. CASE Next
  <2> SUFFICES ASSUME NEW r \in Regions, mem'[r].kind = "got"
               PROVE  \E o \in Objects :
                        /\ mem'[r].of = o
                        /\ phase'[o] \notin {"none", "mapped", "unmap", "gone"}
                        /\ HasPages(o)' => r \in GotPages(o)'
    BY DEF PagesListed, HasPages, GotPages
  <2>1. CASE mem'[r] = mem[r]
    <3>1. PICK o \in Objects :
            /\ mem'[r].of = o
            /\ phase[o] \notin {"none", "mapped", "unmap", "gone"}
            /\ HasPages(o) => r \in GotPages(o)
      <4>1. mem[r].of \in Objects /\ mem'[r].of = mem[r].of
        BY <2>1 DEF PagesListed
      <4> QED BY <2>1, <4>1 DEF PagesListed
    <3>2. phase'[o] \notin {"none", "mapped", "unmap", "gone"}
      <4>1. ASSUME NEW p \in Objects, Moves(p), phase'[o] \in {"unmap", "gone"}
            PROVE  p = o /\ phase[o] = "fini" /\ phase'[o] = "unmap"
        BY <1>1, <3>1, <4>1, MovesFacts DEF BookInv, Advances
      <4>2. ASSUME NEW p \in Objects, Moves(p)
            PROVE  phase'[o] \notin {"none", "mapped"}
        BY <1>1, <3>1, <4>2, MovesFacts DEF BookInv, Advances
      <4>3. ASSUME NEW p \in Objects, Reserve(p) \/ Populate(p) \/ Writes(p)
            PROVE  phase'[o] \notin {"none", "mapped", "unmap", "gone"}
        <5>1. CASE Reserve(p) \/ Populate(p)
          BY <1>1, <3>1, <5>1 DEF Reserve, Populate, Goto, BookInv, TypeOK
        <5>2. CASE Writes(p)
          BY <1>1, <3>1, <5>2, WritesFacts DEF BookInv
        <5> QED BY <4>3, <5>1, <5>2
      <4>4. ~ (phase[o] = "fini" /\ phase'[o] = "unmap")
        <5> SUFFICES ASSUME phase[o] = "fini", phase'[o] = "unmap" PROVE FALSE
          OBVIOUS
        <5>1. UnmapGotPages(o)
          <6>1. PICK p \in Objects : Load(p) \/ Unload(p)
            BY <1>3 DEF Next, TLSAccess, loaderVars
          <6>2. CASE p # o
            <7>1. phase'[o] = phase[o]
              <8>1. CASE Reserve(p) \/ Populate(p)
                BY <1>1, <3>1, <6>2, <8>1 DEF Reserve, Populate, Goto, BookInv, TypeOK
              <8>2. CASE Writes(p)
                BY <1>1, <3>1, <6>2, <8>2, WritesFacts DEF BookInv
              <8>3. CASE Moves(p)
                BY <1>1, <3>1, <6>2, <8>3, MovesFacts DEF BookInv
              <8> QED BY <6>1, <8>1, <8>2, <8>3, ClassOf
            <7> QED BY <7>1
          <6>3. CASE p = o
            <7>1. ~ Load(o)
              BY DEF Load, Reserve, ReserveFails, Populate, PopulateFails, RegisterRefused,
                 ApplySymbol, UndefinedSymbol, NoTLSSegment, ApplyDTPMod, ReuseGotEntry,
                 AllocateGotEntry, GotPageFails, ResolveTPOff, AllocateTPBlock, TPBlockFails,
                 RunConstructors, Loaded, Pending
            <7>2. ~ RunFini(o) /\ ~ UnmapImage(o) /\ ~ UnmapGotFails(o)
              BY <1>1, <3>1 DEF RunFini, UnmapImage, UnmapGotFails, Goto, BookInv, TypeOK
            <7> QED BY <6>1, <6>3, <7>1, <7>2 DEF Unload
          <6> QED BY <6>2, <6>3
        <5>2. r \in GotPages(o)
          BY <3>1 DEF HasPages
        <5>3. mem'[r] = Free
          BY <5>1, <5>2 DEF UnmapGotPages
        <5> QED BY <5>3 DEF Free
      <4> QED BY <1>3, <3>1, <4>1, <4>2, <4>3, <4>4, Classes DEF Elsewhere, loaderVars
    <3>3. HasPages(o)' => r \in GotPages(o)'
      <4> SUFFICES ASSUME HasPages(o)' PROVE r \in GotPages(o)'
        OBVIOUS
      <4>1. HasPages(o)
        <5>1. ~ Populate(o)
          BY <3>1 DEF Populate
        <5> QED BY <1>1, <1>3, <3>1, <5>1, ObjectSteps
      <4>2. PICK i \in DOMAIN pages[o] : pages[o][i] = r
        BY <3>1, <4>1 DEF GotPages
      <4>3. i \in DOMAIN pages'[o] /\ pages'[o][i] = pages[o][i]
        <5>1. CASE pages'[o] = pages[o]
          BY <5>1
        <5>2. CASE pages'[o] # pages[o]
          <6>1. PICK q \in Regions : pages'[o] = Append(pages[o], q)
            BY <1>1, <1>3, <3>1, <5>2, ObjectSteps, AllocateGotEntryFacts DEF BookInv
          <6>2. pages[o] \in Seq(Regions)
            BY <1>1, <3>1 DEF BookInv, TypeOK
          <6>3. /\ DOMAIN pages[o] = 1 .. Len(pages[o])
                /\ DOMAIN pages'[o] = 1 .. Len(pages[o]) + 1 /\ Len(pages[o]) \in Nat
                /\ \A j \in 1 .. Len(pages[o]) : pages'[o][j] = pages[o][j]
            BY <6>1, <6>2, AppendType, LenProperties
          <6> QED BY <6>3
        <5> QED BY <5>1, <5>2
      <4> QED BY <4>2, <4>3 DEF GotPages
    <3> QED BY <3>1, <3>2, <3>3
  <2>2. CASE mem'[r] # mem[r]
    <3>1. mem'[r] # Free
      BY DEF Free
    <3>2. ~ Unmaps
      BY <2>2, <3>1 DEF Unmaps
    <3>3. PICK q \in Regions : mem[q] = Free /\ Maps(q)
      BY <1>1, <1>3, <3>2, MemorySteps
    <3>4. q = r
      BY <1>1, <2>2, <3>3, MapsFacts
    <3>5. PICK o \in Objects :
            /\ AllocateGotEntry(o) /\ pages' = [pages EXCEPT ![o] = Append(@, r)]
            /\ mem'[r] = [kind |-> "got", of |-> o, by |-> None]
      <4>1. \/ \E o \in Objects : Reserve(o) /\ base'[o] = r
                  /\ mem'[r] = [kind |-> "image", of |-> o, by |-> None]
            \/ \E o \in Objects : AllocateGotEntry(o) /\ pages' = [pages EXCEPT ![o] = Append(@, r)]
                  /\ mem'[r] = [kind |-> "got", of |-> o, by |-> None]
            \/ mem'[r].kind \in {"static", "block"}
        BY <1>1, <3>3, <3>4, MapsFacts, Zenon
      <4>2. ASSUME NEW o, mem'[r] = [kind |-> "image", of |-> o, by |-> None]
            PROVE  FALSE
        BY <4>2
      <4>3. mem'[r].kind \notin {"static", "block"}
        OBVIOUS
      <4> QED BY <4>1, <4>2, <4>3, Zenon
    <3>6. pages'[o] = Append(pages[o], r) /\ pages[o] \in Seq(Regions)
      BY <1>1, <3>5 DEF BookInv, TypeOK
    <3>7. DOMAIN pages'[o] = 1 .. Len(pages[o]) + 1 /\ Len(pages[o]) \in Nat
          /\ pages'[o][Len(pages[o]) + 1] = r
      BY <3>6, AppendType, LenProperties
    <3>8. r \in GotPages(o)'
      BY <3>7 DEF GotPages
    <3>9. phase'[o] = "reloc"
      BY <3>5 DEF AllocateGotEntry, Pending
    <3> QED BY <3>5, <3>8, <3>9
  <2> QED BY <2>1, <2>2
<1> QED BY <1>2, <1>3

\* Unload leaves no GOT page behind, in whatever order pages were mapped and whoever maps
\* them in between; only an object that is stuck, or whose load failed, has pages left
THEOREM GotPagesReleased == Spec => []PagesReleased
<1>1. Init => PagesListed
  BY DEF Init, TlsInit, PagesListed, Free
<1>2. PagesListed => PagesReleased
  BY DEF PagesListed, PagesReleased
<1>3. LoaderInv /\ PagesListed /\ [Next]_vars => PagesListed'
  BY PagesListedStep
<1> QED BY <1>1, <1>2, <1>3, LoaderInvariant, PTL DEF Spec

\* Where munmap works, an object that goes gives its image back in the same step
LEMMA ImageGiven ==
    ASSUME ~ UnmapFails, LoaderInv, Next, NEW o \in Objects, HasImage(o), ~ HasImage(o)'
    PROVE  mem'[base[o]] = Free
<1>1. BookInv /\ Owned /\ base[o] \in Regions
      /\ mem \in [Regions -> Mapping] /\ phase \in [Objects -> Phases]
  BY DEF LoaderInv, BookInv, TypeOK, TlsTypeOK, Owned, ImagesOwned
<1>2. PICK p \in Objects : Load(p) \/ Unload(p)
  BY DEF Next, TLSAccess, loaderVars, HasImage
<1>3. p = o
  <2> SUFFICES ASSUME p # o PROVE FALSE
    OBVIOUS
  <2>1. CASE Reserve(p) \/ Populate(p)
    BY <1>1, <2>1 DEF Reserve, Populate, Goto, HasImage
  <2>2. CASE Writes(p)
    BY <1>1, <2>2, WritesFacts DEF BookInv, HasImage
  <2>3. CASE Moves(p)
    BY <1>1, <2>3, MovesFacts DEF BookInv, HasImage
  <2> QED BY <1>2, <2>1, <2>2, <2>3, ClassOf
<1>4. CASE Reserve(o) \/ ReserveFails(o) \/ Populate(o) \/ AllocateTPBlock(o)
           \/ RunConstructors(o) \/ Loaded(o) \/ RunFini(o) \/ UnmapGotPages(o)
  BY <1>1, <1>4 DEF Reserve, ReserveFails, Populate, AllocateTPBlock, RunConstructors, Loaded,
     RunFini, UnmapGotPages, Goto, HasImage
<1>5. CASE Writes(o)
  BY <1>1, <1>5, WritesFacts, Zenon DEF BookInv, HasImage, Writes
<1>6. CASE PopulateFails(o) \/ RegisterRefused(o) \/ UndefinedSymbol(o)
           \/ NoTLSSegment(o) \/ GotPageFails(o) \/ TPBlockFails(o)
  <2>1. Fail(o)
    BY <1>6 DEF PopulateFails, RegisterRefused, UndefinedSymbol, NoTLSSegment, GotPageFails,
       TPBlockFails
  <2> QED BY <1>1, <2>1 DEF Fail, DropImage
<1>7. CASE UnmapImage(o)
  BY <1>1, <1>7 DEF UnmapImage
<1>8. ~ UnmapGotFails(o)
  BY DEF UnmapGotFails
<1> QED BY <1>2, <1>3, <1>4, <1>5, <1>6, <1>7, <1>8, Zenon DEF Load, Unload, Writes

ImagesListed ==
    \A r \in Regions : mem[r].kind = "image" =>
        mem[r].of \in Objects /\ HasImage(mem[r].of) /\ base[mem[r].of] = r

LEMMA ImagesListedStep ==
    ASSUME ~ UnmapFails, LoaderInv, ImagesListed, [Next]_vars
    PROVE  ImagesListed'
<1>1. BookInv /\ Owned /\ BookInv' /\ Owned'
  BY OwnedStep DEF LoaderInv
<1>2. CASE UNCHANGED vars
  BY <1>2 DEF vars, tlsVars, loaderVars, ImagesListed, HasImage
<1>3. CASE Next
  <2> SUFFICES ASSUME NEW r \in Regions, mem'[r].kind = "image"
               PROVE  \E o \in Objects : mem'[r].of = o /\ HasImage(o)' /\ base'[o] = r
    BY DEF ImagesListed, HasImage
  <2>1. CASE mem'[r] = mem[r]
    <3>1. PICK o \in Objects : mem'[r].of = o /\ HasImage(o) /\ base[o] = r
      <4>1. mem[r].of \in Objects /\ mem'[r].of = mem[r].of
        BY <2>1 DEF ImagesListed
      <4> QED BY <2>1, <4>1 DEF ImagesListed
    <3>2. HasImage(o)'
      <4> SUFFICES ASSUME ~ HasImage(o)' PROVE FALSE
        OBVIOUS
      <4>1. mem'[r] = Free
        BY <1>3, <3>1, ImageGiven
      <4> QED BY <4>1 DEF Free
    <3>3. base'[o] = r
      <4>1. ~ Reserve(o)
        BY <3>1 DEF Reserve, HasImage
      <4> QED BY <1>1, <1>3, <3>1, <4>1, ObjectSteps
    <3> QED BY <3>1, <3>2, <3>3
  <2>2. CASE mem'[r] # mem[r]
    <3>1. mem'[r] # Free
      BY DEF Free
    <3>2. ~ Unmaps
      BY <2>2, <3>1 DEF Unmaps
    <3>3. PICK q \in Regions : mem[q] = Free /\ Maps(q)
      BY <1>1, <1>3, <3>2, MemorySteps
    <3>4. q = r
      BY <1>1, <2>2, <3>3, MapsFacts
    <3>5. \/ \E o \in Objects : Reserve(o) /\ base'[o] = r
                /\ mem'[r] = [kind |-> "image", of |-> o, by |-> None]
          \/ \E o \in Objects : mem'[r] = [kind |-> "got", of |-> o, by |-> None]
          \/ mem'[r].kind \in {"static", "block"}
      BY <1>1, <3>3, <3>4, MapsFacts, Zenon
    <3>6. PICK o \in Objects : Reserve(o) /\ base'[o] = r
                /\ mem'[r] = [kind |-> "image", of |-> o, by |-> None]
      <4>1. ASSUME NEW o, mem'[r] = [kind |-> "got", of |-> o, by |-> None]
            PROVE  FALSE
        BY <4>1
      <4>2. mem'[r].kind \notin {"static", "block"}
        OBVIOUS
      <4> QED BY <3>5, <4>1, <4>2, Zenon
    <3>7. HasImage(o)'
      BY <1>1, <3>6 DEF Reserve, Goto, HasImage, BookInv, TypeOK
    <3> QED BY <3>6, <3>7
  <2> QED BY <2>1, <2>2
<1> QED BY <1>2, <1>3

\* Where munmap works, every path out of Load and Unload gives the image back
THEOREM EveryImageReleased ==
    ASSUME ~ UnmapFails
    PROVE  Spec => []ImagesReleased
<1>1. Init => ImagesListed
  BY DEF Init, TlsInit, ImagesListed, Free
<1>2. ImagesListed => ImagesReleased
  BY DEF ImagesListed, ImagesReleased
<1>3. LoaderInv /\ ImagesListed /\ [Next]_vars => ImagesListed'
  BY ImagesListedStep
<1> QED BY <1>1, <1>2, <1>3, LoaderInvariant, PTL DEF Spec
-----------------------------------------------------------------------------
(* Running threads do not find each other's blocks *)

\* A block found under an ID belongs to the running thread that has the ID, or to one that
\* is gone
BlocksBy ==
    \A i \in Tids, k \in ModuleIDs : blocks[i][k] # None =>
        LET u == mem[blocks[i][k]].by
        IN  u \in exited \/ (u \in Threads /\ tid[u] = i)

\* A thread keeps its ID until it exits
LEMMA TidStays ==
    ASSUME BookInv, Next
    PROVE  /\ exited \subseteq exited'
           /\ \A u \in Threads : tid[u] # None => tid'[u] = tid[u] \/ u \in exited'
<1>1. tid \in [Threads -> Tids \cup {None}]
  BY DEF BookInv, TypeOK, TlsTypeOK
<1>2. ASSUME NEW o \in Objects, Load(o) \/ Unload(o)
      PROVE  UNCHANGED <<tid, exited>>
  <2>1. CASE ReserveFails(o) \/ RunConstructors(o) \/ Loaded(o) \/ RunFini(o) \/ Reserve(o)
             \/ Populate(o) \/ Writes(o) \/ AllocateTPBlock(o)
    BY <2>1 DEF ReserveFails, RunConstructors, Loaded, RunFini, Reserve, Populate, Writes,
       ApplySymbol, ApplyDTPMod, ReuseGotEntry, AllocateGotEntry, ResolveTPOff,
       AllocateTPBlock, tlsVars
  <2>2. CASE PopulateFails(o) \/ RegisterRefused(o) \/ UndefinedSymbol(o)
             \/ NoTLSSegment(o) \/ GotPageFails(o) \/ TPBlockFails(o)
    BY <2>2 DEF PopulateFails, RegisterRefused, UndefinedSymbol, NoTLSSegment, GotPageFails,
       TPBlockFails, Fail
  <2>3. CASE UnmapGotPages(o) \/ UnmapGotFails(o) \/ UnmapImage(o)
    BY <2>3 DEF UnmapGotPages, UnmapGotFails, UnmapImage
  <2> QED BY <1>2, <2>1, <2>2, <2>3, Zenon DEF Load, Unload, Writes
<1>3. ASSUME NEW t \in Threads, NEW o \in Objects, TLSAccess(t, o)
      PROVE  UNCHANGED <<tid, exited>>
  BY <1>3 DEF TLSAccess, GetTLSAddr, GetTLSAddrAgain, tlsVars
<1>4. ASSUME NEW t \in Threads, ThreadStart(t)
      PROVE  /\ exited' = exited
             /\ \A u \in Threads : tid[u] # None => tid'[u] = tid[u]
  BY <1>1, <1>4 DEF ThreadStart
<1>5. ASSUME NEW t \in Threads, ThreadExit(t)
      PROVE  /\ exited' = exited \cup {t}
             /\ \A u \in Threads \ {t} : tid'[u] = tid[u]
  BY <1>1, <1>5 DEF ThreadExit
<1> QED BY <1>2, <1>3, <1>4, <1>5 DEF Next

LEMMA BlocksByStep == LoaderInv /\ BlocksBy /\ [Next]_vars => BlocksBy'
<1> SUFFICES ASSUME LoaderInv, BlocksBy, [Next]_vars PROVE BlocksBy'
  OBVIOUS
<1>1. BookInv /\ Owned /\ mem \in [Regions -> Mapping]
  BY DEF LoaderInv, BookInv, TypeOK, TlsTypeOK
<1>2. CASE UNCHANGED vars
  BY <1>2 DEF vars, tlsVars, BlocksBy
<1>3. CASE Next
  <2> SUFFICES ASSUME NEW i \in Tids, NEW k \in ModuleIDs, blocks'[i][k] # None
               PROVE  LET u == mem'[blocks'[i][k]].by
                      IN  u \in exited' \/ (u \in Threads /\ tid'[u] = i)
    BY DEF BlocksBy
  <2>1. CASE /\ blocks'[i][k] = blocks[i][k]
             /\ mem'[blocks[i][k]] = mem[blocks[i][k]]
    <3> DEFINE u == mem[blocks[i][k]].by
    <3>1. u \in exited \/ (u \in Threads /\ tid[u] = i)
      BY <2>1 DEF BlocksBy
    <3>2. u = mem'[blocks'[i][k]].by /\ i # None
      BY <2>1, TlsAssumption
    <3> HIDE DEF u
    <3>3. u \in exited' \/ (u \in Threads /\ tid'[u] = i)
      BY <1>1, <1>3, <3>1, <3>2, TidStays
    <3> QED BY <3>2, <3>3
  <2>2. CASE \E r \in Regions, t \in Threads, o \in Objects : \E n \in ModuleIDs :
                NewBlock(r, t, o, n) /\ tid[t] = i /\ blocks'[i][k] = r
    <3>1. PICK r \in Regions, t \in Threads, o \in Objects : \E n \in ModuleIDs :
                NewBlock(r, t, o, n) /\ tid[t] = i /\ blocks'[i][k] = r
      BY <2>2
    <3>2. PICK n \in ModuleIDs : NewBlock(r, t, o, n) /\ tid[t] = i /\ blocks'[i][k] = r
      BY <3>1
    <3>3. mem'[r].by = t /\ tid'[t] = i
      BY <1>1, <3>2 DEF NewBlock
    <3> QED BY <3>2, <3>3
  <2> QED BY <1>1, <1>3, <2>1, <2>2, BlockSteps
<1> QED BY <1>2, <1>3

\* Whether anybody cleans up after a thread or not, the block a running thread finds for a
\* module was never another running thread's: that it may be a dead thread's is all that
\* the reuse of thread IDs can do
THEOREM RunningThreadsApart == Spec => []BlocksApart
<1>1. Init => BlocksBy
  BY DEF Init, TlsInit, BlocksBy
<1>2. LoaderInv /\ BlocksBy => BlocksApart
  <2> SUFFICES ASSUME LoaderInv, BlocksBy, NEW t \in Threads, tid[t] # None,
                      NEW k \in ModuleIDs, blocks[tid[t]][k] # None
               PROVE  mem[blocks[tid[t]][k]].by \in {t} \cup exited
    BY DEF BlocksApart
  <2>1. PICK i \in Tids : i = tid[t]
    BY DEF LoaderInv, BookInv, TypeOK, TlsTypeOK
  <2> DEFINE u == mem[blocks[i][k]].by
  <2>2. u \in exited \/ (u \in Threads /\ tid[u] = i)
    BY <2>1 DEF BlocksBy
  <2> HIDE DEF u
  <2>3. u \in Threads /\ tid[u] = i => u = t
    BY <2>1 DEF LoaderInv, Owned, TidsOwned
  <2> QED BY <2>1, <2>2, <2>3 DEF u
<1> QED BY <1>1, <1>2, BlocksByStep, LoaderInvariant, PTL DEF Spec
-----------------------------------------------------------------------------
(* The GOT entries that the TLSGD and TLSLD relocations of an object allocate *)

\* The entry with number k is the one that x points to
PointsTo(x, k, entries, on) ==
    /\ entries[k] = KeyOf(x)
    /\ x.page = on[PageIndex(k - 1) + 1]
    /\ x.slot = (k - 1) % PagePairs

\* x has the key of that entry, which is not on the first page, and points behind that page
Strays(x, k, entries, on) ==
    /\ entries[k] = KeyOf(x) /\ PagePairs < k
    /\ x.page = on[1] /\ x.slot = k - 1

\* What the relocations done have to do with the entries: they are those of the file, in
\* its order; no key has two entries; each entry is what a relocation points to; and each
\* relocation points to the entry of its key, or strays after another one that does
Trace(o, done, entries, on) ==
    /\ Len(done) <= Len(File[o].relocs)
    /\ \A i \in 1 .. Len(done) : done[i].kind = File[o].relocs[i].kind
                              /\ done[i].sym = File[o].relocs[i].sym
    /\ \A k, l \in DOMAIN entries : entries[k] = entries[l] => k = l
    /\ \A k \in DOMAIN entries : \E i \in 1 .. Len(done) :
        done[i].kind \in GotKinds /\ PointsTo(done[i], k, entries, on)
    /\ \A i \in 1 .. Len(done) : done[i].kind \in GotKinds =>
        \E k \in DOMAIN entries :
            \/ PointsTo(done[i], k, entries, on)
            \/ /\ Strays(done[i], k, entries, on)
               /\ \E j \in 1 .. Len(done) :
                    j < i /\ done[j].kind \in GotKinds /\ PointsTo(done[j], k, entries, on)

Traced == \A o \in Objects : Trace(o, patched[o], got[o], pages[o])
-----------------------------------------------------------------------------
(* The trace grows with a relocation *)

LEMMA RelocsType ==
    ASSUME NEW o \in Objects
    PROVE  /\ DOMAIN File[o].relocs = 1 .. Len(File[o].relocs)
           /\ Len(File[o].relocs) \in Nat
BY LenProperties DEF LoaderAssumption, FileType

\* An entry has a place on a page that is there
LEMMA EntryPlace ==
    ASSUME BookInv, NEW o \in Objects, NEW k \in DOMAIN got[o]
    PROVE  /\ k \in Nat \ {0} /\ k - 1 \in Nat
           /\ DOMAIN got[o] = 1 .. Len(got[o]) /\ Len(got[o]) \in Nat
           /\ PageIndex(k - 1) + 1 \in DOMAIN pages[o] /\ PageIndex(k - 1) \in Nat
           /\ (k - 1) % PagePairs \in 0 .. PagePairs - 1
           /\ k - 1 = PagePairs * PageIndex(k - 1) + ((k - 1) % PagePairs)
<1>1. /\ DOMAIN got[o] = 1 .. Len(got[o]) /\ Len(got[o]) \in Nat
      /\ DOMAIN pages[o] = 1 .. Len(pages[o]) /\ Len(pages[o]) \in Nat
      /\ Len(got[o]) <= Len(pages[o]) * PagePairs
      /\ PagePairs \in Nat \ {0}
  BY LenProperties DEF BookInv, TypeOK, GotInv, LoaderAssumption
<1>2. Len(pages[o]) * PagePairs \in Nat
  BY <1>1, SMT
<1>3. k - 1 \in Nat /\ k - 1 < Len(pages[o]) * PagePairs /\ k \in Nat \ {0}
  BY <1>1, <1>2, SMT
<1>4. /\ (k - 1) \div PagePairs \in 0 .. Len(pages[o]) - 1
      /\ (k - 1) % PagePairs \in 0 .. PagePairs - 1
      /\ k - 1 = PagePairs * ((k - 1) \div PagePairs) + ((k - 1) % PagePairs)
  BY <1>1, <1>3, PageBound
<1>5. PageIndex(k - 1) + 1 \in DOMAIN pages[o] /\ PageIndex(k - 1) \in Nat
  <2> DEFINE x == (k - 1) \div PagePairs
  <2>1. x \in 0 .. Len(pages[o]) - 1 /\ PageIndex(k - 1) = x
    BY <1>4 DEF PageIndex
  <2> HIDE DEF x
  <2> QED BY <1>1, <2>1, SMT
<1> QED BY <1>1, <1>3, <1>4, <1>5 DEF PageIndex

\* The first page holds the first entries, each at its own slot
LEMMA FirstPage ==
    ASSUME NEW k \in Nat, k < PagePairs
    PROVE  PageIndex(k) = 0 /\ k % PagePairs = k
<1>1. k < 1 * PagePairs
  BY SMT DEF LoaderAssumption
<1>2. k \div PagePairs \in 0 .. 0 /\ k = PagePairs * (k \div PagePairs) + (k % PagePairs)
  BY <1>1, PageBound, SMT DEF LoaderAssumption
<1>3. k \div PagePairs = 0
  BY <1>2
<1>4. PagePairs * 0 = 0
  BY SMT DEF LoaderAssumption
<1>5. k % PagePairs \in Int
  BY SMT DEF LoaderAssumption
<1> QED BY <1>2, <1>3, <1>4, <1>5, SMT DEF PageIndex

\* One more relocation is done, and it is the next of the file
LEMMA TraceAppend ==
    ASSUME NEW o \in Objects, NEW done \in Seq(Patch), NEW e \in Patch,
           NEW entries, NEW on, Trace(o, done, entries, on),
           Len(done) + 1 \in DOMAIN File[o].relocs,
           e.kind = File[o].relocs[Len(done) + 1].kind,
           e.sym = File[o].relocs[Len(done) + 1].sym
    PROVE  /\ Len(done) \in Nat /\ Len(Append(done, e)) = Len(done) + 1
           /\ Len(done) + 1 <= Len(File[o].relocs)
           /\ \A i \in 1 .. Len(done) : Append(done, e)[i] = done[i]
           /\ Append(done, e)[Len(done) + 1] = e
           /\ \A i \in 1 .. Len(done) + 1 :
                /\ i \in 1 .. Len(done) \/ i = Len(done) + 1
                /\ Append(done, e)[i].kind = File[o].relocs[i].kind
                /\ Append(done, e)[i].sym = File[o].relocs[i].sym
           /\ KeyOf(File[o].relocs[Len(done) + 1]) = KeyOf(e)
<1>1. /\ Len(done) \in Nat /\ Len(Append(done, e)) = Len(done) + 1
      /\ Append(done, e)[Len(done) + 1] = e
      /\ \A i \in 1 .. Len(done) : Append(done, e)[i] = done[i]
  BY AppendProperties, LenProperties
<1>2. Len(done) + 1 <= Len(File[o].relocs)
  BY <1>1, RelocsType
<1>3. ASSUME NEW i \in 1 .. Len(done) + 1
      PROVE  /\ i \in 1 .. Len(done) \/ i = Len(done) + 1
             /\ Append(done, e)[i].kind = File[o].relocs[i].kind
             /\ Append(done, e)[i].sym = File[o].relocs[i].sym
  <2>1. i \in 1 .. Len(done) \/ i = Len(done) + 1
    BY <1>1
  <2>2. CASE i \in 1 .. Len(done)
    <3>1. done[i].kind = File[o].relocs[i].kind /\ done[i].sym = File[o].relocs[i].sym
      BY <2>2 DEF Trace
    <3> QED BY <1>1, <2>2, <3>1
  <2>3. CASE i = Len(done) + 1
    BY <1>1, <2>3
  <2> QED BY <2>1, <2>2, <2>3
<1>4. KeyOf(File[o].relocs[Len(done) + 1]) = KeyOf(e)
  BY DEF KeyOf
<1> QED BY <1>1, <1>2, <1>3, <1>4

\* One relocation more, and perhaps one entry more: what was there stays as it was
LEMMA TraceGrows ==
    ASSUME NEW o \in Objects, NEW done \in Seq(Patch), NEW e \in Patch,
           NEW entries, NEW on, Trace(o, done, entries, on),
           Len(done) + 1 \in DOMAIN File[o].relocs,
           e.kind = File[o].relocs[Len(done) + 1].kind,
           e.sym = File[o].relocs[Len(done) + 1].sym,
           NEW more, NEW later,
           \A k, l \in DOMAIN more : more[k] = more[l] => k = l,
           \A k \in DOMAIN entries : k \in DOMAIN more /\ more[k] = entries[k],
           \A x \in Patch : \A k \in DOMAIN entries :
                PointsTo(x, k, entries, on) => PointsTo(x, k, more, later),
           \A x \in Patch : \A k \in DOMAIN entries :
                Strays(x, k, entries, on) => Strays(x, k, more, later),
           \A k \in DOMAIN more : k \notin DOMAIN entries =>
                e.kind \in GotKinds /\ PointsTo(e, k, more, later),
           e.kind \in GotKinds => \E k \in DOMAIN more :
                \/ PointsTo(e, k, more, later)
                \/ Strays(e, k, more, later) /\ k \in DOMAIN entries
    PROVE  Trace(o, Append(done, e), more, later)
<1> DEFINE n == Len(done)
           q == Append(done, e)
<1>1. /\ n \in Nat /\ Len(q) = n + 1 /\ n + 1 <= Len(File[o].relocs)
      /\ \A i \in 1 .. n : q[i] = done[i]
      /\ q[n + 1] = e
      /\ \A i \in 1 .. n + 1 :
            /\ i \in 1 .. n \/ i = n + 1
            /\ q[i].kind = File[o].relocs[i].kind /\ q[i].sym = File[o].relocs[i].sym
  BY TraceAppend
<1>2. \A i \in 1 .. n : done[i] \in Patch
  BY ElementOfSeq
<1>3. \A i \in 1 .. n : i \in 1 .. n + 1 /\ i < n + 1
  BY <1>1
<1>4. n + 1 \in 1 .. n + 1
  BY <1>1
<1>5. \A k \in DOMAIN entries : \E i \in 1 .. n :
        q[i].kind \in GotKinds /\ PointsTo(q[i], k, more, later)
  <2> SUFFICES ASSUME NEW k \in DOMAIN entries
               PROVE  \E i \in 1 .. n :
                        q[i].kind \in GotKinds /\ PointsTo(q[i], k, more, later)
    OBVIOUS
  <2>1. PICK i \in 1 .. n : done[i].kind \in GotKinds /\ PointsTo(done[i], k, entries, on)
    BY DEF Trace
  <2>2. PointsTo(done[i], k, more, later)
    BY <1>2, <2>1
  <2> QED BY <1>1, <2>1, <2>2
<1> HIDE DEF q
<1>6. \A k \in DOMAIN more : \E i \in 1 .. n + 1 :
        q[i].kind \in GotKinds /\ PointsTo(q[i], k, more, later)
  <2> SUFFICES ASSUME NEW k \in DOMAIN more
               PROVE  \E i \in 1 .. n + 1 :
                        q[i].kind \in GotKinds /\ PointsTo(q[i], k, more, later)
    OBVIOUS
  <2>1. CASE k \in DOMAIN entries
    BY <1>3, <1>5, <2>1
  <2>2. CASE k \notin DOMAIN entries
    BY <1>1, <1>4, <2>2
  <2> QED BY <2>1, <2>2
<1>7. ASSUME NEW i \in 1 .. n + 1, q[i].kind \in GotKinds
      PROVE  \E k \in DOMAIN more :
                \/ PointsTo(q[i], k, more, later)
                \/ /\ Strays(q[i], k, more, later)
                   /\ \E j \in 1 .. n + 1 :
                        j < i /\ q[j].kind \in GotKinds /\ PointsTo(q[j], k, more, later)
  <2>1. CASE i \in 1 .. n
    <3>1. q[i] = done[i] /\ done[i] \in Patch
      BY <1>1, <1>2, <2>1
    <3>2. PICK k \in DOMAIN entries :
            \/ PointsTo(done[i], k, entries, on)
            \/ /\ Strays(done[i], k, entries, on)
               /\ \E j \in 1 .. n :
                    j < i /\ done[j].kind \in GotKinds /\ PointsTo(done[j], k, entries, on)
      BY <1>7, <2>1, <3>1 DEF Trace
    <3>3. CASE PointsTo(done[i], k, entries, on)
      BY <3>1, <3>3
    <3>4. CASE /\ Strays(done[i], k, entries, on)
               /\ \E j \in 1 .. n :
                    j < i /\ done[j].kind \in GotKinds /\ PointsTo(done[j], k, entries, on)
      <4>1. PICK j \in 1 .. n :
                j < i /\ done[j].kind \in GotKinds /\ PointsTo(done[j], k, entries, on)
        BY <3>4
      <4>2. q[j] = done[j] /\ done[j] \in Patch /\ j \in 1 .. n + 1
        BY <1>1, <1>2, <1>3
      <4>3. PointsTo(q[j], k, more, later) /\ Strays(q[i], k, more, later)
        BY <3>1, <3>4, <4>1, <4>2
      <4> QED BY <4>1, <4>2, <4>3
    <3> QED BY <3>2, <3>3, <3>4
  <2>2. CASE i = n + 1
    <3>1. q[i] = e
      BY <1>1, <2>2
    <3>2. PICK k \in DOMAIN more :
                \/ PointsTo(e, k, more, later)
                \/ Strays(e, k, more, later) /\ k \in DOMAIN entries
      BY <1>7, <3>1
    <3>3. CASE Strays(e, k, more, later) /\ k \in DOMAIN entries
      <4>1. PICK j \in 1 .. n : q[j].kind \in GotKinds /\ PointsTo(q[j], k, more, later)
        BY <1>5, <3>3
      <4>2. j \in 1 .. n + 1 /\ j < i
        BY <1>3, <2>2
      <4> QED BY <3>1, <3>3, <4>1, <4>2
    <3> QED BY <3>1, <3>2, <3>3
  <2> QED BY <1>1, <2>1, <2>2
<1>8. Trace(o, q, more, later)
  BY <1>1, <1>6, <1>7 DEF Trace
<1> QED BY <1>8 DEF q

LEMMA TracePlain ==
    ASSUME NEW o \in Objects, NEW done \in Seq(Patch), NEW e \in Patch,
           NEW entries, NEW on, Trace(o, done, entries, on),
           Len(done) + 1 \in DOMAIN File[o].relocs,
           e.kind = File[o].relocs[Len(done) + 1].kind,
           e.sym = File[o].relocs[Len(done) + 1].sym,
           e.kind \notin GotKinds
    PROVE  Trace(o, Append(done, e), entries, on)
<1>1. \A k, l \in DOMAIN entries : entries[k] = entries[l] => k = l
  BY DEF Trace
<1> QED BY <1>1, TraceGrows

\* The key has an entry, which is taken to be on the first page
LEMMA TraceReuse ==
    ASSUME NEW o \in Objects, NEW done \in Seq(Patch), NEW e \in Patch,
           NEW entries \in Seq(Keys), NEW on, Trace(o, done, entries, on),
           Len(done) + 1 \in DOMAIN File[o].relocs,
           e.kind = File[o].relocs[Len(done) + 1].kind,
           e.sym = File[o].relocs[Len(done) + 1].sym,
           NEW m \in DOMAIN entries, entries[m] = KeyOf(e), e.page = on[1], e.slot = m - 1
    PROVE  Trace(o, Append(done, e), entries, on)
<1>1. \A k, l \in DOMAIN entries : entries[k] = entries[l] => k = l
  BY DEF Trace
<1>2. m \in Nat /\ m - 1 \in Nat /\ PagePairs \in Nat
  <2>1. DOMAIN entries = 1 .. Len(entries) /\ Len(entries) \in Nat
    BY LenProperties
  <2> QED BY <2>1, SMT DEF LoaderAssumption
<1>3. PointsTo(e, m, entries, on) \/ Strays(e, m, entries, on)
  <2>1. CASE PagePairs < m
    BY <2>1 DEF Strays
  <2>2. CASE ~ (PagePairs < m)
    <3>1. m - 1 < PagePairs
      BY <1>2, <2>2, SMT
    <3>2. PageIndex(m - 1) = 0 /\ (m - 1) % PagePairs = m - 1
      BY <1>2, <3>1, FirstPage
    <3> QED BY <3>2 DEF PointsTo
  <2> QED BY <2>1, <2>2
<1> QED BY <1>1, <1>3, TraceGrows

\* The key is new: its entry is the next, and the pages that were there stay
LEMMA TraceAllocate ==
    ASSUME NEW o \in Objects, NEW done \in Seq(Patch), NEW e \in Patch,
           NEW entries \in Seq(Keys), NEW on, NEW later,
           Trace(o, done, entries, on),
           Len(done) + 1 \in DOMAIN File[o].relocs,
           e.kind = File[o].relocs[Len(done) + 1].kind,
           e.sym = File[o].relocs[Len(done) + 1].sym,
           e.kind \in GotKinds,
           \A k \in DOMAIN entries : entries[k] # KeyOf(e),
           \A k \in DOMAIN entries : later[PageIndex(k - 1) + 1] = on[PageIndex(k - 1) + 1],
           e.page = later[PageIndex(Len(entries)) + 1], e.slot = Len(entries) % PagePairs
    PROVE  Trace(o, Append(done, e), Append(entries, KeyOf(e)), later)
<1> DEFINE L == Len(entries)
           G == Append(entries, KeyOf(e))
<1>1. /\ L \in Nat /\ DOMAIN entries = 1 .. L /\ DOMAIN G = 1 .. L + 1 /\ Len(G) = L + 1
      /\ \A k \in 1 .. L : G[k] = entries[k]
      /\ G[L + 1] = KeyOf(e)
  <2>1. KeyOf(e) \in Keys
    BY DEF KeyOf, Patch, Keys
  <2> QED BY <2>1, AppendType, LenProperties
<1>2. e.page = later[PageIndex(L) + 1] /\ e.slot = L % PagePairs
  OBVIOUS
<1> HIDE DEF L, G
<1>3. /\ \A k \in 1 .. L + 1 : k \in 1 .. L \/ k = L + 1
      /\ \A k \in 1 .. L : k \in 1 .. L + 1
      /\ L + 1 \in 1 .. L + 1 /\ (L + 1) - 1 = L
  BY <1>1
<1>4. \A k, l \in DOMAIN G : G[k] = G[l] => k = l
  <2>1. \A k, l \in 1 .. L : entries[k] = entries[l] => k = l
    BY <1>1 DEF Trace
  <2> SUFFICES ASSUME NEW k \in 1 .. L + 1, NEW l \in 1 .. L + 1, G[k] = G[l] PROVE k = l
    BY <1>1
  <2>2. CASE k \in 1 .. L /\ l \in 1 .. L
    BY <1>1, <2>1, <2>2
  <2>3. CASE k = L + 1 /\ l \in 1 .. L
    BY <1>1, <2>3
  <2>4. CASE k \in 1 .. L /\ l = L + 1
    BY <1>1, <2>4
  <2> QED BY <1>3, <2>2, <2>3, <2>4
<1>5. \A k \in DOMAIN entries : k \in DOMAIN G /\ G[k] = entries[k]
  BY <1>1, <1>3
<1>6. ASSUME NEW x \in Patch, NEW k \in DOMAIN entries
      PROVE  /\ PointsTo(x, k, entries, on) => PointsTo(x, k, G, later)
             /\ Strays(x, k, entries, on) => Strays(x, k, G, later)
  <2>1. PointsTo(x, k, entries, on) => PointsTo(x, k, G, later)
    BY <1>5 DEF PointsTo
  <2>2. later[1] = on[1]
    <3>1. 1 \in DOMAIN entries
      BY <1>1
    <3>2. 0 < PagePairs
      BY SMT DEF LoaderAssumption
    <3>3. PageIndex(0) = 0
      BY <3>2, FirstPage
    <3>4. PICK one \in DOMAIN entries : one = 1
      BY <3>1
    <3>5. PageIndex(one - 1) + 1 = 1
      BY <3>3, <3>4
    <3> QED BY <3>5
  <2> QED BY <1>5, <2>1, <2>2 DEF Strays
<1>7. PointsTo(e, L + 1, G, later)
  BY <1>1, <1>2, <1>3, Zenon DEF PointsTo
<1>8. \A k \in DOMAIN G : k \notin DOMAIN entries =>
        e.kind \in GotKinds /\ PointsTo(e, k, G, later)
  BY <1>1, <1>3, <1>7
<1>9. \E k \in DOMAIN G : PointsTo(e, k, G, later)
  BY <1>1, <1>3, <1>7
<1>10. Trace(o, Append(done, e), G, later)
  BY <1>4, <1>5, <1>6, <1>8, <1>9, TraceGrows
<1> QED BY <1>10 DEF G
-----------------------------------------------------------------------------
(* Every step keeps the trace *)

\* e is what the step writes for the relocation that is next
Follows(o, e) ==
    /\ patched'[o] = Append(patched[o], e)
    /\ Len(patched[o]) + 1 \in DOMAIN File[o].relocs
    /\ e.kind = File[o].relocs[Len(patched[o]) + 1].kind
    /\ e.sym = File[o].relocs[Len(patched[o]) + 1].sym
    /\ KeyOf(e) = GotKey(o)

LEMMA WroteNext ==
    ASSUME TypeOK, NEW o \in Objects, NEW kinds, Pending(o, kinds),
           NEW mod \in Nat, NEW page \in Regions \cup {None}, NEW slot \in Nat,
           Wrote(o, mod, page, slot)
    PROVE  \E e \in Patch :
            Follows(o, e) /\ e.kind \in kinds /\ e.page = page /\ e.slot = slot
<1> DEFINE e == [kind |-> Current(o).kind, sym |-> Current(o).sym,
                 mod |-> mod, page |-> page, slot |-> slot]
<1>1. e \in Patch /\ patched'[o] = Append(patched[o], e) /\ Current(o).kind \in kinds
  BY WroteType
<1>2. Len(patched[o]) + 1 \in DOMAIN File[o].relocs
  <2>1. Len(patched[o]) \in Nat
    BY LenProperties DEF TypeOK
  <2>2. Len(patched[o]) < Len(File[o].relocs)
    BY DEF Pending
  <2> QED BY <2>1, <2>2, RelocsType
<1>3. e.kind = Current(o).kind /\ e.sym = Current(o).sym /\ e.page = page /\ e.slot = slot
  OBVIOUS
<1>4. KeyOf(e) = GotKey(o)
  BY <1>3 DEF KeyOf, GotKey
<1> HIDE DEF e
<1>5. Follows(o, e)
  BY <1>1, <1>2, <1>3, <1>4 DEF Current, Follows
<1>6. e.kind \in kinds
  BY <1>1, <1>3
<1> QED BY <1>1, <1>3, <1>5, <1>6, Zenon

\* The pages that are there keep their places when one is added
LEMMA PagesBefore ==
    ASSUME BookInv, NEW o \in Objects, AllocateGotEntry(o)
    PROVE  \A k \in DOMAIN got[o] :
            pages'[o][PageIndex(k - 1) + 1] = pages[o][PageIndex(k - 1) + 1]
<1> SUFFICES ASSUME NEW k \in DOMAIN got[o]
             PROVE  pages'[o][PageIndex(k - 1) + 1] = pages[o][PageIndex(k - 1) + 1]
  OBVIOUS
<1>1. PageIndex(k - 1) + 1 \in DOMAIN pages[o]
  BY EntryPlace
<1>2. pages[o] \in Seq(Regions)
  BY DEF BookInv, TypeOK
<1>3. pages' = pages \/ \E r \in Regions : pages'[o] = Append(pages[o], r)
  BY AllocateGotEntryFacts DEF BookInv
<1>4. ASSUME NEW r \in Regions, pages'[o] = Append(pages[o], r)
      PROVE  \A i \in DOMAIN pages[o] : pages'[o][i] = pages[o][i]
  BY <1>2, <1>4, AppendType
<1> QED BY <1>1, <1>3, <1>4

LEMMA TraceWrites ==
    ASSUME BookInv, NEW o \in Objects,
           Trace(o, patched[o], got[o], pages[o]), Writes(o)
    PROVE  Trace(o, patched'[o], got'[o], pages'[o])
<1>1. /\ TypeOK /\ GotInv
      /\ patched[o] \in Seq(Patch) /\ got[o] \in Seq(Keys)
      /\ pages[o] \in Seq(Regions) /\ module[o] \in Nat
  BY DEF BookInv, TypeOK
<1>2. ASSUME UNCHANGED <<got, pages>>,
             NEW mod \in Nat, Pending(o, Kinds \ GotKinds), Wrote(o, mod, None, 0)
      PROVE  Trace(o, patched'[o], got'[o], pages'[o])
  <2>1. PICK e \in Patch : Follows(o, e) /\ e.kind \in Kinds \ GotKinds
    BY <1>1, <1>2, WroteNext
  <2>2. Trace(o, Append(patched[o], e), got[o], pages[o])
    BY <1>1, <2>1, TracePlain DEF Follows
  <2> QED BY <1>2, <2>1, <2>2 DEF Follows
<1>3. CASE ApplySymbol(o)
  <2>1. Pending(o, Kinds \ GotKinds)
    BY <1>3 DEF ApplySymbol, Pending, Kinds, GotKinds
  <2> QED BY <1>2, <1>3, <2>1 DEF ApplySymbol
<1>4. CASE ApplyDTPMod(o)
  <2>1. Pending(o, Kinds \ GotKinds)
    BY <1>4 DEF ApplyDTPMod, Pending, Kinds, GotKinds
  <2> QED BY <1>1, <1>2, <1>4, <2>1 DEF ApplyDTPMod
<1>5. CASE ResolveTPOff(o)
  <2>1. Pending(o, Kinds \ GotKinds)
    BY <1>5 DEF ResolveTPOff, Pending, Kinds, GotKinds
  <2>2. PICK mod \in TPModules(o) : Wrote(o, mod, None, 0)
    BY <1>5 DEF ResolveTPOff
  <2>3. mod \in Nat
    BY <1>1 DEF TPModules, Providers, TypeOK
  <2> QED BY <1>2, <1>5, <2>1, <2>2, <2>3 DEF ResolveTPOff
<1>6. CASE ReuseGotEntry(o)
  <2>1. PICK m \in DOMAIN got[o] :
          got[o][m] = GotKey(o) /\ Wrote(o, module[o], pages[o][1], m - 1)
    BY <1>6 DEF ReuseGotEntry
  <2>2. Pending(o, GotKinds) /\ UNCHANGED <<got, pages>>
    BY <1>6 DEF ReuseGotEntry, GotKinds
  <2>3. pages[o][1] \in Regions /\ m - 1 \in Nat
    <3>1. PageIndex(m - 1) + 1 \in DOMAIN pages[o] /\ PageIndex(m - 1) \in Nat /\ m - 1 \in Nat
      BY EntryPlace
    <3>2. DOMAIN pages[o] = 1 .. Len(pages[o]) /\ Len(pages[o]) \in Nat
      BY <1>1, LenProperties
    <3>3. 1 \in 1 .. Len(pages[o])
      BY <3>1, <3>2
    <3> QED BY <1>1, <3>1, <3>3, ElementOfSeq
  <2>a. PICK mod \in Nat, page \in Regions \cup {None}, slot \in Nat :
          mod = module[o] /\ page = pages[o][1] /\ slot = m - 1
    BY <1>1, <2>3
  <2>b. Wrote(o, mod, page, slot)
    BY <2>1, <2>a
  <2>4. PICK e \in Patch :
          Follows(o, e) /\ e.kind \in GotKinds /\ e.page = page /\ e.slot = slot
    <3>1. TypeOK /\ Pending(o, GotKinds)
      BY <1>1, <2>2
    <3> QED BY <2>b, <3>1, WroteNext
  <2>5. Trace(o, Append(patched[o], e), got[o], pages[o])
    <3>1. /\ Trace(o, patched[o], got[o], pages[o])
          /\ patched[o] \in Seq(Patch) /\ got[o] \in Seq(Keys)
          /\ Len(patched[o]) + 1 \in DOMAIN File[o].relocs
          /\ e.kind = File[o].relocs[Len(patched[o]) + 1].kind
          /\ e.sym = File[o].relocs[Len(patched[o]) + 1].sym
      BY <1>1, <2>4 DEF Follows
    <3>2. got[o][m] = KeyOf(e) /\ e.page = pages[o][1] /\ e.slot = m - 1
      BY <2>1, <2>4, <2>a DEF Follows
    <3> QED BY <2>4, <3>1, <3>2, TraceReuse
  <2> QED BY <2>2, <2>4, <2>5 DEF Follows
<1>7. CASE AllocateGotEntry(o)
  <2>1. Pending(o, GotKinds) /\ \A k \in DOMAIN got[o] : got[o][k] # GotKey(o)
    BY <1>7 DEF AllocateGotEntry, GotKinds
  <2> DEFINE next == Len(got[o]) % PagePairs
  <2>2. /\ got'[o] = Append(got[o], GotKey(o))
        /\ pages'[o][PageIndex(Len(got[o])) + 1] \in Regions /\ next \in 0 .. PagePairs - 1
        /\ Wrote(o, module[o], pages'[o][PageIndex(Len(got[o])) + 1], next)
    BY <1>1, <1>7, AllocateGotEntryFacts
  <2> HIDE DEF next
  <2>a. PICK mod \in Nat : mod = module[o]
    BY <1>1
  <2>b. PICK page \in Regions \cup {None} : page = pages'[o][PageIndex(Len(got[o])) + 1]
    BY <2>2
  <2>c. PICK slot \in Nat : slot = next
    BY <2>2, SMT DEF LoaderAssumption
  <2>3. /\ mod = module[o] /\ page = pages'[o][PageIndex(Len(got[o])) + 1]
        /\ slot = next
    BY <2>a, <2>b, <2>c
  <2>4. PICK e \in Patch :
          Follows(o, e) /\ e.kind \in GotKinds /\ e.page = page /\ e.slot = slot
    <3>1. Wrote(o, mod, page, slot)
      BY <2>2, <2>3
    <3> QED BY <1>1, <2>1, <3>1, WroteNext
  <2>5. \A k \in DOMAIN got[o] : got[o][k] # KeyOf(e)
    BY <2>1, <2>4 DEF Follows
  <2>6. \A k \in DOMAIN got[o] :
            pages'[o][PageIndex(k - 1) + 1] = pages[o][PageIndex(k - 1) + 1]
    BY <1>7, PagesBefore
  <2>7. Trace(o, Append(patched[o], e), Append(got[o], KeyOf(e)), pages'[o])
    BY <1>1, <2>3, <2>4, <2>5, <2>6, TraceAllocate DEF next, Follows
  <2> QED BY <2>2, <2>4, <2>7 DEF Follows
<1> QED BY <1>3, <1>4, <1>5, <1>6, <1>7 DEF Writes

LEMMA TraceStep == BookInv /\ Traced /\ Next => Traced'
<1> SUFFICES ASSUME BookInv, Traced, Next PROVE Traced'
  OBVIOUS
<1>1. CASE patched' = patched /\ got' = got /\ pages' = pages
  BY <1>1, Zenon DEF Traced
<1>2. ASSUME NEW o \in Objects, Writes(o) PROVE Traced'
  <2>1. ASSUME NEW p \in Objects PROVE Trace(p, patched'[p], got'[p], pages'[p])
    <3>1. Trace(p, patched[p], got[p], pages[p])
      BY DEF Traced
    <3>2. CASE p = o
      BY <1>2, <3>1, <3>2, TraceWrites
    <3>3. CASE p # o
      <4>1. TypeOK /\ GotInv /\ p \in Objects \ {o}
        BY <3>3 DEF BookInv
      <4>2. PICK mod \in Nat, page \in Regions \cup {None}, slot \in Nat :
              Wrote(o, mod, page, slot) /\ Pending(o, Kinds)
        BY <1>2, <4>1, WritesFacts
      <4>3. patched'[p] = patched[p]
        BY <4>1, <4>2, WroteType
      <4>4. got'[p] = got[p] /\ pages'[p] = pages[p]
        BY <1>2, <4>1, WritesFacts
      <4> QED BY <3>1, <4>3, <4>4
    <3> QED BY <3>2, <3>3
  <2> QED BY <2>1 DEF Traced
<1>3. ASSUME NEW o \in Objects, Reserve(o) \/ Populate(o) \/ Moves(o)
      PROVE  patched' = patched /\ got' = got /\ pages' = pages
  BY <1>3 DEF Reserve, Populate, Moves, Books
<1>4. Elsewhere => patched' = patched /\ got' = got /\ pages' = pages
  BY DEF Elsewhere, loaderVars
<1> QED BY <1>1, <1>2, <1>3, <1>4, Classes
-----------------------------------------------------------------------------
(* What the trace means *)

\* A relocation that is not astray points to the entry of its key, and the entry is where
\* it points to
LEMMA EntryOf ==
    ASSUME LoaderInv, Traced, NEW o \in Objects, NEW i \in DOMAIN patched[o],
           patched[o][i].kind \in GotKinds, ~ Astray(patched[o][i])
    PROVE  \E k \in DOMAIN got[o] : PointsTo(patched[o][i], k, got[o], pages[o])
<1>1. BookInv /\ DOMAIN patched[o] = 1 .. Len(patched[o])
  BY LenProperties DEF LoaderInv, BookInv, TypeOK
<1>2. Trace(o, patched[o], got[o], pages[o])
  BY DEF Traced
<1>3. PICK k \in DOMAIN got[o] :
        \/ PointsTo(patched[o][i], k, got[o], pages[o])
        \/ Strays(patched[o][i], k, got[o], pages[o])
  BY <1>1, <1>2 DEF Trace
<1>4. k \in Nat \ {0} /\ PagePairs \in Nat
  BY <1>1, EntryPlace, SMT DEF LoaderAssumption
<1>5. Strays(patched[o][i], k, got[o], pages[o]) => patched[o][i].slot >= PagePairs
  <2>1. Strays(patched[o][i], k, got[o], pages[o]) =>
            PagePairs < k /\ patched[o][i].slot = k - 1
    BY DEF Strays
  <2> QED BY <1>4, <2>1, SMT
<1> QED BY <1>3, <1>5 DEF Astray

\* Two entries of an object are not in one place
LEMMA OnePlace ==
    ASSUME LoaderInv, NEW o \in Objects, HasPages(o),
           NEW k \in DOMAIN got[o], NEW l \in DOMAIN got[o],
           pages[o][PageIndex(k - 1) + 1] = pages[o][PageIndex(l - 1) + 1],
           (k - 1) % PagePairs = (l - 1) % PagePairs
    PROVE  k = l
<1>1. BookInv /\ PagesOwned
  BY DEF LoaderInv, Owned
<1> DEFINE a == PageIndex(k - 1)
           b == PageIndex(l - 1)
           c == (k - 1) % PagePairs
           d == (l - 1) % PagePairs
<1>2. /\ k \in Nat /\ a \in Nat /\ a + 1 \in DOMAIN pages[o]
      /\ c \in 0 .. PagePairs - 1 /\ k - 1 = PagePairs * a + c
      /\ l \in Nat /\ b \in Nat /\ b + 1 \in DOMAIN pages[o]
      /\ d \in 0 .. PagePairs - 1 /\ l - 1 = PagePairs * b + d
  BY <1>1, EntryPlace
<1>3. pages[o][a + 1] = pages[o][b + 1] /\ c = d
  OBVIOUS
<1> HIDE DEF a, b, c, d
<1>4. a + 1 = b + 1
  BY <1>1, <1>2, <1>3 DEF PagesOwned
<1>5. a = b
  BY <1>2, <1>4
<1>6. k - 1 = l - 1
  BY <1>2, <1>3, <1>5
<1> QED BY <1>2, <1>6

\* An entry behind the first PagePairs is on another page than the first
LEMMA LaterPage ==
    ASSUME LoaderInv, NEW o \in Objects, HasPages(o), NEW k \in DOMAIN got[o], PagePairs < k
    PROVE  pages[o][PageIndex(k - 1) + 1] # pages[o][1]
<1>1. BookInv /\ PagesOwned
  BY DEF LoaderInv, Owned
<1> DEFINE a == PageIndex(k - 1)
           c == (k - 1) % PagePairs
<1>2. /\ k \in Nat /\ a \in Nat /\ a + 1 \in DOMAIN pages[o]
      /\ c \in 0 .. PagePairs - 1 /\ k - 1 = PagePairs * a + c
      /\ PagePairs \in Nat
      /\ DOMAIN pages[o] = 1 .. Len(pages[o]) /\ Len(pages[o]) \in Nat
  BY <1>1, EntryPlace, LenProperties DEF LoaderAssumption, BookInv, TypeOK
<1> HIDE DEF a, c
<1>3. a # 0
  <2>1. PagePairs * 0 = 0
    BY <1>2, SMT
  <2> QED BY <1>2, <2>1, SMT
<1>4. 1 \in DOMAIN pages[o] /\ a + 1 # 1
  BY <1>2, <1>3, SMT
<1>5. pages[o][a + 1] # pages[o][1]
  BY <1>1, <1>2, <1>4 DEF PagesOwned
<1> QED BY <1>5 DEF a

LEMMA TraceMeaning == LoaderInv /\ Traced => GotEntries
<1> SUFFICES ASSUME LoaderInv, Traced, NEW o \in Objects, HasPages(o),
                    NEW i \in DOMAIN patched[o], patched[o][i].kind \in GotKinds
             PROVE  LET a == patched[o][i] IN
                    IF Astray(a)
                      THEN \E j \in 1 .. i - 1 :
                            /\ patched[o][j].kind \in GotKinds
                            /\ KeyOf(patched[o][j]) = KeyOf(a)
                            /\ ~ Astray(patched[o][j]) /\ patched[o][j].page # pages[o][1]
                      ELSE /\ a.page \in GotPages(o)
                           /\ \A j \in DOMAIN patched[o] :
                                patched[o][j].kind \in GotKinds /\ ~ Astray(patched[o][j]) =>
                                    (KeyOf(patched[o][j]) = KeyOf(a) <=>
                                        Place(patched[o][j]) = Place(a))
  BY DEF GotEntries
<1>1. /\ BookInv /\ PagesOwned
      /\ DOMAIN patched[o] = 1 .. Len(patched[o]) /\ Len(patched[o]) \in Nat
      /\ patched[o] \in Seq(Patch)
      /\ Trace(o, patched[o], got[o], pages[o])
      /\ PagePairs \in Nat
  BY LenProperties DEF LoaderInv, BookInv, TypeOK, Owned, Traced, LoaderAssumption
<1>2. \A x, k : k \in DOMAIN got[o] /\ PointsTo(x, k, got[o], pages[o]) => ~ Astray(x)
  <2> SUFFICES ASSUME NEW x, NEW k \in DOMAIN got[o], PointsTo(x, k, got[o], pages[o]),
                      Astray(x)
               PROVE  FALSE
    OBVIOUS
  <2> DEFINE c == (k - 1) % PagePairs
  <2>1. c \in 0 .. PagePairs - 1 /\ x.slot = c /\ x.slot >= PagePairs
    BY <1>1, EntryPlace DEF PointsTo, Astray
  <2> HIDE DEF c
  <2> QED BY <1>1, <2>1
<1>3. CASE Astray(patched[o][i])
  <2>1. PICK k \in DOMAIN got[o] :
            /\ Strays(patched[o][i], k, got[o], pages[o])
            /\ \E j \in 1 .. Len(patched[o]) :
                /\ j < i /\ patched[o][j].kind \in GotKinds
                /\ PointsTo(patched[o][j], k, got[o], pages[o])
    BY <1>1, <1>2, <1>3 DEF Trace
  <2>2. PICK j \in 1 .. Len(patched[o]) :
                /\ j < i /\ patched[o][j].kind \in GotKinds
                /\ PointsTo(patched[o][j], k, got[o], pages[o])
    BY <2>1
  <2>3. j \in 1 .. i - 1
    BY <1>1, <2>2
  <2>4. ~ Astray(patched[o][j]) /\ KeyOf(patched[o][j]) = KeyOf(patched[o][i])
    BY <1>2, <2>1, <2>2 DEF PointsTo, Strays
  <2>5. pages[o][PageIndex(k - 1) + 1] # pages[o][1]
    BY <2>1, LaterPage DEF Strays
  <2>6. patched[o][j].page # pages[o][1]
    BY <2>2, <2>5 DEF PointsTo
  <2> QED BY <1>3, <2>2, <2>3, <2>4, <2>6
<1>4. CASE ~ Astray(patched[o][i])
  <2>1. PICK k \in DOMAIN got[o] : PointsTo(patched[o][i], k, got[o], pages[o])
    BY <1>4, EntryOf
  <2>2. patched[o][i].page \in GotPages(o)
    BY <1>1, <2>1, EntryPlace DEF PointsTo, GotPages
  <2>3. ASSUME NEW j \in DOMAIN patched[o], patched[o][j].kind \in GotKinds,
               ~ Astray(patched[o][j])
        PROVE  KeyOf(patched[o][j]) = KeyOf(patched[o][i]) <=>
                    Place(patched[o][j]) = Place(patched[o][i])
    <3>1. PICK l \in DOMAIN got[o] : PointsTo(patched[o][j], l, got[o], pages[o])
      BY <2>3, EntryOf
    <3>2. ASSUME KeyOf(patched[o][j]) = KeyOf(patched[o][i]) PROVE k = l
      <4>1. \A x, y \in DOMAIN got[o] : got[o][x] = got[o][y] => x = y
        BY <1>1 DEF Trace
      <4> QED BY <2>1, <3>1, <3>2, <4>1 DEF PointsTo
    <3>3. ASSUME Place(patched[o][j]) = Place(patched[o][i]) PROVE k = l
      <4>1. /\ pages[o][PageIndex(k - 1) + 1] = pages[o][PageIndex(l - 1) + 1]
            /\ (k - 1) % PagePairs = (l - 1) % PagePairs
        BY <2>1, <3>1, <3>3, Zenon DEF Place, PointsTo
      <4> QED BY <4>1, OnePlace
    <3>4. k = l => /\ KeyOf(patched[o][j]) = KeyOf(patched[o][i])
                  /\ Place(patched[o][j]) = Place(patched[o][i])
      BY <2>1, <3>1 DEF PointsTo, Place
    <3> QED BY <3>2, <3>3, <3>4
  <2> QED BY <1>4, <2>2, <2>3
<1> QED BY <1>3, <1>4

LEMMA TraceStart == Init => Traced
<1> SUFFICES ASSUME Init, NEW o \in Objects PROVE Trace(o, patched[o], got[o], pages[o])
  BY DEF Traced
<1>1. patched[o] = <<>> /\ got[o] = <<>> /\ Len(<<>>) = 0 /\ DOMAIN <<>> = {}
  BY EmptySeq DEF Init
<1>2. Len(File[o].relocs) \in Nat
  BY RelocsType
<1> DEFINE empty == <<>>
<1>3. empty = <<>> /\ Len(empty) = 0 /\ DOMAIN empty = {}
  BY <1>1
<1> HIDE DEF empty
<1>4. \A i \in 1 .. Len(empty) : FALSE
  <2>1. \A i \in 1 .. 0 : FALSE
    OBVIOUS
  <2> QED BY <1>3, <2>1, Zenon
<1>5. Trace(o, empty, empty, pages[o])
  BY <1>2, <1>3, <1>4 DEF Trace
<1> QED BY <1>1, <1>3, <1>5

LEMMA TracedInvariant == Spec => []Traced
<1>1. LoaderInv /\ Traced /\ [Next]_vars => Traced'
  <2>1. LoaderInv /\ Traced /\ Next => Traced'
    BY TraceStep DEF LoaderInv
  <2>2. Traced /\ UNCHANGED vars => Traced'
    BY Zenon DEF vars, loaderVars, Traced
  <2> QED BY <2>1, <2>2
<1> QED BY <1>1, TraceStart, LoaderInvariant, PTL DEF Spec

\* The GOT allocator of applyTlsgd and applyTlsld, for every file: two relocations share an
\* entry pair exactly if they have one key, and every pair lies within a page of the object;
\* the one exception is a relocation that repeats a key whose entry is not on the first
\* page, which points behind that page
THEOREM GotEntriesKept == Spec => []GotEntries
BY TraceMeaning, TracedInvariant, LoaderInvariant, PTL
-----------------------------------------------------------------------------
(* What is in the pairs, as long as no store goes astray *)

NoneAstray == \A p \in Objects : \A i \in DOMAIN patched[p] : ~ Astray(patched[p][i])

\* The entry of a key has what the last relocation of the key wrote
Filled(o) ==
    \A i \in DOMAIN patched[o] : patched[o][i].kind \in GotKinds /\ LastOfKey(o, i) =>
        \A k \in DOMAIN got[o] :
            got[o][k] = KeyOf(patched[o][i]) => pairs[o][k] = FilledFor(o, i)

AllFilled == NoneAstray => \A o \in Objects : Filled(o)

FilledInv == LoaderInv /\ Traced /\ AllFilled

\* What a relocation writes is what its pair is to have
LEMMA NewPairFits ==
    ASSUME NEW o \in Objects
    PROVE  NewPair(o) = FilledFor(o, Len(patched[o]) + 1)
BY DEF NewPair, FilledFor, Current

\* The pairs after the next relocation, whose patch is e
LEMMA FilledNext ==
    ASSUME TypeOK, NEW o \in Objects, Filled(o), NEW e \in Patch,
           patched'[o] = Append(patched[o], e), module'[o] = module[o],
           \A k \in DOMAIN got'[o] : got'[o][k] = KeyOf(e) /\ e.kind \in GotKinds =>
                pairs'[o][k] = NewPair(o),
           \A k \in DOMAIN got'[o] : got'[o][k] # KeyOf(e) \/ e.kind \notin GotKinds =>
                k \in DOMAIN got[o] /\ got[o][k] = got'[o][k] /\ pairs'[o][k] = pairs[o][k]
    PROVE  Filled(o)'
<1> DEFINE n == Len(patched[o])
<1>1. /\ n \in Nat /\ DOMAIN patched[o] = 1 .. n /\ DOMAIN patched'[o] = 1 .. n + 1
      /\ Len(patched'[o]) = n + 1
      /\ \A i \in 1 .. n : patched'[o][i] = patched[o][i]
      /\ patched'[o][n + 1] = e
  BY AppendType, LenProperties DEF TypeOK
<1>a. NewPair(o) = FilledFor(o, n + 1)
  BY NewPairFits
<1> HIDE DEF n
<1> SUFFICES ASSUME NEW i \in 1 .. n + 1, patched'[o][i].kind \in GotKinds,
                    LastOfKey(o, i)', NEW k \in DOMAIN got'[o],
                    got'[o][k] = KeyOf(patched'[o][i])
             PROVE  pairs'[o][k] = FilledFor(o, i)'
  BY <1>1 DEF Filled, KeyOf
<1>2. FilledFor(o, i)' = FilledFor(o, i)
  BY DEF FilledFor
<1>3. CASE i = n + 1
  BY <1>1, <1>2, <1>3, <1>a
<1>4. CASE i \in 1 .. n
  <2>1. patched'[o][i] = patched[o][i] /\ i \in DOMAIN patched[o]
    BY <1>1, <1>4
  <2>2. \A j \in i + 1 .. n + 1 :
            patched'[o][j].kind \in GotKinds => KeyOf(patched'[o][j]) # KeyOf(patched'[o][i])
    BY <1>1 DEF LastOfKey, KeyOf
  <2>3. e.kind \in GotKinds => KeyOf(e) # KeyOf(patched[o][i])
    <3>1. n + 1 \in i + 1 .. n + 1
      BY <1>1, <1>4
    <3> QED BY <1>1, <2>1, <2>2, <3>1
  <2>4. LastOfKey(o, i)
    <3> SUFFICES ASSUME NEW j \in i + 1 .. n, patched[o][j].kind \in GotKinds
                 PROVE  KeyOf(patched[o][j]) # KeyOf(patched[o][i])
      BY <1>1 DEF LastOfKey, n
    <3>1. j \in 1 .. n /\ j \in i + 1 .. n + 1
      BY <1>1, <1>4
    <3> QED BY <1>1, <2>1, <2>2, <3>1
  <2>5. k \in DOMAIN got[o] /\ got[o][k] = got'[o][k] /\ pairs'[o][k] = pairs[o][k]
    BY <2>1, <2>3
  <2>6. pairs[o][k] = FilledFor(o, i)
    BY <2>1, <2>4, <2>5 DEF Filled
  <2> QED BY <1>2, <2>5, <2>6
<1> QED BY <1>1, <1>3, <1>4

\* An object whose books do not change
FilledSame(o) ==
    /\ patched'[o] = patched[o] /\ got'[o] = got[o] /\ pairs'[o] = pairs[o]
    /\ module'[o] = module[o]

LEMMA FilledStays ==
    ASSUME NEW o \in Objects, Filled(o), FilledSame(o)
    PROVE  Filled(o)'
BY DEF FilledSame, Filled, LastOfKey, FilledFor, KeyOf

\* A relocation of o fills the pair of its key, and no other pair of any object
LEMMA FilledWrites ==
    ASSUME FilledInv, NoneAstray', NEW o \in Objects, Writes(o), Filled(o)
    PROVE  /\ Filled(o)'
           /\ \A p \in Objects \ {o} : FilledSame(p)
<1>1. /\ TypeOK /\ GotInv /\ BookInv
      /\ patched[o] \in Seq(Patch) /\ got[o] \in Seq(Keys) /\ module[o] \in Nat
      /\ module' = module
  BY WritesFacts DEF FilledInv, LoaderInv, BookInv, TypeOK
<1>2. \A p \in Objects \ {o} : patched'[p] = patched[p] /\ got'[p] = got[p]
  <2>1. PICK mod \in Nat, page \in Regions \cup {None}, slot \in Nat :
          Wrote(o, mod, page, slot) /\ Pending(o, Kinds)
    BY <1>1, WritesFacts
  <2>2. \A p \in Objects \ {o} : patched'[p] = patched[p]
    BY <1>1, <2>1, WroteType
  <2>3. \A p \in Objects \ {o} : got'[p] = got[p]
    BY <1>1, WritesFacts
  <2> QED BY <2>2, <2>3
<1>3. ASSUME UNCHANGED <<got, pairs>>,
             NEW mod \in Nat, Pending(o, Kinds \ GotKinds), Wrote(o, mod, None, 0)
      PROVE  Filled(o)' /\ \A p \in Objects \ {o} : FilledSame(p)
  <2>1. PICK e \in Patch : Follows(o, e) /\ e.kind \in Kinds \ GotKinds
    BY <1>1, <1>3, WroteNext
  <2>2. Filled(o)'
    BY <1>1, <1>3, <2>1, FilledNext DEF Follows
  <2> QED BY <1>1, <1>2, <1>3, <2>2 DEF FilledSame
<1>4. CASE ApplySymbol(o)
  <2>1. Pending(o, Kinds \ GotKinds)
    BY <1>4 DEF ApplySymbol, Pending, Kinds, GotKinds
  <2> QED BY <1>3, <1>4, <2>1 DEF ApplySymbol
<1>5. CASE ApplyDTPMod(o)
  <2>1. Pending(o, Kinds \ GotKinds)
    BY <1>5 DEF ApplyDTPMod, Pending, Kinds, GotKinds
  <2> QED BY <1>1, <1>3, <1>5, <2>1 DEF ApplyDTPMod
<1>6. CASE ResolveTPOff(o)
  <2>1. Pending(o, Kinds \ GotKinds)
    BY <1>6 DEF ResolveTPOff, Pending, Kinds, GotKinds
  <2>2. PICK mod \in TPModules(o) : Wrote(o, mod, None, 0)
    BY <1>6 DEF ResolveTPOff
  <2>3. mod \in Nat
    BY <1>1 DEF TPModules, Providers, TypeOK
  <2> QED BY <1>3, <1>6, <2>1, <2>2, <2>3 DEF ResolveTPOff
<1>7. CASE ReuseGotEntry(o)
  <2>1. PICK m \in DOMAIN got[o] :
          /\ got[o][m] = GotKey(o) /\ Wrote(o, module[o], pages[o][1], m - 1)
          /\ m <= PagePairs => pairs' = [pairs EXCEPT ![o][m] = NewPair(o)]
    BY <1>7 DEF ReuseGotEntry
  <2>2. Pending(o, GotKinds) /\ UNCHANGED <<got, pages>>
    BY <1>7 DEF ReuseGotEntry, GotKinds
  <2>3. m \in Nat \ {0} /\ m - 1 \in Nat /\ pages[o][1] \in Regions
    <3>1. PageIndex(m - 1) + 1 \in DOMAIN pages[o] /\ PageIndex(m - 1) \in Nat /\ m - 1 \in Nat
          /\ m \in Nat \ {0}
      BY <1>1, EntryPlace
    <3>2. pages[o] \in Seq(Regions)
      BY <1>1 DEF TypeOK
    <3>3. DOMAIN pages[o] = 1 .. Len(pages[o]) /\ Len(pages[o]) \in Nat
      BY <3>2, LenProperties
    <3>4. 1 \in 1 .. Len(pages[o])
      BY <3>1, <3>3
    <3> QED BY <3>1, <3>2, <3>4, ElementOfSeq
  <2>a. PICK mod \in Nat, page \in Regions \cup {None}, slot \in Nat :
          mod = module[o] /\ page = pages[o][1] /\ slot = m - 1
    BY <1>1, <2>3
  <2>4. PICK e \in Patch : Follows(o, e) /\ e.kind \in GotKinds /\ e.slot = m - 1
    <3>1. Wrote(o, mod, page, slot)
      BY <2>1, <2>a
    <3> QED BY <1>1, <2>2, <2>a, <3>1, WroteNext
  <2>5. m <= PagePairs
    <3>1. patched'[o] = Append(patched[o], e)
      BY <2>4 DEF Follows
    <3>2. /\ Len(patched[o]) + 1 \in DOMAIN patched'[o]
          /\ patched'[o][Len(patched[o]) + 1] = e
      <4>1. Len(patched[o]) \in Nat
        BY <1>1, LenProperties
      <4> QED BY <1>1, <3>1, <4>1, AppendType
    <3>3. ~ (e.slot >= PagePairs)
      BY <3>2 DEF NoneAstray, Astray
    <3> QED BY <2>3, <2>4, <3>3, SMT DEF LoaderAssumption
  <2>6. /\ DOMAIN got[o] = DOMAIN pairs[o]
        /\ pairs' = [pairs EXCEPT ![o][m] = NewPair(o)] /\ NewPair(o) \in Pair
    <3>1. DOMAIN got[o] = 1 .. Len(got[o]) /\ DOMAIN pairs[o] = 1 .. Len(pairs[o])
      BY <1>1, LenProperties DEF TypeOK
    <3> QED BY <1>1, <2>1, <2>2, <2>5, <3>1, NewPairType DEF GotInv
  <2>7. /\ \A p \in Objects \ {o} : pairs'[p] = pairs[p]
        /\ \A k \in DOMAIN got[o] : pairs'[o][k] = IF k = m THEN NewPair(o) ELSE pairs[o][k]
    BY <1>1, <2>6, StoreFacts
  <2>8. \A k \in DOMAIN got[o] : got[o][k] = KeyOf(e) <=> k = m
    <3>1. \A k, l \in DOMAIN got[o] : got[o][k] = got[o][l] => k = l
      BY DEF FilledInv, Traced, Trace
    <3> QED BY <2>1, <2>4, <3>1 DEF Follows
  <2>9. Filled(o)'
    <3>1. /\ patched'[o] = Append(patched[o], e) /\ module'[o] = module[o] /\ got' = got
          /\ e.kind \in GotKinds
      BY <1>1, <2>2, <2>4 DEF Follows
    <3>2. \A k \in DOMAIN got'[o] : got'[o][k] = KeyOf(e) /\ e.kind \in GotKinds =>
                pairs'[o][k] = NewPair(o)
      BY <2>7, <2>8, <3>1
    <3>3. \A k \in DOMAIN got'[o] : got'[o][k] # KeyOf(e) \/ e.kind \notin GotKinds =>
                k \in DOMAIN got[o] /\ got[o][k] = got'[o][k] /\ pairs'[o][k] = pairs[o][k]
      BY <2>7, <2>8, <3>1
    <3> QED BY <1>1, <3>1, <3>2, <3>3, FilledNext
  <2> QED BY <1>1, <1>2, <2>7, <2>9 DEF FilledSame
<1>8. CASE AllocateGotEntry(o)
  <2>1. Pending(o, GotKinds) /\ \A k \in DOMAIN got[o] : got[o][k] # GotKey(o)
    BY <1>8 DEF AllocateGotEntry, GotKinds
  <2> DEFINE next == Len(got[o]) % PagePairs
  <2>2. /\ got'[o] = Append(got[o], GotKey(o)) /\ GotKey(o) \in Keys
        /\ pages'[o][PageIndex(Len(got[o])) + 1] \in Regions /\ next \in 0 .. PagePairs - 1
        /\ Wrote(o, module[o], pages'[o][PageIndex(Len(got[o])) + 1], next)
    BY <1>1, <1>8, AllocateGotEntryFacts
  <2> HIDE DEF next
  <2>a. PICK mod \in Nat : mod = module[o]
    BY <1>1
  <2>b. PICK page \in Regions \cup {None} : page = pages'[o][PageIndex(Len(got[o])) + 1]
    BY <2>2
  <2>c. PICK slot \in Nat : slot = next
    BY <2>2, SMT DEF LoaderAssumption
  <2>3. PICK e \in Patch : Follows(o, e) /\ e.kind \in GotKinds
    <3>1. Wrote(o, mod, page, slot)
      BY <2>2, <2>a, <2>b, <2>c
    <3> QED BY <1>1, <2>1, <3>1, WroteNext
  <2>4. pairs' = [pairs EXCEPT ![o] = Append(pairs[o], NewPair(o))] /\ NewPair(o) \in Pair
    BY <1>1, <1>8, <2>1, NewPairType DEF AllocateGotEntry
  <2>5. pairs'[o] = Append(pairs[o], NewPair(o)) /\ \A p \in Objects \ {o} : pairs'[p] = pairs[p]
    BY <1>1, <2>4 DEF TypeOK
  <2> DEFINE L == Len(got[o])
  <2>6. /\ L \in Nat /\ Len(pairs[o]) = L /\ DOMAIN got[o] = 1 .. L /\ DOMAIN got'[o] = 1 .. L + 1
        /\ \A k \in 1 .. L : got'[o][k] = got[o][k] /\ pairs'[o][k] = pairs[o][k]
        /\ got'[o][L + 1] = GotKey(o) /\ pairs'[o][L + 1] = NewPair(o)
    <3>1. Len(pairs[o]) = L /\ pairs[o] \in Seq(Pair)
      BY <1>1 DEF GotInv, TypeOK
    <3>2. L \in Nat
      BY <1>1, LenProperties
    <3>3. /\ DOMAIN got[o] = 1 .. L /\ DOMAIN got'[o] = 1 .. L + 1
          /\ \A k \in 1 .. L : got'[o][k] = got[o][k]
          /\ got'[o][L + 1] = GotKey(o)
      BY <1>1, <2>2, AppendType
    <3>4. /\ \A k \in 1 .. L : pairs'[o][k] = pairs[o][k]
          /\ pairs'[o][L + 1] = NewPair(o)
      BY <2>4, <2>5, <3>1, AppendType
    <3> QED BY <3>1, <3>2, <3>3, <3>4
  <2> HIDE DEF L
  <2>7. \A k \in 1 .. L + 1 : k \in 1 .. L \/ k = L + 1
    BY <2>6
  <2>8. \A k \in DOMAIN got'[o] : got'[o][k] = KeyOf(e) <=> k = L + 1
    <3>1. KeyOf(e) = GotKey(o)
      BY <2>3 DEF Follows
    <3>2. \A k \in 1 .. L : got'[o][k] # KeyOf(e)
      BY <2>1, <2>6, <3>1
    <3>3. L + 1 \notin 1 .. L
      BY <2>6
    <3> QED BY <2>6, <2>7, <3>1, <3>2, <3>3
  <2>9. Filled(o)'
    <3>1. /\ patched'[o] = Append(patched[o], e) /\ module'[o] = module[o] /\ e.kind \in GotKinds
      BY <1>1, <2>3 DEF Follows
    <3>2. \A k \in DOMAIN got'[o] : got'[o][k] = KeyOf(e) /\ e.kind \in GotKinds =>
                pairs'[o][k] = NewPair(o)
      BY <2>6, <2>8
    <3>3. \A k \in DOMAIN got'[o] : got'[o][k] # KeyOf(e) \/ e.kind \notin GotKinds =>
                k \in DOMAIN got[o] /\ got[o][k] = got'[o][k] /\ pairs'[o][k] = pairs[o][k]
      BY <2>6, <2>7, <2>8, <3>1
    <3> QED BY <1>1, <3>1, <3>2, <3>3, FilledNext
  <2> QED BY <1>1, <1>2, <2>5, <2>9 DEF FilledSame
<1> QED BY <1>4, <1>5, <1>6, <1>7, <1>8 DEF Writes

\* What was astray stays astray
LEMMA AstrayStays ==
    ASSUME FilledInv, Next, NoneAstray'
    PROVE  NoneAstray
<1>1. BookInv /\ TypeOK /\ GotInv
  BY DEF FilledInv, LoaderInv, BookInv
<1>2. CASE patched' = patched
  BY <1>2 DEF NoneAstray, Astray
<1>3. ASSUME NEW o \in Objects, Writes(o) PROVE NoneAstray
  <2>1. PICK mod \in Nat, page \in Regions \cup {None}, slot \in Nat :
          Wrote(o, mod, page, slot) /\ Pending(o, Kinds)
    BY <1>1, <1>3, WritesFacts
  <2>2. PICK e \in Patch : patched'[o] = Append(patched[o], e)
    BY <1>1, <2>1, WroteType
  <2>3. \A p \in Objects \ {o} : patched'[p] = patched[p]
    BY <1>1, <2>1, WroteType
  <2>4. \A i \in DOMAIN patched[o] : i \in DOMAIN patched'[o] /\ patched'[o][i] = patched[o][i]
    <3>1. patched[o] \in Seq(Patch) /\ Len(patched[o]) \in Nat
      BY <1>1, LenProperties DEF TypeOK
    <3>2. \A i \in 1 .. Len(patched[o]) : i \in 1 .. Len(patched[o]) + 1
      BY <3>1
    <3> QED BY <2>2, <3>1, <3>2, AppendType
  <2> QED BY <2>3, <2>4 DEF NoneAstray, Astray
<1>4. ASSUME NEW o \in Objects, Reserve(o) \/ Populate(o) \/ Moves(o) PROVE patched' = patched
  BY <1>4 DEF Reserve, Populate, Moves, Books
<1>5. Elsewhere => patched' = patched
  BY DEF Elsewhere, loaderVars
<1> QED BY <1>2, <1>3, <1>4, <1>5, Classes

LEMMA FilledStep == FilledInv /\ [Next]_vars => AllFilled'
<1> SUFFICES ASSUME FilledInv, [Next]_vars, NoneAstray', NEW p \in Objects PROVE Filled(p)'
  BY DEF AllFilled
<1>1. CASE UNCHANGED vars
  <2>1. FilledSame(p) /\ patched' = patched
    BY <1>1 DEF vars, loaderVars, FilledSame
  <2>2. NoneAstray
    BY <2>1 DEF NoneAstray, Astray
  <2> QED BY <2>1, <2>2, FilledStays DEF FilledInv, AllFilled
<1>2. CASE Next
  <2>1. \A q \in Objects : Filled(q)
    BY <1>2, AstrayStays DEF FilledInv, AllFilled
  <2>2. ASSUME FilledSame(p) PROVE Filled(p)'
    BY <2>1, <2>2, FilledStays
  <2>3. ASSUME NEW o \in Objects, Writes(o) PROVE Filled(p)'
    BY <2>1, <2>2, <2>3, FilledWrites
  <2>4. ASSUME NEW o \in Objects, Populate(o) PROVE Filled(p)'
    <3>1. /\ patched' = patched /\ got' = got /\ pairs' = pairs /\ phase[o] = "mapped"
          /\ \A q \in Objects \ {o} : module'[q] = module[q]
      BY <2>4 DEF Populate, FilledInv, LoaderInv, BookInv, TypeOK
    <3>2. CASE p = o
      <4>1. patched[o] = <<>>
        BY <3>1 DEF FilledInv, LoaderInv, BookInv, PatchesInv
      <4>2. DOMAIN patched'[p] = {}
        BY <3>1, <3>2, <4>1
      <4> QED BY <4>2 DEF Filled
    <3>3. CASE p # o
      BY <2>2, <3>1, <3>3 DEF FilledSame
    <3> QED BY <3>2, <3>3
  <2>5. ASSUME NEW o \in Objects, Reserve(o) \/ Moves(o) PROVE FilledSame(p)
    BY <2>5 DEF Reserve, Moves, Books, FilledSame
  <2>6. Elsewhere => FilledSame(p)
    BY DEF Elsewhere, loaderVars, FilledSame
  <2> QED BY <1>2, <2>2, <2>3, <2>4, <2>5, <2>6, Classes
<1> QED BY <1>1, <1>2

\* What a relocation that is not astray points to is its entry
LEMMA WordsOf ==
    ASSUME LoaderInv, Traced, NEW o \in Objects, HasPages(o), NEW i \in DOMAIN patched[o],
           patched[o][i].kind \in GotKinds, ~ Astray(patched[o][i])
    PROVE  \E k \in DOMAIN got[o] :
            got[o][k] = KeyOf(patched[o][i]) /\ WordsAt(o, patched[o][i]) = pairs[o][k]
<1> DEFINE x == patched[o][i]
<1>1. PICK k \in DOMAIN got[o] : PointsTo(x, k, got[o], pages[o])
  BY EntryOf
<1>2. DOMAIN got[o] = DOMAIN pairs[o]
  <2>1. DOMAIN got[o] = 1 .. Len(got[o]) /\ DOMAIN pairs[o] = 1 .. Len(pairs[o])
    BY LenProperties DEF LoaderInv, BookInv, TypeOK
  <2> QED BY <2>1 DEF LoaderInv, BookInv, GotInv
<1> DEFINE At(e) == x.page = pages[o][PageIndex(e - 1) + 1] /\ x.slot = (e - 1) % PagePairs
<1>3. At(k)
  BY <1>1 DEF PointsTo
<1>4. ASSUME NEW e \in DOMAIN pairs[o], At(e) PROVE e = k
  <2>1. /\ pages[o][PageIndex(k - 1) + 1] = pages[o][PageIndex(e - 1) + 1]
        /\ (k - 1) % PagePairs = (e - 1) % PagePairs
    BY <1>3, <1>4, Zenon
  <2> QED BY <1>2, <2>1, OnePlace
<1>5. WordsAt(o, x) = pairs[o][CHOOSE e \in DOMAIN pairs[o] : At(e)]
  BY Zenon DEF WordsAt
<1> HIDE DEF At
<1>6. (CHOOSE e \in DOMAIN pairs[o] : At(e)) = k
  BY <1>2, <1>3, <1>4
<1> QED BY <1>1, <1>5, <1>6 DEF PointsTo

\* The pair that an instruction of an object leads to has the module ID of the object and
\* the offset that the last relocation of the key asked for, whatever else is loaded, as
\* long as nothing was stored behind the first page of a GOT
THEOREM PairsKept == Spec => []PairsFilled
<1>1. Init => AllFilled
  <2> SUFFICES ASSUME Init, NEW o \in Objects PROVE Filled(o)
    BY DEF AllFilled
  <2>1. patched[o] = <<>>
    BY DEF Init
  <2>2. DOMAIN patched[o] = {}
    BY <2>1
  <2> QED BY <2>2 DEF Filled
<1>2. LoaderInv /\ Traced /\ AllFilled => PairsFilled
  <2> SUFFICES ASSUME LoaderInv, Traced, AllFilled, NoneAstray, NEW o \in Objects, HasPages(o),
                      NEW i \in DOMAIN patched[o],
                      patched[o][i].kind \in GotKinds, LastOfKey(o, i)
               PROVE  WordsAt(o, patched[o][i]) = FilledFor(o, i)
    BY DEF PairsFilled, NoneAstray
  <2>1. PICK k \in DOMAIN got[o] :
            got[o][k] = KeyOf(patched[o][i]) /\ WordsAt(o, patched[o][i]) = pairs[o][k]
    BY WordsOf DEF NoneAstray
  <2> QED BY <2>1 DEF AllFilled, Filled
<1>3. LoaderInv /\ Traced /\ AllFilled /\ [Next]_vars => AllFilled'
  BY FilledStep DEF FilledInv
<1> QED BY <1>1, <1>2, <1>3, TracedInvariant, LoaderInvariant, PTL DEF Spec
=============================================================================
