--------------------------- MODULE LinkingProofs ---------------------------
(***************************************************************************)
(* Proofs about Linking, for symbol tables, version tables and hash tables *)
(* of any length, any hashes, any relocations and addresses, and words of  *)
(* any width: the table first, then what the relocations write, then the   *)
(* two hash lookups.                                                       *)
(***************************************************************************)
EXTENDS Linking, InductionTheorems, SequenceTheorems, TLAPS

USE SymbolsAssumption, LinkingAssumption

-----------------------------------------------------------------------------
(* The symbol table *)

\* Where each name stands: 0, or the number of an entry
Standing(f) == [Names -> 0 .. Len(Mapped(f))]

LEMMA LibraryFacts ==
    ASSUME NEW f \in Library
    PROVE  /\ f.syms \in Seq(Entry) /\ f.behind \in Seq(Entry) /\ Mapped(f) \in Seq(Entry)
           /\ Len(f.syms) \in Nat /\ Len(Mapped(f)) \in Nat /\ DOMAIN f.syms = 1 .. Len(f.syms)
           /\ \A i \in 1 .. Len(f.syms) : f.syms[i] \in Entry
           /\ DOMAIN Mapped(f) = 1 .. Len(Mapped(f))
           /\ \A i \in 1 .. Len(Mapped(f)) : Mapped(f)[i] \in Entry
           /\ Read(f) \in 0 .. Len(Mapped(f))
<1>1. f.syms \in Seq(Entry) /\ f.behind \in Seq(Entry)
  BY DEF Library
<1>2. Mapped(f) \in Seq(Entry)
  BY <1>1, ConcatProperties DEF Mapped
<1>3. /\ Len(f.syms) \in Nat /\ Len(f.behind) \in Nat /\ Len(Mapped(f)) \in Nat
      /\ DOMAIN f.syms = 1 .. Len(f.syms) /\ DOMAIN Mapped(f) = 1 .. Len(Mapped(f))
  BY <1>1, <1>2, LenProperties
<1>4. \A i \in 1 .. Len(f.syms) : f.syms[i] \in Entry
  BY <1>1, ElementOfSeq
<1>5. \A i \in 1 .. Len(Mapped(f)) : Mapped(f)[i] \in Entry
  BY <1>2, ElementOfSeq
<1>6. Read(f) \in 0 .. Len(Mapped(f))
  <2>1. ASSUME NEW a \in Nat, NEW b \in Nat PROVE Min({a, b}) \in {a, b} /\ Min({a, b}) <= a
    <3>1. \E m \in {a, b} : \A j \in {a, b} : m <= j
      OBVIOUS
    <3> QED BY <3>1 DEF Min
  <2>2. maxFallbackSymbols - 1 \in Nat
    OBVIOUS
  <2>3. PICK a \in Nat : a = Len(Mapped(f))
    BY <1>3
  <2>4. PICK b \in Nat : b = maxFallbackSymbols - 1
    BY <2>2
  <2>5. Min({a, b}) \in 0 .. a
    BY <2>1
  <2> QED BY <2>3, <2>4, <2>5 DEF Read
<1> QED BY <1>1, <1>2, <1>3, <1>4, <1>5, <1>6

\* A regular library: its own entries are all there is
LEMMA RegularFacts ==
    ASSUME NEW f \in Library, Regular(f)
    PROVE  /\ Mapped(f) = f.syms /\ Read(f) = Len(f.syms) /\ Known(f) = 1 .. Len(f.syms)
           /\ HasVersions(f)
<1>1. f.behind = <<>> /\ f.strtabBehind /\ HasVersions(f)
  BY DEF Regular
<1>2. Mapped(f) = f.syms
  BY <1>1, LibraryFacts, ConcatEmptySeq DEF Mapped
<1>3. SymCount(f) = 1 + Len(f.syms)
  BY <1>1, LibraryFacts DEF SymCount
<1>4. Read(f) = Len(f.syms)
  BY <1>2, <1>3, LibraryFacts DEF Read
<1>5. Known(f) = 1 .. Len(f.syms)
  BY <1>2, <1>3, LibraryFacts DEF Known
<1> QED BY <1>1, <1>2, <1>4, <1>5

\* What LoadFromDynamic has after i entries
TableSteps(f, F) ==
    /\ F[0] = [n \in Names |-> 0]
    /\ \A i \in 1 .. Read(f) : F[i] = loadSymbolEntry(f, F[i - 1], i)

LEMMA EntryStands ==
    ASSUME NEW f \in Library, NEW t \in Standing(f), NEW i \in 1 .. Read(f)
    PROVE  loadSymbolEntry(f, t, i) \in Standing(f)
<1>1. i \in 0 .. Len(Mapped(f)) /\ Mapped(f)[i] \in Entry
  BY LibraryFacts
<1> QED BY <1>1 DEF loadSymbolEntry, Standing

LEMMA TableLoop ==
    ASSUME NEW f \in Library
    PROVE  \E F \in [0 .. Read(f) -> Standing(f)] :
               TableSteps(f, F) /\ LoadFromDynamic(f) = F[Read(f)]
<1> DEFINE n == Read(f)
           V == Standing(f)
           Start == [m \in Names |-> 0]
           Body(F) == [i \in 0 .. n |-> IF i = 0 THEN Start ELSE loadSymbolEntry(f, F[i - 1], i)]
           step == [i \in 1 .. n |-> [t \in V |-> loadSymbolEntry(f, t, i)]]
<1>1. n \in Nat /\ Start \in V
  BY LibraryFacts DEF Standing
<1>2. step \in Rounds(1 .. n, V)
  <2>1. \A i \in 1 .. n : \A t \in V : loadSymbolEntry(f, t, i) \in V
    BY EntryStands
  <2> HIDE DEF n, V
  <2> QED BY <2>1 DEF Rounds
<1>3. PICK F \in [0 .. n -> V] : F[0] = Start /\ \A i \in 1 .. n : F[i] = step[i][F[i - 1]]
  <2> HIDE DEF step, n, V, Start
  <2> QED BY <1>1, <1>2, UpwardRecursion
<1>4. \A i \in 1 .. n : i \in 0 .. n /\ i - 1 \in 0 .. n /\ i # 0
  BY <1>1
<1>5. \A i \in 1 .. n : F[i] = loadSymbolEntry(f, F[i - 1], i)
  <2> HIDE DEF n, V
  <2> QED BY <1>3, <1>4
<1>6. F = Body(F)
  <2>1. \A i \in 0 .. n : F[i] = IF i = 0 THEN Start ELSE loadSymbolEntry(f, F[i - 1], i)
    <3>1. \A i \in 0 .. n : i = 0 \/ i \in 1 .. n
      BY <1>1
    <3> HIDE DEF n, V, Start
    <3> QED BY <1>3, <1>5, <3>1
  <2> HIDE DEF n, V, Start
  <2> QED BY <1>3, <2>1
<1>7. LoadFromDynamic(f) = (CHOOSE G : G = Body(G))[n]
  BY DEF LoadFromDynamic
<1>8. PICK K : K = (CHOOSE G : G = Body(G))
  OBVIOUS
<1>9. K = Body(K)
  <2> HIDE DEF n, V, Start
  <2> QED BY <1>6, <1>8
<1>10. K[0] = Start /\ \A i \in 1 .. n : K[i] = loadSymbolEntry(f, K[i - 1], i)
  <2>1. 0 \in 0 .. n
    BY <1>1
  <2> HIDE DEF n, V, Start
  <2> QED BY <1>4, <1>9, <2>1
<1>11. Alike(n, K, F)
  <2> HIDE DEF n, V, Start, step, Body
  <2> QED BY <1>3, <1>5, <1>10 DEF Alike
<1>12. K[n] = F[n]
  <2>1. n \in 0 .. n
    BY <1>1
  <2> HIDE DEF n, V, Start, step, Body
  <2> QED BY <1>1, <1>11, <2>1, SameRounds
<1>13. TableSteps(f, F)
  BY <1>3, <1>5 DEF TableSteps
<1> QED BY <1>3, <1>7, <1>8, <1>12, <1>13

LEMMA TableStands ==
    ASSUME NEW f \in Library
    PROVE  LoadFromDynamic(f) \in Standing(f)
<1>1. PICK F \in [0 .. Read(f) -> Standing(f)] : LoadFromDynamic(f) = F[Read(f)]
  BY TableLoop
<1>2. Read(f) \in 0 .. Read(f)
  BY LibraryFacts
<1> QED BY <1>1, <1>2

\* The definitions of a name, and those that are not hidden
Plain(f, n) == {i \in Definitions(f, n) : ~ (f.versym /\ f.syms[i].hidden)}

\* The first k of them
DefsTo(f, n, k) == {i \in 1 .. k : shouldProcessSymbol(f.syms[i]) /\ f.syms[i].name = n}
PlainTo(f, n, k) == {i \in DefsTo(f, n, k) : ~ (f.versym /\ f.syms[i].hidden)}

\* The last plain definition stands for the name, and the first hidden one before there is any
DefaultTo(f, n, k, i) ==
    \/ DefsTo(f, n, k) = {} /\ i = 0
    \/ i \in PlainTo(f, n, k) /\ \A j \in PlainTo(f, n, k) : j <= i
    \/ PlainTo(f, n, k) = {} /\ i \in DefsTo(f, n, k) /\ \A j \in DefsTo(f, n, k) : i <= j

\* An entry of another name, a hidden one that comes too late, one that is taken
LEMMA DefaultStep ==
    ASSUME NEW f \in Library, Regular(f), NEW n \in Names, NEW t \in Standing(f),
           NEW i \in 1 .. Len(f.syms), DefaultTo(f, n, i - 1, t[n])
    PROVE  DefaultTo(f, n, i, loadSymbolEntry(f, t, i)[n])
<1> DEFINE e == f.syms[i]
           D == DefsTo(f, n, i - 1)
           Q == PlainTo(f, n, i - 1)
           mine == shouldProcessSymbol(e) /\ e.name = n
           secret == f.versym /\ e.hidden
           new == loadSymbolEntry(f, t, i)[n]
<1>1. e \in Entry /\ Mapped(f)[i] = e /\ Hidden(f, i) = secret
  BY LibraryFacts, RegularFacts DEF Hidden
<1>2. i \in Nat /\ 1 .. i = (1 .. i - 1) \cup {i} /\ D \subseteq 1 .. i - 1 /\ Q \subseteq D
  <2>1. i \in Nat \ {0}
    BY LibraryFacts
  <2> QED BY <2>1 DEF DefsTo, PlainTo
<1>3. DefsTo(f, n, i) = IF mine THEN D \cup {i} ELSE D
  BY <1>2 DEF DefsTo
<1>4. PlainTo(f, n, i) = IF mine /\ ~ secret THEN Q \cup {i} ELSE Q
  BY <1>2, <1>3 DEF PlainTo
<1>5. new = IF mine /\ ~ (t[n] # 0 /\ secret) THEN i ELSE t[n]
  BY <1>1 DEF loadSymbolEntry, shouldSkipSymbol, shouldProcessSymbol, Standing, Entry
<1>6. \/ D = {} /\ t[n] = 0
      \/ t[n] \in Q /\ \A j \in Q : j <= t[n]
      \/ Q = {} /\ t[n] \in D /\ \A j \in D : t[n] <= j
  BY DEF DefaultTo
<1> HIDE DEF mine, secret, new, D, Q
<1>7. CASE ~ mine
  BY <1>3, <1>4, <1>5, <1>6, <1>7 DEF DefaultTo, new
<1>8. CASE mine /\ ~ secret
  <2>1. new = i /\ i \in PlainTo(f, n, i)
    BY <1>4, <1>5, <1>8
  <2>2. ASSUME NEW j \in PlainTo(f, n, i) PROVE j <= i
    <3>1. j = i \/ j \in 1 .. i - 1
      BY <1>2, <1>4, <1>8
    <3> QED BY <1>2, <3>1
  <2> QED BY <2>1, <2>2 DEF DefaultTo, new
<1>9. CASE mine /\ secret
  <2>1. CASE D = {} /\ t[n] = 0
    <3>1. new = i /\ DefsTo(f, n, i) = {i} /\ PlainTo(f, n, i) = {}
      BY <1>2, <1>3, <1>4, <1>5, <1>9, <2>1
    <3> QED BY <1>2, <3>1 DEF DefaultTo, new
  <2>2. CASE t[n] \in D
    <3>1. t[n] \in 1 .. i - 1
      BY <1>2, <2>2
    <3>2. new = t[n] /\ t[n] <= i
      BY <1>2, <1>5, <1>9, <3>1
    <3>3. PlainTo(f, n, i) = Q /\ DefsTo(f, n, i) = D \cup {i} /\ D # {}
      BY <1>3, <1>4, <1>9, <2>2
    <3> QED BY <1>6, <2>2, <3>2, <3>3 DEF DefaultTo, new
  <2> QED BY <1>2, <1>6, <2>1, <2>2
<1> QED BY <1>7, <1>8, <1>9

LEMMA TableDefault ==
    ASSUME NEW f \in Library, Regular(f), NEW n \in Names
    PROVE  DefaultTo(f, n, Len(f.syms), LoadFromDynamic(f)[n])
<1> DEFINE l == Len(f.syms)
<1>1. PICK F \in [0 .. l -> Standing(f)] : TableSteps(f, F) /\ LoadFromDynamic(f) = F[l]
  BY TableLoop, RegularFacts
<1>2. l \in Nat /\ Read(f) = l
  BY LibraryFacts, RegularFacts
<1> DEFINE P == {k \in 0 .. l : DefaultTo(f, n, k, F[k][n])}
<1>3. 0 \in P
  <2>1. F[0][n] = 0 /\ DefsTo(f, n, 0) = {}
    BY <1>1 DEF TableSteps, DefsTo
  <2> QED BY <1>2, <2>1 DEF DefaultTo
<1>4. ASSUME NEW k \in 0 .. l, k < l, k \in P PROVE k + 1 \in P
  <2>1. PICK i \in 1 .. l : i = k + 1 /\ i - 1 = k
    BY <1>2, <1>4
  <2>2. F[i] = loadSymbolEntry(f, F[k], i) /\ F[k] \in Standing(f)
    BY <1>1, <1>2, <2>1 DEF TableSteps
  <2>3. DefaultTo(f, n, i - 1, F[k][n])
    BY <1>4, <2>1
  <2>4. DefaultTo(f, n, i, F[i][n])
    <3>1. PICK t \in Standing(f) : t = F[k]
      BY <2>2
    <3>2. DefaultTo(f, n, i - 1, t[n])
      BY <2>3, <3>1
    <3>3. DefaultTo(f, n, i, loadSymbolEntry(f, t, i)[n])
      BY <3>2, DefaultStep
    <3> QED BY <2>2, <3>1, <3>3
  <2> QED BY <2>1, <2>4
<1>5. \A k \in 0 .. l : k \in P
  <2> HIDE DEF P, l
  <2> QED BY <1>2, <1>3, <1>4, UpwardInduction
<1> QED BY <1>1, <1>2, <1>5

\* A name that has definitions stands for the default one, and any other for none
LEMMA TableMeans ==
    ASSUME NEW f \in Library, Regular(f), NEW n \in Names
    PROVE  /\ LoadFromDynamic(f)[n] = Default(f, n)
           /\ IF Definitions(f, n) = {} THEN LoadFromDynamic(f)[n] = 0
              ELSE LoadFromDynamic(f)[n] \in Definitions(f, n)
           /\ Definitions(f, n) \subseteq 1 .. Len(f.syms)
<1>1. PICK i : i = LoadFromDynamic(f)[n]
  OBVIOUS
<1>2. PICK D, Q : D = Definitions(f, n) /\ Q = Plain(f, n)
  OBVIOUS
<1>3. /\ D = DefsTo(f, n, Len(f.syms)) /\ Q = PlainTo(f, n, Len(f.syms))
      /\ D \subseteq 1 .. Len(f.syms) /\ Q \subseteq D /\ Len(f.syms) \in Nat
  BY <1>2, LibraryFacts DEF Definitions, Plain, DefsTo, PlainTo
<1>4. \/ D = {} /\ i = 0
      \/ i \in Q /\ \A j \in Q : j <= i
      \/ Q = {} /\ i \in D /\ \A j \in D : i <= j
  BY <1>1, <1>3, TableDefault DEF DefaultTo
<1>5. ASSUME i \in Q, \A j \in Q : j <= i PROVE i = Max(Q)
  <2>1. Max(Q) \in Q /\ \A j \in Q : Max(Q) >= j
    BY <1>3, <1>5 DEF Max
  <2> QED BY <1>3, <1>5, <2>1
<1>6. ASSUME i \in D, \A j \in D : i <= j PROVE i = Min(D)
  <2>1. Min(D) \in D /\ \A j \in D : Min(D) <= j
    BY <1>3, <1>6 DEF Min
  <2> QED BY <1>3, <1>6, <2>1
<1>7. i = IF Q # {} THEN Max(Q) ELSE IF D # {} THEN Min(D) ELSE 0
  BY <1>3, <1>4, <1>5, <1>6
<1>8. IF D = {} THEN i = 0 ELSE i \in D
  BY <1>3, <1>4
<1>9. Default(f, n) = IF Q # {} THEN Max(Q) ELSE IF D # {} THEN Min(D) ELSE 0
  BY <1>2 DEF Default, Plain
<1> QED BY <1>1, <1>2, <1>3, <1>7, <1>8, <1>9

-----------------------------------------------------------------------------
(* The relocations *)

\* The table and the words are a function of the files and the addresses, the error in the
\* first relocation that is refused
LinkInv ==
    /\ file \in Files /\ provider \in Providers /\ base \in Bases /\ providerBase \in Bases
    /\ phase \in {"map", "reloc", "ready", "failed"}
    /\ words \in Seq(Int) /\ Len(words) <= Len(file.relocs)
    /\ phase = "map" => words = <<>> /\ table = [n \in Names |-> 0]
    /\ phase # "map" => table = LoadFromDynamic(Lib)
    /\ \A k \in DOMAIN words :
        /\ ~ Refused(file.relocs[k])
        /\ words[k] = Written(file.relocs[k], resolveSymForReloc(file.relocs[k].sym))
    /\ phase = "ready" => Len(words) = Len(file.relocs)
    /\ phase = "failed" => Len(words) < Len(file.relocs) /\ Refused(R)

\* What a relocation may be, and a symbol come to
LEMMA RelocFacts ==
    ASSUME LinkInv
    PROVE  /\ Lib \in Library /\ provider \in Library /\ base \in Nat /\ providerBase \in Nat
           /\ file.relocs \in Seq(Reloc) /\ Len(file.relocs) \in Nat /\ Len(words) \in Nat
           /\ DOMAIN words = 1 .. Len(words) /\ DOMAIN file.relocs = 1 .. Len(file.relocs)
           /\ \A k \in 1 .. Len(file.relocs) : file.relocs[k] \in Reloc
           /\ \A k \in DOMAIN words : k \in DOMAIN file.relocs
           /\ table \in Standing(Lib)
<1>1. Lib \in Library /\ provider \in Library /\ base \in Nat /\ providerBase \in Nat
      /\ file.relocs \in Seq(Reloc)
  BY DEF LinkInv, Lib
<1>2. /\ Len(file.relocs) \in Nat /\ DOMAIN file.relocs = 1 .. Len(file.relocs)
      /\ \A k \in 1 .. Len(file.relocs) : file.relocs[k] \in Reloc
  BY <1>1, LenProperties, ElementOfSeq
<1>3. Len(words) \in Nat /\ DOMAIN words = 1 .. Len(words)
  BY LenProperties DEF LinkInv
<1>4. table \in Standing(Lib)
  BY <1>1, TableStands, LibraryFacts DEF LinkInv, Standing
<1>5. \A k \in DOMAIN words : k \in DOMAIN file.relocs
  BY <1>2, <1>3 DEF LinkInv
<1> QED BY <1>1, <1>2, <1>3, <1>4, <1>5

LEMMA ResolveFacts ==
    ASSUME LinkInv, NEW i \in Nat
    PROVE  resolveSymForReloc(i) \in Nat \cup {Undefined} /\ symAddress(i) \in Nat
<1>1. /\ \A j \in 1 .. Len(Mapped(Lib)) : Mapped(Lib)[j] \in Entry
      /\ \A j \in 1 .. Len(Mapped(provider)) : Mapped(provider)[j] \in Entry
      /\ DOMAIN Mapped(Lib) = 1 .. Len(Mapped(Lib)) /\ Len(Mapped(Lib)) \in Nat
      /\ Len(Mapped(provider)) \in Nat /\ base \in Nat /\ providerBase \in Nat
      /\ table \in Standing(Lib) /\ ProviderTable \in Standing(provider)
  BY RelocFacts, LibraryFacts, TableStands DEF ProviderTable
<1>2. i \in Known(Lib) => symName(i) \in Names \cup {None} /\ symAddress(i) \in Nat
  BY <1>1 DEF Known, symName, symAddress, Entry
<1>3. ASSUME NEW n \in Names
      PROVE  /\ table[n] # 0 => Value(Lib, table[n], base) \in Nat
             /\ ProviderTable[n] # 0 => Value(provider, ProviderTable[n], providerBase) \in Nat
  <2>1. table[n] # 0 => table[n] \in 1 .. Len(Mapped(Lib))
    BY <1>1 DEF Standing
  <2>2. ProviderTable[n] # 0 => ProviderTable[n] \in 1 .. Len(Mapped(provider))
    BY <1>1 DEF Standing
  <2>3. table[n] # 0 => Mapped(Lib)[table[n]].value \in Nat
    BY <1>1, <2>1 DEF Entry
  <2>4. ProviderTable[n] # 0 => Mapped(provider)[ProviderTable[n]].value \in Nat
    BY <1>1, <2>2 DEF Entry
  <2>5. \A x, y \in Nat : x + y \in Nat
    OBVIOUS
  <2> QED BY <1>1, <2>3, <2>4, <2>5 DEF Value
<1>4. symName(i) \in Names \cup {None} /\ symAddress(i) \in Nat
  BY <1>2 DEF symName, symAddress
<1> QED BY <1>3, <1>4 DEF resolveSymForReloc, Missing, Undefined

\* A word is what is left of a number when it is cut to its width
LEMMA Cut ==
    ASSUME NEW x \in Int
    PROVE  x % Half \in 0 .. Word - 1 /\ x % Word \in 0 .. Word - 1 /\ Half <= Word /\ Word \in Nat \ {0}
<1>1. ASSUME NEW h \in Nat, h # 0 PROVE h * h \in Nat /\ h * h >= h /\ h * h # 0
  BY <1>1, Z3
<1>2. Word \in Nat /\ Word # 0 /\ Half <= Word
  BY <1>1 DEF Word
<1>3. ASSUME NEW d \in Nat, d # 0 PROVE x % d \in 0 .. d - 1
  BY <1>3
<1>4. PICK w \in Nat : w = Word
  BY <1>2
<1>5. x % Half \in 0 .. Half - 1 /\ x % w \in 0 .. w - 1
  BY <1>2, <1>3, <1>4
<1> QED BY <1>2, <1>4, <1>5

LEMMA WrittenFits ==
    ASSUME LinkInv, NEW r \in Reloc, ~ Refused(r)
    PROVE  Written(r, resolveSymForReloc(r.sym)) \in 0 .. Word - 1
<1>1. PICK s \in Int : s = resolveSymForReloc(r.sym)
  <2>1. r.sym \in Nat
    BY DEF Reloc
  <2>2. resolveSymForReloc(r.sym) \in Nat \/ resolveSymForReloc(r.sym) = Undefined
    BY <2>1, ResolveFacts
  <2> QED BY <2>2 DEF Undefined
<1>2. /\ r.kind \in Kinds /\ r.kind # "unknown" /\ r.addend \in Int /\ base \in Int
      /\ Site(r) \in Int /\ symAddress(r.sym) \in Int
  BY RelocFacts, ResolveFacts DEF Reloc, Refused, Site
<1>3. \A x \in Int : x % Half \in 0 .. Word - 1 /\ x % Word \in 0 .. Word - 1
  BY Cut
<1>4. 0 \in 0 .. Word - 1
  BY Cut
<1>5. s + r.addend \in Int /\ s + r.addend - Site(r) \in Int /\ TLSOffset(r, s) \in Int /\ GDOffset(r) \in Int
  BY <1>2 DEF TLSOffset, GDOffset
<1>6. Written(r, s) \in 0 .. Word - 1
  <2> HIDE DEF Word
  <2> QED BY <1>2, <1>3, <1>4, <1>5 DEF Written, Kinds, applyPC32
<1> QED BY <1>1, <1>6

\* What a relocation comes to depends on the files, the addresses and the table
LEMMA SameAnswers ==
    ASSUME UNCHANGED <<inputs, table>>
    PROVE  \A r : /\ Refused(r)' <=> Refused(r)
                  /\ \A s : Written(r, s)' = Written(r, s)
                  /\ resolveSymForReloc(r.sym)' = resolveSymForReloc(r.sym)
<1>1. \A i : /\ symName(i)' = symName(i) /\ symAddress(i)' = symAddress(i)
             /\ resolveSymForReloc(i)' = resolveSymForReloc(i)
  BY DEF inputs, symName, symAddress, resolveSymForReloc, Missing, isWeakSymbol, Lib, ProviderTable, Value, Undefined
<1>2. \A r : Refused(r)' <=> Refused(r)
  BY <1>1 DEF inputs, Refused, NeedsTLS, NeedsSymbol, Undefined
<1>3. \A r, s : Written(r, s)' = Written(r, s)
  BY <1>1 DEF inputs, Written, applyPC32, Site, TLSOffset, GDOffset, Word
<1> QED BY <1>1, <1>2, <1>3

LEMMA LinkStep ==
    ASSUME LinkInv, [Next]_vars
    PROVE  LinkInv'
<1>1. CASE LoadSymbols
  BY <1>1, LenProperties DEF LoadSymbols, LinkInv, inputs, Lib
<1>2. CASE Relocate
  <2> DEFINE w == Written(R, resolveSymForReloc(R.sym))
             n == Len(words)
  <2>1. /\ phase = "reloc" /\ n < Len(file.relocs) /\ ~ Refused(R) /\ words' = Append(words, w)
        /\ UNCHANGED <<inputs, phase, table>> /\ n \in Nat
    BY <1>2, RelocFacts DEF Relocate
  <2>2. R \in Reloc
    <3>1. n + 1 \in 1 .. Len(file.relocs)
      BY <2>1, RelocFacts
    <3> QED BY <3>1, RelocFacts DEF R
  <2>3. w \in Int
    <3>1. w \in 0 .. Word - 1 /\ Word \in Int
      BY <2>1, <2>2, WrittenFits, Cut
    <3> QED BY <3>1
  <2> HIDE DEF w
  <2>4. PICK u : u = words'
    OBVIOUS
  <2>5. /\ u \in Seq(Int) /\ Len(u) = n + 1 /\ u[n + 1] = w /\ \A k \in 1 .. n : u[k] = words[k]
        /\ DOMAIN u = 1 .. n + 1
    BY <2>1, <2>3, <2>4, AppendProperties, LenProperties DEF LinkInv
  <2>6. ASSUME NEW k \in DOMAIN u
        PROVE  /\ ~ Refused(file.relocs[k])'
               /\ u[k] = Written(file.relocs[k], resolveSymForReloc(file.relocs[k].sym))'
    <3>1. PICK r : r = file.relocs[k]
      OBVIOUS
    <3>2. r = (file.relocs[k])'
      BY <2>1, <3>1 DEF inputs
    <3>3. ~ Refused(r) /\ u[k] = Written(r, resolveSymForReloc(r.sym))
      <4>1. CASE k = n + 1
        BY <2>1, <2>5, <3>1, <4>1 DEF R, w
      <4>2. CASE k \in 1 .. n
        BY <2>5, <3>1, <4>2, RelocFacts DEF LinkInv
      <4> QED BY <2>1, <2>5, <4>1, <4>2
    <3>4. PICK s : s = resolveSymForReloc(r.sym)
      OBVIOUS
    <3>5. ~ Refused(r)' /\ s = resolveSymForReloc(r.sym)' /\ u[k] = Written(r, s)'
      BY <2>1, <3>3, <3>4, SameAnswers
    <3> QED BY <3>2, <3>5
  <2>7. Len(u) <= Len(file.relocs)
    BY <2>1, <2>5, RelocFacts
  <2> QED BY <2>1, <2>4, <2>5, <2>6, <2>7 DEF LinkInv, inputs, Lib
<1>3. CASE RelocateFails \/ Relocated \/ UNCHANGED vars
  <2>1. UNCHANGED <<inputs, table, words>> /\ (phase # "map" => phase' # "map") /\ (phase = "map" => phase' = "map")
    BY <1>3 DEF RelocateFails, Relocated, vars, inputs
  <2>2. \A k \in DOMAIN words :
           /\ ~ Refused(file.relocs[k])'
           /\ words[k] = Written(file.relocs[k], resolveSymForReloc(file.relocs[k].sym))'
    <3> SUFFICES ASSUME NEW k \in DOMAIN words
                 PROVE  /\ ~ Refused(file.relocs[k])'
                        /\ words[k] = Written(file.relocs[k], resolveSymForReloc(file.relocs[k].sym))'
      OBVIOUS
    <3>1. PICK r : r = file.relocs[k]
      OBVIOUS
    <3>2. PICK s : s = resolveSymForReloc(r.sym)
      OBVIOUS
    <3>3. ~ Refused(r) /\ words[k] = Written(r, s)
      BY <3>1, <3>2 DEF LinkInv
    <3>4. ~ Refused(r)' /\ s = resolveSymForReloc(r.sym)' /\ words[k] = Written(r, s)'
      BY <2>1, <3>2, <3>3, SameAnswers
    <3>5. r = (file.relocs[k])'
      BY <2>1, <3>1 DEF inputs
    <3> QED BY <3>4, <3>5
  <2>3. phase' = "failed" => Len(words) < Len(file.relocs) /\ Refused(R)'
    <3>1. phase' = "failed" => Len(words) < Len(file.relocs) /\ Refused(R)
      BY <1>3 DEF RelocateFails, Relocated, vars, LinkInv
    <3>2. PICK r : r = R
      OBVIOUS
    <3>3. r = R'
      BY <2>1, <3>2 DEF R, inputs
    <3> QED BY <2>1, <3>1, <3>2, <3>3, SameAnswers
  <2>4. phase' = "ready" => Len(words) = Len(file.relocs)
    BY <1>3 DEF RelocateFails, Relocated, vars, LinkInv
  <2>5. phase' \in {"map", "reloc", "ready", "failed"}
    BY <1>3 DEF RelocateFails, Relocated, vars, LinkInv
  <2> QED BY <2>1, <2>2, <2>3, <2>4, <2>5 DEF LinkInv, inputs, Lib
<1> QED BY <1>1, <1>2, <1>3 DEF Next

LEMMA LinkAlways == Spec => []LinkInv
<1>1. Init => LinkInv
  <2> SUFFICES ASSUME Init PROVE LinkInv
    OBVIOUS
  <2>1. /\ words = <<>> /\ words \in Seq(Int) /\ Len(words) = 0 /\ DOMAIN words = {}
        /\ Len(file.relocs) \in Nat
    BY EmptySeq, LenProperties DEF Init
  <2> QED BY <2>1 DEF Init, LinkInv
<1> QED BY <1>1, LinkStep, PTL DEF Spec

\* Names stand for entries of the table that was read, beyond the library's own if its end
\* is unknown, and every word has the width of its relocation
THEOREM LinkTypeCorrect == Spec => []TypeOK
<1>1. LinkInv => TypeOK
  <2> SUFFICES ASSUME LinkInv PROVE TypeOK
    OBVIOUS
  <2>1. \A n \in Names : table[n] \in 0 .. Len(Mapped(Lib))
    BY RelocFacts DEF Standing
  <2>2. ASSUME NEW k \in DOMAIN words PROVE words[k] \in 0 .. Word - 1
    <3>1. file.relocs[k] \in Reloc
      BY RelocFacts
    <3> QED BY <3>1, WrittenFits DEF LinkInv
  <2> QED BY <2>1, <2>2 DEF LinkInv, TypeOK
<1> QED BY <1>1, LinkAlways, PTL

\* A name stands for its default version, in whatever order the versions come in the file
\* (shouldSkipSymbol, loadSymbolEntry)
THEOREM DefaultStands == Spec => []DefaultVersion
<1>1. LinkInv => DefaultVersion
  BY RelocFacts, TableMeans DEF LinkInv, Loaded, DefaultVersion
<1> QED BY <1>1, LinkAlways, PTL

-----------------------------------------------------------------------------
(* Versions *)

\* The name that a chain has for an index is one of those it gives it
LEMMA NameFacts ==
    ASSUME NEW c \in Chain, NEW x \in Nat
    PROVE  IF \E i \in Visited(c) : c.records[i].ndx = x
             THEN \E i \in Visited(c) : c.records[i].ndx = x /\ NameIn(c, x) = c.records[i].name
                                       /\ NameIn(c, x) \in Versions
             ELSE NameIn(c, x) = None
<1> DEFINE found == {i \in Visited(c) : c.records[i].ndx = x}
<1>1. /\ Len(c.records) \in Nat /\ DOMAIN c.records = 1 .. Len(c.records)
      /\ \A i \in 1 .. Len(c.records) : c.records[i] \in Record
  BY LenProperties, ElementOfSeq DEF Chain
<1>2. found \subseteq 1 .. Len(c.records)
  BY <1>1 DEF Visited
<1>3. CASE found = {}
  BY <1>3 DEF NameIn
<1>4. CASE found # {}
  <2>1. \E m \in found : \A j \in found : j <= m
    <3>1. found \subseteq 0 .. Len(c.records)
      BY <1>1, <1>2
    <3> HIDE DEF found
    <3> QED BY <1>1, <1>4, <3>1, GreatestIn
  <2>2. PICK i : i = (CHOOSE m \in found : \A j \in found : j <= m)
    OBVIOUS
  <2>3. i \in found
    <3> HIDE DEF found
    <3> QED BY <2>1, <2>2
  <2>4. NameIn(c, x) = c.records[i].name
    BY <1>4, <2>2 DEF NameIn
  <2>5. c.records[i].name \in Versions
    BY <1>1, <1>2, <2>3 DEF Record
  <2> QED BY <2>3, <2>4, <2>5
<1> QED BY <1>3, <1>4

\* A lookup of a version returns no definition that the version tables call otherwise, for
\* libraries whose tables give an index one name (LookupVersion, GetVersionName)
THEOREM VersionsMatch ==
    ASSUME \A f \in Files : VersionsNumbered(f.lib)
    PROVE  Spec => []VersionNamed
<1>1. ASSUME LinkInv, Loaded, Regular(Lib), NEW n \in Names, NEW v \in Versions,
             NEW i, i = LookupVersion(Lib, table, n, v), i # 0, Lib.versym, Lib.syms[i].ver > 1,
             NEW c \in {Lib.verdef, Lib.verneed}, NEW k \in Visited(c),
             c.records[k].ndx = Lib.syms[i].ver
      PROVE  c.records[k].name = v
  <2>1. Lib \in Library /\ VersionsNumbered(Lib) /\ Lib.verdef \in Chain /\ Lib.verneed \in Chain
    BY <1>1, RelocFacts DEF LinkInv, Lib, Library
  <2>2. i = table[n] /\ VerName(Lib, i) \in {v, None}
    BY <1>1 DEF LookupVersion
  <2>3. i \in Definitions(Lib, n) /\ Definitions(Lib, n) \subseteq 1 .. Len(Lib.syms)
    BY <1>1, <2>1, <2>2, TableMeans DEF LinkInv, Loaded
  <2>4. PICK x \in Nat : x = Lib.syms[i].ver
    BY <2>1, <2>3, LibraryFacts DEF Entry
  <2>5. VerName(Lib, i) = GetVersionName(Lib, x)
    BY <1>1, <2>1, <2>4, RegularFacts DEF VerName, GetSymbolVersion
  <2>6. NameIn(c, x) # None
    BY <1>1, <2>1, <2>4, NameFacts
  <2>7. GetVersionName(Lib, x) # None
    BY <2>6 DEF GetVersionName
  <2>8. GetVersionName(Lib, x) = v
    BY <2>2, <2>5, <2>7
  <2>9. PICK d \in {Lib.verdef, Lib.verneed} : NameIn(d, x) = v /\ v # None
    BY <2>7, <2>8 DEF GetVersionName
  <2>10. PICK j \in Visited(d) : d.records[j].ndx = x /\ d.records[j].name = v
    BY <2>1, <2>9, NameFacts
  <2>11. d.records[j].name = c.records[k].name
    <3>1. c.records[k].ndx = d.records[j].ndx
      BY <1>1, <2>4, <2>10
    <3>2. \A a \in Visited(c), b \in Visited(d) :
            c.records[a].ndx = d.records[b].ndx => c.records[a].name = d.records[b].name
      <4>1. c \in {Lib.verdef, Lib.verneed} /\ d \in {Lib.verdef, Lib.verneed}
        BY <1>1, <2>9
      <4> DEFINE chains == {Lib.verdef, Lib.verneed}
      <4>2. \A x1, x2 \in chains : \A a \in Visited(x1), b \in Visited(x2) :
              x1.records[a].ndx = x2.records[b].ndx => x1.records[a].name = x2.records[b].name
        BY <2>1 DEF VersionsNumbered
      <4>3. c \in chains /\ d \in chains
        BY <4>1
      <4> HIDE DEF chains
      <4> QED BY <4>2, <4>3
    <3>3. k \in Visited(c) /\ j \in Visited(d)
      BY <1>1, <2>10
    <3> QED BY <3>1, <3>2, <3>3, Zenon
  <2> QED BY <2>10, <2>11
<1>2. LinkInv => VersionNamed
  <2> SUFFICES ASSUME LinkInv, Loaded, Regular(Lib), NEW n \in Names, NEW v \in Versions,
                      LookupVersion(Lib, table, n, v) # 0, Lib.versym,
                      Lib.syms[LookupVersion(Lib, table, n, v)].ver > 1,
                      NEW c \in {Lib.verdef, Lib.verneed}, NEW k \in Visited(c),
                      c.records[k].ndx = Lib.syms[LookupVersion(Lib, table, n, v)].ver
               PROVE  c.records[k].name = v
    BY DEF VersionNamed
  <2>1. PICK i : i = LookupVersion(Lib, table, n, v)
    OBVIOUS
  <2> QED BY <1>1, <2>1
<1> QED BY <1>2, LinkAlways, PTL

-----------------------------------------------------------------------------
(* What references reach *)

\* A name that is looked up has the address of its default definition in the library
\* itself, or else in the provider, or none
LEMMA Resolved ==
    ASSUME LinkInv, Loaded, Regular(Lib), Regular(provider), NEW i, symName(i) # None
    PROVE  /\ i # 0 /\ symName(i) \in Names
           /\ IF Addresses(symName(i)) # {} THEN Addresses(symName(i)) = {resolveSymForReloc(i)}
              ELSE resolveSymForReloc(i) = Missing(i)
           /\ Addresses(symName(i)) \subseteq Nat
<1>1. /\ Lib \in Library /\ provider \in Library /\ base \in Nat /\ providerBase \in Nat
      /\ table = LoadFromDynamic(Lib)
  BY RelocFacts DEF LinkInv, Loaded
<1>2. i \in 1 .. Len(Lib.syms) /\ Len(Lib.syms) \in Nat /\ symName(i) \in Names
  <2>1. /\ Len(Lib.syms) \in Nat /\ Known(Lib) = 1 .. Len(Lib.syms) /\ Mapped(Lib) = Lib.syms
        /\ \A j \in 1 .. Len(Lib.syms) : Lib.syms[j] \in Entry
    BY <1>1, LibraryFacts, RegularFacts
  <2>2. i \in 1 .. Len(Lib.syms) /\ symName(i) = Lib.syms[i].name
    BY <2>1 DEF symName
  <2>3. Lib.syms[i].name \in Names \cup {None}
    BY <2>1, <2>2 DEF Entry
  <2> QED BY <2>1, <2>2, <2>3
<1>3. PICK n \in Names : n = symName(i)
  BY <1>2
<1>4. i # 0 /\ n # None
  BY <1>2, <1>3
<1>5. /\ IF Definitions(Lib, n) = {} THEN table[n] = 0
         ELSE table[n] = Default(Lib, n) /\ table[n] \in Definitions(Lib, n) /\ table[n] # 0
      /\ Definitions(Lib, n) \subseteq 1 .. Len(Lib.syms)
  BY <1>1, <1>2, TableMeans
<1>6. /\ IF Definitions(provider, n) = {} THEN ProviderTable[n] = 0
         ELSE /\ ProviderTable[n] = Default(provider, n)
              /\ ProviderTable[n] \in Definitions(provider, n) /\ ProviderTable[n] # 0
      /\ Definitions(provider, n) \subseteq 1 .. Len(provider.syms)
  BY <1>1, LibraryFacts, TableMeans DEF ProviderTable
<1>7. resolveSymForReloc(i) =
        IF table[n] # 0 THEN Value(Lib, table[n], base)
        ELSE IF ProviderTable[n] # 0 THEN Value(provider, ProviderTable[n], providerBase)
        ELSE Missing(i)
  BY <1>3, <1>4 DEF resolveSymForReloc
<1>8. IF Addresses(n) # {} THEN Addresses(n) = {resolveSymForReloc(i)}
      ELSE resolveSymForReloc(i) = Missing(i)
  <2> HIDE DEF Value
  <2> QED BY <1>5, <1>6, <1>7 DEF Addresses
<1>9. Addresses(n) \subseteq Nat
  <2>1. ASSUME table[n] \in Definitions(Lib, n) PROVE Value(Lib, table[n], base) \in Nat
    <3>1. Mapped(Lib)[table[n]] \in Entry
      BY <1>1, <1>5, <2>1, LibraryFacts, RegularFacts
    <3> QED BY <1>1, <3>1 DEF Value, Entry
  <2>2. ASSUME ProviderTable[n] \in Definitions(provider, n)
        PROVE  Value(provider, ProviderTable[n], providerBase) \in Nat
    <3>1. Mapped(provider)[ProviderTable[n]] \in Entry
      BY <1>1, <1>6, <2>2, LibraryFacts, RegularFacts
    <3> QED BY <1>1, <3>1 DEF Value, Entry
  <2> HIDE DEF Value
  <2> QED BY <1>5, <1>6, <2>1, <2>2 DEF Addresses
<1> QED BY <1>3, <1>4, <1>8, <1>9

\* A load ends well only if every strong reference has a definition, and fails for a weak one
\* never (resolveSymForReloc, isWeakSymbol)
THEOREM UndefinedFails == Spec => []UndefinedReported
<1> DEFINE Satisfied(r) == \/ r.sym = 0 \/ symName(r.sym) = None
                           \/ Addresses(symName(r.sym)) # {} \/ isWeakSymbol(r.sym)
<1>1. ASSUME LinkInv, Loaded, Regular(Lib), Regular(provider), NEW r
      PROVE  resolveSymForReloc(r.sym) = Undefined <=> ~ Satisfied(r)
  <2>1. CASE r.sym = 0 \/ symName(r.sym) = None
    BY <2>1 DEF resolveSymForReloc, Undefined
  <2>2. CASE r.sym # 0 /\ symName(r.sym) # None
    <3>1. PICK i : i = r.sym
      OBVIOUS
    <3>2. /\ symName(i) \in Names
          /\ IF Addresses(symName(i)) # {} THEN Addresses(symName(i)) = {resolveSymForReloc(i)}
             ELSE resolveSymForReloc(i) = Missing(i)
          /\ Addresses(symName(i)) \subseteq Nat
      BY <1>1, <2>2, <3>1, Resolved
    <3>3. Undefined \notin Nat
      BY DEF Undefined
    <3>4. Missing(i) = Undefined <=> ~ isWeakSymbol(i)
      BY DEF Missing, Undefined
    <3> QED BY <2>2, <3>1, <3>2, <3>3, <3>4
  <2> QED BY <2>1, <2>2
<1>2. LinkInv => UndefinedReported
  <2> SUFFICES ASSUME LinkInv, Regular(Lib), Regular(provider)
               PROVE  /\ phase = "ready" => \A k \in DOMAIN file.relocs :
                            NeedsSymbol(file.relocs[k]) => Satisfied(file.relocs[k])
                      /\ phase = "failed" => \/ NeedsSymbol(R) /\ ~ Satisfied(R)
                                             \/ R.kind = "unknown"
                                             \/ R.kind = "copy" /\ Definitions(Lib, symName(R.sym)) = {}
                                             \/ NeedsTLS(R) /\ ~ file.tls
    BY DEF UndefinedReported
  <2>1. ASSUME phase = "ready", NEW k \in DOMAIN file.relocs, NeedsSymbol(file.relocs[k])
        PROVE  Satisfied(file.relocs[k])
    <3>1. ~ Refused(file.relocs[k]) /\ Loaded
      BY <2>1, RelocFacts DEF LinkInv, Loaded
    <3>2. resolveSymForReloc(file.relocs[k].sym) # Undefined
      BY <2>1, <3>1 DEF Refused
    <3> QED BY <1>1, <3>1, <3>2
  <2>2. ASSUME phase = "failed"
        PROVE  \/ NeedsSymbol(R) /\ ~ Satisfied(R)
               \/ R.kind = "unknown"
               \/ R.kind = "copy" /\ Definitions(Lib, symName(R.sym)) = {}
               \/ NeedsTLS(R) /\ ~ file.tls
    <3>1. Refused(R) /\ Loaded
      BY <2>2 DEF LinkInv, Loaded
    <3>2. PICK r : r = R
      OBVIOUS
    <3>3. resolveSymForReloc(r.sym) = Undefined <=> ~ Satisfied(r)
      BY <1>1, <3>1
    <3>4. symName(r.sym) = None \/ table[symName(r.sym)] = 0 => Definitions(Lib, symName(r.sym)) = {}
      <4>1. PICK i, n : i = r.sym /\ n = symName(i)
        OBVIOUS
      <4>2. Lib \in Library /\ table = LoadFromDynamic(Lib) /\ None \notin Names
        BY <3>1, RelocFacts, SymbolsAssumption DEF LinkInv, Loaded
      <4>3. CASE n = None
        BY <4>1, <4>3 DEF Definitions, shouldProcessSymbol
      <4>4. CASE n # None /\ table[n] = 0
        <5>1. n \in Names
          BY <3>1, <4>1, <4>4, Resolved
        <5>2. Definitions(Lib, n) = {} \/ table[n] # 0
          BY <4>2, <5>1, TableMeans
        <5> QED BY <4>1, <4>4, <5>2
      <4> QED BY <4>1, <4>3, <4>4
    <3> HIDE DEF Satisfied
    <3> QED BY <3>1, <3>2, <3>3, <3>4 DEF Refused
  <2> QED BY <2>1, <2>2
<1> QED BY <1>2, LinkAlways, PTL

\* The remainder of a number between -d and d
LEMMA Remainder ==
    ASSUME NEW d \in Nat \ {0}, NEW x \in -d .. d - 1
    PROVE  x % d = IF x >= 0 THEN x ELSE x + d
<1>1. /\ x % d \in 0 .. d - 1 /\ x \div d \in Int
      /\ x = d * (x \div d) + (x % d)
  BY SMT
<1> DEFINE q == x \div d
           m == x % d
<1>2. q \in Int /\ m \in 0 .. d - 1 /\ x = d * q + m
  BY <1>1
<1> HIDE DEF q, m
<1>3. d * q \in Int /\ x - m = d * q /\ -2 * d < d * q /\ d * q < d
  BY <1>2, SMT
<1>4. ~ (q >= 1)
  <2> SUFFICES ASSUME q >= 1 PROVE FALSE
    OBVIOUS
  <2>1. d * q >= d * 1
    BY <1>2, SMT
  <2> QED BY <1>3, <2>1, SMT
<1>5. ~ (q <= -2)
  <2> SUFFICES ASSUME q <= -2 PROVE FALSE
    OBVIOUS
  <2>1. d * q <= d * (-2)
    BY <1>2, SMT
  <2> QED BY <1>3, <2>1, SMT
<1>6. q = 0 \/ q = -1
  BY <1>2, <1>4, <1>5
<1>7. CASE q = 0
  <2>1. x = m
    BY <1>2, <1>7
  <2> QED BY <1>2, <2>1 DEF m
<1>8. CASE q = -1
  <2>1. x = m - d
    BY <1>2, <1>8
  <2>2. x < 0 /\ m = x + d
    BY <1>2, <2>1
  <2> QED BY <2>2 DEF m
<1> QED BY <1>6, <1>7, <1>8

\* A number that fits half a word is found again, with or without a sign
LEMMA HalfWord ==
    ASSUME NEW t \in Int
    PROVE  /\ t \in 0 .. Half - 1 => t % Half = t /\ t % Word = t
           /\ t \in -(Half \div 2) .. Half \div 2 - 1 => Signed(t % Half) = t
<1>1. PICK h \in Nat \ {0} : h = Half
  OBVIOUS
<1>2. PICK w \in Nat \ {0} : w = Word
  BY Cut
<1>3. h <= w
  BY <1>1, <1>2, Cut
<1>4. PICK u \in Nat : u = h \div 2 /\ 2 * u <= h /\ h <= 2 * u + 1
  <2>1. h \div 2 \in Nat /\ 2 * (h \div 2) <= h /\ h <= 2 * (h \div 2) + 1
    OBVIOUS
  <2> QED BY <2>1
<1>5. ASSUME t \in 0 .. h - 1 PROVE t % h = t /\ t % w = t
  <2>1. t \in -h .. h - 1 /\ t \in -w .. w - 1 /\ t >= 0
    BY <1>3, <1>5
  <2> QED BY <2>1, Remainder
<1>6. ASSUME t \in -u .. u - 1 PROVE Signed(t % h) = t
  <2>1. t \in -h .. h - 1
    BY <1>4, <1>6
  <2>2. t % h = IF t >= 0 THEN t ELSE t + h
    BY <2>1, Remainder
  <2>3. PICK m \in Int : m = t % h
    BY <2>2
  <2>4. Signed(m) = IF m < u THEN m ELSE m - h
    BY <1>1, <1>4 DEF Signed
  <2> QED BY <1>4, <1>6, <2>2, <2>3, <2>4
<1> QED BY <1>1, <1>2, <1>4, <1>5, <1>6

\* What is written for the symbol address s leads to s, plus the addend, if it fits
LEMMA Leads ==
    ASSUME NEW r \in Reloc, Addresser(r), NEW s \in Int, base \in Nat,
           NEW t \in Int, t = s + (IF r.kind = "slot" THEN 0 ELSE r.addend), Fits(r, t)
    PROVE  Reached(r, Written(r, s)) = t % Word
<1>1. r.kind \in {"64", "slot", "32", "32s", "pc32"} /\ r.addend \in Int /\ Site(r) \in Int
  BY DEF Addresser, Reloc, Site
<1>2. CASE r.kind \in {"64", "slot"}
  BY <1>1, <1>2 DEF Reached, Written
<1>3. CASE r.kind = "32"
  <2>1. Reached(r, Written(r, s)) = t % Half
    BY <1>1, <1>3 DEF Reached, Written
  <2>2. t \in 0 .. Half - 1
    BY <1>3 DEF Fits
  <2> QED BY <2>1, <2>2, HalfWord
<1>4. CASE r.kind = "32s"
  <2>1. Reached(r, Written(r, s)) = Signed(t % Half) % Word
    BY <1>1, <1>4 DEF Reached, Written
  <2>2. t \in -(Half \div 2) .. Half \div 2 - 1
    BY <1>4 DEF Fits
  <2> QED BY <2>1, <2>2, HalfWord
<1>5. CASE r.kind = "pc32"
  <2>1. PICK d \in Int : d = t - Site(r)
    BY <1>1
  <2>2. s + r.addend - Site(r) = d /\ Site(r) + d = t
    BY <1>1, <1>5, <2>1
  <2>3. Reached(r, Written(r, s)) = (Site(r) + Signed(d % Half)) % Word
    BY <1>5, <2>2 DEF Reached, Written, applyPC32
  <2>4. d \in -(Half \div 2) .. Half \div 2 - 1
    BY <1>5, <2>1 DEF Fits
  <2>5. Signed(d % Half) = d
    BY <2>4, HalfWord
  <2> QED BY <2>2, <2>3, <2>5
<1> QED BY <1>1, <1>2, <1>3, <1>4, <1>5

\* A reference leads to its symbol: to the definition of the library itself before any
\* other, to the default version of several, if the field is wide enough; what the
\* handlers write and what the processor makes of it agree, for every base address and
\* addend (resolveSymForReloc, relocHandlers)
THEOREM ReferencesArrive == Spec => []ReferencesReach
<1>1. ASSUME LinkInv, NEW k \in Done, NEW r, r = file.relocs[k], Regular(Lib), Regular(provider),
             Addresser(r), symName(r.sym) # None, NEW a \in Addresses(symName(r.sym)),
             NEW t, t = a + (IF r.kind = "slot" THEN 0 ELSE r.addend), Fits(r, t)
      PROVE  Reached(r, words[k]) = t % Word
  <2>1. r \in Reloc /\ base \in Nat /\ k \in DOMAIN words
    BY <1>1, RelocFacts DEF Done
  <2>2. Loaded /\ words[k] = Written(r, resolveSymForReloc(r.sym))
    <3>1. words # <<>>
      BY <2>1
    <3> QED BY <1>1, <2>1, <3>1 DEF LinkInv, Loaded
  <2>3. PICK i : i = r.sym
    OBVIOUS
  <2>4. Addresses(symName(i)) = {resolveSymForReloc(i)} /\ Addresses(symName(i)) \subseteq Nat
    BY <1>1, <2>2, <2>3, Resolved
  <2>5. a = resolveSymForReloc(i) /\ a \in Nat
    BY <1>1, <2>3, <2>4
  <2>6. t \in Int
    BY <1>1, <2>1, <2>5 DEF Reloc
  <2> QED BY <1>1, <2>1, <2>2, <2>3, <2>5, <2>6, Leads
<1>2. LinkInv => ReferencesReach
  BY <1>1 DEF ReferencesReach
<1> QED BY <1>2, LinkAlways, PTL

\* The relocations that carry the offset of a thread-local variable write the same number,
\* that of the symbol table, though some go by way of an address (resolveTLSSymbolValue,
\* applyTlsgd)
THEOREM OffsetsAgree == Spec => []TLSOffsetsAgree
<1>1. ASSUME LinkInv, NEW k \in Done, NEW r, r = file.relocs[k], Regular(Lib), NeedsTLS(r),
             Definitions(Lib, symName(r.sym)) = {r.sym}
      PROVE  words[k] = (Lib.syms[r.sym].value + r.addend) % (IF r.kind = "dtpoff32" THEN Half ELSE Word)
  <2>1. r \in Reloc /\ base \in Nat /\ k \in DOMAIN words /\ Lib \in Library
    BY <1>1, RelocFacts DEF Done
  <2>2. Loaded /\ words[k] = Written(r, resolveSymForReloc(r.sym)) /\ table = LoadFromDynamic(Lib)
    <3>1. words # <<>>
      BY <2>1
    <3> QED BY <1>1, <2>1, <3>1 DEF LinkInv, Loaded
  <2>3. PICK i : i = r.sym
    OBVIOUS
  <2>4. i \in 1 .. Len(Lib.syms) /\ Len(Lib.syms) \in Nat
    BY <1>1, <2>1, <2>3, LibraryFacts DEF Definitions
  <2>5. /\ Lib.syms[i] \in Entry /\ Mapped(Lib) = Lib.syms /\ i \in Known(Lib) /\ i # 0
        /\ shouldProcessSymbol(Lib.syms[i])
    BY <1>1, <2>1, <2>3, <2>4, LibraryFacts, RegularFacts DEF Definitions
  <2>6. PICK n \in Names : n = symName(i) /\ n # None
    BY <2>5 DEF symName, shouldProcessSymbol, Entry
  <2>7. table[n] = i
    BY <1>1, <2>1, <2>2, <2>3, <2>6, TableMeans
  <2>8. PICK v \in Nat : v = Lib.syms[i].value
    BY <2>5 DEF Entry
  <2>9. resolveSymForReloc(i) = base + v /\ symAddress(i) = v
    BY <2>5, <2>6, <2>7, <2>8 DEF resolveSymForReloc, Value, symAddress
  <2>10. TLSOffset(r, base + v) = v + r.addend /\ GDOffset(r) = v + r.addend
    BY <2>1, <2>3, <2>5, <2>9 DEF TLSOffset, GDOffset, Reloc
  <2> QED BY <1>1, <2>2, <2>3, <2>8, <2>9, <2>10 DEF Written, NeedsTLS
<1>2. LinkInv => TLSOffsetsAgree
  BY <1>1 DEF TLSOffsetsAgree
<1> QED BY <1>2, LinkAlways, PTL

-----------------------------------------------------------------------------
(* Hash tables *)

\* The greatest and the least element of a set of entries
LEMMA Extremes ==
    ASSUME NEW l \in Nat, NEW T, T \subseteq 0 .. l
    PROVE  T # {} => /\ Max(T) \in T /\ \A j \in T : j <= Max(T)
                     /\ Min(T) \in T /\ \A j \in T : Min(T) <= j
<1> SUFFICES ASSUME T # {} PROVE /\ Max(T) \in T /\ \A j \in T : j <= Max(T)
                                 /\ Min(T) \in T /\ \A j \in T : Min(T) <= j
  OBVIOUS
<1>1. T \subseteq Nat
  OBVIOUS
<1>2. PICK x \in T : \A j \in T : j <= x
  BY GreatestIn
<1>3. PICK y \in T : \A j \in T : y <= j
  BY <1>1, Least
<1>4. \A j \in T : x >= j
  BY <1>1, <1>2
<1>5. Max(T) \in T /\ \A j \in T : Max(T) >= j
  BY <1>4 DEF Max
<1>6. Min(T) \in T /\ \A j \in T : Min(T) <= j
  BY <1>3 DEF Min
<1> QED BY <1>1, <1>5, <1>6

LEMMA GreatestIs ==
    ASSUME NEW l \in Nat, NEW T, T \subseteq 0 .. l, NEW x \in T, \A j \in T : j <= x
    PROVE  x = Max(T)
<1>1. Max(T) \in T /\ \A j \in T : j <= Max(T)
  BY Extremes
<1>2. PICK y \in T : y = Max(T)
  BY <1>1
<1>3. x <= y /\ y <= x
  BY <1>1, <1>2
<1>4. x \in 0 .. l /\ y \in 0 .. l
  OBVIOUS
<1> QED BY <1>2, <1>3, <1>4

LEMMA LeastIs ==
    ASSUME NEW l \in Nat, NEW T, T \subseteq 0 .. l, NEW x \in T, \A j \in T : x <= j
    PROVE  x = Min(T)
<1>1. Min(T) \in T /\ \A j \in T : Min(T) <= j
  BY Extremes
<1>2. PICK y \in T : y = Min(T)
  BY <1>1
<1>3. x <= y /\ y <= x
  BY <1>1, <1>2
<1>4. x \in 0 .. l /\ y \in 0 .. l
  OBVIOUS
<1> QED BY <1>2, <1>3, <1>4

\* The entries of a name are in the bucket of its hash
Bearers(f, first, n) == {i \in first .. Len(f.syms) : f.syms[i].name = n}

LEMMA BucketFacts ==
    ASSUME NEW f \in Library, Named(f), NEW nb \in Nat \ {0}, NEW n \in Names, NEW first \in Nat \ {0}
    PROVE  /\ Hash[n] \in Nat /\ Hash[n] % nb \in 0 .. nb - 1 /\ Len(f.syms) \in Nat
           /\ \A i \in 1 .. Len(f.syms) : Bucket(f, i, nb) \in 0 .. nb - 1
           /\ Bearers(f, first, n) \subseteq InBucket(f, first, Hash[n] % nb, nb)
           /\ \A b : InBucket(f, first, b, nb) \subseteq 1 .. Len(f.syms)
<1>1. /\ Len(f.syms) \in Nat /\ DOMAIN f.syms = 1 .. Len(f.syms)
      /\ \A i \in 1 .. Len(f.syms) : f.syms[i].name \in Names
  <2>1. /\ Len(f.syms) \in Nat /\ DOMAIN f.syms = 1 .. Len(f.syms)
        /\ \A i \in 1 .. Len(f.syms) : f.syms[i] \in Entry
    BY LibraryFacts
  <2>2. \A e \in Entry : e.name \in Names \cup {None}
    BY DEF Entry
  <2> QED BY <2>1, <2>2 DEF Named
<1>2. \A m \in Names : Hash[m] \in Nat /\ Hash[m] % nb \in 0 .. nb - 1
  BY SMT
<1>3. \A i \in first .. Len(f.syms) : i \in 1 .. Len(f.syms)
  BY <1>1
<1>4. Bearers(f, first, n) \subseteq InBucket(f, first, Hash[n] % nb, nb)
  BY DEF Bearers, InBucket, Bucket
<1>5. \A b : InBucket(f, first, b, nb) \subseteq 1 .. Len(f.syms)
  BY <1>3 DEF InBucket
<1>6. \A i \in 1 .. Len(f.syms) : Bucket(f, i, nb) \in 0 .. nb - 1
  BY <1>1, <1>2 DEF Bucket
<1> QED BY <1>1, <1>2, <1>4, <1>5, <1>6

\* The walk of SysvLookup: where it is after k steps has been the greatest entry of the
\* bucket that is left, and nothing above it bears the name
OnTheWay(f, n, B, v) ==
    \/ v = 0 /\ Bearers(f, 1, n) = {}
    \/ v \in B /\ \A j \in Bearers(f, 1, n) : j <= v
Arrived(f, n, v) == v = 0 \/ f.syms[v].name = n

LEMMA SysvStep ==
    ASSUME NEW f \in Library, Named(f), NEW nb \in Nat \ {0}, NEW n \in Names,
           NEW v \in 1 .. Len(f.syms), f.syms[v].name # n,
           OnTheWay(f, n, InBucket(f, 1, Hash[n] % nb, nb), v)
    PROVE  /\ SysvTable(f, nb).chains[v] \in 0 .. v - 1
           /\ OnTheWay(f, n, InBucket(f, 1, Hash[n] % nb, nb), SysvTable(f, nb).chains[v])
<1> DEFINE l == Len(f.syms)
           B == InBucket(f, 1, Hash[n] % nb, nb)
           below == {j \in B : j < v}
           next == SysvTable(f, nb).chains[v]
<1>1. l \in Nat /\ B \subseteq 1 .. l /\ Bearers(f, 1, n) \subseteq B /\ DOMAIN f.syms = 1 .. l
  <2>1. 1 \in Nat \ {0}
    OBVIOUS
  <2> QED BY <2>1, BucketFacts, LibraryFacts
<1>2. v \in B /\ \A j \in Bearers(f, 1, n) : j <= v
  BY DEF OnTheWay
<1>3. Bucket(f, v, nb) = Hash[n] % nb
  BY <1>2 DEF InBucket
<1>4. next = Max(below \cup {0})
  BY <1>1, <1>3 DEF SysvTable
<1>5. \A j \in Bearers(f, 1, n) : j \in below
  <2>1. v \notin Bearers(f, 1, n)
    BY DEF Bearers
  <2>2. \A j \in Bearers(f, 1, n) : j \in B /\ j # v /\ j <= v /\ j \in Int
    BY <1>1, <1>2, <2>1
  <2> HIDE DEF B
  <2> QED BY <2>2
<1>6. below \cup {0} \subseteq 0 .. l /\ \A j \in below : j \in 1 .. v - 1
  BY <1>1
<1>7. next \in below \cup {0} /\ \A j \in below : j <= next
  <2> HIDE DEF below, next, l
  <2>1. below \cup {0} # {}
    OBVIOUS
  <2> QED BY <1>1, <1>4, <1>6, <2>1, Extremes
<1>8. CASE next \in below
  BY <1>5, <1>6, <1>7, <1>8 DEF OnTheWay
<1>9. CASE next = 0
  <2>1. below = {}
    <3> HIDE DEF below, next
    <3> QED BY <1>6, <1>7, <1>9
  <2>2. Bearers(f, 1, n) = {}
    BY <1>5, <2>1
  <2> HIDE DEF next
  <2> QED BY <1>9, <2>2 DEF OnTheWay, next
<1> HIDE DEF next, below
<1> QED BY <1>7, <1>8, <1>9 DEF next

\* A loop of m rounds over values of V runs
Loop(m, V, first, step) == m \in Nat /\ first \in V /\ step \in Rounds(1 .. m, V)

LEMMA LoopRuns ==
    ASSUME NEW m, NEW V, NEW first, NEW step, Loop(m, V, first, step)
    PROVE  \E F \in [0 .. m -> V] : F[0] = first /\ \A k \in 1 .. m : F[k] = step[k][F[k - 1]]
BY UpwardRecursion DEF Loop

\* SysvLookup gives the last entry that bears the name: it follows the bucket down for as
\* many steps as there are entries, which is enough
LEMMA SysvFinds ==
    ASSUME NEW f \in Library, Named(f), NEW nb \in Nat \ {0}, NEW n \in Names
    PROVE  SysvLookup(f, SysvTable(f, nb), n) =
             IF Bearers(f, 1, n) = {} THEN 0 ELSE Max(Bearers(f, 1, n))
<1> DEFINE l == Len(f.syms)
           V == 0 .. l
           B == InBucket(f, 1, Hash[n] % nb, nb)
           chains == SysvTable(f, nb).chains
           start == SysvTable(f, nb).buckets[1 + (Hash[n] % Len(SysvTable(f, nb).buckets))]
           Body(F) == [k \in 0 .. l |-> IF k = 0 THEN start
                                         ELSE IF F[k - 1] = 0 \/ f.syms[F[k - 1]].name = n THEN F[k - 1]
                                         ELSE chains[F[k - 1]]]
           step == [k \in 1 .. l |-> [v \in V |-> IF v = 0 \/ f.syms[v].name = n THEN v ELSE chains[v]]]
<1>1. l \in Nat /\ B \subseteq 1 .. l /\ Bearers(f, 1, n) \subseteq B /\ DOMAIN f.syms = 1 .. l
      /\ Hash[n] % nb \in 0 .. nb - 1
  <2>1. 1 \in Nat \ {0}
    OBVIOUS
  <2> QED BY <2>1, BucketFacts, LibraryFacts
<1>2. start = Max(B \cup {0})
  <2> DEFINE table1 == [b \in 1 .. nb |-> Max(InBucket(f, 1, b - 1, nb) \cup {0})]
  <2>1. Len(table1) = nb
    OBVIOUS
  <2>2. SysvTable(f, nb).buckets = table1
    BY DEF SysvTable
  <2>3. PICK h \in 0 .. nb - 1 : h = Hash[n] % nb
    BY <1>1
  <2>4. 1 + h \in 1 .. nb /\ (1 + h) - 1 = h
    OBVIOUS
  <2>5. table1[1 + h] = Max(InBucket(f, 1, h, nb) \cup {0})
    BY <2>4
  <2> QED BY <2>1, <2>2, <2>3, <2>5
<1>3. start \in V /\ OnTheWay(f, n, B, start)
  <2>1. B \cup {0} \subseteq 0 .. l /\ B \cup {0} # {}
    BY <1>1
  <2> HIDE DEF B, start, l
  <2>2. start \in B \cup {0} /\ \A j \in B : j <= start
    BY <1>1, <1>2, <2>1, Extremes
  <2>3. CASE start \in B
    BY <1>1, <2>1, <2>2, <2>3 DEF OnTheWay
  <2>4. CASE start \notin B
    <3>1. start = 0 /\ B = {}
      BY <1>1, <2>2, <2>4
    <3> QED BY <1>1, <2>1, <3>1 DEF OnTheWay
  <2> QED BY <2>3, <2>4
<1>4. step \in Rounds(1 .. l, V)
  <2>1. ASSUME NEW v \in 1 .. l PROVE chains[v] \in V
    <3> DEFINE T == {j \in InBucket(f, 1, Bucket(f, v, nb), nb) : j < v} \cup {0}
    <3>1. chains[v] = Max(T)
      BY <1>1 DEF SysvTable
    <3>2. T \subseteq 0 .. l /\ T # {}
      BY <1>1 DEF InBucket
    <3> HIDE DEF T
    <3> QED BY <1>1, <3>1, <3>2, Extremes
  <2>2. \A v \in V : v = 0 \/ v \in 1 .. l
    BY <1>1
  <2> HIDE DEF chains, l
  <2> QED BY <2>1, <2>2 DEF Rounds
<1>5. PICK F \in [0 .. l -> V] : F[0] = start /\ \A k \in 1 .. l : F[k] = step[k][F[k - 1]]
  <2>1. Loop(l, V, start, step)
    <3> HIDE DEF step, l, V, start
    <3> QED BY <1>1, <1>3, <1>4 DEF Loop
  <2> HIDE DEF step, l, V, start, B, chains, Body
  <2> QED BY <2>1, LoopRuns
<1>6. \A k \in 1 .. l : k \in 0 .. l /\ k - 1 \in 0 .. l /\ k # 0
  BY <1>1
<1>7. \A k \in 1 .. l : F[k] = IF F[k - 1] = 0 \/ f.syms[F[k - 1]].name = n THEN F[k - 1] ELSE chains[F[k - 1]]
  <2> HIDE DEF l, V, chains, start
  <2> QED BY <1>5, <1>6
<1>8. F = Body(F)
  <2>1. \A k \in 0 .. l : F[k] = IF k = 0 THEN start
                                ELSE IF F[k - 1] = 0 \/ f.syms[F[k - 1]].name = n THEN F[k - 1]
                                ELSE chains[F[k - 1]]
    <3>1. \A k \in 0 .. l : k = 0 \/ k \in 1 .. l
      BY <1>1
    <3> HIDE DEF l, V, chains, start
    <3> QED BY <1>5, <1>7, <3>1
  <2> HIDE DEF l, V, chains, start
  <2> QED BY <1>5, <2>1
<1>9. SysvLookup(f, SysvTable(f, nb), n) = (CHOOSE G : G = Body(G))[l]
  BY DEF SysvLookup
<1>10. PICK K : K = (CHOOSE G : G = Body(G))
  OBVIOUS
<1>11. K = Body(K)
  <2> HIDE DEF l, V, chains, start
  <2> QED BY <1>8, <1>10
<1>12. /\ K[0] = start
       /\ \A k \in 1 .. l : K[k] = IF K[k - 1] = 0 \/ f.syms[K[k - 1]].name = n THEN K[k - 1]
                                   ELSE chains[K[k - 1]]
  <2>1. 0 \in 0 .. l
    BY <1>1
  <2> HIDE DEF l, V, chains, start
  <2> QED BY <1>6, <1>11, <2>1
<1> HIDE DEF Body, step
<1> DEFINE P == {k \in 0 .. l : /\ K[k] \in V /\ OnTheWay(f, n, B, K[k])
                                /\ Arrived(f, n, K[k]) \/ K[k] <= l - k}
<1>13. 0 \in P
  <2> HIDE DEF start
  <2> QED BY <1>1, <1>3, <1>12
<1>14. ASSUME NEW k \in 0 .. l, k < l, k \in P PROVE k + 1 \in P
  <2>1. PICK i \in 1 .. l : i = k + 1 /\ i - 1 = k
    BY <1>1, <1>14
  <2>2. PICK v \in V : v = K[k]
    BY <1>14
  <2>3. OnTheWay(f, n, B, v) /\ (Arrived(f, n, v) \/ v <= l - k)
    BY <1>14, <2>2
  <2>4. K[i] = IF v = 0 \/ f.syms[v].name = n THEN v ELSE chains[v]
    <3> HIDE DEF l, chains
    <3> QED BY <1>12, <2>1, <2>2
  <2>5. CASE Arrived(f, n, v)
    <3>1. K[i] = v /\ i \in 0 .. l
      BY <1>6, <2>4, <2>5 DEF Arrived
    <3> QED BY <2>1, <2>3, <2>5, <3>1
  <2>6. CASE ~ Arrived(f, n, v)
    <3>1. v \in 1 .. l /\ f.syms[v].name # n /\ K[i] = chains[v]
      BY <1>1, <2>4, <2>6 DEF Arrived
    <3>2. chains[v] \in 0 .. v - 1 /\ OnTheWay(f, n, B, chains[v])
      BY <2>3, <3>1, SysvStep
    <3>3. PICK y : y = chains[v]
      OBVIOUS
    <3> HIDE DEF chains
    <3>4. y \in V /\ y <= l - i /\ i \in 0 .. l
      BY <1>1, <2>1, <2>3, <2>6, <3>1, <3>2, <3>3, SMTT(20)
    <3> QED BY <2>1, <3>1, <3>2, <3>3, <3>4
  <2> QED BY <2>5, <2>6
<1>15. l \in P
  <2>1. \A k \in 0 .. l : k \in P
    <3> HIDE DEF P, l
    <3> QED BY <1>1, <1>13, <1>14, UpwardInduction
  <2>2. l \in 0 .. l
    BY <1>1
  <2> HIDE DEF P
  <2> QED BY <2>1, <2>2
<1>16. PICK v \in V : v = K[l]
  BY <1>15
<1>17. OnTheWay(f, n, B, v) /\ (v = 0 \/ f.syms[v].name = n)
  BY <1>1, <1>15, <1>16 DEF Arrived
<1>18. CASE v = 0
  <2>1. Bearers(f, 1, n) = {}
    BY <1>1, <1>17, <1>18 DEF OnTheWay
  <2> QED BY <1>9, <1>10, <1>16, <1>18, <2>1
<1>19. CASE v # 0
  <2>1. v \in Bearers(f, 1, n) /\ \A j \in Bearers(f, 1, n) : j <= v
    BY <1>1, <1>17, <1>19 DEF OnTheWay, Bearers
  <2>2. Bearers(f, 1, n) \subseteq 0 .. l
    BY <1>1
  <2>3. v = Max(Bearers(f, 1, n))
    <3> HIDE DEF l
    <3> QED BY <1>1, <2>1, <2>2, GreatestIs
  <2> QED BY <1>9, <1>10, <1>16, <2>1, <2>3
<1> QED BY <1>18, <1>19

-----------------------------------------------------------------------------
(* DT_GNU_HASH *)

\* The entries from `first` on, and what a static linker puts into the table for them
HashedFrom(f, first) == first .. Len(f.syms)

LEMMA GnuChains ==
    ASSUME NEW f \in Library, Named(f), NEW nb \in Nat \ {0}, NEW nw \in Nat \ {0}, NEW shift,
           NEW first \in 1 .. Len(f.syms) + 1, NEW i \in HashedFrom(f, first)
    PROVE  /\ GnuTable(f, first, nb, nw, shift).symoffset = first
           /\ GnuTable(f, first, nb, nw, shift).chains[i - first + 1].hash = Hash[f.syms[i].name]
           /\ GnuTable(f, first, nb, nw, shift).chains[i - first + 1].last =
                (i = Len(f.syms) \/ Bucket(f, i, nb) # Bucket(f, i + 1, nb))
<1>1. PICK l \in Nat : l = Len(f.syms)
  BY LibraryFacts
<1>2. PICK k \in 1 .. l - first + 1 : k = i - first + 1 /\ first + k - 1 = i
  BY <1>1 DEF HashedFrom
<1> DEFINE chain == [m \in 1 .. l - first + 1 |->
                LET j == first + m - 1 IN
                [hash |-> Hash[f.syms[j].name],
                 last |-> j = l \/ Bucket(f, j, nb) # Bucket(f, j + 1, nb)]]
<1>3. chain[k] = [hash |-> Hash[f.syms[i].name],
                  last |-> i = l \/ Bucket(f, i, nb) # Bucket(f, i + 1, nb)]
  BY <1>2
<1>4. GnuTable(f, first, nb, nw, shift).chains = chain
  BY <1>1 DEF GnuTable
<1>5. GnuTable(f, first, nb, nw, shift).symoffset = first
  BY DEF GnuTable
<1> HIDE DEF chain
<1>6. GnuTable(f, first, nb, nw, shift).chains[i - first + 1] =
        [hash |-> Hash[f.syms[i].name],
         last |-> i = l \/ Bucket(f, i, nb) # Bucket(f, i + 1, nb)]
  BY <1>2, <1>3, <1>4
<1> DEFINE entry == GnuTable(f, first, nb, nw, shift).chains[i - first + 1]
<1>7. /\ entry.hash = Hash[f.syms[i].name]
      /\ entry.last = (i = Len(f.syms) \/ Bucket(f, i, nb) # Bucket(f, i + 1, nb))
  BY <1>1, <1>6
<1> QED BY <1>5, <1>7

\* A number is a multiple of itself
LEMMA OnceItself ==
    ASSUME NEW d \in Nat \ {0}
    PROVE  d % d = 0
<1>1. /\ d % d \in 0 .. d - 1 /\ d \div d \in Int
      /\ d = d * (d \div d) + (d % d)
  BY SMT
<1> DEFINE q == d \div d
           m == d % d
<1>2. q \in Int /\ m \in 0 .. d - 1 /\ d = d * q + m
  BY <1>1
<1> HIDE DEF q, m
<1>3. d * q \in Int /\ d - m = d * q /\ 0 < d * q /\ d * q <= d
  BY <1>2, SMT
<1>4. ~ (q >= 2)
  <2> SUFFICES ASSUME q >= 2 PROVE FALSE
    OBVIOUS
  <2>1. d * q >= d * 2
    BY <1>2, SMT
  <2> QED BY <1>3, <2>1, SMT
<1>5. ~ (q <= 0)
  <2> SUFFICES ASSUME q <= 0 PROVE FALSE
    OBVIOUS
  <2>1. d * q <= d * 0
    BY <1>2, SMT
  <2> QED BY <1>3, <2>1, SMT
<1>6. q = 1
  BY <1>2, <1>4, <1>5
<1>7. m = 0
  BY <1>2, <1>6
<1> QED BY <1>7 DEF m

\* The bucket of a hash is its first entry, or 0 if it has none
LEMMA GnuBucket ==
    ASSUME NEW f \in Library, Named(f), NEW nb \in Nat \ {0}, NEW nw \in Nat \ {0}, NEW shift,
           NEW first \in 1 .. Len(f.syms) + 1, NEW n \in Names
    PROVE  LET g == GnuTable(f, first, nb, nw, shift)
               B == InBucket(f, first, Hash[n] % nb, nb)
           IN g.buckets[1 + (Hash[n] % Len(g.buckets))] = IF B = {} THEN 0 ELSE Min(B)
<1>1. PICK l \in Nat : l = Len(f.syms)
  BY LibraryFacts
<1>2. PICK h \in 0 .. nb - 1 : h = Hash[n] % nb
  <2>1. 1 \in Nat \ {0}
    OBVIOUS
  <2> QED BY <2>1, BucketFacts
<1> DEFINE B == InBucket(f, first, h, nb)
           buckets == [b \in 1 .. nb |->
                         Min(InBucket(f, first, b - 1, nb) \cup {l + 1}) % (l + 1)]
<1>3. GnuTable(f, first, nb, nw, shift).buckets = buckets
  BY <1>1 DEF GnuTable
<1>4. Len(buckets) = nb
  OBVIOUS
<1>5. buckets[1 + h] = Min(B \cup {l + 1}) % (l + 1)
  <2>1. 1 + h \in 1 .. nb /\ (1 + h) - 1 = h
    OBVIOUS
  <2> QED BY <2>1
<1>6. B \subseteq 1 .. l
  BY <1>1 DEF InBucket
<1> HIDE DEF buckets
<1>7. Min(B \cup {l + 1}) % (l + 1) = IF B = {} THEN 0 ELSE Min(B)
  <2>1. l + 1 \in Nat \ {0} /\ B \cup {l + 1} # {} /\ B \cup {l + 1} \subseteq 0 .. l + 1
    BY <1>6
  <2>2. PICK m \in B \cup {l + 1} : m = Min(B \cup {l + 1}) /\ \A j \in B : m <= j
    <3> HIDE DEF B
    <3>1. Min(B \cup {l + 1}) \in B \cup {l + 1} /\ \A j \in B \cup {l + 1} : Min(B \cup {l + 1}) <= j
      BY <2>1, Extremes
    <3> QED BY <3>1
  <2> HIDE DEF B
  <2>3. CASE B = {}
    <3>1. m = l + 1
      BY <2>2, <2>3
    <3> QED BY <2>1, <2>2, <2>3, <3>1, OnceItself
  <2>4. CASE B # {}
    <3>1. m \in B
      <4>1. PICK j \in B : TRUE
        BY <2>4
      <4>2. m <= j /\ j \in 1 .. l
        BY <1>6, <2>2, <4>1
      <4>3. m # l + 1
        BY <4>2
      <4> QED BY <2>2, <4>3
    <3>2. m = Min(B)
      <4>1. B \subseteq 0 .. l
        BY <1>6
      <4> QED BY <2>2, <3>1, <4>1, LeastIs
    <3>3. m \in -(l + 1) .. (l + 1) - 1 /\ m >= 0
      BY <1>6, <3>1
    <3>4. m % (l + 1) = m
      BY <2>1, <3>3, Remainder
    <3> QED BY <2>2, <2>4, <3>2, <3>4
  <2> QED BY <2>3, <2>4
<1> QED BY <1>2, <1>3, <1>4, <1>5, <1>7

\* The Bloom filter turns away no name that an entry bears
LEMMA GnuBloom ==
    ASSUME NEW f \in Library, Named(f), NEW nb \in Nat \ {0}, NEW nw \in Nat \ {0}, NEW shift,
           NEW first \in 1 .. Len(f.syms) + 1, NEW n \in Names, Bearers(f, first, n) # {}
    PROVE  checkBloomFilter(GnuTable(f, first, nb, nw, shift), Hash[n])
<1> DEFINE Bits(h) == {h % WordBits, (h \div 2 ^ shift) % WordBits}
           Word0(h) == (h \div WordBits) % nw
           Part(w, i) == IF Word0(Hash[f.syms[i].name]) = w - 1 THEN Bits(Hash[f.syms[i].name]) ELSE {}
           bloom == [w \in 1 .. nw |-> UNION {Part(w, i) : i \in first .. Len(f.syms)}]
<1>1. GnuTable(f, first, nb, nw, shift).bloom = bloom
  BY DEF GnuTable
<1>2. GnuTable(f, first, nb, nw, shift).shift = shift
  BY DEF GnuTable
<1>3. Len(bloom) = nw
  <2> HIDE DEF Part
  <2> QED OBVIOUS
<1>4. PICK i \in first .. Len(f.syms) : f.syms[i].name = n
  BY DEF Bearers
<1>5. PICK d \in 0 .. nw - 1 : d = Word0(Hash[n])
  <2>1. PICK h \in Nat : h = Hash[n]
    OBVIOUS
  <2>2. h \div WordBits \in Nat
    BY DEF WordBits
  <2>3. \A x \in Nat : x % nw \in 0 .. nw - 1
    BY SMT
  <2> QED BY <2>1, <2>2, <2>3
<1>6. 1 + d \in 1 .. nw /\ (1 + d) - 1 = d
  BY <1>5
<1>7. Part(1 + d, i) = Bits(Hash[n])
  <2> HIDE DEF Bits, Word0
  <2> QED BY <1>4, <1>5, <1>6
<1>8. Bits(Hash[n]) \subseteq bloom[1 + d]
  <2> HIDE DEF Bits, Part
  <2>1. bloom[1 + d] = UNION {Part(1 + d, j) : j \in first .. Len(f.syms)}
    BY <1>6
  <2> HIDE DEF bloom
  <2> QED BY <1>7, <2>1
<1>9. Bits(Hash[n]) \subseteq bloom[1 + ((Hash[n] \div WordBits) % Len(bloom))]
  <2> HIDE DEF Bits, bloom
  <2> QED BY <1>3, <1>5, <1>8
<1> HIDE DEF bloom
<1> QED BY <1>1, <1>2, <1>9 DEF checkBloomFilter

\* Where a walk from entry i is to end: at the first entry from i on that bears the name
From(f, first, n, i) == {j \in Bearers(f, first, n) : j >= i}
EndsAt(f, first, n, i, v) ==
    \/ v = 0 /\ From(f, first, n, i) = {}
    \/ v \in From(f, first, n, i) /\ \A j \in From(f, first, n, i) : v <= j

\* The entries of a bucket follow each other
InOrder(f, first, nb) ==
    \A i, j \in first .. Len(f.syms) : i < j => Bucket(f, i, nb) <= Bucket(f, j, nb)

\* The last entry of its bucket has nothing of the bucket behind it, and behind any other
\* one there is an entry of the same bucket
LEMMA GnuNext ==
    ASSUME NEW f \in Library, Named(f), NEW nb \in Nat \ {0}, NEW first \in 1 .. Len(f.syms) + 1,
           NEW n \in Names, InOrder(f, first, nb),
           NEW i \in InBucket(f, first, Hash[n] % nb, nb), f.syms[i].name # n
    PROVE  IF i = Len(f.syms) \/ Bucket(f, i, nb) # Bucket(f, i + 1, nb)
             THEN EndsAt(f, first, n, i, 0)
             ELSE /\ i + 1 \in InBucket(f, first, Hash[n] % nb, nb)
                  /\ \A v : EndsAt(f, first, n, i + 1, v) => EndsAt(f, first, n, i, v)
<1> DEFINE l == Len(f.syms)
           B == InBucket(f, first, Hash[n] % nb, nb)
<1>1. /\ l \in Nat /\ first \in Nat \ {0} /\ B \subseteq 1 .. l /\ Bearers(f, first, n) \subseteq B
      /\ \A j \in 1 .. l : Bucket(f, j, nb) \in 0 .. nb - 1
  <2>1. first \in Nat \ {0}
    BY LibraryFacts
  <2> QED BY <2>1, BucketFacts
<1>2. i \in first .. l /\ i \in 1 .. l /\ Bucket(f, i, nb) = Hash[n] % nb
  BY <1>1 DEF InBucket
<1>3. i \notin Bearers(f, first, n)
  BY DEF Bearers
<1>4. CASE i = l \/ Bucket(f, i, nb) # Bucket(f, i + 1, nb)
  <2>1. ASSUME NEW j \in Bearers(f, first, n), j >= i PROVE FALSE
    <3>1. j \in first .. l /\ j \in 1 .. l /\ j \in B /\ j # i
      BY <1>1, <1>3, <2>1 DEF InBucket
    <3>2. Bucket(f, j, nb) = Bucket(f, i, nb)
      BY <1>2, <3>1 DEF InBucket
    <3>3. PICK k \in first .. l : k = i + 1 /\ i < k /\ k <= j /\ k \in 1 .. l
      <4> HIDE DEF l
      <4>1. i \in Int /\ j \in Int /\ l \in Int /\ first \in Int /\ 1 <= first /\ first <= i /\ j <= l
        BY <1>1, <1>2, <3>1
      <4>2. i + 1 <= j
        BY <2>1, <3>1, <4>1
      <4> QED BY <4>1, <4>2
    <3>4. Bucket(f, i, nb) <= Bucket(f, k, nb)
      BY <1>2, <3>3 DEF InOrder
    <3>5. Bucket(f, k, nb) <= Bucket(f, j, nb)
      <4>1. CASE k = j
        BY <1>1, <3>1, <4>1
      <4>2. CASE k < j
        BY <3>1, <3>3, <4>2 DEF InOrder
      <4> QED BY <1>1, <3>1, <3>3, <4>1, <4>2
    <3>6. PICK bi \in 0 .. nb - 1 : bi = Bucket(f, i, nb)
      BY <1>1, <1>2
    <3>7. PICK bk \in 0 .. nb - 1 : bk = Bucket(f, k, nb)
      BY <1>1, <3>3
    <3>8. bi = bk
      BY <3>2, <3>4, <3>5, <3>6, <3>7
    <3> QED BY <1>1, <1>2, <1>4, <3>1, <3>3, <3>6, <3>7, <3>8
  <2>2. From(f, first, n, i) = {}
    BY <2>1 DEF From
  <2> QED BY <1>4, <2>2 DEF EndsAt
<1>5. CASE ~ (i = l \/ Bucket(f, i, nb) # Bucket(f, i + 1, nb))
  <2>1. i + 1 \in B
    BY <1>1, <1>2, <1>5 DEF InBucket
  <2>2. From(f, first, n, i + 1) = From(f, first, n, i)
    <3>1. \A j \in Bearers(f, first, n) : j \in Int /\ j # i
      BY <1>1, <1>3
    <3>2. \A j \in Bearers(f, first, n) : j >= i + 1 <=> j >= i
      BY <1>2, <3>1
    <3> QED BY <3>2 DEF From
  <2>3. \A v : EndsAt(f, first, n, i + 1, v) => EndsAt(f, first, n, i, v)
    BY <2>2 DEF EndsAt
  <2> QED BY <1>5, <2>1, <2>3
<1> QED BY <1>4, <1>5

\* A loop whose last round is known runs
LoopBack(a, b, V, last, step) ==
    a \in Int /\ b \in Int /\ a <= b /\ last \in V /\ step \in RoundsBack(a, b, V)

LEMMA LoopRunsBack ==
    ASSUME NEW a, NEW b, NEW V, NEW last, NEW step, LoopBack(a, b, V, last, step)
    PROVE  \E F \in [a .. b -> V] : F[b] = last /\ \A i \in a .. b - 1 : F[i] = step[i][F[i + 1]]
BY DownwardRecursion DEF LoopBack

\* The walk along the chain of a bucket ends where it is to
LEMMA ChainWalk ==
    ASSUME NEW f \in Library, Named(f), NEW nb \in Nat \ {0}, NEW nw \in Nat \ {0}, NEW shift,
           NEW first \in 1 .. Len(f.syms) + 1, NEW n \in Names, InOrder(f, first, nb),
           NEW bucket \in InBucket(f, first, Hash[n] % nb, nb)
    PROVE  EndsAt(f, first, n, bucket, searchHashChain(f, GnuTable(f, first, nb, nw, shift), n, bucket))
<1> DEFINE l == Len(f.syms)
           g == GnuTable(f, first, nb, nw, shift)
           B == InBucket(f, first, Hash[n] % nb, nb)
           c(i) == g.chains[i - g.symoffset + 1]
           match(i) == c(i).hash \div 2 = Hash[n] \div 2 /\ f.syms[i].name = n
           Body(F) == [i \in bucket .. l + 1 |->
                         IF i > l THEN Beyond
                         ELSE IF match(i) THEN i ELSE IF c(i).last THEN 0 ELSE F[i + 1]]
           step == [i \in bucket .. l |-> [v \in Int |->
                         IF match(i) THEN i ELSE IF c(i).last THEN 0 ELSE v]]
<1>1. /\ l \in Nat /\ bucket \in 1 .. l /\ B \subseteq 1 .. l /\ \A i \in B : i \in first .. l
      /\ first \in Nat \ {0}
  <2>1. first \in Nat \ {0}
    BY LibraryFacts
  <2>2. \A i \in B : i \in first .. l
    BY DEF InBucket
  <2> QED BY <2>1, <2>2, BucketFacts
<1>2. ASSUME NEW i \in B
      PROVE  /\ c(i).hash = Hash[f.syms[i].name]
             /\ c(i).last = (i = l \/ Bucket(f, i, nb) # Bucket(f, i + 1, nb))
  <2>1. i \in HashedFrom(f, first)
    BY <1>1 DEF HashedFrom
  <2>2. /\ g.symoffset = first
        /\ g.chains[i - first + 1].hash = Hash[f.syms[i].name]
        /\ g.chains[i - first + 1].last = (i = l \/ Bucket(f, i, nb) # Bucket(f, i + 1, nb))
    BY <2>1, GnuChains, SMTT(20)
  <2> HIDE DEF g, l
  <2> QED BY <2>2
<1>3. PICK F \in [bucket .. l + 1 -> Int] :
        F[l + 1] = Beyond /\ \A i \in bucket .. l : F[i] = step[i][F[i + 1]]
  <2>1. step \in Rounds(bucket .. (l + 1) - 1, Int)
    <3>1. (l + 1) - 1 = l /\ \A i \in bucket .. l : i \in Int
      BY <1>1
    <3>2. \A i \in bucket .. l, v \in Int : (IF match(i) THEN i ELSE IF c(i).last THEN 0 ELSE v) \in Int
      <4> HIDE DEF match, c, l
      <4> QED BY <3>1
    <3> HIDE DEF match, c, l
    <3> QED BY <3>1, <3>2 DEF Rounds
  <2>2. PICK m \in Int : m = l + 1
    BY <1>1
  <2>3. bucket \in Int /\ bucket <= m /\ Beyond \in Int /\ m - 1 = l
    BY <1>1, <2>2 DEF Beyond
  <2>4. step \in Rounds(bucket .. m - 1, Int)
    BY <2>1, <2>2
  <2> HIDE DEF step, l
  <2>5. LoopBack(bucket, m, Int, Beyond, step)
    BY <2>2, <2>3, <2>4 DEF LoopBack, RoundsBack
  <2>6. \E F \in [bucket .. m -> Int] :
          F[m] = Beyond /\ \A i \in bucket .. m - 1 : F[i] = step[i][F[i + 1]]
    BY <2>5, LoopRunsBack
  <2> QED BY <2>2, <2>3, <2>6
<1>4. \A i \in bucket .. l : F[i] = IF match(i) THEN i ELSE IF c(i).last THEN 0 ELSE F[i + 1]
  <2>1. \A i \in bucket .. l : F[i + 1] \in Int
    BY <1>1, <1>3
  <2> HIDE DEF match, c, l
  <2> QED BY <1>3, <2>1
<1>5. F = Body(F)
  <2>1. \A i \in bucket .. l + 1 : F[i] = IF i > l THEN Beyond
                                       ELSE IF match(i) THEN i ELSE IF c(i).last THEN 0 ELSE F[i + 1]
    <3>1. \A i \in bucket .. l + 1 : (i > l /\ i = l + 1) \/ (~ (i > l) /\ i \in bucket .. l)
      <4>1. l \in Int /\ bucket \in Int
        BY <1>1
      <4> HIDE DEF l
      <4> QED BY <4>1
    <3> HIDE DEF match, c, l
    <3> QED BY <1>3, <1>4, <3>1
  <2> HIDE DEF match, c, l
  <2> QED BY <1>3, <2>1
<1>6. searchHashChain(f, g, n, bucket) = (CHOOSE G : G = Body(G))[bucket]
  <2> HIDE DEF g
  <2> QED BY DEF searchHashChain
<1>7. PICK K : K = (CHOOSE G : G = Body(G))
  OBVIOUS
<1>8. K = Body(K)
  <2> HIDE DEF match, c, l
  <2> QED BY <1>5, <1>7
<1>9. \A i \in bucket .. l : K[i] = IF match(i) THEN i ELSE IF c(i).last THEN 0 ELSE K[i + 1]
  <2>1. \A i \in bucket .. l : i \in bucket .. l + 1 /\ ~ (i > l)
    BY <1>1
  <2> HIDE DEF match, c, l
  <2> QED BY <1>8, <2>1
<1> HIDE DEF Body, step
<1> DEFINE Bad == {i \in B : i >= bucket /\ ~ EndsAt(f, first, n, i, K[i])}
<1>10. ASSUME NEW i \in Bad PROVE i + 1 \in Bad
  <2>1. i \in B /\ i \in bucket .. l /\ ~ EndsAt(f, first, n, i, K[i])
    BY <1>1
  <2>2. K[i] = IF match(i) THEN i ELSE IF c(i).last THEN 0 ELSE K[i + 1]
    <3> HIDE DEF match, c, l
    <3> QED BY <1>9, <2>1
  <2>3. f.syms[i].name # n
    <3> SUFFICES ASSUME f.syms[i].name = n PROVE FALSE
      OBVIOUS
    <3>1. K[i] = i
      <4>1. match(i)
        BY <1>2, <2>1
      <4> HIDE DEF match, c
      <4> QED BY <2>2, <4>1
    <3>2. i \in From(f, first, n, i) /\ \A j \in From(f, first, n, i) : i <= j
      BY <1>1, <2>1 DEF From, Bearers
    <3> QED BY <2>1, <3>1, <3>2 DEF EndsAt
  <2>4. K[i] = IF i = l \/ Bucket(f, i, nb) # Bucket(f, i + 1, nb) THEN 0 ELSE K[i + 1]
    <3>1. ~ match(i)
      BY <2>3
    <3> HIDE DEF match, c, l
    <3> QED BY <1>2, <2>1, <2>2, <3>1
  <2>5. CASE i = l \/ Bucket(f, i, nb) # Bucket(f, i + 1, nb)
    BY <2>1, <2>3, <2>4, <2>5, GnuNext
  <2>6. CASE ~ (i = l \/ Bucket(f, i, nb) # Bucket(f, i + 1, nb))
    <3>1. i + 1 \in B /\ (EndsAt(f, first, n, i + 1, K[i + 1]) => EndsAt(f, first, n, i, K[i + 1]))
      BY <2>1, <2>3, <2>6, GnuNext
    <3>2. i + 1 >= bucket
      BY <1>1, <2>1
    <3> QED BY <2>1, <2>4, <2>6, <3>1, <3>2
  <2> QED BY <2>5, <2>6
<1>11. Bad = {}
  <2> SUFFICES ASSUME Bad # {} PROVE FALSE
    OBVIOUS
  <2>1. Bad \subseteq 0 .. l
    BY <1>1
  <2> HIDE DEF Bad, l
  <2>2. PICK i \in Bad : \A j \in Bad : j <= i
    BY <1>1, <2>1, GreatestIn
  <2>3. i + 1 <= i /\ i \in Int
    BY <1>1, <1>10, <2>1, <2>2
  <2> QED BY <2>3
<1>12. EndsAt(f, first, n, bucket, K[bucket])
  BY <1>1, <1>11
<1> HIDE DEF g
<1> QED BY <1>6, <1>7, <1>12 DEF g

\* GnuLookup gives the first entry that bears the name
LEMMA GnuFinds ==
    ASSUME NEW f \in Library, Named(f), NEW nb \in Nat \ {0}, NEW nw \in Nat \ {0}, NEW shift,
           NEW first \in 1 .. Len(f.syms) + 1, NEW n \in Names, InOrder(f, first, nb)
    PROVE  GnuLookup(f, GnuTable(f, first, nb, nw, shift), n) =
             IF Bearers(f, first, n) = {} THEN 0 ELSE Min(Bearers(f, first, n))
<1> DEFINE l == Len(f.syms)
           g == GnuTable(f, first, nb, nw, shift)
           B == InBucket(f, first, Hash[n] % nb, nb)
           bucket == g.buckets[1 + (Hash[n] % Len(g.buckets))]
           found == GnuLookup(f, g, n)
<1>1. l \in Nat /\ B \subseteq 1 .. l /\ Bearers(f, first, n) \subseteq B
  <2>1. first \in Nat \ {0}
    BY LibraryFacts
  <2> QED BY <2>1, BucketFacts
<1>2. bucket = IF B = {} THEN 0 ELSE Min(B)
  BY GnuBucket
<1>3. found = IF ~ checkBloomFilter(g, Hash[n]) \/ bucket = 0 THEN 0
              ELSE searchHashChain(f, g, n, bucket)
  <2> HIDE DEF g
  <2> QED BY DEF GnuLookup
<1>4. B # {} => bucket \in B /\ bucket # 0 /\ \A j \in B : bucket <= j
  <2>1. B \subseteq 0 .. l /\ 0 \notin B
    BY <1>1
  <2> HIDE DEF B, bucket, l
  <2> QED BY <1>1, <1>2, <2>1, Extremes
<1>5. CASE Bearers(f, first, n) = {}
  <2>1. CASE found = 0
    BY <1>5, <2>1
  <2>2. CASE found # 0
    <3>1. B # {} /\ found = searchHashChain(f, g, n, bucket)
      <4> HIDE DEF g, B, bucket, found
      <4> QED BY <1>2, <1>3, <2>2
    <3>2. bucket \in B
      BY <1>4, <3>1
    <3>3. EndsAt(f, first, n, bucket, searchHashChain(f, g, n, bucket))
      <4>1. PICK b \in B : b = bucket
        BY <3>2
      <4> HIDE DEF bucket
      <4>2. EndsAt(f, first, n, b, searchHashChain(f, g, n, b))
        BY ChainWalk
      <4> QED BY <4>1, <4>2
    <3> HIDE DEF found
    <3> QED BY <1>5, <2>2, <3>1, <3>3 DEF EndsAt, From
  <2> QED BY <2>1, <2>2
<1>6. CASE Bearers(f, first, n) # {}
  <2>1. B # {} /\ checkBloomFilter(g, Hash[n])
    BY <1>1, <1>6, GnuBloom
  <2>2. bucket \in B /\ bucket # 0 /\ \A j \in B : bucket <= j
    BY <1>4, <2>1
  <2>3. found = searchHashChain(f, g, n, bucket)
    <3> HIDE DEF g, B, bucket, found
    <3> QED BY <1>3, <2>1, <2>2
  <2>4. EndsAt(f, first, n, bucket, found)
    <3>1. PICK b \in B : b = bucket
      BY <2>2
    <3> HIDE DEF bucket, found
    <3>2. EndsAt(f, first, n, b, searchHashChain(f, g, n, b))
      BY ChainWalk
    <3> QED BY <2>3, <3>1, <3>2
  <2> HIDE DEF bucket, found, l
  <2>5. From(f, first, n, bucket) = Bearers(f, first, n)
    <3>1. \A j \in Bearers(f, first, n) : j >= bucket
      <4>1. \A j \in B : j \in Int
        BY <1>1
      <4> QED BY <1>1, <2>2, <4>1
    <3> QED BY <3>1 DEF From
  <2>6. found \in Bearers(f, first, n) /\ \A j \in Bearers(f, first, n) : found <= j
    BY <1>6, <2>4, <2>5 DEF EndsAt
  <2>7. Bearers(f, first, n) \subseteq 0 .. l
    BY <1>1
  <2>8. found = Min(Bearers(f, first, n))
    BY <1>1, <2>6, <2>7, LeastIs
  <2> QED BY <1>6, <2>8 DEF found
<1> QED BY <1>5, <1>6

\* Where the exported entries begin, and that SortedFor is their order
LEMMA ExportedFacts ==
    ASSUME NEW f \in Library
    PROVE  /\ FirstExported(f) \in 1 .. Len(f.syms) + 1
           /\ \A nb : SortedFor(f, nb) => InOrder(f, FirstExported(f), nb)
<1>1. PICK l \in Nat : l = Len(f.syms)
  BY LibraryFacts
<1> DEFINE T == {k \in 1 .. l + 1 : \A i \in k .. l : shouldProcessSymbol(f.syms[i])}
<1>2. l + 1 \in T /\ T \subseteq 0 .. l + 1 /\ l + 1 \in Nat
  OBVIOUS
<1>3. FirstExported(f) = Min(T)
  BY <1>1 DEF FirstExported
<1>4. Min(T) \in T
  <2> HIDE DEF T
  <2> QED BY <1>2, Extremes
<1>5. FirstExported(f) \in 1 .. Len(f.syms) + 1
  BY <1>1, <1>3, <1>4
<1> QED BY <1>5 DEF SortedFor, InOrder

\* HashesAgree: whatever the lengths and the numbers of buckets and words, and whatever
\* values the hashes have, both lookups give what a walk over the table gives
THEOREM HashesFind == Spec => []HashesAgree
<1>1. ASSUME LinkInv, phase = "map", Named(Lib) PROVE HashesAgree
  <2>1. PICK f \in Library : f = Lib
    BY <1>1 DEF LinkInv, TypeOK, Lib
  <2>2. PICK first \in 1 .. Len(f.syms) + 1 : first = FirstExported(f)
    BY ExportedFacts
  <2>3. ASSUME NEW n \in Names, NEW shape \in Shapes
        PROVE  LET gnu == GnuLookup(f, GnuTable(f, first, shape.buckets, shape.words, shape.shift), n)
                   sysv == SysvLookup(f, SysvTable(f, shape.buckets), n)
                   exported == {i \in first .. Len(f.syms) : f.syms[i].name = n}
                   all == {i \in DOMAIN f.syms : f.syms[i].name = n}
               IN /\ SortedFor(f, shape.buckets) =>
                        IF exported = {} THEN gnu = 0 ELSE gnu = Min(exported)
                  /\ IF all = {} THEN sysv = 0 ELSE sysv = Max(all)
    <3>1. PICK nb \in Nat \ {0}, nw \in Nat \ {0}, shift \in Nat :
            nb = shape.buckets /\ nw = shape.words /\ shift = shape.shift
      BY DEF Shapes
    <3>2. Named(f)
      BY <1>1, <2>1
    <3>3. SysvLookup(f, SysvTable(f, nb), n) = IF Bearers(f, 1, n) = {} THEN 0 ELSE Max(Bearers(f, 1, n))
      BY <3>2, SysvFinds
    <3>4. ASSUME SortedFor(f, nb)
          PROVE  GnuLookup(f, GnuTable(f, first, nb, nw, shift), n) =
                   IF Bearers(f, first, n) = {} THEN 0 ELSE Min(Bearers(f, first, n))
      <4>1. InOrder(f, first, nb)
        BY <2>2, <3>4, ExportedFacts
      <4> QED BY <3>2, <4>1, GnuFinds
    <3>5. Bearers(f, 1, n) = {i \in DOMAIN f.syms : f.syms[i].name = n}
      BY LibraryFacts DEF Bearers
    <3>6. Bearers(f, first, n) = {i \in first .. Len(f.syms) : f.syms[i].name = n}
      BY DEF Bearers
    <3> QED BY <3>1, <3>3, <3>4, <3>5, <3>6
  <2> QED BY <2>1, <2>2, <2>3 DEF HashesAgree
<1>2. LinkInv => HashesAgree
  BY <1>1 DEF HashesAgree
<1> QED BY <1>2, LinkAlways, PTL
=============================================================================
