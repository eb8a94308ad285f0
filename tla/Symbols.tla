------------------------------ MODULE Symbols ------------------------------
(***************************************************************************)
(* Symbol tables and their versions (package symbol, and what the loader   *)
(* makes of the dynamic section for them): which entries of DT_SYMTAB get  *)
(* into the table of a library, which of several versions a name stands    *)
(* for, and the lookups through DT_GNU_HASH and DT_HASH.                   *)
(*                                                                         *)
(* Everything here is a function of the file.  Entries are numbered from   *)
(* 1, the null entry 0 being left out, and 0 stands for "no entry".        *)
(***************************************************************************)
EXTENDS Integers, Sequences, FiniteSets, FiniteSetsExt

CONSTANTS
    Names,              \* symbol names
    Versions,           \* names of versions
    None,               \* the empty string
    Hash,               \* [Names -> Nat]: GnuHash and SysvHash of a name
    maxFallbackSymbols  \* entries read when the size of the table is not known

ASSUME SymbolsAssumption ==
    /\ None \notin Names \cup Versions
    /\ Hash \in [Names -> Nat]
    /\ maxFallbackSymbols \in Nat \ {0}

\* An entry with its half-word of DT_VERSYM, split into index and hidden bit
Entry == [name : Names \cup {None}, bind : {"local", "global", "weak"}, def : BOOLEAN,
          value : Nat, ver : Nat, hidden : BOOLEAN]

\* DT_VERDEF and DT_VERNEED are chains: each record says whether there is a next one, and
\* the dynamic section how many there are
Record == [revision : Nat, ndx : Nat, name : Versions, next : BOOLEAN]
Chain == [records : Seq(Record), num : Nat]

\* A library as the loader maps it.  `behind` is what lies behind the symbol table, up to
\* the string table, or to the end of the mapping when the string table comes first.
Library == [syms : Seq(Entry), behind : Seq(Entry), strtabBehind : BOOLEAN,
            versym : BOOLEAN, verdef : Chain, verneed : Chain]

\* computeSymbolTableSize, in entries, the null entry included
SymCount(f) == IF f.strtabBehind THEN 1 + Len(f.syms) + Len(f.behind) ELSE 0

\* How many entries LoadFromDynamic reads, and which ones getSymbolEntry knows
Mapped(f) == f.syms \o f.behind
Read(f) == IF SymCount(f) # 0 THEN Len(Mapped(f)) ELSE Min({Len(Mapped(f)), maxFallbackSymbols - 1})
Known(f) == {i \in DOMAIN Mapped(f) : i < SymCount(f)}
-----------------------------------------------------------------------------
(* Versions *)

\* parseVerneed, parseVernauxChain, parseVerdef: the records that are visited
Visited(c) == {i \in DOMAIN c.records : i <= c.num /\ \A j \in 1 .. i - 1 : c.records[j].next}
Unsupported(c) == \E i \in Visited(c) : c.records[i].revision # 1

\* loadVersionInfo: an error leaves the library without versions
HasVersions(f) ==
    SymCount(f) # 0 /\ ~ Unsupported(f.verneed) /\ ~ Unsupported(f.verdef)

\* Fault: the hidden bit is part of the index
UnmaskedVersion(f, i) ==
    LET e == Mapped(f)[i] IN IF f.versym THEN e.ver + (IF e.hidden THEN 100 ELSE 0) ELSE 0

GetSymbolVersion(f, i) == IF f.versym THEN Mapped(f)[i].ver ELSE 0
Hidden(f, i) == HasVersions(f) /\ f.versym /\ Mapped(f)[i].hidden

\* A later record for an index replaces an earlier one
NameIn(c, ndx) ==
    LET found == {i \in Visited(c) : c.records[i].ndx = ndx} IN
    IF found = {} THEN None ELSE c.records[CHOOSE i \in found : \A j \in found : j <= i].name

\* Requirements first, then definitions
GetVersionName(f, ndx) ==
    IF NameIn(f.verneed, ndx) # None THEN NameIn(f.verneed, ndx) ELSE NameIn(f.verdef, ndx)

\* sym.VerName
VerName(f, i) ==
    IF HasVersions(f) /\ GetSymbolVersion(f, i) > 1
      THEN GetVersionName(f, GetSymbolVersion(f, i)) ELSE None
-----------------------------------------------------------------------------
(* The table: a name is mapped to its entry *)

shouldProcessSymbol(e) == e.name # None /\ e.bind # "local" /\ e.def

\* Fault: a hidden version replaces what is there
NeverSkips(f, t, i) == FALSE

shouldSkipSymbol(f, t, i) == t[Mapped(f)[i].name] # 0 /\ Hidden(f, i)

loadSymbolEntry(f, t, i) ==
    LET e == Mapped(f)[i] IN
    IF shouldProcessSymbol(e) /\ ~ shouldSkipSymbol(f, t, i) THEN [t EXCEPT ![e.name] = i] ELSE t

LoadFromDynamic(f) ==
    LET Table[i \in 0 .. Read(f)] ==
            IF i = 0 THEN [n \in Names |-> 0] ELSE loadSymbolEntry(f, Table[i - 1], i)
    IN Table[Read(f)]

LookupVersion(f, t, n, v) ==
    IF v = None \/ t[n] = 0 THEN t[n]
    ELSE IF VerName(f, t[n]) \in {v, None} THEN t[n] ELSE 0
-----------------------------------------------------------------------------
(* Hash tables.  DT_GNU_HASH covers the entries from symoffset on, in which the entries of *)
(* a bucket follow each other; a chain value is a hash without its lowest bit, and the     *)
(* mark of the last entry.  DT_HASH covers all the entries.                                *)

Beyond == -1   \* a lookup has run past the end of the table
WordBits == 4  \* bits of a word of the Bloom filter

\* Fault: bit and word are chosen by the same part of the hash
OneBit(g, h) == h % WordBits \in g.bloom[1 + (h % Len(g.bloom))]

checkBloomFilter(g, h) ==
    {h % WordBits, (h \div 2 ^ g.shift) % WordBits}
        \subseteq g.bloom[1 + ((h \div WordBits) % Len(g.bloom))]

searchHashChain(f, g, n, bucket) ==
    LET Walk[i \in bucket .. Len(f.syms) + 1] ==
            IF i > Len(f.syms) THEN Beyond
            ELSE LET c == g.chains[i - g.symoffset + 1] IN
                 IF c.hash \div 2 = Hash[n] \div 2 /\ f.syms[i].name = n THEN i
                 ELSE IF c.last THEN 0 ELSE Walk[i + 1]
    IN Walk[bucket]

GnuLookup(f, g, n) ==
    LET bucket == g.buckets[1 + (Hash[n] % Len(g.buckets))] IN
    IF ~ checkBloomFilter(g, Hash[n]) \/ bucket = 0 THEN 0 ELSE searchHashChain(f, g, n, bucket)

\* A chain that is as long as there are entries is a cycle
SysvLookup(f, s, n) ==
    LET Walk[k \in 0 .. Len(f.syms)] ==
            IF k = 0 THEN s.buckets[1 + (Hash[n] % Len(s.buckets))]
            ELSE IF Walk[k - 1] = 0 \/ f.syms[Walk[k - 1]].name = n THEN Walk[k - 1]
            ELSE s.chains[Walk[k - 1]]
    IN Walk[Len(f.syms)]
-----------------------------------------------------------------------------
(* The tables that a static linker writes for the entries from `first` on *)

\* Bucket b of n, and the entries that belong to it
Bucket(f, i, n) == Hash[f.syms[i].name] % n
InBucket(f, first, b, n) == {i \in first .. Len(f.syms) : Bucket(f, i, n) = b}

GnuTable(f, first, nbuckets, nwords, shift) ==
    [symoffset |-> first, shift |-> shift,
     buckets |-> [b \in 1 .. nbuckets |->
        Min(InBucket(f, first, b - 1, nbuckets) \cup {Len(f.syms) + 1}) % (Len(f.syms) + 1)],
     chains |-> [k \in 1 .. Len(f.syms) - first + 1 |->
        LET i == first + k - 1 IN
        [hash |-> Hash[f.syms[i].name],
         last |-> i = Len(f.syms) \/ Bucket(f, i, nbuckets) # Bucket(f, i + 1, nbuckets)]],
     bloom |-> [w \in 1 .. nwords |-> UNION {
        LET h == Hash[f.syms[i].name] IN
        IF (h \div WordBits) % nwords = w - 1 THEN {h % WordBits, (h \div 2 ^ shift) % WordBits} ELSE {}
            : i \in first .. Len(f.syms)}]]

\* The last entry of a bucket comes first
SysvTable(f, nbuckets) ==
    [buckets |-> [b \in 1 .. nbuckets |-> Max(InBucket(f, 1, b - 1, nbuckets) \cup {0})],
     chains |-> [i \in DOMAIN f.syms |->
        Max({j \in InBucket(f, 1, Bucket(f, i, nbuckets), nbuckets) : j < i} \cup {0})]]
=============================================================================
