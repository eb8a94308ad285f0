------------------------------ MODULE Linking ------------------------------
(***************************************************************************)
(* Linking one library against another: the loader reads its symbol table, *)
(* then applies its relocations one by one, each of which resolves a       *)
(* symbol and writes a word (loader.go, reloc.go).  Thread-local storage   *)
(* is seen as far as relocations write offsets; modules, blocks and GOT    *)
(* entries are in Loader.                                                  *)
(*                                                                         *)
(* Addresses have two half words, and the relocations that are half as     *)
(* wide in the ABI are half as wide here.                                  *)
(***************************************************************************)
EXTENDS Symbols

CONSTANTS
    Half,      \* 2 to the bits of a half word; a word is twice as wide
    Bases,     \* addresses that libraries may be mapped at
    Files,     \* libraries that may be loaded, with their relocations
    Providers  \* libraries that the resolver may find, one at a time

\* A relocation: kind, index of its symbol, addend, and address within the library
Kinds == {"64", "slot", "copy", "32", "32s", "pc32", "dtpoff64", "dtpoff32", "tlsgd", "none",
          "unknown"}
Reloc == [kind : Kinds, sym : Nat, addend : Int, offset : Nat]

ASSUME LinkingAssumption ==
    /\ Half \in Nat \ {0} /\ Bases \subseteq Nat
    /\ \A f \in Files : f.lib \in Library /\ f.relocs \in Seq(Reloc) /\ f.tls \in BOOLEAN
    /\ Providers \subseteq Library

VARIABLES
    file,      \* the library being loaded
    provider,  \* the library that the resolver knows
    base, providerBase,
    phase,     \* how far Load has come
    table,     \* obj.Symbols
    words      \* what the relocations wrote, in their order

vars == <<file, provider, base, providerBase, phase, table, words>>
inputs == <<file, provider, base, providerBase>>

Word == Half * Half
Lib == file.lib

TypeOK ==
    /\ file \in Files /\ provider \in Providers /\ {base, providerBase} \subseteq Bases
    /\ phase \in {"map", "reloc", "ready", "failed"}
    /\ \A n \in Names : table[n] \in 0 .. Len(Mapped(Lib))
    /\ Len(words) <= Len(file.relocs)
    /\ \A k \in DOMAIN words : words[k] \in 0 .. Word - 1

Init ==
    /\ file \in Files /\ provider \in Providers
    /\ base \in Bases /\ providerBase \in Bases \ {base}
    /\ phase = "map" /\ table = [n \in Names |-> 0] /\ words = <<>>
-----------------------------------------------------------------------------
(* Symbols *)

\* buildSymbol: Value is an address, for a thread-local symbol as well
Value(f, i, at) == at + Mapped(f)[i].value

\* symName, symBind, symAddress: nothing for an entry beyond the size of the table
symName(i) == IF i \in Known(Lib) THEN Mapped(Lib)[i].name ELSE None
isWeakSymbol(i) == i \in Known(Lib) /\ Mapped(Lib)[i].bind = "weak"
symAddress(i) == IF i \in Known(Lib) THEN Mapped(Lib)[i].value ELSE 0

\* What the resolver answers, 0 if nothing
ProviderTable == LoadFromDynamic(provider)

Undefined == -1

\* Fault: a weak reference that nobody defines is an error, a strong one is not
StrongMayBeNull(i) == IF isWeakSymbol(i) THEN Undefined ELSE 0

\* Neither the library nor the resolver has the symbol
Missing(i) == IF isWeakSymbol(i) THEN 0 ELSE Undefined

\* resolveSymForReloc
resolveSymForReloc(i) ==
    LET n == symName(i) IN
    IF i = 0 \/ n = None THEN 0
    ELSE IF table[n] # 0 THEN Value(Lib, table[n], base)
    ELSE IF ProviderTable[n] # 0 THEN Value(provider, ProviderTable[n], providerBase)
    ELSE Missing(i)
-----------------------------------------------------------------------------
(* Relocations *)

Site(r) == base + r.offset

\* Fault: the displacement is taken from the end of the word
FromNext(r, s) == (s + r.addend - (Site(r) + 4)) % Half

\* Fault: the displacement is not cut to 32 bits
Uncut(r, s) == s + r.addend - Site(r)

\* applyPC32
applyPC32(r, s) == (s + r.addend - Site(r)) % Half

\* Fault: the TLS symbol is taken for an address
TLSAddress(r, s) == s + r.addend

\* resolveTLSSymbolValue: back from the address to the offset
TLSOffset(r, s) == (IF r.sym = 0 THEN 0 ELSE s - base) + r.addend

\* applyTlsgd takes the offset from the entry itself
GDOffset(r) == symAddress(r.sym) + r.addend

\* The handlers of relocHandlers that write a number
Written(r, s) ==
    CASE r.kind = "64"       -> (s + r.addend) % Word
      [] r.kind = "slot"     -> s % Word
      [] r.kind \in {"32", "32s"} -> (s + r.addend) % Half
      [] r.kind = "pc32"     -> applyPC32(r, s)
      [] r.kind = "dtpoff64" -> TLSOffset(r, s) % Word
      [] r.kind = "dtpoff32" -> TLSOffset(r, s) % Half
      [] r.kind = "tlsgd"    -> GDOffset(r) % Word
      [] r.kind \in {"copy", "none"} -> 0

R == file.relocs[Len(words) + 1]
NeedsTLS(r) == r.kind \in {"dtpoff64", "dtpoff32", "tlsgd"}
NeedsSymbol(r) == r.kind \notin {"none", "tlsgd", "unknown"}

\* applyRelocation refuses r.  COPY looks its own symbol up a second time, for the size.
Refused(r) ==
    \/ r.kind = "unknown"
    \/ NeedsTLS(r) /\ ~ file.tls
    \/ NeedsSymbol(r) /\ resolveSymForReloc(r.sym) = Undefined
    \/ r.kind = "copy" /\ (symName(r.sym) = None \/ table[symName(r.sym)] = 0)

\* initializeSymbolTable
LoadSymbols ==
    /\ phase = "map"
    /\ table' = LoadFromDynamic(Lib)
    /\ phase' = "reloc"
    /\ UNCHANGED <<inputs, words>>

Relocate ==
    /\ phase = "reloc" /\ Len(words) < Len(file.relocs) /\ ~ Refused(R)
    /\ words' = Append(words, Written(R, resolveSymForReloc(R.sym)))
    /\ UNCHANGED <<inputs, phase, table>>

RelocateFails ==
    /\ phase = "reloc" /\ Len(words) < Len(file.relocs) /\ Refused(R)
    /\ phase' = "failed"
    /\ UNCHANGED <<inputs, table, words>>

Relocated ==
    /\ phase = "reloc" /\ Len(words) = Len(file.relocs)
    /\ phase' = "ready"
    /\ UNCHANGED <<inputs, table, words>>

Next == LoadSymbols \/ Relocate \/ RelocateFails \/ Relocated
Spec == Init /\ [][Next]_vars
-----------------------------------------------------------------------------
(* What must hold of the table of a library *)

Definitions(f, n) == {i \in DOMAIN f.syms : shouldProcessSymbol(f.syms[i]) /\ f.syms[i].name = n}

\* No entry but those of the library is read, and the table of versions is usable
Regular(f) == f.strtabBehind /\ f.behind = <<>> /\ HasVersions(f)
Loaded == phase # "map"

\* The definition a name stands for: the last that is not hidden, or else the first
Default(f, n) ==
    LET defs == Definitions(f, n)
        plain == {i \in defs : ~ (f.versym /\ f.syms[i].hidden)}
    IN IF plain # {} THEN Max(plain) ELSE IF defs # {} THEN Min(defs) ELSE 0

\* A name stands for its default version: the definition that is not hidden, in whatever
\* order the versions come in the file, and a hidden one only if there is no other
\* (symbol.go:200-223)
DefaultVersion ==
    Loaded /\ Regular(Lib) => \A n \in Names : table[n] = Default(Lib, n)

\* An index of a version stands for one name in the tables of a library
VersionsNumbered(f) ==
    \A c, d \in {f.verdef, f.verneed} : \A i \in Visited(c), j \in Visited(d) :
        c.records[i].ndx = d.records[j].ndx => c.records[i].name = d.records[j].name

\* A lookup of a version never returns a definition of another version, hidden or not;
\* one whose version has no name is taken for any (symbol.go:57-73)
VersionNamed ==
    Loaded /\ Regular(Lib) => \A n \in Names, v \in Versions :
        LET i == LookupVersion(Lib, table, n, v)
            Called(c) == {c.records[k].name : k \in {k \in Visited(c) : c.records[k].ndx = Lib.syms[i].ver}}
        IN i # 0 /\ Lib.versym /\ Lib.syms[i].ver > 1 =>
                Called(Lib.verdef) \cup Called(Lib.verneed) \subseteq {v}

\* The sizes that linkers choose for hash tables
Shapes == [buckets : 1 .. 3, words : {1, 2}, shift : {1, 2}]

\* The exported entries come last, sorted by bucket, as DT_GNU_HASH wants them
FirstExported(f) ==
    Min({k \in 1 .. Len(f.syms) + 1 :
            \A i \in k .. Len(f.syms) : shouldProcessSymbol(f.syms[i])})
SortedFor(f, n) ==
    \A i, j \in FirstExported(f) .. Len(f.syms) : i < j => Bucket(f, i, n) <= Bucket(f, j, n)
Named(f) == \A i \in DOMAIN f.syms : f.syms[i].name # None

\* Both hash tables, whatever their size, give the entries that a walk over the whole
\* table gives: never past the end of a chain, nothing that has another name, and a
\* definition for each name that is exported (gnu_hash.go:103-122, sysv_hash.go:28-68)
HashesAgree ==
    phase = "map" /\ Named(Lib) => \A n \in Names, shape \in Shapes :
        LET first == FirstExported(Lib)
            gnu == GnuLookup(Lib, GnuTable(Lib, first, shape.buckets, shape.words, shape.shift), n)
            sysv == SysvLookup(Lib, SysvTable(Lib, shape.buckets), n)
            exported == {i \in first .. Len(Lib.syms) : Lib.syms[i].name = n}
            all == {i \in DOMAIN Lib.syms : Lib.syms[i].name = n}
        IN /\ SortedFor(Lib, shape.buckets) =>
                IF exported = {} THEN gnu = 0 ELSE gnu = Min(exported)
           /\ IF all = {} THEN sysv = 0 ELSE sysv = Max(all)
-----------------------------------------------------------------------------
(* What must hold of the relocations *)

Done == DOMAIN words
Signed(w) == IF w < Half \div 2 THEN w ELSE w - Half

\* Where a name leads: to its default version in the library itself, or else to that of
\* the provider, or nowhere
Addresses(n) ==
    IF Definitions(Lib, n) # {} THEN {Value(Lib, Default(Lib, n), base)}
    ELSE IF Definitions(provider, n) # {} THEN {Value(provider, Default(provider, n), providerBase)}
    ELSE {}

\* The address the processor gets from the word that was written for r
Reached(r, w) ==
    CASE r.kind \in {"64", "slot"} -> w
      [] r.kind = "32"             -> w
      [] r.kind = "32s"            -> Signed(w) % Word
      [] r.kind = "pc32"           -> (Site(r) + Signed(w)) % Word

\* Whether the field of r is wide enough for the target t
Fits(r, t) ==
    CASE r.kind \in {"64", "slot"} -> TRUE
      [] r.kind = "32"             -> t \in 0 .. Half - 1
      [] r.kind = "32s"            -> t \in -(Half \div 2) .. Half \div 2 - 1
      [] r.kind = "pc32"           -> t - Site(r) \in -(Half \div 2) .. Half \div 2 - 1

Addresser(r) == r.kind \in {"64", "slot", "32", "32s", "pc32"}

\* An address or displacement that fits its field leads to the symbol, plus the addend: to
\* the definition of the library itself before any other, and to the default version of
\* several, whatever version the reference asks for; wherever the two libraries are
\* mapped, the rest of the address is not lost on the way (loader.go:546-625, 1134-1156)
ReferencesReach ==
    \A k \in Done :
        LET r == file.relocs[k]
            n == symName(r.sym)
        IN Regular(Lib) /\ Regular(provider) /\ Addresser(r) /\ n # None =>
            \A a \in Addresses(n) :
                LET t == a + (IF r.kind = "slot" THEN 0 ELSE r.addend) IN
                Fits(r, t) => Reached(r, words[k]) = t % Word

\* A load ends well only if every strong reference has a definition, and it does not fail
\* for a weak one; COPY needs a definition in the library itself (loader.go:1134-1156)
UndefinedReported ==
    LET Satisfied(r) == \/ r.sym = 0 \/ symName(r.sym) = None
                        \/ Addresses(symName(r.sym)) # {} \/ isWeakSymbol(r.sym)
    IN Regular(Lib) /\ Regular(provider) =>
        /\ phase = "ready" => \A k \in DOMAIN file.relocs :
                NeedsSymbol(file.relocs[k]) => Satisfied(file.relocs[k])
        /\ phase = "failed" => \/ NeedsSymbol(R) /\ ~ Satisfied(R)
                               \/ R.kind = "unknown"
                               \/ R.kind = "copy" /\ Definitions(Lib, symName(R.sym)) = {}
                               \/ NeedsTLS(R) /\ ~ file.tls

\* The offset of a thread-local variable of the library is the same number by all
\* relocations that carry it, and is that of the symbol table: an offset, though the
\* resolver made an address of it on the way (loader.go:651-663, 1042-1052)
TLSOffsetsAgree ==
    \A k \in Done :
        LET r == file.relocs[k]
            defs == Definitions(Lib, symName(r.sym))
        IN Regular(Lib) /\ NeedsTLS(r) /\ defs = {r.sym} =>
            words[k] = (Lib.syms[r.sym].value + r.addend) % (IF r.kind = "dtpoff32" THEN Half ELSE Word)
=============================================================================
