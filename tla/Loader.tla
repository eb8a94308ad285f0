------------------------------- MODULE Loader -------------------------------
(***************************************************************************)
(* The life of a loaded object (loader/loader.go): what Load maps, what it *)
(* registers for thread-local storage, what its relocations allocate, what *)
(* its error paths give back, and what Unload gives back.  Objects are     *)
(* loaded and unloaded by goroutines of their own; they meet in the        *)
(* address space and in package tls.                                       *)
(***************************************************************************)
EXTENDS Tls, SequencesExt

CONSTANTS
    Syms,       \* symbols that relocations name
    File,       \* [Objects -> FileType]: the file a call of Load is given
    tlsldMarker, \* the key of the entry that TLSLD relocations share
    PagePairs,  \* entry pairs in a GOT page: 4096 / 16 in the code
    MayFail     \* objects whose parsing or segments may turn out to be bad

\* The kinds of relocation that differ in what they do to this state: DTPMOD64, TLSGD,
\* TLSLD, TPOFF64, TPOFF32, GOTTPOFF, and those that only resolve a symbol
Kinds == {"mod", "gd", "ld", "tpoff64", "tpoff32", "gottpoff", "sym"}

\* tls: there is a PT_TLS segment; defs: the symbols of the file.  A relocation with the
\* symbol index 0 names None.
FileType == [tls : BOOLEAN, defs : SUBSET Syms,
             relocs : Seq([kind : Kinds, sym : Syms \cup {None}, addend : Nat])]

\* The keys of obj.GOTEntries
Keys == Syms \cup {None, tlsldMarker}

ASSUME LoaderAssumption ==
    /\ File \in [Objects -> FileType]
    /\ PagePairs \in Nat \ {0}
    /\ MayFail \subseteq Objects
    /\ None \notin Syms /\ tlsldMarker \notin Syms \cup {None}

VARIABLES
    phase,    \* [Objects -> Phases]: how far Load or Unload has come
    base,     \* [Objects -> Regions \cup {None}]: obj.Base
    module,   \* [Objects -> Nat]: ID of obj.TLSModule, 0 for nil
    got,      \* [Objects -> Seq(Keys)]: keys of obj.GOTEntries by offset
    pairs,    \* [Objects -> Seq(Pair)]: the two words of each of these entries
    pages,    \* [Objects -> Seq(Regions)]: obj.GOTPages; obj.GOTBase is the first
    patched   \* [Objects -> Seq(Patch)]: what the relocations done so far have written

\* Load: none, mapped, reloc (and block, within one), init, ready, or failed;
\* Unload: fini, unmap, gone, or stuck
Phases == {"none", "mapped", "reloc", "block", "init", "ready", "fini", "unmap", "gone",
           "failed", "stuck"}

\* An entry pair: DTPMOD64, and DTPOFF64 as the symbol and the addend it is the sum of
Pair == [mod : Nat, sym : Syms \cup {None}, addend : Nat]

\* mod: the module ID written, or the module whose offset is; 0 for neither.
\* page and slot: the GOT entry that the instruction is made to point to
Patch == [kind : Kinds, sym : Syms \cup {None}, mod : Nat,
          page : Regions \cup {None}, slot : Nat]

loaderVars == <<phase, base, module, got, pairs, pages, patched>>
vars == <<tlsVars, loaderVars>>

TypeOK ==
    /\ TlsTypeOK
    /\ phase \in [Objects -> Phases]
    /\ base \in [Objects -> Regions \cup {None}]
    /\ module \in [Objects -> Nat]
    /\ got \in [Objects -> Seq(Keys)]
    /\ pairs \in [Objects -> Seq(Pair)]
    /\ pages \in [Objects -> Seq(Regions)]
    /\ patched \in [Objects -> Seq(Patch)]

Init ==
    /\ TlsInit
    /\ phase = [o \in Objects |-> "none"]
    /\ base = [o \in Objects |-> None]
    /\ module = [o \in Objects |-> 0]
    /\ got = [o \in Objects |-> <<>>]
    /\ pairs = [o \in Objects |-> <<>>]
    /\ pages = [o \in Objects |-> <<>>]
    /\ patched = [o \in Objects |-> <<>>]
-----------------------------------------------------------------------------
(* Load *)

Goto(o, p) == phase' = [phase EXCEPT ![o] = p]

\* Fault: the reservation is forgotten on an error path
KeepImage(o) == UNCHANGED mem

\* mmap.Unmap(obj.Base, parsed.MemSize) on an error path; its own error is ignored
DropImage(o) == \/ mem' = [mem EXCEPT ![base[o]] = Free]
                \/ UnmapFails /\ UNCHANGED mem

\* Load returns an error: the reservation goes, and the object with it
Fail(o) ==
    /\ DropImage(o)
    /\ Goto(o, "failed")
    /\ UNCHANGED <<modules, nextID, blocks, tid, exited, base, module, got, pairs, pages, patched>>

\* createAndMapObject reserves the address range
Reserve(o) ==
    /\ phase[o] = "none"
    /\ \E r \in Regions :
        /\ Unused(r)
        /\ Put(r, "image", o, None)
        /\ base' = [base EXCEPT ![o] = r]
    /\ Goto(o, "mapped")
    /\ UNCHANGED <<modules, nextID, blocks, tid, exited, module, got, pairs, pages, patched>>

\* A bad file, or no memory: nothing is mapped yet
ReserveFails(o) ==
    /\ phase[o] = "none" /\ (o \in MayFail \/ MapFails)
    /\ Goto(o, "failed")
    /\ UNCHANGED <<tlsVars, base, module, got, pairs, pages, patched>>

\* mapSegments, the dynamic section and the symbol table are in order, and setupTLS
\* registers the module of an object with PT_TLS
Populate(o) ==
    /\ phase[o] = "mapped"
    /\ IF File[o].tls
         THEN /\ ~ Full
              /\ RegisterModule(base[o])
              /\ module' = [module EXCEPT ![o] = nextID]
         ELSE UNCHANGED <<modules, nextID, module>>
    /\ Goto(o, "reloc")
    /\ UNCHANGED <<mem, blocks, tid, exited, base, got, pairs, pages, patched>>

\* mmap of a segment, a dynamic tag, or the symbol table is bad
PopulateFails(o) ==
    /\ phase[o] = "mapped" /\ (o \in MayFail \/ MapFails)
    /\ Fail(o)

\* "tls: module ID limit exceeded", or the segment asks for an alignment above a page
RegisterRefused(o) ==
    /\ phase[o] = "mapped" /\ File[o].tls /\ (Full \/ o \in MayFail)
    /\ Fail(o)
-----------------------------------------------------------------------------
(* Relocations, in the order of the tables *)

\* The relocation that is next
Current(o) == File[o].relocs[Len(patched[o]) + 1]
Pending(o, kinds) ==
    phase[o] = "reloc" /\ Len(patched[o]) < Len(File[o].relocs) /\ Current(o).kind \in kinds

Wrote(o, mod, page, slot) ==
    patched' = [patched EXCEPT ![o] =
        Append(@, [kind |-> Current(o).kind, sym |-> Current(o).sym,
                   mod |-> mod, page |-> page, slot |-> slot])]

\* Libraries on the global list that define s
Providers(s) == {p \in Objects : phase[p] = "ready" /\ s \in File[p].defs}

\* apply64, applySymbolAddress and the like: the object's own symbols come first
ApplySymbol(o) ==
    /\ Pending(o, {"sym"})
    /\ Current(o).sym \in File[o].defs \cup {None} \/ Providers(Current(o).sym) # {}
    /\ Wrote(o, 0, None, 0)
    /\ UNCHANGED <<tlsVars, phase, base, module, got, pairs, pages>>

UndefinedSymbol(o) ==
    /\ Pending(o, {"sym"})
    /\ Current(o).sym \notin File[o].defs \cup {None} /\ Providers(Current(o).sym) = {}
    /\ Fail(o)

\* "relocation ... but library has no PT_TLS segment"
NoTLSSegment(o) ==
    /\ Pending(o, {"mod", "gd", "ld", "tpoff32", "gottpoff"}) /\ module[o] = 0
    /\ Fail(o)

\* applyDTPMod64
ApplyDTPMod(o) ==
    /\ Pending(o, {"mod"}) /\ module[o] # 0
    /\ Wrote(o, module[o], None, 0)
    /\ UNCHANGED <<tlsVars, phase, base, module, got, pairs, pages>>

\* Fault: TLSLD has no marker
NoMarker(o) == Current(o).sym

\* The key of the GOT entry a relocation asks for
GotKey(o) == IF Current(o).kind = "ld" THEN tlsldMarker ELSE Current(o).sym

\* What applyTlsgd and applyTlsld write to the pair; for TLSLD the offset is 0
NewPair(o) ==
    IF Current(o).kind = "ld" THEN [mod |-> module[o], sym |-> None, addend |-> 0]
    ELSE [mod |-> module[o], sym |-> Current(o).sym, addend |-> Current(o).addend]

\* Fault: a page is taken to hold one pair more than it does
WidePage(offset) == offset \div (PagePairs + 1)

\* pageIndex
PageIndex(offset) == offset \div PagePairs

\* Entry e of p is in memory
InMemory(p, e) ==
    LET page == pages[p][PageIndex(e - 1) + 1] IN mem[page].kind = "got" /\ mem[page].of = p

\* A store behind the first GOT page.  What is there is anybody's: the pair of an entry,
\* memory this model has no words of, or nothing, which ends the process.
StoreAstray(o) ==
    \/ UNCHANGED pairs
    \/ \E p \in Objects : \E e \in DOMAIN pairs[p] :
        InMemory(p, e) /\ pairs' = [pairs EXCEPT ![p][e] = NewPair(o)]

\* applyTlsgd and applyTlsld, when the key has an entry: the address is GOTBase + offset,
\* on whichever page the entry is, and both words are written again
ReuseGotEntry(o) ==
    /\ Pending(o, {"gd", "ld"}) /\ module[o] # 0
    /\ \E i \in DOMAIN got[o] :
        /\ got[o][i] = GotKey(o)
        /\ Wrote(o, module[o], pages[o][1], i - 1)
        /\ IF i <= PagePairs THEN pairs' = [pairs EXCEPT ![o][i] = NewPair(o)]
                             ELSE StoreAstray(o)
    /\ UNCHANGED <<tlsVars, phase, base, module, got, pages>>

\* The entry gets the next offset, on a page that is there or on a new one
AllocateGotEntry(o) ==
    /\ Pending(o, {"gd", "ld"}) /\ module[o] # 0
    /\ \A i \in DOMAIN got[o] : got[o][i] # GotKey(o)
    /\ IF Len(got[o]) + 1 > Len(pages[o]) * PagePairs
         THEN \E r \in Regions :
                /\ Unused(r)
                /\ Put(r, "got", o, None)
                /\ pages' = [pages EXCEPT ![o] = Append(@, r)]
         ELSE UNCHANGED <<mem, pages>>
    /\ got' = [got EXCEPT ![o] = Append(@, GotKey(o))]
    /\ pairs' = [pairs EXCEPT ![o] = Append(@, NewPair(o))]
    /\ LET offset == Len(got[o]) IN
       Wrote(o, module[o], pages'[o][PageIndex(offset) + 1], offset % PagePairs)
    /\ UNCHANGED <<modules, nextID, blocks, tid, exited, phase, base, module>>

GotPageFails(o) ==
    /\ Pending(o, {"gd", "ld"}) /\ module[o] # 0 /\ MapFails
    /\ \A i \in DOMAIN got[o] : got[o][i] # GotKey(o)
    /\ Len(got[o]) + 1 > Len(pages[o]) * PagePairs
    /\ Fail(o)

\* resolveTLSModuleAndOffset: the module of the library that provides the symbol, else
\* the object's own; none when the resolver does not know the symbol.  TPOFF32 takes the
\* object's own, and GOTTPOFF too, when nothing else resolves the symbol.
TPModules(o) ==
    LET s == Current(o).sym IN
    CASE Current(o).kind = "gottpoff" ->
            {IF s \in File[o].defs \cup {None} \/ Providers(s) # {} THEN 0 ELSE module[o]}
      [] Current(o).kind = "tpoff64" /\ s # None ->
            IF Providers(s) = {} THEN {0}
            ELSE {IF module[p] # 0 THEN module[p] ELSE module[o] : p \in Providers(s)}
      [] OTHER -> {module[o]}

\* The module is found, under the lock of the registry where a library provides it; the
\* block is allocated later, when that library may have been closed
ResolveTPOff(o) ==
    /\ Pending(o, {"tpoff64", "tpoff32", "gottpoff"})
    /\ Current(o).kind # "tpoff64" => module[o] # 0
    /\ \E m \in TPModules(o) :
        /\ Wrote(o, m, None, 0)
        /\ IF m = 0 THEN UNCHANGED phase ELSE Goto(o, "block")
    /\ UNCHANGED <<tlsVars, base, module, got, pairs, pages>>

\* writeTPOffset and applyTPOff32: a block of its own for every relocation, which nothing
\* points to; what is written is minus the size of the module
AllocateTPBlock(o) ==
    /\ phase[o] = "block"
    /\ \E r \in Regions : AllocateBlock(r, Last(patched[o]).mod, "static", None)
    /\ Goto(o, "reloc")
    /\ UNCHANGED <<modules, nextID, blocks, tid, exited, base, module, got, pairs, pages, patched>>

TPBlockFails(o) ==
    /\ phase[o] = "block" /\ MapFails
    /\ Fail(o)

\* The relocations are done, RELRO is applied, and the constructors start
RunConstructors(o) ==
    /\ phase[o] = "reloc" /\ Len(patched[o]) = Len(File[o].relocs)
    /\ Goto(o, "init")
    /\ UNCHANGED <<tlsVars, base, module, got, pairs, pages, patched>>

Loaded(o) ==
    /\ phase[o] = "init"
    /\ Goto(o, "ready")
    /\ UNCHANGED <<tlsVars, base, module, got, pairs, pages, patched>>
-----------------------------------------------------------------------------
(* Unload *)

\* The destructors run
RunFini(o) ==
    /\ phase[o] = "ready"
    /\ Goto(o, "fini")
    /\ UNCHANGED <<tlsVars, base, module, got, pairs, pages, patched>>

\* Fault: the last page is left out
AllButLast(o) == {pages[o][i] : i \in 1 .. Len(pages[o]) - 1}

GotPages(o) == {pages[o][i] : i \in DOMAIN pages[o]}

\* unmapGOTPages, in one go
UnmapGotPages(o) ==
    /\ phase[o] = "fini"
    /\ mem' = [r \in Regions |-> IF r \in GotPages(o) THEN Free ELSE mem[r]]
    /\ Goto(o, "unmap")
    /\ UNCHANGED <<modules, nextID, blocks, tid, exited, base, module, got, pairs, pages, patched>>

\* unmapGOTPages gives up at the first page that cannot be unmapped, and Unload with it
UnmapGotFails(o) ==
    /\ phase[o] = "fini" /\ UnmapFails
    /\ \E n \in 0 .. Len(pages[o]) - 1 :
        mem' = [r \in Regions |-> IF \E i \in 1 .. n : pages[o][i] = r THEN Free ELSE mem[r]]
    /\ Goto(o, "stuck")
    /\ UNCHANGED <<modules, nextID, blocks, tid, exited, base, module, got, pairs, pages, patched>>

UnmapImage(o) ==
    /\ phase[o] = "unmap"
    /\ \/ mem' = [mem EXCEPT ![base[o]] = Free] /\ Goto(o, "gone")
       \/ UnmapFails /\ UNCHANGED mem /\ Goto(o, "stuck")
    /\ UNCHANGED <<modules, nextID, blocks, tid, exited, base, module, got, pairs, pages, patched>>
-----------------------------------------------------------------------------
\* Code of the object may be running
Runs(o) == phase[o] \in {"init", "ready", "fini"}

\* The relocation points behind the first GOT page
Astray(x) == x.slot >= PagePairs

\* The module IDs the code of o has: those its DTPMOD64 relocations wrote, those in the
\* pairs of its GOT, and behind the first page what was stored there
ModulesOf(o) ==
    {patched[o][i].mod : i \in {j \in DOMAIN patched[o] :
        patched[o][j].kind = "mod" \/ Astray(patched[o][j])}}
    \cup {pairs[o][e].mod : e \in DOMAIN pairs[o]}

\* Code of o calls __tls_get_addr in thread t
TLSAccess(t, o) ==
    /\ Runs(o)
    /\ \E id \in ModulesOf(o) : GetTLSAddr(t, id) \/ GetTLSAddrAgain(t, id)
    /\ UNCHANGED loaderVars

Load(o) ==
    \/ Reserve(o) \/ ReserveFails(o)
    \/ Populate(o) \/ PopulateFails(o) \/ RegisterRefused(o)
    \/ ApplySymbol(o) \/ UndefinedSymbol(o) \/ NoTLSSegment(o) \/ ApplyDTPMod(o)
    \/ ReuseGotEntry(o) \/ AllocateGotEntry(o) \/ GotPageFails(o)
    \/ ResolveTPOff(o) \/ AllocateTPBlock(o) \/ TPBlockFails(o)
    \/ RunConstructors(o) \/ Loaded(o)

Unload(o) == RunFini(o) \/ UnmapGotPages(o) \/ UnmapGotFails(o) \/ UnmapImage(o)

Next ==
    \/ \E o \in Objects : Load(o) \/ Unload(o)
    \/ \E t \in Threads, o \in Objects : TLSAccess(t, o)
    \/ \E t \in Threads : (ThreadStart(t) \/ ThreadExit(t)) /\ UNCHANGED loaderVars

Spec == Init /\ [][Next]_vars
-----------------------------------------------------------------------------
(* What must hold of objects and of what they map *)

HasImage(o) == phase[o] \in {"mapped", "reloc", "block", "init", "ready", "fini", "unmap"}
HasPages(o) == phase[o] \in {"reloc", "block", "init", "ready", "fini"}

\* Whatever the loader and the registry take for theirs is what is mapped there, though
\* regions come and go under other goroutines: no error path and no Unload unmaps
\* something that is not its own, or leaves behind a pointer that is followed later
OwnMappings ==
    /\ \A o \in Objects : HasImage(o) =>
        base[o] # None /\ mem[base[o]].kind = "image" /\ mem[base[o]].of = o
    /\ \A o \in Objects : HasPages(o) =>
        /\ \A i \in DOMAIN pages[o] : mem[pages[o][i]].kind = "got" /\ mem[pages[o][i]].of = o
        /\ \A i, j \in DOMAIN pages[o] : pages[o][i] = pages[o][j] => i = j
    /\ \A i, j \in Tids, k, l \in ModuleIDs : blocks[i][k] # None =>
        /\ mem[blocks[i][k]].kind = "block"
        /\ blocks[i][k] = blocks[j][l] => i = j /\ k = l

\* An image is mapped only while its object is being loaded, is loaded, or is being
\* unloaded: every error path of Load gives the reservation back
ImagesReleased ==
    \A r \in Regions : mem[r].kind = "image" =>
        HasImage(mem[r].of) /\ base[mem[r].of] = r

\* The GOT pages of an object that was unloaded are gone
PagesReleased ==
    \A r \in Regions : mem[r].kind = "got" => phase[mem[r].of] \notin {"unmap", "gone"}

\* An object whose code may run has a module ID of its own, and that ID leads to the
\* template in its own image; what a thread has for it was filled from there, and never
\* from an image that was gone or from memory mapped since
TemplatesCurrent ==
    /\ \A o \in Objects : Runs(o) /\ File[o].tls =>
        /\ module[o] \in DOMAIN modules /\ modules[module[o]] = base[o]
        /\ \A i \in Tids : blocks[i][module[o]] # None => mem[blocks[i][module[o]]].of = o
    /\ \A o, p \in Objects : module[o] = module[p] /\ module[o] # 0 => o = p

\* What the relocations of a file need GOT entries for
GotKinds == {"gd", "ld"}

\* The key of a relocation, or of what it has written
KeyOf(x) == IF x.kind = "ld" THEN tlsldMarker ELSE x.sym

\* The address a relocation made an instruction point to
Place(x) == <<x.page, x.slot>>

\* Two relocations for one key share an entry pair, two keys have two, and every pair is
\* in a GOT page of the object; except that one that repeats a key points behind the
\* first page, when the entry it repeats is on a later one
GotEntries ==
    \A o \in Objects : HasPages(o) =>
        \A i \in DOMAIN patched[o] : patched[o][i].kind \in GotKinds =>
            LET a == patched[o][i] IN
            IF Astray(a)
              THEN \E j \in 1 .. i - 1 :
                    /\ patched[o][j].kind \in GotKinds /\ KeyOf(patched[o][j]) = KeyOf(a)
                    /\ ~ Astray(patched[o][j]) /\ patched[o][j].page # pages[o][1]
              ELSE /\ a.page \in GotPages(o)
                   /\ \A j \in DOMAIN patched[o] :
                        patched[o][j].kind \in GotKinds /\ ~ Astray(patched[o][j]) =>
                            (KeyOf(patched[o][j]) = KeyOf(a) <=> Place(patched[o][j]) = Place(a))

\* The two words at the address of a relocation that is not astray
WordsAt(o, x) ==
    pairs[o][CHOOSE e \in DOMAIN pairs[o] :
        x.page = pages[o][PageIndex(e - 1) + 1] /\ x.slot = (e - 1) % PagePairs]

\* The last of the relocations done so far that share a key
LastOfKey(o, i) ==
    \A j \in i + 1 .. Len(patched[o]) :
        patched[o][j].kind \in GotKinds => KeyOf(patched[o][j]) # KeyOf(patched[o][i])

\* The pair of a relocation
FilledFor(o, i) ==
    LET r == File[o].relocs[i]
    IN  [mod |-> module[o], sym |-> IF r.kind = "ld" THEN None ELSE r.sym,
         addend |-> IF r.kind = "ld" THEN 0 ELSE r.addend]

\* As long as no relocation of any object went astray, a pair has the module ID of its
\* object and the offset the last relocation of its key asked for: no other relocation
\* and no other object has written there
PairsFilled ==
    (\A p \in Objects : \A i \in DOMAIN patched[p] : ~ Astray(patched[p][i])) =>
        \A o \in Objects : HasPages(o) =>
            \A i \in DOMAIN patched[o] :
                patched[o][i].kind \in GotKinds /\ LastOfKey(o, i) =>
                    WordsAt(o, patched[o][i]) = FilledFor(o, i)

\* Asked for the same key twice, the loader returns the same address.  The code returns
\* an address behind the first page for an entry that is on another.
SameAddressAgain ==
    \A o \in Objects : \A i, j \in DOMAIN patched[o] :
        /\ patched[o][i].kind \in GotKinds /\ patched[o][j].kind \in GotKinds
        /\ KeyOf(patched[o][i]) = KeyOf(patched[o][j])
        => Place(patched[o][i]) = Place(patched[o][j])
=============================================================================
