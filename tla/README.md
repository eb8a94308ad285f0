# pure-go-dl in TLA+

pure-go-dl is a dynamic linker written in Go: it loads ELF shared objects into
a Go process without cgo and without the C library's `ld.so`. This directory
holds TLA+ models of it, the TLC configurations that check them, and theorems
proved with TLAPS. Paths and line numbers refer to the repository's sources.

    tlc -config registry_concurrent.cfg MCRegistry     # one run
    tlapm RegistryProofs.tla                           # the proofs

`PROJECT.json` lists the runs, the source lines each definition translates, the
faults that show each property can fail, the hazards and the findings.

## 1. Inventory

| Component | State | Operations | Hard part |
|---|---|---|---|
| Library registry, `dl/dl.go` | maps `loaded` and `loading`, slice `globals`, `mu`, `cond`; per library `RefCount`; per Open the map `visiting` | `Open`, `loadPath`, `loadDependencies`, `registerLibrary`, `Close` | concurrent Opens of one file, recursion with the lock released, cycles, error exits, reference counts |
| Symbol resolution, `globalResolver` | reads `globals` | `Resolve`, `ResolveWithLibrary` | called in the middle of a load; what it returns outlives the lock |
| Library search, `dl/search.go`, `dl/ldcache.go` | `globalCache`, read once | `findLibrary`, `lookupInCache`, `parseCache` | order of the search, files that come and go between two looks, the cache read under `sync.Once` |
| Object life, `loader/loader.go` | `Object`: `Base`, `Segments`, GOT pages and entries, `TLSModule` | `Load`, `Unload` | what every error path gives back; Unload that fails half-way |
| Relocations | memory of the image, GOT, TLS blocks | one handler per type | which definition, which module, which GOT entry; width and sign of what is written |
| Segment mapping, BSS, RELRO | address space, protection | `createAndMapObject`, `mapSegment`, `mapBSSRegion`, `applyRELROProtection`, `Unload` | page arithmetic; `MAP_FIXED` beside memory of the Go runtime; order of protection and stores |
| Thread-local storage, `internal/tls` | `Manager.modules`, `nextID`; `ThreadLocalRegistry.blocks` by thread ID | `RegisterModule`, `AllocateBlock`, `GetTLSAddr`, `CleanupThread` | thread IDs are reused; templates outlive their image |
| Symbol tables, versions, hash tables, `symbol/` | `Table.symbols`, `VersionTable` | `LoadFromDynamic`, `Lookup`, `LookupVersion`, `GnuLookup`, `SysvLookup` | which of several versions; table sizes that are guessed; ends of chains |
| ELF parsing, `elf/parse.go` | none | `Parse` | bounds |
| System calls, `internal/mmap`; C calls, `loader/call.go`; `cmd/pgldd` | none | | thin wrappers |

How they interact. `Open` calls `findLibrary`, `elf.Parse`, itself for every
DT_NEEDED entry, and `loader.Load`, which parses the file again, maps it,
registers a TLS module, and calls back into the registry (`globalResolver`) for
every symbol the object does not define. `Load` runs without the lock; the
callback takes it. `registerLibrary` then publishes the object. The code that
was loaded calls `__tls_get_addr`, which the resolver answers with a callback
into `internal/tls`. `Close` does everything, the destructors and
`loader.Unload` included, under the lock.

What makes each correct:

- registry: one live instance per file; a load slot has one owner and always
  goes; references are neither lost nor counted twice; a library is unloaded
  exactly when the last one goes; nobody sleeps for ever;
- resolution: only live libraries are searched, strong definitions first;
- object life: what is mapped has an owner, what an owner uses is mapped for
  it; every exit gives back what it took;
- GOT: one entry per key, inside a page of the object;
- TLS: one module ID per object, one block per thread and module, the same
  address for the life of the thread, filled from the right template;
- segments: memory equals file bytes, then zeroes, with the segment's protection,
  and the rest of the process keeps its memory;
- symbols: the default version wins, and a hash lookup finds what a linear
  search finds;
- relocations: a word that fits leads to its target, and undefined strong
  symbols end the load;
- search: the documented order, first hit wins, nothing is returned that was
  not there, and no search hangs.

## 2. Modules

| Module | Models | Theorems |
|---|---|---|
| `Registry` | `dl/dl.go` | in the three proof modules |
| `HandleTable` | the contract of dlopen and dlclose per file; abstract specification of `Registry` | |
| `MCRegistry` | small file systems for `Registry` | |
| `RegistryProofs` | | typing, slots, cache and counts, globals, waiters, an action property |
| `RegistryRefinement` | | `Registry` implements `HandleTable` |
| `DependencyProofs` | | what a live library needs is live |
| `Tls` | `internal/tls`, and mmap as it is used | |
| `Loader` | `loader.Load`, `loader.Unload`, TLS relocations, GOT pages; extends `Tls` | in `LoaderProofs` |
| `MCLoader` | small libraries for `Loader` | |
| `LoaderProofs` | | every property of `Tls` and `Loader` |
| `Layout` | PT_LOAD headers to memory, cell by cell: mapping, BSS, protection, TLS template, RELATIVE relocations, RELRO, Unload | in `LayoutProofs` |
| `MCLayout` | 80 files for `Layout` | |
| `LayoutProofs` | | every property of `Layout` |
| `Symbols` | package symbol, as operators: entries, versions, the table, the two hash lookups | |
| `Linking` | one library linked against another: `Symbols` and the relocations that write words | in `LinkingProofs` |
| `MCLinking` | small libraries for `Linking` | |
| `LinkingProofs` | | every invariant of `Linking`, both hash lookups among them |
| `Search` | `findLibrary` and the ld.so.cache, among changes of the file system | in `SearchProofs` |
| `MCSearch` | a small system for `Search` | |
| `SearchProofs` | | every invariant and the action property of `Search` |
| `InductionTheorems` | | least and greatest elements, induction and recursion over intervals |

### Registry and the code

| TLA+ | Go |
|---|---|
| `loaded`, `loading`, `globals`, `refCount` | the variables and the field of those names |
| `waiting` | the wait set of `cond` |
| `status`, `origin`, `bound` | whether an object is mapped, its file, and the libraries whose addresses its relocations hold |
| `stack`, `visiting` | the running calls of `loadPath` of one `Open`, and its `visiting` map |
| `Image`, `Find` | what `elf.Parse` says of a file; what `findLibrary` returns for a name and a requesting file |
| `OpenCached`, `OpenUncached` | `loadLib`, on its two ways |
| `Revisit`, `Wait`, `CacheHit`, `Claim` | the top of `loadPath` and `checkLoadingCache` |
| `Parse`, `SkipDependency`, `LoadDependency`, `Map`, `Relocate`, `Register` | the rest of `loadPath`, in order |
| `ParseFails`, `MapFails`, `RelocateFails` | its error exits, each with `releaseLoadingSlot` |
| `CloseShared`, `CloseLast`, `CloseRefused` | `Close` |

Each critical section of `mu` is one action, so the mutex is not a variable.
Between two critical sections a goroutine does nothing the others see, except
the calls of the resolver, each of which is a critical section and an action
(`Relocate`). `loadLib` unlocks between its lookup and the call of `loadPath`;
that gap is the gap between `OpenUncached` and the next step. Handles stand for
`*Library` values and are never reused. `held`, `owed` and `given` are history
variables: who owns each reference, and what the callers asked for.

Only the outcome of parsing is modelled: needed names, soname, symbols. Symbols
are names; addresses are the provider's handle.

### Tls, Loader and the code

| TLA+ | Go |
|---|---|
| `mem` | the address space in regions: what mmap returned, for whom, and for a TLS block the object its bytes came from |
| `modules`, `nextID` | `Manager.modules` (the `InitData` pointers), `Manager.nextID` |
| `blocks` | `ThreadLocalRegistry.blocks` |
| `tid`, `exited` | OS threads and the IDs the kernel gives them |
| `phase` | how far a call of `Load` or `Unload` has come |
| `base`, `module`, `got`, `pages` | `Base`, `TLSModule`, `GOTEntries` and `GOTSize`, `GOTPages` and `GOTBase` |
| `pairs` | the two words of each entry: module ID, and offset as symbol and addend |
| `patched` | which module and which address each relocation done so far has given its instruction |

A call of the manager or of the thread registry holds its lock throughout and
is one action. `Load` and `Unload` take no lock of their own, so each system
call and each callback is an action, and other goroutines act in between. The
objects of `Loader` are not files but calls of `Load`. `Unload` may start in any
loaded object at any time, which is what the registry may ask for. Regions are
reused as soon as they are unmapped: a stale pointer then reads something else.

The key of an entry is the symbol, `None` for index 0, and a marker for TLSLD; a
relocation that repeats a key writes both words of the pair again, with its own
addend. When the entry is behind the first page, the address is `GOTBase` plus an
offset that is larger than the page (`ReuseGotEntry`): the store goes to whatever is
there, the pair of any object or memory without a meaning here (`StoreAstray`).

Two threads of the kernel never have one ID at once, and an ID can be given
again after `ThreadExit`. Only tests call `CleanupThread`, and package tls is
internal, so no embedding program can: the behaviours of the program are those in
which `ThreadExit` leaves the blocks alone. With `CleansUp` the model adds those in
which somebody does call it for an ending thread, and may also leave it; what holds
then holds of the program. `loader_tid_reuse` has `CleansUp` = FALSE.

### Layout and the code

| TLA+ | Go |
|---|---|
| `mem`, `prot`, `owner` | memory by cell and by page: contents, protection, whose mapping it is |
| `file`, `Header` | `parsed.Segments`, the PT_TLS and PT_GNU_RELRO headers, DT_RELA |
| `phase`, `seg`, `done` | how far Load has come: the segment being mapped, the relocations applied |
| `Accepted`, `MemSize`, `BaseVAddr` | what `elf.Parse` lets pass, and `calculateMemoryLayout` |
| `MapFixed`, `Protect`, `Unmap`, `Store` | the calls of `internal/mmap`, and a store through a pointer |
| `Reserve`, `MapFile`, `MapBSSTail`, `ZeroBSSPage`, `ProtectSegment` | `createAndMapObject` and `mapSegment`, one action per system call |
| `SetupTLS`, `Relocate`, `ApplyRELRO`, `Unload` | `findTLSInitData`, `applyRelative`, `applyRELROProtection`, `Unload` |
| `OtherMaps` | the Go runtime and other goroutines, which map memory at any time |

A page has four cells instead of 4096 bytes, and a relocated word two instead of
eight. A cell holds a byte of the file, zero, a part of a pointer, or something of
the rest of the process. `Relocate` checks the first cell of the word and stores them
all: at the end of the image the others may be in a page of somebody else
(`Overrun`). A store to a page that is not mapped or not writable ends in the phase
`crashed`. With `MapFails` the mprotect of RELRO may fail too, which the code does
not notice. mmap without MAP_FIXED gives any
free range; `MAP_FIXED` and `mprotect` at an address inside a page fail.

### Symbols, Linking and the code

| TLA+ | Go |
|---|---|
| `Library`, `Entry`, `Chain` | DT_SYMTAB with DT_VERSYM, and the records of DT_VERDEF and DT_VERNEED |
| `SymCount`, `Read`, `Known` | `computeSymbolTableSize`, and what `LoadFromDynamic` and `getSymbolEntry` read |
| `VerName`, `GetVersionName`, `Visited` | `version.go` |
| `LoadFromDynamic`, `shouldSkipSymbol`, `LookupVersion` | the table, as a recursion over the entries |
| `GnuLookup`, `SysvLookup` | the two lookups, over the tables that a static linker writes (`GnuTable`, `SysvTable`, external) |
| `table`, `words` | `obj.Symbols`, and what each relocation wrote |
| `resolveSymForReloc`, `Missing` | the function of that name, and its answer for an undefined symbol |
| `Written`, `Refused` | the handlers of `relocHandlers`, and the errors they return |

Addresses have two half words of `Half` values; `R_X86_64_32`, `32S`, `PC32` and
`DTPOFF32` write one half word, as they write 32 of 64 bits in the code. The
resolver is a second library. Hash functions are a constant. `Kinds` are 64,
GLOB_DAT and JUMP_SLOT, COPY, 32, 32S, PC32, the three that write offsets of
thread-local variables, NONE, and a type the loader does not know. TPOFF64, TPOFF32,
GOTTPOFF, DTPMOD64 and TLSLD are in `Loader`, RELATIVE is in `Layout`, and IRELATIVE
in none.

### Search and the code

| TLA+ | Go |
|---|---|
| `disk`, `cacheFile` | the file system, changed by `Install`, `Uninstall` and `Ldconfig` |
| `once`, `cache` | `cacheLoadOnce`, `globalCache` |
| `todo`, `Stat`, `NotFound` | what is left of `searchInPaths`; each `os.Stat` is an action |
| `EnterOnce`, `LoadCache`, `LookupInCache` | `cacheLoadOnce.Do` and what follows it |
| `splitPaths`, `SearchPaths`, `Direct` | `splitPaths`, `buildSearchPaths`, `checkDirectPath` |
| `parseCache`, `readCacheEntry`, `shouldIncludeEntry` | the functions of those names, above the byte level; `None` is the empty string, which hides an earlier entry |
| `there`, `gone`, `source` | ghosts: what was installed, or missing, at some moment of a search, and the cache file that was read |

`Search` is what `Registry` has as the constant `Find`: the registry asks nothing
of the answer but that it is a path or a failure, and takes it to be the same
each time.

## 3. Runs

Passing runs:

| Run | Instance | Shows |
|---|---|---|
| `registry_concurrent` | 3 goroutines, 6 Opens, a diamond with a missing library | typing, coherent cache, no lost wakeup, current globals, dependencies stay loaded, the dlopen contract |
| `registry_failures` | 3 goroutines, 5 Opens, two libraries that need each other by path and by soname, every file may fail, an undefined symbol, more Closes than Opens | `visiting` breaks the cycle; every error exit frees its slot and wakes the waiters; every Open returns; references are conserved; a Close too many is refused, also after the path was loaded again, and never unloads twice |
| `loader_pair` | 2 objects, 3 threads on 2 IDs, cleaned up after or not, 5 regions, mmap may fail | ownership of mappings, released images, right templates, no block shared by running threads, stable addresses |
| `loader_got` | 4 objects, one too many for the module IDs and one without PT_TLS, 1 thread, 4 regions, pages of 2 entry pairs, keys repeated on the first and the second page and with another addend, mmap and munmap may fail | typing up to the limit of the IDs, which relocations share an entry, that it lies in a page of the object or where not, what its words are, released pages along the error paths |
| `layout` | 80 files, 6 pages, every mmap and mprotect may fail, other mappings at any time | image, protection and TLS template are what the headers ask for; no store faults; foreign memory is intact but for the overrun of a last word; every exit releases the reservation |
| `linking` | every table of up to 3 of 7 entries, odd version tables, relocations of each of `Kinds`, 3 base addresses, 4 providers | default version, also for a reference that asks for an older one, versions by name, both hash lookups, words lead to their targets, undefined symbols, TLS offsets |
| `search` | 2 goroutines, a search by name and one by path, 4 files of which 2 come and go, 3 cache files | the order of the places, no imagined result, justified failures, one cache for all that is read once, every search returns |

Runs that end in a counterexample: each checks one sentence of the repository's
documentation, quoted under `findings`, against what the code does.

| Run | What the code does |
|---|---|
| `registry_cross_cycle` | Two goroutines open the two ends of a cycle and wait for each other for ever |
| `registry_dangling` | A relocation takes no reference to the library it points into |
| `loader_tid_reuse` | A thread finds the variables of a dead thread |
| `loader_got_repeat` | The entry of a key that is asked for again is sought on the first GOT page |
| `layout_relro` | A RELRO range that starts inside a page stays writable |

The models translate more that the documents, or the ABI, put differently,
without a run of its own; where a property speaks of it, it states what the code does:

- registry: closing a library does not release its dependencies (`dl.go:258`);
  RTLD_GLOBAL does not promote a library that is loaded (`dl.go:156`), and only
  the first of the flags counts (`dl.go:143`); a dependency that was opened
  RTLD_LOCAL is not searched for its dependent (`dl.go:91`); a soname that is
  loaded is searched for again and may be loaded from another path (`dl.go:254`);
- GOT and TLS: TLSGD relocations of one symbol have one pair, whatever their addends,
  and the last one decides for all (`loader.go:1052`, where 1042 speaks of the "symbol
  offset within TLS block"); a failed Load keeps GOT pages and TLS blocks (`loader.go:118`), and Unload the threads' blocks
  (`loader.go:1158`); TLSGD and DTPMOD64 name the module of the object that
  refers to the symbol (`loader.go:1068`); TPOFF64 for a symbol of the object
  itself is written as 0 (`loader.go:698`); a block for another library's symbol
  may be filled after that library was unloaded (`loader.go:722`); 65535 modules
  can be registered, not 65536 (`tls.go:68`);
- addresses: a library that is not linked at 0 gets pointers that are off by its
  base (`loader.go:543`), and its TLS template is looked for a base too high and may not
  be found (`loader.go:452`, where 443 says that it "locates the TLS initialization data
  in mapped segments"); a relocation in the last seven bytes of the image is accepted
  by its first byte and stores eight, into the page behind (`loader.go:915`, while
  912 "checks that relocation offset is within mapped memory", and so says
  `PLAN.md:65-69`);
- symbols: with the string table before the symbol table the number of symbols is
  unknown, 4096 are read, beyond an all-zero entry (`symbol.go:121`, where 105 says "loop stops
  at first all-zero entry"), and every reference is taken for nameless and becomes 0
  (`reloc.go:23`); `GnuLookup` returns the first version of a name and
  `SysvLookup` the last, undefined entries included; only tests call these and
  `LookupVersion`;
- versions: the version a reference asks for is not passed on (`loader.go:1143`), and it
  is bound to the default one; `ROADMAP.md:374-380`, marked COMPLETE, says "When a symbol
  has a version requirement, match it during lookup";
- relocations: COPY of a variable that only another library defines ends the load,
  because its size is looked up in the table of the library that copies
  (`loader.go:587`; `README.md:14` and `ROADMAP.md:191` list COPY as done, and
  `loader.go:583` says that the size comes from "the exporting library"); a value that
  does not fit 32 bits is cut without an error
  (`loader.go:603`); the DTPOFF of another library's symbol is computed with the
  wrong base (`loader.go:662`);
- cache: the decoder skips 88 bytes of header where glibc writes 48, and takes
  offsets from the string table (`ldcache.go:41`), so that the cache glibc writes
  has no entry for it.

### Bounds, and why they are enough

`MaxOpens` bounds the calls of Open, and `Handles` is large enough that it never
runs out under that bound. With three goroutines one loads, one waits, and a
third may load or close in the window between the wakeup of the second and its
next look at the map; six Opens (five where files fail) let one library be
loaded, closed to the end, and loaded again while other calls are on their way.
The diamond has a strong and a weak definition of one symbol, a weak reference
that nobody satisfies, a dependency that is found by soname and one that is not
found. The cycle has a back edge by soname and by path.

`PagePairs` is 2 in `loader_got`, so that the first page has an entry that is not
its first, and the third entry is on the second page; elsewhere it is 1 (256 in the
code). `MaxModuleID` is 4, or 3 in `loader_got`, where the third of three objects with
PT_TLS meets the limit (65536 in the code).
The five regions of `loader_pair` hold two images and three more mappings, a GOT
page and blocks, so that mmap has something to hand out again as soon as anything is
freed, and the actions that need memory wait when there is none; that they can fail
instead is `MapFails`. The four of `loader_got` hold an image with both its GOT pages
beside the image of another object, or the images of two objects with a page each.
Three threads on two IDs make the kernel reuse one. Regions are symmetric: no
definition tells one from another.

In `layout` a page has `PageSize` = 4 cells and a word `WordSize` = 2, so that a word
lies inside a page, or over its end; and a segment can start, end and
turn to BSS at, before and behind a page boundary and inside a page; the files
cover these cases one by one, with and without BSS, template, pointers and RELRO,
in either order of the segments, and those that are refused. `NumPages` = 6
leaves room for a reservation of two to four pages at more than one place beside
the page of `Others`; `MaxOthers` bounds the pages the rest of the process has,
three of them, so that some are mapped before, during and after the load.

In `linking`, tables of three entries hold two versions of a name and an older
definition without one, in any order, next to a second name with the same chain
value; `maxFallbackSymbols` = 3 (4096 in the code) is passed and not passed.
`Half` = 32, and the bases 4, 12 and 40 put the libraries within reach of a
displacement and out of it, below and above each other, inside and outside a half
word. In `search`, the files that do not change are there in every combination,
those that change come and go without bound, path lists have empty parts, and one
cache has an entry for each reason to leave one out, another an empty path.

### Fairness

`FairSpec` has weak fairness of what a goroutine does inside Open: the Go
scheduler is preemptive, `sync.Mutex` hands the lock to a starving waiter, and
`Broadcast` wakes everybody. Nobody is obliged to call Open or Close. A waiter
that wakes can lose the race for the slot to another goroutine again; the bound
on calls ends that race in the model, and nothing in the code bounds it
otherwise. `Search` has the same for what a goroutine does inside `findLibrary`;
`sync.Once` wakes all who wait in `Do` when it is over. Nobody has to install a
library or run ldconfig. Safety does not depend on fairness.

Deadlock is checked in the registry runs (`Finished` is the orderly end), except
in the one whose subject is the deadlock, and in `search`. In the runs of
`Loader`, `Layout` and `Linking` it is not: they end when every object is ready,
unloaded or failed, and no step is left.

## 4. Proofs

Every invariant and action property that a passing run checks is also a theorem,
for every value of the constants: sets of goroutines, files, objects, threads,
names, directories and regions, finite or not; sequences, tables and chains of any
length; any page size, width of a word, hash values and addresses.

| Theorem | Says | Under |
|---|---|---|
| `RegistryProofs!TypeCorrect` | `[]TypeOK` | |
| `SlotsOwned` | `[]SlotOwnership` | |
| `CacheIsCoherent` | `[]CacheCoherent` | |
| `ReferencesConserved` | `[]RefsConserved` | |
| `UnloadIsFinal` | `UnloadedForGood` | |
| `GlobalsAreCurrent` | `[]GlobalsCurrent` | |
| `NobodySleepsThrough` | `[]NoLostWakeup` | |
| `RegistryRefinement!ContractImplemented` | `ContractKept` | |
| `DependencyProofs!DependenciesStay` | `[]DependenciesLoaded` | `Acyclic(rank)`, `~ OverClose`, `[][~ LoadFails]_vars` |
| `LoaderProofs!LoaderTypeCorrect`, `BooksKept` | `[]TypeOK`, `[]BookInv` | |
| `MappingsOwned` | `[]OwnMappings` | |
| `AddressesKept` | `AddressesStay` | |
| `TemplatesKept` | `[]TemplatesCurrent` | |
| `GotPagesReleased` | `[]PagesReleased` | |
| `EveryImageReleased` | `[]ImagesReleased` | `~ UnmapFails` |
| `RunningThreadsApart` | `[]BlocksApart` | |
| `GotEntriesKept` | `[]GotEntries` | |
| `PairsKept` | `[]PairsFilled` | |
| `LayoutProofs!LayoutTypeCorrect` | `[]TypeOK` | |
| `NoPageLeft` | `[]ReservationReleased` | |
| `OthersKeepTheirs` | `[]OthersIntact` | `RelroInside` |
| `NothingFaults` | `[]NoFault` | `SegmentsApart` |
| `ProtectionAsAsked` | `[]ProtectionFaithful` | `SegmentsApart`, `RelroWhole` |
| `ImageAsLinked` | `[]ImageFaithful` | `SegmentsApart`, `RelocsApart` |
| `TemplateAsLinked` | `[]TemplateFaithful` | those two, `TemplateInside` |
| `LinkingProofs!LinkTypeCorrect` | `[]TypeOK` | |
| `DefaultStands` | `[]DefaultVersion` | |
| `VersionsMatch` | `[]VersionNamed` | `VersionsNumbered` |
| `UndefinedFails` | `[]UndefinedReported` | |
| `ReferencesArrive` | `[]ReferencesReach` | |
| `OffsetsAgree` | `[]TLSOffsetsAgree` | |
| `HashesFind` | `[]HashesAgree` | |
| `SearchProofs!SearchTypeCorrect` | `[]TypeOK` | |
| `NothingImagined` | `[]ResultWasThere` | |
| `CacheAsRead` | `[]CacheFaithful` | |
| `CacheReadOnce` | `CacheKept` | |
| `EarlierPlacesMissing` | `[]FirstPlaceWins` | |
| `NothingOverlooked` | `[]FailureJustified` | |

### What is assumed

Each module names the assumption on its constants (`RegistryAssumption` and so
on); TLC evaluates it in every run. Most of it is typing. Beyond that,
`RegistryAssumption` says that every path is a name, that a name with a slash is
found as itself or not at all (`checkDirectPath`), and that a soname which is a
path is the path of the file itself: without the last two, a library's soname
could take away the entry another file has under its path.

The hypotheses in the third column are where the code needs something of its
surroundings:

- `Acyclic(rank)`, `~ OverClose`, no `LoadFails`: in a cycle one library is published
  before the one it needs, a Close too many takes the reference of a dependent, and
  a dependency that fails to load is passed over (`loadDependencies` drops the
  error). In each of the three cases the property is false of the code. Concurrent
  Opens and Closes, missing libraries and failing searches are not restricted.
- `~ UnmapFails`: an object whose munmap fails stays mapped.
- The predicates on files in `Layout` are what a static linker does: two segments
  share no page, RELRO is inside the image and ends on a page, no two relocated words
  have a cell in common, the template is inside a segment. `elf.Parse` checks none of
  them. TLC evaluates them for `LinkedFiles` (`FilesAreLinked`), which are all files of
  the run `layout` but one; that one, and the one of `layout_relro`, have what no
  linker writes, or what not all do. Two conditions are parts of the
  properties themselves: `NoFault` is about files whose relocated words are in writable
  segments, and what concerns pointers, or a template that is not found, about files
  linked at 0.
- `VersionsNumbered`: an index of a version stands for one name. TLC evaluates it for
  the libraries of `MCLinking` (`AllNumbered`).

### The arguments

Induction and recursion. The induction theorems of the TLAPS library have an
operator as a parameter, which no prover here can instantiate. `InductionTheorems`
states what is needed of sets and functions instead: a set of numbers has a least
element (`Least`), a set that has 0 and goes on with each number has all up to n
(`UpwardInduction`), and a loop over an interval, given as a function from rounds
to functions of values, has a result, upward (`UpwardRecursion`) and downward
(`DownwardRecursion`). A recursive function of the model, which is a CHOOSE, is
then shown to satisfy its own equation, which is what all the rest needs. The proofs
about sequences of any length go by the least or the greatest counterexample.

Registry. `SlotInv` is typing, slot ownership, and `NamesResolve`: the name and the
path of a running call belong together. Slot ownership is inductive because a step
of a goroutine changes the top of its own stack only, in one of three ways: it
keeps its claims, gains the path on top, or loses it (`OwnershipKept`,
`OwnershipGained`, `OwnershipLost`; `StepSlots` puts each action into one of them).
`RegistryInv` adds the coherent cache, the conserved references and `CountsStart`
(a handle that was never used has counts of 0). The parts need each other:
`Register` may write the path's key only because the slot is held and
`CacheCoherent` says that a path with a slot has no entry; `Forget` may delete keys
only because a live library is found under its own path; a counter falls to 0 only
with the last reference because the counts agree. `GlobalsCurrent` then follows
because `Register` appends a handle that was never used, and `CloseLast` cuts out the
one that dies, which is there once. `RegistryRefinement` adds `PathKeys`, that the
entry under a path is an instance of that very file, and shows that `Register` is
`Load` of the contract, the ways that find a library are `Acquire`, the two
successful closes are `Release` and `Unload`, and everything else is a stutter.

Dependencies. `DependenciesLoaded` is not inductive: a library is published long
after its dependencies were. `DepsInv` says of each running call that each name it
has passed over is `Settled` (loaded, with a reference nobody gives back) or is
being loaded by the call right above it (`FramesProvided`), which is so because the
stack of a goroutine goes down the graph (`StacksDescend`, from the rank): no call
above comes back to a path below, so `visiting` never skips a file that is not
there. Settled files stay because a Close takes a reference of a caller.

Loader. `BookInv` ties the fields of an object to its phase: which module ID, how
many relocations, which entries; the first lemmas sort the actions by what they do
to the books of one object. `Owned` says that each region has at most the one owner
that its own record names, in both directions; who maps takes a free region, who
unmaps its own. On it rest `AddressesStay` (nobody unmaps a block but its thread)
and `TemplatesCurrent` (`BlocksFilled`: a block comes from the object whose module
it is for; `BlocksNumbered`: there is none for an ID that has not been given, so that
a new module starts without blocks). `GotEntries` needs the whole history of an object: `Trace` says
that entry k is where its number puts it, that the keys of the entries are those of
the relocations done, in order and without a repetition, and that each relocation
points to the entry of its key, or behind the first page if it repeats one that is
not there. `PairsFilled` adds what the words of an entry are: as long as no store has
gone astray, those of the last relocation that has the key.

Layout. Rounding down and up, for every page size, comes first. `ControlInv` says
how far Load has come and that the reservation has the size of the image.
`OwnerInv` says cell by cell that the object owns exactly the reservation while it
has one: every `MAP_FIXED`, `mprotect` and `munmap` is inside it, and every store but
for the `Overrun` of a word, which gives `ReservationReleased` and `OthersIntact`. `PermInv` says which permissions the pages
of a segment have in each phase, and gives `NoFault`: a store meets a page of a
segment that is writable already and not yet read-only again. `BytesInv` says which
cells hold the file, zero, the old pointer or the new one, segment by segment in the
order they are mapped, and relocation by relocation.

Linking. The table is the loop of `LoadFromDynamic`; `DefaultStep` says what one
entry changes, and by induction a name has its last definition that is not hidden,
or else its first hidden one. `LinkInv` says that the words written are a
function of the file, the addresses and the table, and that a failed load stands at
a relocation that is refused. A name leads to that definition (`Resolved`), and what a cut word leads to is the arithmetic of
`Remainder` and `HalfWord`. For the hash lookups the tables are those a static
linker writes: `SysvFinds` follows a chain down, in which each step goes to the next
lower entry of the bucket and passes over none with the name, so that as many steps
as there are entries are enough; `GnuFinds` shows that a bucket is its first entry
(`GnuBucket`), that the Bloom filter turns away nothing that is there (`GnuBloom`),
and that the walk goes along its bucket and ends there, because the entries are
sorted by bucket (`GnuNext`, `ChainWalk`). The run tries a few shapes; the lemmas
hold for every number of buckets and of words of the filter.

Search. `NothingImagined` rests on `ThereInv`: the ghost `there` of a running search
contains the disk, and a result is taken from the disk by the last `Stat`, never
from the cache or an earlier look. `CacheInv` says that there is no cache until `Do`
is over, and that from then on it is what the file `source` gives, the last usable
entry of each name; no step starts `Do` again. `OrderInv` numbers the places: what is left to look at rises from place
to place (`Rising`), and is all of the plan of the request except what was found
missing (`Planned`), wherever the search stands; so what is returned is of the
first place that has anything, and a failure has seen them all. It was checked as
an invariant of a small run before it was proved.

### Only model-checked

- `OpenReturns` and `SearchReturns`, which are liveness under fairness, and the
  deadlock checks, which are about ENABLED: tlapm has no proof rules for these here.
- What the five counterexample runs show.

## 5. Not modelled

- A destructor that calls back into package dl (Close holds the lock), and a
  constructor that panics or never returns: what C code does is outside.
- `Sym`, `Bind` and the accessors read a library without the lock and change
  nothing. Calling them after the last Close is the caller's mistake.
- The working directory, and files that change while they are loaded.
- The decoding of bytes: ELF structures in `elf/parse.go`, the dynamic section,
  and the layout of ld.so.cache. The models start from what was decoded. What the
  cache decoder gets wrong is noted in section 3.
- Sizes and alignments of TLS blocks, and the thread-pointer offset, which the
  code calls simplified and nothing uses.
- What IRELATIVE resolvers return, and the bytes COPY copies (an object's own
  symbol onto itself). Memory behind the end of a mapping, which the symbol table
  of unknown size is read into.
- `cmd/pgldd`, package purego, the arm64 constants.

## 6. Plan

Done, in this order: `Registry`, `HandleTable`, their proofs and the
refinement, `Tls`, `Loader`, `Layout`, `Symbols`, `Linking`, `Search`; then the
proofs of all their invariants and action properties. Next:

1. An abstract address space (a partial map from region to owner) that `Loader`
   implements, and the refinement proved from `LoaderInv`.
2. An abstract search (the set of places, looked at in one step) that `Search`
   implements when the disk does not change.
3. `Registry` composed with `Loader`: the callback of the resolver into the
   registry, and `Close` into `Unload`, so that a stale provider of a TLS module
   and `registry_dangling` become one statement.
4. Sizes and alignments in `Tls`, with the thread-pointer offsets that the code
   calls simplified, once it uses them.
