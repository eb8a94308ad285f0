------------------------------- MODULE Search -------------------------------
(***************************************************************************)
(* Where a library is found (dl/search.go, dl/ldcache.go).  Goroutines     *)
(* look through directories, one Stat after the other, while libraries are *)
(* installed and removed, and ldconfig rewrites /etc/ld.so.cache, which    *)
(* the process reads once.                                                 *)
(*                                                                         *)
(* The cache file is given as its decoder sees it: entries with two flags  *)
(* and two strings.                                                        *)
(***************************************************************************)
EXTENDS Integers, Sequences, FiniteSets, FiniteSetsExt

CONSTANTS
    Goroutines,
    Dirs, Bases,         \* directories, and names of files in them
    None,
    Requests,            \* the calls of findLibrary
    LibraryPath,         \* $LD_LIBRARY_PATH
    defaultSearchPaths,
    CacheFiles,          \* what /etc/ld.so.cache may contain
    Installable,         \* files that may be there when the program starts
    Changing             \* those that are installed and removed later

\* A name without a directory is searched for; a list of directories may have empty parts
Name == [dir : Dirs \cup {None}, base : Bases]
Paths == [dir : Dirs, base : Bases]
PathList == Seq(Dirs \cup {None})
Request == [name : Name, runpath : PathList, rpath : PathList]

\* An entry of the cache: whole, if both strings are in the string table and ended; None
\* is the empty string
CacheEntry == [libc6 : BOOLEAN, arch : {"any", "x86-64", "other"}, whole : BOOLEAN,
               key : Bases \cup {None}, value : Paths \cup {None}]

\* Absent, too small, of another kind, with bad sizes ("bad"), or readable
CacheFile == [readable : BOOLEAN, entries : Seq(CacheEntry)]

ASSUME SearchAssumption ==
    /\ None \notin Dirs \cup Bases \cup Goroutines /\ {"new", "done"} \cap Goroutines = {}
    /\ Requests \subseteq Request /\ LibraryPath \in PathList /\ defaultSearchPaths \in Seq(Dirs)
    /\ None \notin CacheFiles /\ None \notin Paths \cup [Bases -> Paths \cup {None}]
    /\ CacheFiles \subseteq CacheFile /\ Changing \subseteq Installable /\ Installable \subseteq Paths

VARIABLES
    disk,       \* files that are installed
    cacheFile,  \* /etc/ld.so.cache
    once,       \* cacheLoadOnce: "new", "done", or the goroutine that is inside Do
    cache,      \* globalCache, or None
    source,     \* the cache file that was read, or None
    request, todo, state, result, \* per goroutine: what it searches, what is left, how far
                                  \* it is and what it returns
    there, gone \* per goroutine: files that were there, or not, at some time since it began

search == <<request, todo, state, result>>
vars == <<disk, cacheFile, once, cache, source, search, there, gone>>

Empty == [n \in Bases |-> None]

\* What is left to do: a file to look at, or the cache
InCache == [cached |-> TRUE, path |-> None]
File(p) == [cached |-> FALSE, path |-> p]

TypeOK ==
    /\ disk \subseteq Paths /\ cacheFile \in CacheFiles
    /\ once \in {"new", "done"} \cup Goroutines
    /\ cache = None \/ cache \in [Bases -> Paths \cup {None}]
    /\ source = None \/ source \in CacheFiles
    /\ \A g \in Goroutines :
        /\ request[g] \in Requests \/ state[g] = "idle"
        /\ state[g] \in {"idle", "searching", "returned"}
        /\ \A i \in DOMAIN todo[g] : todo[g][i].cached \/ todo[g][i].path \in Paths
        /\ result[g] \in Paths \cup {None}
        /\ there[g] \cup gone[g] \subseteq Paths

Init ==
    /\ disk \in SUBSET Installable
    /\ cacheFile \in CacheFiles
    /\ once = "new" /\ cache = None /\ source = None
    /\ request = [g \in Goroutines |-> None] /\ todo = [g \in Goroutines |-> <<>>]
    /\ state = [g \in Goroutines |-> "idle"] /\ result = [g \in Goroutines |-> None]
    /\ there = [g \in Goroutines |-> {}] /\ gone = [g \in Goroutines |-> {}]
-----------------------------------------------------------------------------
(* The cache file *)

\* Fault: libraries of other architectures are taken
AnyArch(e) == e.libc6

shouldIncludeEntry(e) == e.libc6 /\ e.arch \in {"any", "x86-64"}

\* readCacheEntry; an empty path hides what an earlier entry had for the name
readCacheEntry(entries, e) ==
    IF shouldIncludeEntry(e) /\ e.whole /\ e.key # None
      THEN [entries EXCEPT ![e.key] = e.value] ELSE entries

\* parseCacheEntries, one after the other
parseCacheEntries(entries) ==
    LET Read[i \in 0 .. Len(entries)] ==
            IF i = 0 THEN Empty ELSE readCacheEntry(Read[i - 1], entries[i])
    IN Read[Len(entries)]

\* None if the file cannot be read
parseCache(f) == IF f.readable THEN parseCacheEntries(f.entries) ELSE None

\* lookupInCache
Cached(n) == IF cache = None THEN None ELSE cache[n]
-----------------------------------------------------------------------------
(* The search *)

\* Fault: empty parts stay, and stand for no directory
Unfiltered(list) == list

splitPaths(list) ==
    LET Kept[i \in 0 .. Len(list)] ==
            IF i = 0 THEN <<>>
            ELSE IF list[i] # None THEN Append(Kept[i - 1], list[i]) ELSE Kept[i - 1]
    IN Kept[Len(list)]

Join(d, n) == File([dir |-> d, base |-> n])
InDirs(dirs, n) == [i \in DOMAIN dirs |-> Join(dirs[i], n)]

\* checkDirectPath
Direct(n) == n.dir # None

\* Fault: the directories of DT_RPATH come first
RpathFirst(r) ==
    InDirs(splitPaths(r.rpath), r.name.base) \o InDirs(splitPaths(r.runpath), r.name.base)
        \o InDirs(splitPaths(LibraryPath), r.name.base)
        \o <<InCache>> \o InDirs(defaultSearchPaths, r.name.base)

\* buildSearchPaths, searchInPaths, searchInDirs
SearchPaths(r) ==
    InDirs(splitPaths(r.runpath), r.name.base) \o InDirs(splitPaths(LibraryPath), r.name.base)
        \o <<InCache>>
        \o InDirs(splitPaths(r.rpath), r.name.base) \o InDirs(defaultSearchPaths, r.name.base)

Searching(g) == state[g] = "searching"
First(g) == Head(todo[g])

findLibrary(g, r) ==
    /\ state[g] # "searching"
    /\ state' = [state EXCEPT ![g] = "searching"]
    /\ request' = [request EXCEPT ![g] = r]
    /\ todo' = [todo EXCEPT ![g] = IF Direct(r.name) THEN <<File(r.name)>> ELSE SearchPaths(r)]
    /\ result' = [result EXCEPT ![g] = None]
    /\ there' = [there EXCEPT ![g] = disk]
    /\ gone' = [gone EXCEPT ![g] = Paths \ disk]
    /\ UNCHANGED <<disk, cacheFile, once, cache, source>>

Return(g, p) ==
    /\ state' = [state EXCEPT ![g] = "returned"]
    /\ result' = [result EXCEPT ![g] = p]
    /\ todo' = [todo EXCEPT ![g] = <<>>]
    /\ UNCHANGED request

\* os.Stat of the next file
Stat(g) ==
    /\ Searching(g) /\ todo[g] # <<>> /\ ~ First(g).cached
    /\ IF First(g).path \in disk
         THEN Return(g, First(g).path)
         ELSE /\ todo' = [todo EXCEPT ![g] = Tail(@)]
              /\ UNCHANGED <<request, state, result>>
    /\ UNCHANGED <<disk, cacheFile, once, cache, source, there, gone>>

NotFound(g) ==
    /\ Searching(g) /\ todo[g] = <<>>
    /\ Return(g, None)
    /\ UNCHANGED <<disk, cacheFile, once, cache, source, there, gone>>

AtCache(g) == Searching(g) /\ todo[g] # <<>> /\ First(g).cached

\* Fault: a cache that could not be read is loaded again by the next search
EnterIfNil(g) ==
    /\ AtCache(g) /\ (once = "new" \/ (once = "done" /\ cache = None))
    /\ once' = g
    /\ UNCHANGED <<disk, cacheFile, cache, source, search, there, gone>>

\* cacheLoadOnce.Do: the first goroutine loads the cache, the others wait for it
EnterOnce(g) ==
    /\ AtCache(g) /\ once = "new"
    /\ once' = g
    /\ UNCHANGED <<disk, cacheFile, cache, source, search, there, gone>>

\* Fault: a cache that cannot be read leaves the load unfinished
DoneIfRead(g) == IF cacheFile.readable THEN "done" ELSE g

AfterLoad(g) == "done"

LoadCache(g) ==
    /\ once = g
    /\ cache' = parseCache(cacheFile)
    /\ source' = cacheFile
    /\ once' = AfterLoad(g)
    /\ UNCHANGED <<disk, cacheFile, search, there, gone>>

\* Fault: the file in the cache is not looked at
Unverified(g, p) ==
    IF p = None THEN todo' = [todo EXCEPT ![g] = Tail(@)] /\ UNCHANGED <<request, state, result>>
    ELSE Return(g, p)

\* Fault: what the cache has for the name is decisive
OnlyThis(g, p) ==
    /\ todo' = [todo EXCEPT ![g] = IF p = None THEN Tail(@) ELSE <<File(p)>>]
    /\ UNCHANGED <<request, state, result>>

\* searchInCacheIfExists: what the cache has for the name is a file to look at
Consider(g, p) ==
    /\ todo' = [todo EXCEPT ![g] = (IF p = None THEN <<>> ELSE <<File(p)>>) \o Tail(@)]
    /\ UNCHANGED <<request, state, result>>

LookupInCache(g) ==
    /\ AtCache(g) /\ once = "done"
    /\ Consider(g, Cached(request[g].name.base))
    /\ UNCHANGED <<disk, cacheFile, once, cache, source, there, gone>>
-----------------------------------------------------------------------------
(* The rest of the system *)

Install(p) ==
    /\ p \notin disk
    /\ disk' = disk \cup {p}
    /\ there' = [g \in Goroutines |-> IF Searching(g) THEN there[g] \cup {p} ELSE there[g]]
    /\ UNCHANGED <<cacheFile, once, cache, source, search, gone>>

Uninstall(p) ==
    /\ p \in disk
    /\ disk' = disk \ {p}
    /\ gone' = [g \in Goroutines |-> IF Searching(g) THEN gone[g] \cup {p} ELSE gone[g]]
    /\ UNCHANGED <<cacheFile, once, cache, source, search, there>>

\* ldconfig replaces the cache by rename
Ldconfig ==
    /\ \E f \in CacheFiles \ {cacheFile} : cacheFile' = f
    /\ UNCHANGED <<disk, once, cache, source, search, there, gone>>

Environment == (\E p \in Changing : Install(p) \/ Uninstall(p)) \/ Ldconfig
Proceed(g) == Stat(g) \/ NotFound(g) \/ EnterOnce(g) \/ LoadCache(g) \/ LookupInCache(g)
Next == Environment \/ \E g \in Goroutines : Proceed(g) \/ \E r \in Requests : findLibrary(g, r)

Spec == Init /\ [][Next]_vars

\* A search goes on; nobody has to install a library or to start a search
FairSpec == Spec /\ \A g \in Goroutines : WF_vars(Proceed(g))
-----------------------------------------------------------------------------
(* What must hold *)

Returned(g) == state[g] = "returned"

\* The order of search, as the comment of findLibrary has it: the files that a name may
\* stand for, by the place they come from
Place(r, k) ==
    LET In(dirs) == {[dir |-> dirs[i], base |-> r.name.base] : i \in {i \in DOMAIN dirs : dirs[i] # None}} IN
    IF Direct(r.name) THEN (IF k = 1 THEN {r.name} ELSE {})
    ELSE CASE k = 1 -> In(r.runpath)
           [] k = 2 -> In(LibraryPath)
           [] k = 3 -> {Cached(r.name.base)} \ {None}
           [] k = 4 -> In(r.rpath)
           [] k = 5 -> In(defaultSearchPaths)

\* What is returned was there at some moment of the search, though the cache may name a
\* file that has long been removed (search.go:113-123)
ResultWasThere == \A g \in Goroutines : Returned(g) /\ result[g] # None => result[g] \in there[g]

\* It comes from the first place that had the library: each file of an earlier place was
\* missing at some moment of the search, whatever came and went meanwhile, and whichever
\* version of the cache was read (search.go:36-43)
FirstPlaceWins ==
    \A g \in Goroutines : Returned(g) /\ result[g] # None =>
        \E k \in 1 .. 5 :
            /\ result[g] \in Place(request[g], k)
            /\ \A j \in 1 .. k - 1 : Place(request[g], j) \subseteq gone[g]

\* A search fails only if each file the name may stand for was missing at some moment; an
\* unreadable cache, or an empty part of a path list, hides none of the others
FailureJustified ==
    \A g \in Goroutines : Returned(g) /\ result[g] = None =>
        \A k \in 1 .. 5 : Place(request[g], k) \subseteq gone[g]

\* The cache of the process has, for each name, the last usable entry of one cache file,
\* for every goroutine the same, though ldconfig runs meanwhile (ldcache.go:120-176)
CacheFaithful ==
    /\ once = "done" => source # None
    /\ source # None /\ source.readable => \A n \in Bases :
        LET usable == {i \in DOMAIN source.entries :
                        LET e == source.entries[i] IN
                        e.libc6 /\ e.arch # "other" /\ e.whole /\ e.key = n}
        IN Cached(n) = IF usable = {} THEN None ELSE source.entries[Max(usable)].value

\* The cache file is read once: neither a later search nor a file that could not be read
\* makes the process read it again (sync.Once, ldcache.go:196-207)
CacheKept == [][source # None => UNCHANGED <<cache, source>>]_vars

\* Every search returns, also of those that wait for another goroutine to read the cache
SearchReturns == \A g \in Goroutines : Searching(g) ~> Returned(g)
=============================================================================
