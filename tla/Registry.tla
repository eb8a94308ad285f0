------------------------------ MODULE Registry ------------------------------
(***************************************************************************)
(* The process-wide library registry of package dl (dl/dl.go): Open, the   *)
(* recursive loading of DT_NEEDED dependencies, the coordination of        *)
(* goroutines that load the same file, symbol lookup over the RTLD_GLOBAL  *)
(* list, and Close.                                                        *)
(*                                                                         *)
(* Every critical section of `mu` is one action, so the mutex needs no     *)
(* variable of its own; what a goroutine does between two critical         *)
(* sections is one action or part of the next one.  cond.Wait is the step  *)
(* into `waiting`, from which only a Broadcast takes a goroutine out.      *)
(***************************************************************************)
EXTENDS Integers, FiniteSets, Sequences, SequencesExt

CONSTANTS
    Goroutines,  \* goroutines that call Open and Close
    Paths,       \* resolved files: what findLibrary can return
    Names,       \* keys of the `loaded` map: paths, sonames, requested names
    Syms,        \* symbols the images refer to
    Handles,     \* *Library values, never reused; a bound on how many TLC allocates
    None,        \* nil, a missing soname, and "not found"
    Image,       \* [Paths -> what goelf.Parse and the dynamic section say of the file]
    Find,        \* Find[p][n]: file findLibrary returns for n wanted by p (None: by Open)
    Calls,       \* arguments the program passes to Open: [name, flags]
    MayFail,     \* files whose parsing or mapping may fail
    OverClose,   \* TRUE: callers may Close a library more often than they opened it
    MaxOpens     \* bound on the number of calls of Open

\* The flag values of dl.go; flags given to Open are sequences over 0..3
RTLD_LOCAL  == 0
RTLD_GLOBAL == 1
RTLD_NOW    == 2

ImageType == [needed : Seq(Names), soname : Names \cup {None}, undef : Seq(Syms),
              weakref : SUBSET Syms, strong : SUBSET Syms, weak : SUBSET Syms]

ASSUME RegistryAssumption ==
    /\ None \notin Names /\ None \notin Handles
    /\ Paths \subseteq Names
    /\ Image \in [Paths -> ImageType]
    /\ Find \in [Paths \cup {None} -> [Names -> Paths \cup {None}]]
    \* a name that holds a slash is its own path (checkDirectPath)
    /\ \A r \in Paths \cup {None}, p \in Paths : Find[r][p] \in {p, None}
    \* a soname is no path, unless it is the path of the file itself
    /\ \A p \in Paths : Image[p].soname \in Paths => Image[p].soname = p
    /\ Calls \subseteq [name : Names, flags : Seq(0 .. 3)]
    /\ MayFail \subseteq Paths
    /\ OverClose \in BOOLEAN
    /\ MaxOpens \in Nat

\* A call of loadPath: where it stands, its arguments, and its local state
Frame == [pc : {"enter", "parse", "deps", "load"}, path : Paths, name : Names,
          global : BOOLEAN, needed : Seq(Names), undef : Seq(Syms),
          binds : SUBSET Handles]

VARIABLES
    loaded,    \* [Names -> Handles \cup {None}]: the map `loaded`
    loading,   \* SUBSET Paths: the map `loading`
    globals,   \* Seq(Handles): the slice `globals`
    waiting,   \* SUBSET Goroutines: the wait set of `cond`
    status,    \* [Handles -> {"free", "live", "dead"}]: dead is after loader.Unload
    refCount,  \* [Handles -> Nat]: obj.RefCount
    origin,    \* [Handles -> Paths \cup {None}]: the file the object was loaded from
    bound,     \* [Handles -> SUBSET Handles]: libraries its relocations point into
    stack,     \* [Goroutines -> Seq(Frame)]: the calls of loadPath, innermost last
    visiting,  \* [Goroutines -> SUBSET Paths]: the map `visiting` of the running Open
    opens,     \* calls of Open so far
    held,      \* ghost: references the callers of Open own, per library
    owed,      \* ghost: references taken for a dependent's DT_NEEDED entry
    given      \* ghost: the libraries that Open has returned to a caller

tables == <<loaded, globals, status, origin, bound>>
ghosts == <<held, owed, given>>
vars == <<loaded, loading, globals, waiting, status, refCount, origin, bound,
          stack, visiting, opens, held, owed, given>>

TypeOK ==
    /\ loaded \in [Names -> Handles \cup {None}]
    /\ loading \in SUBSET Paths
    /\ globals \in Seq(Handles)
    /\ waiting \in SUBSET Goroutines
    /\ status \in [Handles -> {"free", "live", "dead"}]
    /\ refCount \in [Handles -> Int]
    /\ origin \in [Handles -> Paths \cup {None}]
    /\ bound \in [Handles -> SUBSET Handles]
    /\ stack \in [Goroutines -> Seq(Frame)]
    /\ visiting \in [Goroutines -> SUBSET Paths]
    /\ opens \in Nat
    /\ held \in [Handles -> Int]
    /\ owed \in [Handles -> Int]
    /\ given \subseteq Handles

Init ==
    /\ loaded = [n \in Names |-> None]
    /\ loading = {}
    /\ globals = <<>>
    /\ waiting = {}
    /\ status = [h \in Handles |-> "free"]
    /\ refCount = [h \in Handles |-> 0]
    /\ origin = [h \in Handles |-> None]
    /\ bound = [h \in Handles |-> {}]
    /\ stack = [g \in Goroutines |-> <<>>]
    /\ visiting = [g \in Goroutines |-> {}]
    /\ opens = 0
    /\ held = [h \in Handles |-> 0]
    /\ owed = [h \in Handles |-> 0]
    /\ given = {}
-----------------------------------------------------------------------------
(* Helpers *)

Live(h) == status[h] = "live"
Top(g) == Last(stack[g])
Idle(g) == stack[g] = <<>>

\* loadPath is running for g and not asleep in cond.Wait
At(g, pc) == stack[g] # <<>> /\ g \notin waiting /\ Top(g).pc = pc

\* Open looks at the first flag only; RTLD_NOW alone means RTLD_LOCAL
EffectiveFlag(flags) ==
    IF flags = <<>> \/ flags[1] = RTLD_NOW THEN RTLD_LOCAL ELSE flags[1]

Call(path, name, global) ==
    [pc |-> "enter", path |-> path, name |-> name, global |-> global,
     needed |-> <<>>, undef |-> <<>>, binds |-> {}]

\* Fault: loadPath without its cycle detection
NeverOnStack(g) == FALSE

\* The path is on this goroutine's call stack already
OnStack(g) == Top(g).path \in visiting[g]

\* The innermost call of g goes on with frame f
Continue(g, f) == stack' = [stack EXCEPT ![g] = Append(Front(@), f)]

\* The innermost call of g returns
Return(g) == stack' = [stack EXCEPT ![g] = Front(@)]

\* Fault: Signal wakes one of the goroutines that wait, whatever path it waits for
Signal == \/ waiting = {} /\ UNCHANGED waiting
          \/ \E g \in waiting : waiting' = waiting \ {g}

\* cond.Broadcast
Broadcast == waiting' = {}

\* Fault: the cached library is returned without a reference of its own
RetainNothing(h) == UNCHANGED refCount

\* lib.obj.RefCount++
Retain(h) == refCount' = [refCount EXCEPT ![h] = @ + 1]

\* The reference the innermost call returns goes to the caller of Open, or stays with
\* the dependent, which drops the *Library it was given
HandOver(g, h) ==
    IF Len(stack[g]) = 1
      THEN /\ held' = [held EXCEPT ![h] = @ + 1]
           /\ given' = given \cup {h}
           /\ UNCHANGED owed
      ELSE /\ owed' = [owed EXCEPT ![h] = @ + 1]
           /\ UNCHANGED <<held, given>>

Providers(s, kind) == {h \in ToSet(globals) : s \in Image[origin[h]][kind]}

\* searchGlobalsForSymbol: the first strong definition in load order, else the first weak
Lookup(s) ==
    LET Defining(h) == h \in Providers(s, IF Providers(s, "strong") # {} THEN "strong" ELSE "weak")
    IN  IF \E h \in ToSet(globals) : Defining(h)
          THEN globals[CHOOSE i \in DOMAIN globals :
                         Defining(globals[i]) /\ \A j \in 1 .. i - 1 : ~ Defining(globals[j])]
          ELSE None

\* Fault: the closed library stays on the list
CutNothing(s, h) == s

\* removeFromGlobals: the first occurrence is cut out
CutFrom(s, h) ==
    IF h \in ToSet(s)
      THEN RemoveAt(s, CHOOSE i \in DOMAIN s : s[i] = h /\ \A j \in 1 .. i - 1 : s[j] # h)
      ELSE s
-----------------------------------------------------------------------------
(* Open *)

\* loadLib finds the name in `loaded`: one critical section and Open returns
OpenCached(g) ==
    /\ Idle(g) /\ opens < MaxOpens
    /\ \E c \in Calls :
        LET h == loaded[c.name] IN
        /\ h # None
        /\ Retain(h)
        /\ held' = [held EXCEPT ![h] = @ + 1]
        /\ given' = given \cup {h}
    /\ opens' = opens + 1
    /\ UNCHANGED <<tables, loading, waiting, stack, visiting, owed>>

\* loadLib does not find the name, and unlocks: another goroutine may register the
\* library before the call of loadPath that follows takes the lock again
OpenUncached(g) ==
    /\ Idle(g) /\ opens < MaxOpens
    /\ \E c \in Calls :
        LET path == Find[None][c.name] IN
        /\ loaded[c.name] = None
        /\ IF path = None
             THEN UNCHANGED stack
             ELSE stack' = [stack EXCEPT ![g] =
                     <<Call(path, c.name, EffectiveFlag(c.flags) = RTLD_GLOBAL)>>]
    /\ opens' = opens + 1
    /\ UNCHANGED <<tables, loading, waiting, refCount, visiting, ghosts>>

\* Cycle detection: incrementRefIfLoaded instead of waiting for a slot of one's own
Revisit(g) ==
    /\ At(g, "enter") /\ OnStack(g)
    /\ LET h == loaded[Top(g).path] IN
       IF h = None
         THEN UNCHANGED <<refCount, ghosts>>
         ELSE Retain(h) /\ HandOver(g, h)
    /\ Return(g)
    /\ UNCHANGED <<tables, loading, waiting, visiting, opens>>

\* Fault: the wait loop of checkLoadingCache is missing
NeverBusy(g) == FALSE

\* The condition of the loop around cond.Wait
Busy(g) == Top(g).path \in loading

\* checkLoadingCache looks the path up, under the same lock that it claims the slot with
Cached(g) == loaded[Top(g).path]

\* checkLoadingCache, asleep: somebody else is loading the path
Wait(g) ==
    /\ At(g, "enter") /\ ~ OnStack(g)
    /\ Busy(g)
    /\ waiting' = waiting \cup {g}
    /\ UNCHANGED <<tables, loading, refCount, stack, visiting, opens, ghosts>>

\* checkLoadingCache, the path is loaded by now
CacheHit(g) ==
    /\ At(g, "enter") /\ ~ OnStack(g)
    /\ ~ Busy(g)
    /\ LET h == Cached(g) IN
       /\ h # None
       /\ Retain(h)
       /\ HandOver(g, h)
    /\ Return(g)
    /\ UNCHANGED <<tables, loading, waiting, visiting, opens>>

\* checkLoadingCache claims the slot; loadPath marks the path on its call stack
Claim(g) ==
    /\ At(g, "enter") /\ ~ OnStack(g)
    /\ ~ Busy(g) /\ Cached(g) = None
    /\ loading' = loading \cup {Top(g).path}
    /\ visiting' = [visiting EXCEPT ![g] = @ \cup {Top(g).path}]
    /\ Continue(g, [Top(g) EXCEPT !.pc = "parse"])
    /\ UNCHANGED <<tables, waiting, refCount, opens, ghosts>>

\* Fault: an error path keeps the slot
KeepSlot(g) == UNCHANGED <<loading, waiting>>

\* releaseLoadingSlot
ReleaseSlot(g) == loading' = loading \ {Top(g).path} /\ Broadcast

\* The error paths of loadPath: the slot is released and loadPath returns the error (its caller drops it)
Abandon(g) ==
    /\ ReleaseSlot(g)
    /\ visiting' = [visiting EXCEPT ![g] = @ \ {Top(g).path}]
    /\ Return(g)
    /\ UNCHANGED <<tables, refCount, opens, ghosts>>

\* goelf.Parse succeeds
Parse(g) ==
    /\ At(g, "parse")
    /\ Continue(g, [Top(g) EXCEPT !.pc = "deps", !.needed = Image[Top(g).path].needed])
    /\ UNCHANGED <<tables, loading, waiting, refCount, visiting, opens, ghosts>>

ParseFails(g) ==
    /\ At(g, "parse") /\ Top(g).path \in MayFail
    /\ Abandon(g)

\* Fault: one `visiting` map for all goroutines
SkipsBusy(g, dep) ==
    LET path == Find[Top(g).path][dep] IN path = None \/ path \in loading

\* loadDependencies passes over a name that is on the call stack as it stands, and one
\* that findLibrary does not find
Skips(g, dep) == dep \in visiting[g] \/ Find[Top(g).path][dep] = None

SkipDependency(g) ==
    /\ At(g, "deps") /\ Top(g).needed # <<>>
    /\ Skips(g, Head(Top(g).needed))
    /\ Continue(g, [Top(g) EXCEPT !.needed = Tail(@)])
    /\ UNCHANGED <<tables, loading, waiting, refCount, visiting, opens, ghosts>>

\* loadDependencies calls loadPath, always with RTLD_GLOBAL
LoadDependency(g) ==
    /\ At(g, "deps") /\ Top(g).needed # <<>>
    /\ LET dep == Head(Top(g).needed) IN
       /\ ~ Skips(g, dep)
       /\ stack' = [stack EXCEPT ![g] =
              Append(Append(Front(@), [Top(g) EXCEPT !.needed = Tail(@)]),
                     Call(Find[Top(g).path][dep], dep, TRUE))]
    /\ UNCHANGED <<tables, loading, waiting, refCount, visiting, opens, ghosts>>

\* loader.Load maps the file; the relocations that name symbols are still to do
Map(g) ==
    /\ At(g, "deps") /\ Top(g).needed = <<>>
    /\ Continue(g, [Top(g) EXCEPT !.pc = "load", !.undef = Image[Top(g).path].undef])
    /\ UNCHANGED <<tables, loading, waiting, refCount, visiting, opens, ghosts>>

MapFails(g) ==
    /\ At(g, "deps") /\ Top(g).needed = <<>> /\ Top(g).path \in MayFail
    /\ Abandon(g)

\* A relocation takes a symbol of the object itself, of a library on the global list
\* (under the lock, in globalResolver.Resolve), or, for a weak reference, no symbol
Resolved(g, s) ==
    LET im == Image[Top(g).path] IN
    s \in im.strong \cup im.weak \/ Lookup(s) # None \/ s \in im.weakref

Relocate(g) ==
    /\ At(g, "load") /\ Top(g).undef # <<>>
    /\ LET s  == Head(Top(g).undef)
           im == Image[Top(g).path] IN
       /\ Resolved(g, s)
       /\ Continue(g, [Top(g) EXCEPT !.undef = Tail(@),
              !.binds = IF s \in im.strong \cup im.weak \/ Lookup(s) = None
                          THEN @ ELSE @ \cup {Lookup(s)}])
    /\ UNCHANGED <<tables, loading, waiting, refCount, visiting, opens, ghosts>>

RelocateFails(g) ==
    /\ At(g, "load") /\ Top(g).undef # <<>>
    /\ ~ Resolved(g, Head(Top(g).undef))
    /\ Abandon(g)

\* Fault: the test of an empty soname is missing
KeysUnchecked(path, name) == {path, name, Image[path].soname}

\* registerLibrary's keys for a library loaded from path, requested as name
Keys(path, name) == {path, name, Image[path].soname} \ {None}

\* The constructors have run; registerLibrary publishes the library
Register(g) ==
    /\ At(g, "load") /\ Top(g).undef = <<>>
    /\ \E h \in Handles : status[h] = "free"
    /\ LET f == Top(g)
           h == CHOOSE x \in Handles : status[x] = "free" IN
       /\ loading' = loading \ {f.path}
       /\ Broadcast
       /\ status' = [status EXCEPT ![h] = "live"]
       /\ refCount' = [refCount EXCEPT ![h] = 1]
       /\ origin' = [origin EXCEPT ![h] = f.path]
       /\ bound' = [bound EXCEPT ![h] = f.binds]
       /\ loaded' = [n \in Names \cup Keys(f.path, f.name) |->
                        IF n \in Keys(f.path, f.name) THEN h ELSE loaded[n]]
       /\ globals' = IF f.global THEN Append(globals, h) ELSE globals
       /\ visiting' = [visiting EXCEPT ![g] = @ \ {f.path}]
       /\ HandOver(g, h)
    /\ Return(g)
    /\ UNCHANGED opens
-----------------------------------------------------------------------------
(* Close *)

\* Fault: only the entry under the path is deleted
ForgetPath(h) == [loaded EXCEPT ![origin[h]] = None]

\* removeFromLoadedMap: every key of the library is deleted
Forget(h) == [n \in Names |-> IF loaded[n] = h THEN None ELSE loaded[n]]

\* A handle the program may call Close on: one that Open returned to it and it has not
\* closed as often, or, in a program that over-closes, any that Open ever returned
MayClose(h) == IF OverClose THEN h \in given ELSE held[h] > 0

\* One reference fewer, others remain
CloseShared(g) ==
    /\ Idle(g)
    /\ \E h \in Handles :
        /\ MayClose(h) /\ refCount[h] > 1
        /\ refCount' = [refCount EXCEPT ![h] = @ - 1]
        /\ held' = [held EXCEPT ![h] = @ - 1]
    /\ UNCHANGED <<tables, loading, waiting, stack, visiting, opens, owed, given>>

\* The last reference: every key and the global entry go, and loader.Unload runs
\* the destructors and unmaps the object, all under the lock
CloseLast(g) ==
    /\ Idle(g)
    /\ \E h \in Handles :
        /\ MayClose(h) /\ refCount[h] = 1
        /\ refCount' = [refCount EXCEPT ![h] = 0]
        /\ held' = [held EXCEPT ![h] = @ - 1]
        /\ loaded' = Forget(h)
        /\ globals' = CutFrom(globals, h)
        /\ status' = [status EXCEPT ![h] = "dead"]
    /\ UNCHANGED <<loading, waiting, origin, bound, stack, visiting, opens, owed, given>>

\* Fault: Close counts down before it looks
CloseCountsFirst(g) ==
    /\ Idle(g)
    /\ \E h \in Handles :
        /\ MayClose(h) /\ refCount[h] <= 0
        /\ refCount' = [refCount EXCEPT ![h] = @ - 1]
    /\ UNCHANGED <<tables, loading, waiting, stack, visiting, opens, ghosts>>

\* "Close() called more than Open()": an error, and nothing changes
CloseRefused(g) ==
    /\ Idle(g)
    /\ \E h \in Handles : MayClose(h) /\ refCount[h] <= 0
    /\ UNCHANGED vars
-----------------------------------------------------------------------------
(* The calls of Open are bounded by MaxOpens: the program ends when they have all
   returned, which keeps TLC's deadlock check a check for calls that hang. *)
Finished ==
    /\ opens = MaxOpens
    /\ \A g \in Goroutines : Idle(g)
    /\ UNCHANGED vars

\* What a goroutine does inside Open, once it has entered loadPath
Step(g) ==
    \/ Revisit(g) \/ Wait(g) \/ CacheHit(g) \/ Claim(g)
    \/ Parse(g) \/ ParseFails(g)
    \/ SkipDependency(g) \/ LoadDependency(g)
    \/ Map(g) \/ MapFails(g)
    \/ Relocate(g) \/ RelocateFails(g) \/ Register(g)

\* What the program does: a new Open, or a Close
Request(g) ==
    \/ OpenCached(g) \/ OpenUncached(g)
    \/ CloseShared(g) \/ CloseLast(g) \/ CloseRefused(g)

Next ==
    \/ \E g \in Goroutines : Step(g) \/ Request(g)
    \/ Finished

Spec == Init /\ [][Next]_vars

\* Goroutines are scheduled preemptively and sync.Mutex hands the lock to a starving
\* waiter, so a goroutine inside Open that can go on does; nobody has to call Open
FairSpec == Spec /\ \A g \in Goroutines : WF_vars(Step(g))
-----------------------------------------------------------------------------
(* What must hold of the registry *)

\* Calls of loadPath that hold the slot of their path
Claims(g) == {i \in DOMAIN stack[g] : stack[g][i].pc # "enter"}

\* Every entry of `loading` belongs to exactly one running call of loadPath, and
\* `visiting` is exactly what the calls on the goroutine's own stack have claimed: no
\* error path leaves a slot behind, and no two goroutines load one file
SlotOwnership ==
    /\ loading = UNION {visiting[g] : g \in Goroutines}
    /\ \A g \in Goroutines :
        /\ visiting[g] = {stack[g][i].path : i \in Claims(g)}
        /\ \A i, j \in Claims(g) : stack[g][i].path = stack[g][j].path => i = j
        /\ \A k \in Goroutines \ {g} : visiting[g] \cap visiting[k] = {}

\* A goroutine sleeps in cond.Wait only while the path it wants is being loaded: every
\* release of a slot, on success and on error, wakes all who wait for it
NoLostWakeup ==
    \A g \in waiting : ~ Idle(g) /\ Top(g).pc = "enter" /\ Top(g).path \in loading

\* `loaded` names live libraries only, a live library is found under its own path, and
\* no file is both loaded and being loaded: one live instance per file, however the
\* concurrent calls of Open and Close interleave
CacheCoherent ==
    /\ \A n \in Names : loaded[n] # None => Live(loaded[n])
    /\ \A h \in Handles : Live(h) => origin[h] # None /\ loaded[origin[h]] = h
    /\ \A p \in loading : loaded[p] = None

\* RefCount counts exactly the references handed to callers of Open and those taken for
\* DT_NEEDED entries, and a library is live exactly while it has one: nobody's library
\* is unloaded under them, and no call is counted twice or not at all
RefsConserved ==
    \A h \in Handles :
        /\ refCount[h] = held[h] + owed[h]
        /\ Live(h) <=> refCount[h] > 0

\* The search list of globalResolver holds live libraries, each once
GlobalsCurrent ==
    /\ \A i \in DOMAIN globals : Live(globals[i])
    /\ \A i, j \in DOMAIN globals : globals[i] = globals[j] => i = j

\* Where files load without errors and the DT_NEEDED graph has no cycle, a library
\* that is published has all the dependencies that can be found, and keeps them for
\* as long as it is live, whatever the callers close in the meantime
DependenciesLoaded ==
    \A h \in Handles : Live(h) =>
        \A i \in DOMAIN Image[origin[h]].needed :
            LET dep == Find[origin[h]][Image[origin[h]].needed[i]] IN
            dep # None => loaded[dep] # None

\* A library is unloaded at most once and its *Library never comes back to life: Open
\* never returns, and Close never unloads again, a library whose memory is gone
UnloadedForGood ==
    [][\A h \in Handles : status[h] = "dead" => status'[h] = "dead" /\ refCount'[h] = 0]_vars

\* Every call of Open comes back
OpenReturns == \A g \in Goroutines : ~ Idle(g) ~> Idle(g)

\* The contract of dlopen and dlclose per file, which the registry implements
Contract == INSTANCE HandleTable WITH
    inst <- [p \in Paths |-> loaded[p]],
    refs <- refCount,
    used <- {h \in Handles : status[h] # "free"}
ContractKept == Contract!Spec
-----------------------------------------------------------------------------
(* What the repository's documents say of the registry and the code does not do *)

\* "libraries are only unloaded when all references are released, preventing
\* use-after-free": no live library is relocated against one that is gone
BindingsLive == \A h \in Handles : Live(h) => \A d \in bound[h] : Live(d)
=============================================================================
