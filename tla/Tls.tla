-------------------------------- MODULE Tls --------------------------------
(***************************************************************************)
(* Thread-local storage (internal/tls) and the address space it shares     *)
(* with the loader: the manager that numbers the TLS modules, the registry *)
(* of the blocks each OS thread has for them, and __tls_get_addr.          *)
(*                                                                         *)
(* Manager.mu and ThreadLocalRegistry.mu are each held for a whole call,   *)
(* so every call is one action.  A region is a mapping: munmap frees it,   *)
(* and mmap may hand it out again for something else.                      *)
(***************************************************************************)
EXTENDS Integers, FiniteSets, Sequences

CONSTANTS
    Regions,      \* address ranges that mmap returns
    Objects,      \* the calls of loader.Load
    Threads,      \* OS threads, each of which runs once
    Tids,         \* what gettid() returns; the kernel reuses the ids of dead threads
    None,
    MaxModuleID,  \* maxModuleID, 1 << 16 in the code
    MapFails,     \* TRUE: mmap may fail
    UnmapFails,   \* TRUE: munmap may fail
    CleansUp      \* TRUE: CleanupThread may be called when a thread exits

ModuleIDs == 1 .. MaxModuleID - 1

ASSUME TlsAssumption ==
    /\ None \notin Regions \cup Objects \cup Threads \cup Tids
    /\ MaxModuleID \in Nat \ {0}
    /\ MapFails \in BOOLEAN /\ UnmapFails \in BOOLEAN /\ CleansUp \in BOOLEAN

\* What is mapped at a region: the image or a GOT page of an object, the block of a
\* thread, or a block allocated for a TPOFF relocation, and the object whose template a
\* block was filled from
Mapping == [kind : {"free", "image", "got", "block", "static"},
            of : Objects \cup {None}, by : Threads \cup {None}]

Free == [kind |-> "free", of |-> None, by |-> None]

VARIABLES
    mem,      \* [Regions -> Mapping]
    modules,  \* Seq(Regions \cup {None}): Manager.modules, the InitData of each
    nextID,   \* Manager.nextID
    blocks,   \* [Tids -> [ModuleIDs -> Regions \cup {None}]]: ThreadLocalRegistry.blocks
    tid,      \* [Threads -> Tids \cup {None}]: the id of a running thread
    exited    \* SUBSET Threads

tlsVars == <<mem, modules, nextID, blocks, tid, exited>>

TlsTypeOK ==
    /\ mem \in [Regions -> Mapping]
    /\ modules \in Seq(Regions \cup {None})
    /\ nextID \in 1 .. MaxModuleID
    /\ blocks \in [Tids -> [ModuleIDs -> Regions \cup {None}]]
    /\ tid \in [Threads -> Tids \cup {None}]
    /\ exited \in SUBSET Threads

TlsInit ==
    /\ mem = [r \in Regions |-> Free]
    /\ modules = <<>>
    /\ nextID = 1
    /\ blocks = [i \in Tids |-> [m \in ModuleIDs |-> None]]
    /\ tid = [t \in Threads |-> None]
    /\ exited = {}
-----------------------------------------------------------------------------
(* mmap and munmap *)

Unused(r) == mem[r] = Free

Put(r, kind, o, t) == mem' = [mem EXCEPT ![r] = [kind |-> kind, of |-> o, by |-> t]]

\* The object whose image a pointer into region r reads
ImageAt(r) == IF r # None /\ mem[r].kind = "image" THEN mem[r].of ELSE None

-----------------------------------------------------------------------------
(* The manager *)

\* Fault: the limit is looked at once it has been passed
PastLimit == nextID > MaxModuleID

Full == nextID >= MaxModuleID

\* Fault: the ID is handed out again
SameID(init) == modules' = Append(modules, init) /\ UNCHANGED nextID

\* RegisterModule, below the limit
RegisterModule(init) == modules' = Append(modules, init) /\ nextID' = nextID + 1

\* AllocateBlock: a mapping that is filled from the module's template.  `modules` is
\* indexed by ID-1, and TLA+ counts from 1.
AllocateBlock(r, id, kind, t) == Unused(r) /\ Put(r, kind, ImageAt(modules[id]), t)
-----------------------------------------------------------------------------
(* The registry *)

\* Fault: the id is that of the process
SharedID(t) == CHOOSE i \in Tids : TRUE

\* getCurrentThreadID
CurrentThreadID(t) == tid[t]

\* Fault: the registry is not asked for a block the thread has
AlwaysNew(i, id) == TRUE

\* The thread has no block for the module yet
FirstAccess(i, id) == blocks[i][id] = None

\* GetTLSAddr in thread t, for the module whose ID the calling code has in its GOT
GetTLSAddr(t, id) ==
    /\ tid[t] # None
    /\ FirstAccess(CurrentThreadID(t), id)
    /\ id \in DOMAIN modules
    /\ \E r \in Regions :
        /\ AllocateBlock(r, id, "block", t)
        /\ blocks' = [blocks EXCEPT ![CurrentThreadID(t)][id] = r]
    /\ UNCHANGED <<modules, nextID, tid, exited>>

\* The thread has a block, or there is no such module or no memory: nothing changes
GetTLSAddrAgain(t, id) ==
    /\ tid[t] # None
    /\ ~ FirstAccess(CurrentThreadID(t), id) \/ id \notin DOMAIN modules \/ MapFails
    /\ UNCHANGED tlsVars

\* The blocks of a thread
BlocksOf(i) == {blocks[i][id] : id \in ModuleIDs} \ {None}

\* Fault: the blocks are unmapped and stay in the registry
KeepBlocks(i) == blocks

\* delete(r.blocks, threadID)
Forgotten(i) == [blocks EXCEPT ![i] = [m \in ModuleIDs |-> None]]

\* CleanupThread: every block is unmapped that can be, and all are forgotten
CleanupThread(i) ==
    /\ \E stuck \in SUBSET BlocksOf(i) :
        /\ stuck = {} \/ UnmapFails
        /\ mem' = [r \in Regions |-> IF r \in BlocksOf(i) \ stuck THEN Free ELSE mem[r]]
    /\ blocks' = Forgotten(i)

\* Nothing in the program calls CleanupThread; whoever does, does so for a thread that
\* ends, and may leave others out
AtExit(i) == \/ CleansUp /\ CleanupThread(i)
             \/ UNCHANGED <<mem, blocks>>

\* The kernel starts a thread under an ID that no running thread has
ThreadStart(t) ==
    /\ tid[t] = None /\ t \notin exited
    /\ \E i \in Tids :
        /\ \A u \in Threads : tid[u] # i
        /\ tid' = [tid EXCEPT ![t] = i]
    /\ UNCHANGED <<mem, modules, nextID, blocks, exited>>

ThreadExit(t) ==
    /\ tid[t] # None
    /\ AtExit(tid[t])
    /\ tid' = [tid EXCEPT ![t] = None]
    /\ exited' = exited \cup {t}
    /\ UNCHANGED <<modules, nextID>>
-----------------------------------------------------------------------------
(* What must hold of thread-local storage *)

\* The block a running thread finds was never that of another running thread: it is its
\* own, or was left by a thread that is gone
BlocksApart ==
    \A t \in Threads : tid[t] # None =>
        \A id \in ModuleIDs : blocks[tid[t]][id] # None =>
            mem[blocks[tid[t]][id]].by \in {t} \cup exited

\* Thread isolation: the blocks a running thread finds are its own, never those another
\* thread, living or dead, has written to.  False of the code, which keeps the blocks of
\* a dead thread for whichever thread gets its id.
OwnBlocks ==
    \A t \in Threads : tid[t] # None =>
        \A id \in ModuleIDs : blocks[tid[t]][id] # None => mem[blocks[tid[t]][id]].by = t

\* The address of a thread-local variable stays what __tls_get_addr once returned, and
\* the memory stays the thread's, for as long as the thread runs
AddressesStay ==
    [][\A t \in Threads : tid[t] # None /\ tid'[t] = tid[t] =>
        \A id \in ModuleIDs : blocks[tid[t]][id] # None =>
            /\ blocks'[tid[t]][id] = blocks[tid[t]][id]
            /\ mem'[blocks[tid[t]][id]] = mem[blocks[tid[t]][id]]]_tlsVars
=============================================================================
