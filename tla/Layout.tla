------------------------------- MODULE Layout -------------------------------
(***************************************************************************)
(* How a file becomes an image: the headers elf.Parse accepts, the         *)
(* mapping of the PT_LOAD segments with their BSS, the address             *)
(* arithmetic of the dynamic section, TLS template and RELATIVE            *)
(* relocations, RELRO, and Unload (elf/parse.go, loader/loader.go).        *)
(*                                                                         *)
(* Memory is a row of cells, a page is PageSize of them, and every system  *)
(* call is a step, after which the rest of the process may map memory of   *)
(* its own.  A cell holds a byte of the file, zero, or its part of the     *)
(* pointer that a relocation wrote, a word of WordSize cells.              *)
(***************************************************************************)
EXTENDS Integers, FiniteSets, Sequences

CONSTANTS
    PageSize,   \* cells in a page
    NumPages,   \* pages in the address space
    WordSize,   \* cells in the word that a relocation writes
    Files,      \* the files Load may be given
    MapFails,   \* TRUE: mmap and mprotect may fail
    Others,     \* pages the rest of the process has at the start
    MaxOthers   \* bound on the pages it has in all

\* A PT_LOAD, PT_TLS or PT_GNU_RELRO header, as far as it is used; a header that is not
\* there has memsz 0.  A relocation is RELATIVE: the word at `offset` is to be `addend`.
Header == [vaddr : Nat, off : Nat, filesz : Nat, memsz : Nat, prot : SUBSET {"r", "w", "x"}]
FileType == [segs : Seq(Header), tls : Header, relro : Header,
             relocs : Seq([offset : Nat, addend : Nat]), size : Nat]

Pages == 0 .. NumPages - 1
Cells == 0 .. NumPages * PageSize - 1

ASSUME LayoutAssumption ==
    /\ PageSize \in Nat \ {0} /\ NumPages \in Nat \ {0} /\ WordSize \in Nat \ {0}
    /\ \A f \in Files : f \in FileType
    /\ MapFails \in BOOLEAN
    /\ Others \subseteq Pages /\ MaxOthers \in Nat

\* Contents of a cell, told apart by numbers: zero, cell k of the file, something of the
\* rest of the process, or part i of the address a
Zero == 0
FileCell(f, k) == IF k < f.size THEN k + 1 ELSE Zero
Foreign == -1
Pointer(a, i) == -2 - (a * WordSize + i)

VARIABLES
    file,     \* the file being loaded
    phase,    \* how far Load or Unload has come
    seg,      \* index of the segment being mapped
    base,     \* obj.Base
    template, \* InitData of the TLS module, 0 for none
    done,     \* relocations applied
    mem,      \* [Cells -> contents]
    prot,     \* [Pages -> SUBSET {"r", "w", "x"}]
    owner,    \* [Pages -> {"free", "object", "other"}]: whose mapping it is
    others    \* ghost: the pages that the rest of the process has mapped

loadVars == <<file, phase, seg, base, template, done>>
space == <<mem, prot, owner>>
vars == <<loadVars, space, others>>

Phases == {"parse", "reserve", "file", "tail", "zero", "protect", "tls", "reloc", "relro",
           "ready", "gone", "failed", "crashed"}

TypeOK ==
    /\ file \in Files
    /\ phase \in Phases
    /\ seg \in 1 .. Len(file.segs) + 1
    /\ phase \in {"file", "tail", "zero", "protect"} => seg \in DOMAIN file.segs
    /\ base \in Cells /\ template \in Nat
    /\ done \in 0 .. Len(file.relocs)
    /\ DOMAIN mem = Cells
    /\ prot \in [Pages -> SUBSET {"r", "w", "x"}]
    /\ owner \in [Pages -> {"free", "object", "other"}]
    /\ others \subseteq Pages

Init ==
    /\ file \in Files
    /\ phase = "parse" /\ seg = 1 /\ base = 0 /\ template = 0 /\ done = 0
    /\ others = Others
    /\ owner = [p \in Pages |-> IF p \in Others THEN "other" ELSE "free"]
    /\ prot = [p \in Pages |-> IF p \in Others THEN {"r", "w"} ELSE {}]
    /\ mem = [c \in Cells |-> IF c \div PageSize \in Others THEN Foreign ELSE Zero]
-----------------------------------------------------------------------------
(* Page arithmetic, and the headers *)

PageDown(v) == v - (v % PageSize)

\* pageUp, PageAlign
PageUp(v) == PageDown(v + PageSize - 1)

PageOf(c) == c \div PageSize
Within(addr, len) == {c \in Cells : addr <= c /\ c < addr + len}
PagesOf(addr, len) == {PageOf(c) : c \in Within(addr, len)}

\* updateAddressRange over all PT_LOAD headers, whatever their order
Segments(f) == {f.segs[i] : i \in DOMAIN f.segs}
BaseVAddr(f) == CHOOSE v \in {s.vaddr : s \in Segments(f)} : \A s \in Segments(f) : v <= s.vaddr

\* Fault: the reservation is for what is in the file
MaxFileVAddr(f) ==
    LET Ends == {s.vaddr + s.filesz : s \in Segments(f)} IN CHOOSE e \in Ends : \A d \in Ends : d <= e

MaxVAddr(f) ==
    LET Ends == {s.vaddr + s.memsz : s \in Segments(f)} IN CHOOSE e \in Ends : \A d \in Ends : d <= e
MemSize(f) == PageUp(MaxVAddr(f) - BaseVAddr(f))

\* What elf.Parse lets pass: validatePTLoad, validateRequiredSegments, calculateMemoryLayout
Accepted(f) ==
    /\ f.segs # <<>>
    /\ \A s \in Segments(f) : s.filesz <= s.memsz
    /\ MemSize(f) > 0
-----------------------------------------------------------------------------
(* mmap, mprotect, munmap *)

Aligned(addr) == addr % PageSize = 0

\* MapFixed over the pages of [addr, addr + len): whatever was there is gone; content is
\* a function of the cells
MapFixed(addr, len, p, content) ==
    LET covered == PagesOf(addr, PageUp(len)) IN
    /\ mem' = [c \in Cells |-> IF PageOf(c) \in covered THEN content[c] ELSE mem[c]]
    /\ prot' = [q \in Pages |-> IF q \in covered THEN p ELSE prot[q]]
    /\ owner' = [q \in Pages |-> IF q \in covered THEN "object" ELSE owner[q]]

Zeroes == [c \in Cells |-> Zero]

\* mprotect: an address inside a page is EINVAL, and nothing changes
Protect(addr, len, p) ==
    prot' = [q \in Pages |->
        IF Aligned(addr) /\ q \in PagesOf(addr, PageUp(len)) THEN p ELSE prot[q]]

Unmap(addr, len) ==
    LET covered == PagesOf(addr, PageUp(len)) IN
    /\ owner' = [q \in Pages |-> IF q \in covered THEN "free" ELSE owner[q]]
    /\ prot' = [q \in Pages |-> IF q \in covered THEN {} ELSE prot[q]]
    /\ mem' = [c \in Cells |-> IF PageOf(c) \in covered THEN Zero ELSE mem[c]]

Goto(p) == phase' = p

\* A store to cells of which one is not there or not writable kills the process
Store(cells, content, next) ==
    LET writable == \A c \in cells : c \in Cells /\ "w" \in prot[PageOf(c)] IN
    /\ mem' = [c \in Cells |-> IF writable /\ c \in cells THEN content[c] ELSE mem[c]]
    /\ Goto(IF writable THEN next ELSE "crashed")

\* Fault: the length of the segments is not rounded to pages
ReleaseShort == Unmap(base, PageDown(MaxVAddr(file) - BaseVAddr(file)))

\* mmap.Unmap(base, parsed.MemSize), on the error paths and in Unload
Release == Unmap(base, MemSize(file))

Fail == Release /\ Goto("failed") /\ UNCHANGED <<file, seg, base, template, done, others>>
-----------------------------------------------------------------------------
(* Load: the segments *)

Parse ==
    /\ phase = "parse"
    /\ Goto(IF Accepted(file) THEN "reserve" ELSE "failed")
    /\ UNCHANGED <<file, seg, base, template, done, space, others>>

\* createAndMapObject: the kernel picks a range that is free
Reserve ==
    /\ phase = "reserve"
    /\ \E b \in Cells :
        /\ Aligned(b) /\ b + MemSize(file) <= NumPages * PageSize
        /\ \A p \in PagesOf(b, MemSize(file)) : owner[p] = "free"
        /\ MapFixed(b, MemSize(file), {}, Zeroes)
        /\ base' = b
    /\ Goto("file")
    /\ UNCHANGED <<file, seg, template, done, others>>

ReserveFails ==
    /\ phase = "reserve" /\ MapFails
    /\ Goto("failed")
    /\ UNCHANGED <<file, seg, base, template, done, space, others>>

\* mapSegment for the segment s
S == file.segs[seg]
Leading(s) == s.vaddr - PageDown(s.vaddr)
AlignedFileSize(s) == PageUp(s.filesz + Leading(s))
AlignedMemSize(s) == PageUp(s.memsz + Leading(s))
MapAddr(s) == base + PageDown(s.vaddr) - BaseVAddr(file)

\* Fault: a segment is mapped with the protection its header asks for
PlainProt(s) == s.prot

\* computeMapProt: the end of the last file page is zeroed by the loader itself
MapProt(s) == IF s.memsz > s.filesz THEN s.prot \cup {"w"} ELSE s.prot

\* Fault: the loop over the segments goes one step too far
SegmentTooMany == /\ Goto(IF seg <= Len(file.segs) THEN "file" ELSE "tls")
                  /\ seg' = seg + 1

\* mapSegments: the next one, or on
NextSegment == /\ Goto(IF seg < Len(file.segs) THEN "file" ELSE "tls")
               /\ seg' = seg + 1

\* mapFileRegion
MapFile ==
    /\ phase = "file"
    /\ IF AlignedFileSize(S) = 0
         THEN UNCHANGED space
         ELSE LET fromFile == [c \in Cells |-> FileCell(file, PageDown(S.off) + c - MapAddr(S))] IN
              /\ Aligned(MapAddr(S))
              /\ MapFixed(MapAddr(S), AlignedFileSize(S), MapProt(S), fromFile)
    /\ IF S.memsz > S.filesz THEN Goto("tail") /\ UNCHANGED seg ELSE NextSegment
    /\ UNCHANGED <<file, base, template, done, others>>

\* No memory, or an address inside a page, where MAP_FIXED is EINVAL
MapFileFails ==
    /\ phase = "file" /\ AlignedFileSize(S) # 0
    /\ MapFails \/ ~ Aligned(MapAddr(S))
    /\ Fail

\* mapBSSTail: the pages behind the file's
MapBSSTail ==
    /\ phase = "tail"
    /\ IF AlignedMemSize(S) = AlignedFileSize(S)
         THEN UNCHANGED space
         ELSE /\ Aligned(MapAddr(S))
              /\ MapFixed(MapAddr(S) + AlignedFileSize(S),
                          AlignedMemSize(S) - AlignedFileSize(S), MapProt(S), Zeroes)
    /\ Goto("zero")
    /\ UNCHANGED <<file, seg, base, template, done, others>>

MapBSSFails ==
    /\ phase = "tail" /\ AlignedMemSize(S) # AlignedFileSize(S)
    /\ MapFails \/ ~ Aligned(MapAddr(S))
    /\ Fail

\* Fault: the zeroes start on the page behind the file's bytes
BSSStartsLate(s) == MapAddr(s) + AlignedFileSize(s)

\* The first cell of the segment that does not come from the file
BSSStart(s) == MapAddr(s) + Leading(s) + s.filesz

\* zeroBSSPage: the rest of the last file page
ZeroBSSPage ==
    /\ phase = "zero"
    /\ Store({c \in Cells : BSSStart(S) <= c /\ c < MapAddr(S) + AlignedFileSize(S)},
             Zeroes, "protect")
    /\ UNCHANGED <<file, seg, base, template, done, prot, owner, others>>

\* Fault: the write permission stays
StaysWritable ==
    /\ phase = "protect" /\ NextSegment
    /\ UNCHANGED <<file, base, template, done, space, others>>

\* mapBSSRegion takes the write permission back that it added
ProtectSegment ==
    /\ phase = "protect"
    /\ IF S.prot = MapProt(S) THEN UNCHANGED prot
                              ELSE Protect(MapAddr(S), AlignedMemSize(S), S.prot)
    /\ NextSegment
    /\ UNCHANGED <<file, base, template, done, mem, owner, others>>

ProtectFails ==
    /\ phase = "protect" /\ S.prot # MapProt(S) /\ MapFails
    /\ Fail
-----------------------------------------------------------------------------
(* Load: TLS template, relocations, RELRO; Unload *)

\* Fault: the image is taken to start at the segment's first byte, not at its page
TemplateFromPage(i) == MapAddr(file.segs[i]) + file.tls.vaddr - file.segs[i].vaddr

\* calculateTLSDataAddress
TemplateIn(i) ==
    MapAddr(file.segs[i]) + Leading(file.segs[i]) + file.tls.vaddr - file.segs[i].vaddr

\* The segment findTLSInitData takes: it compares with BaseVAddr + Vaddr
HoldsTemplate(i) ==
    LET start == BaseVAddr(file) + file.segs[i].vaddr IN
    start <= file.tls.vaddr /\ file.tls.vaddr < start + file.segs[i].memsz

\* setupTLS and findTLSInitData
SetupTLS ==
    /\ phase = "tls"
    /\ LET holders == {i \in DOMAIN file.segs : HoldsTemplate(i)} IN
       template' = IF file.tls.filesz = 0 \/ holders = {} THEN 0
                   ELSE TemplateIn(CHOOSE i \in holders : \A j \in holders : i <= j)
    /\ Goto("reloc")
    /\ UNCHANGED <<file, seg, base, done, space, others>>

R == file.relocs[done + 1]

\* The cells of the word that a relocation is for, by their virtual addresses
Word(r) == r.offset .. r.offset + WordSize - 1

\* validateRelocationOffset: the first cell of the word
InImage(r) == r.offset \in BaseVAddr(file) .. BaseVAddr(file) + MemSize(file) - 1

\* applyRelative stores the whole word
Relocate ==
    /\ phase = "reloc" /\ done < Len(file.relocs) /\ InImage(R)
    /\ LET addr == base + R.offset - BaseVAddr(file)
           value == [c \in Cells |-> Pointer(base + R.addend, c - addr)] IN
       Store(addr .. addr + WordSize - 1, value, "reloc")
    /\ done' = done + 1
    /\ UNCHANGED <<file, seg, base, template, prot, owner, others>>

RelocateFails ==
    /\ phase = "reloc" /\ done < Len(file.relocs) /\ ~ InImage(R)
    /\ Fail

\* applyRELROProtection: an error of mprotect is ignored
ApplyRELRO ==
    /\ phase = "reloc" /\ done = Len(file.relocs)
    /\ IF file.relro.memsz > 0 /\ file.relro.vaddr >= BaseVAddr(file)
         THEN \/ Protect(base + file.relro.vaddr - BaseVAddr(file), PageUp(file.relro.memsz), {"r"})
              \/ MapFails /\ UNCHANGED prot
         ELSE UNCHANGED prot
    /\ Goto("ready")
    /\ UNCHANGED <<file, seg, base, template, done, mem, owner, others>>

Unload ==
    /\ phase = "ready"
    /\ Release /\ Goto("gone")
    /\ UNCHANGED <<file, seg, base, template, done, others>>

\* The rest of the process maps a page
OtherMaps ==
    /\ phase \notin {"parse", "reserve", "crashed"} /\ Cardinality(others) < MaxOthers
    /\ \E p \in Pages :
        /\ owner[p] = "free"
        /\ others' = others \cup {p}
        /\ owner' = [owner EXCEPT ![p] = "other"]
        /\ prot' = [prot EXCEPT ![p] = {"r", "w"}]
        /\ mem' = [c \in Cells |-> IF PageOf(c) = p THEN Foreign ELSE mem[c]]
    /\ UNCHANGED loadVars

Load ==
    \/ Parse \/ Reserve \/ ReserveFails
    \/ MapFile \/ MapFileFails \/ MapBSSTail \/ MapBSSFails
    \/ ZeroBSSPage \/ ProtectSegment \/ ProtectFails
    \/ SetupTLS \/ Relocate \/ RelocateFails \/ ApplyRELRO

Next == Load \/ Unload \/ OtherMaps
Spec == Init /\ [][Next]_vars
-----------------------------------------------------------------------------
(* What must hold of an image *)

\* Where the cell with the virtual address v of the file is
Address(v) == base + v - BaseVAddr(file)

\* The cell v of segment s, by the headers and the relocations, of which there is one
\* for an address at most
Relocates(v) == \E i \in DOMAIN file.relocs : v \in Word(file.relocs[i])
Expected(s, v) ==
    IF Relocates(v)
      THEN LET i == CHOOSE i \in DOMAIN file.relocs : v \in Word(file.relocs[i])
           IN Pointer(Address(file.relocs[i].addend), v - file.relocs[i].offset)
      ELSE IF v - s.vaddr < s.filesz THEN FileCell(file, s.off + v - s.vaddr) ELSE Zero

LinkedAtZero == BaseVAddr(file) = 0
Extent(h) == h.vaddr .. h.vaddr + h.memsz - 1

\* A loaded segment holds the bytes of the file, then zeroes, in every cell, wherever in
\* a page it starts, ends, or turns from file to BSS; and every relocated word of a file
\* linked at 0 leads to the cell that the file names.  In a file linked elsewhere the
\* relocated cells are left out: there the loader writes the base and the addend, which
\* is the address of another cell
ImageFaithful ==
    phase = "ready" => \A s \in Segments(file) : \A v \in Extent(s) :
        LinkedAtZero \/ ~ Relocates(v) => mem[Address(v)] = Expected(s, v)

\* Its pages have the protection of its header, RELRO apart: neither what the loader
\* adds to write zeroes nor RELRO sticks to a page it is not for
ProtectionFaithful ==
    phase = "ready" => \A s \in Segments(file) : \A v \in Extent(s) \ Extent(file.relro) :
        prot[PageOf(Address(v))] = s.prot

\* What the rest of the process had at addresses that the loader has stored to: the ends
\* of words whose first cell is the only one that is checked against the image
Overrun == {c \in Cells : /\ \E i \in 1 .. done : c - base + BaseVAddr(file) \in Word(file.relocs[i])
                          /\ c >= base + MemSize(file)}

\* The rest of the process keeps its memory, though MAP_FIXED asks nobody: all is done
\* within the reservation, also on the error paths and when the range is free again,
\* but for what a relocated word at the end of the image overruns
OthersIntact ==
    \A p \in others : /\ owner[p] = "other" /\ prot[p] = {"r", "w"}
                      /\ \A c \in Cells \ Overrun : PageOf(c) = p => mem[c] = Foreign

\* When Load has failed, or Unload is done, no page of the object is left
ReservationReleased ==
    phase \in {"failed", "gone"} => \A p \in Pages : owner[p] # "object"

\* The template of the TLS module, wherever the loader finds one, and always in a file
\* linked at 0, is the initialised part of PT_TLS
TemplateFaithful ==
    phase = "ready" /\ file.tls.filesz > 0 /\ (LinkedAtZero \/ template # 0) =>
        \E s \in Segments(file) : \A k \in 0 .. file.tls.filesz - 1 :
            LET v == file.tls.vaddr + k IN
            /\ v \in Extent(s)
            /\ LinkedAtZero \/ ~ Relocates(v) => mem[template + k] = Expected(s, v)

\* What the proofs ask of a file, beyond what elf.Parse checks: a linker writes no other.
\* PT_TLS is in a segment
TemplateInside(f) ==
    f.tls.filesz > 0 =>
        \E s \in Segments(f) : \A k \in 0 .. f.tls.filesz - 1 : f.tls.vaddr + k \in Extent(s)

\* Offset and address of a segment are at the same place of a page, and no two segments
\* share a page
SegmentsApart(f) ==
    /\ \A s \in Segments(f) : s.off % PageSize = s.vaddr % PageSize
    /\ \A i, j \in DOMAIN f.segs : i < j =>
        \/ PageUp(f.segs[i].vaddr + f.segs[i].memsz) <= PageDown(f.segs[j].vaddr)
        \/ PageUp(f.segs[j].vaddr + f.segs[j].memsz) <= PageDown(f.segs[i].vaddr)

\* PT_GNU_RELRO is inside the image, and whole pages if it starts with one
RelroInside(f) ==
    f.relro.memsz > 0 => f.relro.vaddr + f.relro.memsz <= BaseVAddr(f) + MemSize(f)
RelroWhole(f) ==
    f.relro.memsz > 0 /\ Aligned(f.relro.vaddr - BaseVAddr(f)) => Aligned(f.relro.memsz)

\* A word to relocate, if its first cell is in the image, is in one segment, with write
\* permission, and shares no cell with another
RelocsWritable(f) ==
    \A i \in DOMAIN f.relocs :
        f.relocs[i].offset \in BaseVAddr(f) .. BaseVAddr(f) + MemSize(f) - 1 =>
            \E s \in Segments(f) : "w" \in s.prot /\ Word(f.relocs[i]) \subseteq Extent(s)
RelocsApart(f) ==
    \A i, j \in DOMAIN f.relocs : Word(f.relocs[i]) \cap Word(f.relocs[j]) # {} => i = j

\* Nothing is stored in a page that is not writable at the time, if the relocations are
\* for words of writable segments: BSS is zeroed before and RELRO applied after the
\* loader has written what it must
NoFault == RelocsWritable(file) => phase # "crashed"

Linked(f) ==
    /\ SegmentsApart(f) /\ RelroInside(f) /\ RelroWhole(f)
    /\ RelocsWritable(f) /\ RelocsApart(f) /\ TemplateInside(f)

\* ROADMAP 3.3: "after all relocations are applied, mprotect the indicated range to
\* PROT_READ": no page inside PT_GNU_RELRO is writable once the object is loaded
RelroEnforced ==
    phase = "ready" => \A p \in Pages :
        (\A c \in Cells : PageOf(c) = p => c - base + BaseVAddr(file) \in Extent(file.relro))
            => "w" \notin prot[p]
=============================================================================
