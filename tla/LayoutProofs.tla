---------------------------- MODULE LayoutProofs ----------------------------
(***************************************************************************)
(* Proofs about Layout, for every page size, address space, file and       *)
(* behaviour of the rest of the process: page arithmetic first, then how   *)
(* far Load has come, whose page is whose, permissions, bytes, and the     *)
(* template of the TLS module, each resting on those before it.            *)
(***************************************************************************)
EXTENDS Layout, InductionTheorems, SequenceTheorems, TLAPS

USE LayoutAssumption

-----------------------------------------------------------------------------
(* Page arithmetic *)

LEMMA Division ==
    ASSUME NEW v \in Int
    PROVE  /\ PageOf(v) \in Int /\ v % PageSize \in 0 .. PageSize - 1
           /\ PageSize * PageOf(v) \in Int
           /\ v = PageSize * PageOf(v) + (v % PageSize)
BY SMT DEF PageOf

LEMMA DivisionUnique ==
    ASSUME NEW k \in Int, NEW r \in 0 .. PageSize - 1
    PROVE  PageOf(PageSize * k + r) = k /\ (PageSize * k + r) % PageSize = r
<1> DEFINE v == PageSize * k + r
           q == PageOf(v)
           m == v % PageSize
<1>1. v \in Int
  BY SMT
<1>2. q \in Int /\ m \in 0 .. PageSize - 1 /\ v = PageSize * q + m
  BY <1>1, Division
<1>3. v = PageSize * k + r
  OBVIOUS
<1> HIDE DEF v, q, m
<1>4. ~ (q >= k + 1)
  <2> SUFFICES ASSUME q >= k + 1 PROVE FALSE
    OBVIOUS
  <2>1. PageSize * q >= PageSize * (k + 1)
    BY <1>2, SMT
  <2>2. PageSize * (k + 1) = PageSize * k + PageSize
    BY SMT
  <2> QED BY <1>2, <1>3, <2>1, <2>2, SMT
<1>5. ~ (q <= k - 1)
  <2> SUFFICES ASSUME q <= k - 1 PROVE FALSE
    OBVIOUS
  <2>1. PageSize * q <= PageSize * (k - 1)
    BY <1>2, SMT
  <2>2. PageSize * (k - 1) = PageSize * k - PageSize
    BY SMT
  <2> QED BY <1>2, <1>3, <2>1, <2>2, SMT
<1>6. q = k
  BY <1>2, <1>4, <1>5, SMT
<1>7. m = r
  BY <1>2, <1>3, <1>6, SMT
<1> QED BY <1>6, <1>7 DEF v, q, m

LEMMA AlignedMultiple ==
    ASSUME NEW v \in Int
    PROVE  /\ Aligned(v) <=> v = PageSize * PageOf(v)
           /\ \A k \in Int : v = PageSize * k => Aligned(v) /\ PageOf(v) = k
<1>1. Aligned(v) <=> v = PageSize * PageOf(v)
  <2> DEFINE product == PageSize * PageOf(v)
             rest == v % PageSize
  <2>1. product \in Int /\ rest \in 0 .. PageSize - 1 /\ v = product + rest
    BY Division, Zenon
  <2> HIDE DEF product, rest
  <2>2. rest = 0 <=> v = product
    BY <2>1
  <2> QED BY <2>2 DEF product, rest, Aligned
<1>2. ASSUME NEW k \in Int, v = PageSize * k PROVE Aligned(v) /\ PageOf(v) = k
  <2>1. v = PageSize * k + 0
    BY <1>2, SMT
  <2>2. 0 \in 0 .. PageSize - 1
    OBVIOUS
  <2>3. PageOf(PageSize * k + 0) = k /\ (PageSize * k + 0) % PageSize = 0
    BY <2>2, DivisionUnique
  <2> QED BY <2>1, <2>3 DEF Aligned
<1> QED BY <1>1, <1>2

LEMMA AlignedSum ==
    ASSUME NEW a \in Int, NEW b \in Int, Aligned(a)
    PROVE  (Aligned(a + b) <=> Aligned(b)) /\ (Aligned(a - b) <=> Aligned(b))
<1>1. PICK p \in Int : a = PageSize * p
  BY AlignedMultiple, Division
<1>2. ASSUME Aligned(b) PROVE Aligned(a + b) /\ Aligned(a - b)
  <2>1. PICK q \in Int : b = PageSize * q
    BY <1>2, AlignedMultiple, Division
  <2>2. a + b = PageSize * (p + q) /\ a - b = PageSize * (p - q)
    BY <1>1, <2>1, SMT
  <2>3. p + q \in Int /\ p - q \in Int /\ a + b \in Int /\ a - b \in Int
    OBVIOUS
  <2> QED BY <2>2, <2>3, AlignedMultiple
<1>3. ASSUME Aligned(a + b) PROVE Aligned(b)
  <2>0. a + b \in Int
    OBVIOUS
  <2>1. PICK q \in Int : a + b = PageSize * q
    BY <1>3, <2>0, AlignedMultiple, Division
  <2>2. b = PageSize * (q - p)
    BY <1>1, <2>1, SMT
  <2>3. q - p \in Int
    OBVIOUS
  <2> QED BY <2>2, <2>3, AlignedMultiple
<1>4. ASSUME Aligned(a - b) PROVE Aligned(b)
  <2>0. a - b \in Int
    OBVIOUS
  <2>1. PICK q \in Int : a - b = PageSize * q
    BY <1>4, <2>0, AlignedMultiple, Division
  <2>2. b = PageSize * (p - q)
    BY <1>1, <2>1, SMT
  <2>3. p - q \in Int
    OBVIOUS
  <2> QED BY <2>2, <2>3, AlignedMultiple
<1> QED BY <1>2, <1>3, <1>4

\* Aligned addresses are a page apart
LEMMA AlignedApart ==
    ASSUME NEW a \in Int, NEW b \in Int, Aligned(a), Aligned(b), a < b
    PROVE  a + PageSize <= b
<1>1. PICK p \in Int : a = PageSize * p
  BY AlignedMultiple, Division
<1>2. PICK q \in Int : b = PageSize * q
  BY AlignedMultiple, Division
<1>3. p < q
  <2> SUFFICES ASSUME q <= p PROVE FALSE
    OBVIOUS
  <2>1. PageSize * q <= PageSize * p
    BY SMT
  <2> QED BY <1>1, <1>2, <2>1
<1>4. PageSize * (p + 1) <= PageSize * q
  BY <1>3, SMT
<1>5. PageSize * (p + 1) = PageSize * p + PageSize
  BY SMT
<1> QED BY <1>1, <1>2, <1>4, <1>5, SMT

LEMMA PageDownFacts ==
    ASSUME NEW v \in Int
    PROVE  /\ PageDown(v) \in Int /\ Aligned(PageDown(v))
           /\ PageDown(v) <= v /\ v < PageDown(v) + PageSize
           /\ v \in Nat => PageDown(v) \in Nat
           /\ PageDown(v) = PageSize * PageOf(v)
           /\ Aligned(v) => PageDown(v) = v
<1>1. PageDown(v) = PageSize * PageOf(v) /\ PageDown(v) = v - (v % PageSize)
  <2> DEFINE product == PageSize * PageOf(v)
             rest == v % PageSize
  <2>1. product \in Int /\ rest \in 0 .. PageSize - 1 /\ v = product + rest
    BY Division, Zenon
  <2> HIDE DEF product, rest
  <2>2. v - rest = product
    BY <2>1
  <2> QED BY <2>2 DEF product, rest, PageDown
<1>2. v % PageSize \in 0 .. PageSize - 1 /\ PageOf(v) \in Int
  BY Division
<1>3. PageDown(v) \in Int /\ PageDown(v) <= v /\ v < PageDown(v) + PageSize
  BY <1>1, <1>2
<1>4. Aligned(PageDown(v))
  BY <1>1, <1>2, <1>3, AlignedMultiple
<1>5. ASSUME v \in Nat PROVE PageDown(v) \in Nat
  <2> SUFFICES ASSUME PageDown(v) < 0 PROVE FALSE
    BY <1>3
  <2>1. Aligned(0)
    <3>1. 0 = PageSize * 0
      BY SMT
    <3> QED BY <3>1, AlignedMultiple
  <2> QED BY <1>3, <1>4, <1>5, <2>1, AlignedApart
<1>6. Aligned(v) => PageDown(v) = v
  BY <1>1 DEF Aligned
<1> QED BY <1>1, <1>3, <1>4, <1>5, <1>6

LEMMA PageUpFacts ==
    ASSUME NEW v \in Int
    PROVE  /\ PageUp(v) \in Int /\ Aligned(PageUp(v))
           /\ v <= PageUp(v) /\ PageUp(v) < v + PageSize
           /\ v \in Nat => PageUp(v) \in Nat
           /\ \A a \in Int : Aligned(a) /\ v <= a => PageUp(v) <= a
           /\ Aligned(v) => PageUp(v) = v
<1>1. /\ PageUp(v) \in Int /\ Aligned(PageUp(v))
      /\ PageUp(v) <= v + PageSize - 1 /\ v + PageSize - 1 < PageUp(v) + PageSize
  BY PageDownFacts DEF PageUp
<1>2. v <= PageUp(v) /\ PageUp(v) < v + PageSize
  BY <1>1
<1>3. ASSUME NEW a \in Int, Aligned(a), v <= a PROVE PageUp(v) <= a
  <2> SUFFICES ASSUME a < PageUp(v) PROVE FALSE
    BY <1>1
  <2> QED BY <1>1, <1>2, <1>3, AlignedApart
<1> QED BY <1>1, <1>2, <1>3

\* Moving by whole pages
LEMMA PageUpShift ==
    ASSUME NEW a \in Int, NEW v \in Int, Aligned(a)
    PROVE  PageUp(a + v) = a + PageUp(v)
<1>1. PageUp(v) \in Int /\ Aligned(a + PageUp(v)) /\ v <= PageUp(v) /\ PageUp(v) < v + PageSize
  BY PageUpFacts, AlignedSum
<1>2. /\ PageUp(a + v) \in Int /\ Aligned(PageUp(a + v))
      /\ a + v <= PageUp(a + v) /\ PageUp(a + v) < a + v + PageSize
  BY PageUpFacts
<1>3. ~ (PageUp(a + v) < a + PageUp(v))
  BY <1>1, <1>2, AlignedApart
<1>4. ~ (a + PageUp(v) < PageUp(a + v))
  BY <1>1, <1>2, AlignedApart
<1> QED BY <1>1, <1>2, <1>3, <1>4

LEMMA PageUpMonotone ==
    ASSUME NEW a \in Int, NEW b \in Int, a <= b
    PROVE  PageUp(a) <= PageUp(b)
BY PageUpFacts
-----------------------------------------------------------------------------
(* Cells and pages *)

LEMMA CellFacts ==
    /\ Cells \subseteq Nat
    /\ \A c \in Cells : PageOf(c) \in Pages /\ c < NumPages * PageSize
    /\ \A p \in Pages : PageSize * p \in Cells /\ PageOf(PageSize * p) = p
<1>0. NumPages * PageSize \in Nat /\ NumPages * PageSize = PageSize * NumPages
  BY SMT
<1>1. Cells \subseteq Nat /\ \A c \in Int : c \in Cells <=> c >= 0 /\ c < PageSize * NumPages
  BY <1>0 DEF Cells
<1>2. ASSUME NEW c \in Cells PROVE PageOf(c) \in Pages
  <2>1. /\ PageDown(c) \in Nat /\ PageDown(c) <= c /\ PageDown(c) = PageSize * PageOf(c)
        /\ c < PageDown(c) + PageSize /\ PageOf(c) \in Int /\ c \in Nat
    BY <1>1, PageDownFacts, Division
  <2>2. ~ (PageOf(c) <= -1)
    <3> SUFFICES ASSUME PageOf(c) <= -1 PROVE FALSE
      OBVIOUS
    <3>1. PICK q \in Int : q = PageOf(c)
      BY <2>1
    <3>2. PageSize * q <= PageSize * (-1)
      BY <3>1, SMT
    <3> QED BY <2>1, <3>1, <3>2, SMT
  <2>3. ~ (PageOf(c) >= NumPages)
    <3> SUFFICES ASSUME PageOf(c) >= NumPages PROVE FALSE
      OBVIOUS
    <3>1. PICK q \in Int : q = PageOf(c)
      BY <2>1
    <3>2. PageSize * q >= PageSize * NumPages
      BY <3>1, SMT
    <3> QED BY <1>0, <1>1, <2>1, <3>1, <3>2, SMT
  <2> QED BY <2>1, <2>2, <2>3 DEF Pages
<1>3. ASSUME NEW p \in Pages PROVE PageSize * p \in Cells /\ PageOf(PageSize * p) = p
  <2>1. p \in Nat /\ p + 1 <= NumPages
    BY DEF Pages
  <2>2. PageSize * p \in Nat /\ PageSize * (p + 1) = PageSize * p + PageSize
    BY <2>1, SMT
  <2>3. PageSize * (p + 1) <= PageSize * NumPages
    BY <2>1, SMT
  <2>4. PageSize * p < PageSize * NumPages
    BY <1>0, <2>2, <2>3, SMT
  <2> QED BY <1>1, <2>1, <2>2, <2>4, AlignedMultiple
<1>4. \A c \in Cells : c < NumPages * PageSize
  BY <1>0, <1>1
<1> QED BY <1>1, <1>2, <1>3, <1>4

\* What covers whole pages has a cell if it has its page
LEMMA WholePages ==
    ASSUME NEW a \in Int, NEW len \in Int, Aligned(a), Aligned(len), NEW c \in Cells
    PROVE  PageOf(c) \in PagesOf(a, len) <=> c \in Within(a, len)
<1>1. c \in Within(a, len) => PageOf(c) \in PagesOf(a, len)
  BY DEF PagesOf
<1>2. ASSUME PageOf(c) \in PagesOf(a, len) PROVE c \in Within(a, len)
  <2>1. PICK d \in Cells : a <= d /\ d < a + len /\ PageOf(d) = PageOf(c)
    BY <1>2 DEF PagesOf, Within
  <2>2. c \in Int /\ d \in Int
    BY CellFacts
  <2>3. PICK e \in Int : /\ e = PageDown(c) /\ e = PageDown(d) /\ Aligned(e)
                          /\ e <= c /\ c < e + PageSize /\ e <= d /\ d < e + PageSize
    BY <2>1, <2>2, PageDownFacts
  <2>4. a <= e
    <3> SUFFICES ASSUME e < a PROVE FALSE
      OBVIOUS
    <3> QED BY <2>1, <2>2, <2>3, AlignedApart
  <2>5. e + PageSize <= a + len
    <3>1. Aligned(a + len)
      BY AlignedSum
    <3> QED BY <2>1, <2>2, <2>3, <3>1, AlignedApart
  <2> QED BY <2>2, <2>3, <2>4, <2>5 DEF Within
<1> QED BY <1>1, <1>2
-----------------------------------------------------------------------------
(* Headers *)

LEMMA FileFacts ==
    ASSUME NEW f \in Files
    PROVE  /\ f.segs \in Seq(Header) /\ Len(f.segs) \in Nat /\ DOMAIN f.segs = 1 .. Len(f.segs)
           /\ \A i \in DOMAIN f.segs : f.segs[i] \in Segments(f) /\ f.segs[i] \in Header
           /\ Segments(f) \subseteq Header
           /\ f.tls \in Header /\ f.relro \in Header
           /\ Len(f.relocs) \in Nat /\ DOMAIN f.relocs = 1 .. Len(f.relocs)
           /\ \A i \in DOMAIN f.relocs : f.relocs[i].offset \in Nat /\ f.relocs[i].addend \in Nat
           /\ f.size \in Nat
<1>1. /\ f.segs \in Seq(Header) /\ f.tls \in Header /\ f.relro \in Header /\ f.size \in Nat
      /\ f.relocs \in Seq([offset : Nat, addend : Nat])
  BY DEF FileType
<1>2. Len(f.segs) \in Nat /\ DOMAIN f.segs = 1 .. Len(f.segs)
  BY <1>1, LenProperties
<1>3. \A i \in DOMAIN f.segs : f.segs[i] \in Header /\ f.segs[i] \in Segments(f)
  BY <1>1, <1>2, ElementOfSeq DEF Segments
<1>4. Segments(f) \subseteq Header
  BY <1>3 DEF Segments
<1>5. Len(f.relocs) \in Nat /\ DOMAIN f.relocs = 1 .. Len(f.relocs)
  BY <1>1, LenProperties
<1>6. \A i \in DOMAIN f.relocs : f.relocs[i] \in [offset : Nat, addend : Nat]
  BY <1>1, <1>5, ElementOfSeq
<1> QED BY <1>1, <1>2, <1>3, <1>4, <1>5, <1>6

LEMMA HeaderFacts ==
    ASSUME NEW h \in Header
    PROVE  /\ h.vaddr \in Nat /\ h.off \in Nat /\ h.filesz \in Nat /\ h.memsz \in Nat
           /\ h.prot \in SUBSET {"r", "w", "x"}
BY DEF Header

\* The range of addresses that calculateMemoryLayout computes has all segments
LEMMA RangeFacts ==
    ASSUME NEW f \in Files, Accepted(f)
    PROVE  /\ BaseVAddr(f) \in Nat /\ MaxVAddr(f) \in Nat
           /\ \A s \in Segments(f) : /\ BaseVAddr(f) <= s.vaddr
                                      /\ s.vaddr + s.memsz <= MaxVAddr(f)
                                      /\ s.filesz <= s.memsz
           /\ \E s \in Segments(f) : s.vaddr = BaseVAddr(f)
           /\ MemSize(f) \in Nat /\ MemSize(f) > 0 /\ Aligned(MemSize(f))
           /\ MaxVAddr(f) - BaseVAddr(f) <= MemSize(f)
<1>1. 1 \in DOMAIN f.segs /\ Len(f.segs) \in Nat \ {0}
  BY FileFacts, EmptySeq DEF Accepted
<1>2. \A s \in Segments(f) : /\ s.vaddr \in Nat /\ s.memsz \in Nat /\ s.vaddr + s.memsz \in Nat
                              /\ s.filesz \in Nat
  BY FileFacts, HeaderFacts
<1>3. /\ BaseVAddr(f) \in {s.vaddr : s \in Segments(f)}
      /\ \A s \in Segments(f) : BaseVAddr(f) <= s.vaddr
  <2> DEFINE T == {s.vaddr : s \in Segments(f)}
  <2>1. T \subseteq Nat /\ T # {}
    BY <1>1, <1>2, FileFacts
  <2> HIDE DEF T
  <2>2. \E v \in T : \A w \in T : v <= w
    BY <2>1, Least
  <2> USE DEF T
  <2>3. \E v \in T : \A s \in Segments(f) : v <= s.vaddr
    BY <2>2
  <2> QED BY <2>3 DEF BaseVAddr
<1>4. /\ MaxVAddr(f) \in {s.vaddr + s.memsz : s \in Segments(f)}
      /\ \A s \in Segments(f) : s.vaddr + s.memsz <= MaxVAddr(f)
  <2> DEFINE Ends == {s.vaddr + s.memsz : s \in Segments(f)}
             end == [i \in 1 .. Len(f.segs) |-> f.segs[i].vaddr + f.segs[i].memsz]
  <2>1. \A i \in 1 .. Len(f.segs) : end[i] \in Nat /\ end[i] \in Ends
    BY <1>2, FileFacts
  <2>2. \A e \in Ends : \E i \in 1 .. Len(f.segs) : e = end[i]
    BY FileFacts DEF Segments
  <2> HIDE DEF Ends, end
  <2>3. PICK m \in 1 .. Len(f.segs) : \A i \in 1 .. Len(f.segs) : end[i] <= end[m]
    BY <1>1, <2>1, Greatest
  <2>4. \E e \in Ends : \A d \in Ends : d <= e
    BY <2>1, <2>2, <2>3
  <2>5. MaxVAddr(f) \in Ends /\ \A d \in Ends : d <= MaxVAddr(f)
    BY <2>4 DEF MaxVAddr, Ends
  <2> QED BY <2>5 DEF Ends
<1>5. BaseVAddr(f) \in Nat /\ MaxVAddr(f) \in Nat /\ MaxVAddr(f) - BaseVAddr(f) \in Int
  BY <1>2, <1>3, <1>4
<1>6. MemSize(f) \in Int /\ Aligned(MemSize(f)) /\ MaxVAddr(f) - BaseVAddr(f) <= MemSize(f)
  BY <1>5, PageUpFacts DEF MemSize
<1>7. MemSize(f) > 0 /\ MemSize(f) \in Nat /\ \A s \in Segments(f) : s.filesz <= s.memsz
  BY <1>6 DEF Accepted
<1>8. \E s \in Segments(f) : s.vaddr = BaseVAddr(f)
  BY <1>3
<1> QED BY <1>3, <1>4, <1>5, <1>6, <1>7, <1>8
-----------------------------------------------------------------------------
(* What mmap, munmap and mprotect do to the cells *)

Perms == SUBSET {"r", "w", "x"}
SpaceTyped ==
    /\ DOMAIN mem = Cells /\ prot \in [Pages -> Perms]
    /\ owner \in [Pages -> {"free", "object", "other"}]

SameCell(c) ==
    mem'[c] = mem[c] /\ prot'[PageOf(c)] = prot[PageOf(c)] /\ owner'[PageOf(c)] = owner[PageOf(c)]

LEMMA WholeRange ==
    ASSUME NEW a \in Int, NEW len \in Int, Aligned(a), NEW c \in Cells
    PROVE  PageOf(c) \in PagesOf(a, PageUp(len)) <=> c \in Within(a, PageUp(len))
BY WholePages, PageUpFacts

LEMMA MapFixedCells ==
    ASSUME SpaceTyped, NEW a \in Int, NEW len \in Int, NEW p \in Perms, NEW content, Aligned(a),
           MapFixed(a, len, p, content)
    PROVE  /\ SpaceTyped'
           /\ \A c \in Cells : IF c \in Within(a, PageUp(len))
                THEN mem'[c] = content[c] /\ prot'[PageOf(c)] = p /\ owner'[PageOf(c)] = "object"
                ELSE SameCell(c)
<1> DEFINE covered == PagesOf(a, PageUp(len))
<1>1. /\ mem' = [c \in Cells |-> IF PageOf(c) \in covered THEN content[c] ELSE mem[c]]
      /\ prot' = [q \in Pages |-> IF q \in covered THEN p ELSE prot[q]]
      /\ owner' = [q \in Pages |-> IF q \in covered THEN "object" ELSE owner[q]]
  BY DEF MapFixed
<1>2. \A c \in Cells : PageOf(c) \in Pages /\ (PageOf(c) \in covered <=> c \in Within(a, PageUp(len)))
  BY WholeRange, CellFacts
<1> HIDE DEF covered
<1> QED BY <1>1, <1>2 DEF SpaceTyped, SameCell

LEMMA UnmapCells ==
    ASSUME SpaceTyped, NEW a \in Int, NEW len \in Int, Aligned(a), Unmap(a, len)
    PROVE  /\ SpaceTyped'
           /\ \A c \in Cells : IF c \in Within(a, PageUp(len))
                THEN owner'[PageOf(c)] = "free"
                ELSE SameCell(c)
<1> DEFINE covered == PagesOf(a, PageUp(len))
<1>1. /\ mem' = [c \in Cells |-> IF PageOf(c) \in covered THEN Zero ELSE mem[c]]
      /\ prot' = [q \in Pages |-> IF q \in covered THEN {} ELSE prot[q]]
      /\ owner' = [q \in Pages |-> IF q \in covered THEN "free" ELSE owner[q]]
  BY DEF Unmap
<1>2. \A c \in Cells : PageOf(c) \in Pages /\ (PageOf(c) \in covered <=> c \in Within(a, PageUp(len)))
  BY WholeRange, CellFacts
<1> HIDE DEF covered
<1> QED BY <1>1, <1>2 DEF SpaceTyped, SameCell, Perms

LEMMA ProtectCells ==
    ASSUME SpaceTyped, NEW a \in Int, NEW len \in Int, NEW p \in Perms, Protect(a, len, p)
    PROVE  /\ prot' \in [Pages -> Perms]
           /\ ~ Aligned(a) => prot' = prot
           /\ Aligned(a) => \A c \in Cells :
                prot'[PageOf(c)] = IF c \in Within(a, PageUp(len)) THEN p ELSE prot[PageOf(c)]
<1> DEFINE covered == PagesOf(a, PageUp(len))
<1>1. prot' = [q \in Pages |-> IF Aligned(a) /\ q \in covered THEN p ELSE prot[q]]
  BY DEF Protect
<1>2. Aligned(a) => \A c \in Cells : PageOf(c) \in covered <=> c \in Within(a, PageUp(len))
  BY WholeRange
<1>3. \A c \in Cells : PageOf(c) \in Pages
  BY CellFacts
<1> HIDE DEF covered
<1> QED BY <1>1, <1>2, <1>3 DEF SpaceTyped

LEMMA StoreCells ==
    ASSUME SpaceTyped, NEW cells, NEW content, NEW next, Store(cells, content, next)
    PROVE  /\ DOMAIN mem' = Cells /\ phase' \in {next, "crashed"}
           /\ phase' = "crashed" \/ \A c \in cells : c \in Cells /\ "w" \in prot[PageOf(c)]
           /\ (\A c \in cells : c \in Cells /\ "w" \in prot[PageOf(c)]) => phase' = next
           /\ \A c \in Cells \ cells : mem'[c] = mem[c]
           /\ \A c \in Cells \cap cells :
                mem'[c] = IF \A d \in cells : d \in Cells /\ "w" \in prot[PageOf(d)]
                            THEN content[c] ELSE mem[c]
<1> DEFINE writable == \A d \in cells : d \in Cells /\ "w" \in prot[PageOf(d)]
<1>1. /\ mem' = [c \in Cells |-> IF writable /\ c \in cells THEN content[c] ELSE mem[c]]
      /\ phase' = IF writable THEN next ELSE "crashed"
  BY DEF Store, Goto
<1> HIDE DEF writable
<1>2. /\ DOMAIN mem' = Cells /\ phase' \in {next, "crashed"}
      /\ phase' = "crashed" \/ writable
      /\ writable => phase' = next
      /\ \A c \in Cells \ cells : mem'[c] = mem[c]
      /\ \A c \in Cells \cap cells : mem'[c] = IF writable THEN content[c] ELSE mem[c]
  BY <1>1
<1> QED BY <1>2 DEF writable

\* Where a segment is mapped, when the reservation starts on a page
LEMMA RegionFacts ==
    ASSUME TypeOK, Accepted(file), Aligned(base), NEW s \in Segments(file)
    PROVE  /\ s \in Header /\ BaseVAddr(file) \in Nat /\ MemSize(file) \in Nat /\ base \in Nat
           /\ Leading(s) \in Nat /\ Leading(s) < PageSize
           /\ Leading(s) = 0 <=> Aligned(s.vaddr)
           /\ AlignedFileSize(s) \in Nat /\ Aligned(AlignedFileSize(s))
           /\ AlignedMemSize(s) \in Nat /\ Aligned(AlignedMemSize(s))
           /\ s.filesz + Leading(s) <= AlignedFileSize(s)
           /\ s.memsz + Leading(s) <= AlignedMemSize(s)
           /\ AlignedFileSize(s) <= AlignedMemSize(s)
           /\ MapAddr(s) \in Int /\ (Aligned(MapAddr(s)) <=> Aligned(BaseVAddr(file)))
           /\ MapAddr(s) + Leading(s) = Address(s.vaddr)
           /\ Aligned(BaseVAddr(file)) =>
                base <= MapAddr(s) /\ MapAddr(s) + AlignedMemSize(s) <= base + MemSize(file)
           /\ MapAddr(s) + AlignedMemSize(s) = base - BaseVAddr(file) + PageUp(s.vaddr + s.memsz)
<1> DEFINE down == PageDown(s.vaddr)
           low == BaseVAddr(file)
<1>1. /\ s \in Header /\ s.vaddr \in Nat /\ s.memsz \in Nat /\ s.filesz \in Nat /\ s.filesz <= s.memsz
      /\ low \in Nat /\ low <= s.vaddr /\ MaxVAddr(file) \in Nat
      /\ s.vaddr + s.memsz <= MaxVAddr(file) /\ MemSize(file) \in Nat
      /\ file \in Files /\ base \in Nat
  BY FileFacts, HeaderFacts, RangeFacts, CellFacts DEF TypeOK
<1>2. /\ down \in Nat /\ Aligned(down) /\ down <= s.vaddr /\ s.vaddr < down + PageSize
      /\ Aligned(s.vaddr) => down = s.vaddr
  BY <1>1, PageDownFacts
<1>3. Leading(s) = s.vaddr - down /\ MapAddr(s) = base + down - low /\ Address(s.vaddr) = base + s.vaddr - low
  BY DEF Leading, MapAddr, Address
<1> HIDE DEF down, low
<1>4. /\ Leading(s) \in Nat /\ Leading(s) < PageSize /\ (Leading(s) = 0 <=> Aligned(s.vaddr))
      /\ MapAddr(s) \in Int /\ MapAddr(s) + Leading(s) = Address(s.vaddr)
  <2>1. PICK a, b, v, d \in Nat : a = base /\ b = low /\ v = s.vaddr /\ d = down
    BY <1>1, <1>2
  <2>2. /\ v - d \in Nat /\ v - d < PageSize
        /\ a + d - b \in Int /\ (a + d - b) + (v - d) = a + v - b
    BY <1>2, <2>1
  <2>3. ASSUME Leading(s) = 0 PROVE Aligned(s.vaddr)
    <3>1. v = d
      BY <1>3, <2>1, <2>3
    <3> QED BY <1>2, <2>1, <3>1
  <2>4. ASSUME Aligned(s.vaddr) PROVE Leading(s) = 0
    <3>1. v = d
      BY <1>2, <2>1, <2>4
    <3> QED BY <1>3, <2>1, <3>1
  <2> QED BY <1>3, <2>1, <2>2, <2>3, <2>4
<1>5. /\ AlignedFileSize(s) \in Nat /\ Aligned(AlignedFileSize(s))
      /\ s.filesz + Leading(s) <= AlignedFileSize(s)
  <2>1. s.filesz + Leading(s) \in Nat
    BY <1>1, <1>4
  <2> QED BY <2>1, PageUpFacts DEF AlignedFileSize
<1>6. /\ AlignedMemSize(s) \in Nat /\ Aligned(AlignedMemSize(s))
      /\ s.memsz + Leading(s) <= AlignedMemSize(s)
  <2>1. s.memsz + Leading(s) \in Nat
    BY <1>1, <1>4
  <2> QED BY <2>1, PageUpFacts DEF AlignedMemSize
<1>7. AlignedFileSize(s) <= AlignedMemSize(s)
  <2>1. s.filesz + Leading(s) \in Int /\ s.memsz + Leading(s) \in Int
        /\ s.filesz + Leading(s) <= s.memsz + Leading(s)
    BY <1>1, <1>4
  <2> QED BY <2>1, PageUpMonotone DEF AlignedFileSize, AlignedMemSize
<1>8. Aligned(MapAddr(s)) <=> Aligned(low)
  <2>1. Aligned(base + down)
    BY <1>1, <1>2, AlignedSum
  <2>2. PICK x \in Int : x = base + down
    BY <1>1, <1>2
  <2>3. Aligned(x) /\ low \in Int
    BY <1>1, <2>1, <2>2
  <2>4. Aligned(x - low) <=> Aligned(low)
    BY <2>3, AlignedSum, Zenon
  <2>5. MapAddr(s) = x - low
    BY <1>1, <1>2, <1>3, <2>2
  <2> QED BY <2>4, <2>5
<1>9. down + AlignedMemSize(s) = PageUp(s.vaddr + s.memsz)
  <2>1. s.memsz + Leading(s) \in Int /\ down + (s.memsz + Leading(s)) = s.vaddr + s.memsz
    BY <1>1, <1>2, <1>3
  <2>2. PageUp(down + (s.memsz + Leading(s))) = down + PageUp(s.memsz + Leading(s))
    <3>1. PICK x \in Int : x = s.memsz + Leading(s)
      BY <2>1
    <3>2. down \in Int
      BY <1>2
    <3>3. PageUp(down + x) = down + PageUp(x)
      BY <1>2, <3>2, PageUpShift, Zenon
    <3> QED BY <3>1, <3>3
  <2> QED BY <2>1, <2>2 DEF AlignedMemSize
<1>10. MapAddr(s) + AlignedMemSize(s) = base - low + PageUp(s.vaddr + s.memsz)
  BY <1>1, <1>2, <1>3, <1>6, <1>9
<1>11. ASSUME Aligned(low)
       PROVE  base <= MapAddr(s) /\ MapAddr(s) + AlignedMemSize(s) <= base + MemSize(file)
  <2>1. low <= down
    <3> SUFFICES ASSUME down < low PROVE FALSE
      BY <1>1, <1>2
    <3> QED BY <1>1, <1>2, <1>11, AlignedApart
  <2>2. low + MemSize(file) = PageUp(MaxVAddr(file))
    <3>1. MaxVAddr(file) - low \in Int /\ low + (MaxVAddr(file) - low) = MaxVAddr(file)
      BY <1>1
    <3> QED BY <1>1, <1>11, <3>1, PageUpShift DEF MemSize, low
  <2>3. PageUp(s.vaddr + s.memsz) <= PageUp(MaxVAddr(file)) /\ PageUp(s.vaddr + s.memsz) \in Int
    <3>1. s.vaddr + s.memsz \in Int
      BY <1>1
    <3> QED BY <1>1, <3>1, PageUpMonotone, PageUpFacts
  <2> QED BY <1>1, <1>2, <1>3, <1>10, <2>1, <2>2, <2>3
<1> QED BY <1>1, <1>4, <1>5, <1>6, <1>7, <1>8, <1>10, <1>11 DEF low
-----------------------------------------------------------------------------
(* How far Load has come *)

\* The reservation is there
Held == phase \notin {"parse", "reserve", "failed", "gone"}
Reserved(c) == c \in Within(base, MemSize(file))

ControlInv ==
    /\ TypeOK
    /\ phase \in {"parse", "reserve"} => seg = 1
    /\ phase \notin {"parse", "failed"} => Accepted(file)
    /\ phase \in {"tail", "zero", "protect"} => S.filesz < S.memsz
    /\ phase = "tail" => Aligned(BaseVAddr(file)) \/ AlignedFileSize(S) = 0
    /\ phase \in {"zero", "protect"} => Aligned(BaseVAddr(file))
    /\ phase \in {"tls", "reloc", "ready", "gone"} => seg = Len(file.segs) + 1
    /\ phase \in {"parse", "reserve", "file", "tail", "zero", "protect", "tls"} => done = 0
    /\ phase = "ready" => done = Len(file.relocs)
    /\ Held => Aligned(base) /\ base + MemSize(file) <= NumPages * PageSize

LEMMA SegmentFacts ==
    ASSUME ControlInv, phase \in {"file", "tail", "zero", "protect"}
    PROVE  /\ file \in Files /\ Accepted(file) /\ S \in Segments(file) /\ S \in Header
           /\ seg \in DOMAIN file.segs /\ Aligned(base) /\ base \in Nat
<1>1. file \in Files /\ seg \in DOMAIN file.segs /\ base \in Nat
  BY CellFacts DEF ControlInv, TypeOK
<1>2. S \in Segments(file) /\ S \in Header
  BY <1>1, FileFacts DEF S
<1> QED BY <1>1, <1>2 DEF ControlInv, Held

\* A protection that a header asks for, and the one computeMapProt makes of it
LEMMA ProtFacts ==
    ASSUME NEW s \in Header PROVE s.prot \in Perms /\ MapProt(s) \in Perms
BY HeaderFacts DEF Perms, MapProt

\* A part of the segment's pages is mapped: from a to b, counted from MapAddr
LEMMA PartFacts ==
    ASSUME ControlInv, phase \in {"file", "tail", "zero", "protect"},
           NEW a \in Nat, NEW b \in Nat, a <= b, b <= AlignedMemSize(S),
           Aligned(a), Aligned(b), Aligned(BaseVAddr(file))
    PROVE  /\ MapAddr(S) + a \in Nat /\ Aligned(MapAddr(S) + a)
           /\ b - a \in Nat /\ PageUp(b - a) = b - a
           /\ \A c \in Cells : c \in Within(MapAddr(S) + a, b - a) => Reserved(c)
<1> DEFINE s == S
<1>1. /\ MapAddr(s) \in Int /\ Aligned(MapAddr(s)) /\ base <= MapAddr(s)
      /\ MapAddr(s) + AlignedMemSize(s) <= base + MemSize(file)
      /\ base \in Nat /\ AlignedMemSize(s) \in Nat /\ MemSize(file) \in Nat
  BY SegmentFacts, RegionFacts DEF ControlInv
<1>2. MapAddr(s) + a \in Nat /\ Aligned(MapAddr(s) + a)
  <2>1. PICK m \in Int : m = MapAddr(s) /\ Aligned(m)
    BY <1>1
  <2>2. Aligned(m + a)
    BY <2>1, AlignedSum
  <2>3. MapAddr(s) + a = m + a /\ m + a \in Nat
    BY <1>1, <2>1
  <2> QED BY <2>2, <2>3
<1>3. b - a \in Nat /\ Aligned(b - a)
  BY AlignedSum
<1>4. PageUp(b - a) = b - a
  BY <1>3, PageUpFacts
<1>5. ASSUME NEW c \in Cells, c \in Within(MapAddr(s) + a, b - a) PROVE Reserved(c)
  <2>1. c \in Int /\ MapAddr(s) + a <= c /\ c < MapAddr(s) + a + (b - a)
    BY <1>5, CellFacts DEF Within
  <2>2. base <= c /\ c < base + MemSize(file)
    BY <1>1, <2>1
  <2> QED BY <2>2 DEF Reserved, Within
<1> QED BY <1>2, <1>3, <1>4, <1>5

LEMMA MapPart ==
    ASSUME ControlInv, phase \in {"file", "tail", "zero", "protect"},
           NEW a \in Nat, NEW b \in Nat, a <= b, b <= AlignedMemSize(S),
           Aligned(a), Aligned(b), Aligned(BaseVAddr(file)),
           NEW p \in Perms, NEW content, MapFixed(MapAddr(S) + a, b - a, p, content)
    PROVE  /\ SpaceTyped'
           /\ \A c \in Cells : IF c \in Within(MapAddr(S) + a, b - a)
                THEN /\ mem'[c] = content[c] /\ prot'[PageOf(c)] = p
                     /\ owner'[PageOf(c)] = "object" /\ Reserved(c)
                ELSE SameCell(c)
<1>1. PICK x \in Int : x = MapAddr(S) + a /\ Aligned(x)
  BY PartFacts
<1>2. PICK len \in Int : len = b - a /\ PageUp(len) = len
  BY PartFacts
<1>3. SpaceTyped /\ MapFixed(x, len, p, content)
  BY <1>1, <1>2 DEF ControlInv, TypeOK, SpaceTyped, Perms
<1>4. /\ SpaceTyped'
      /\ \A c \in Cells : IF c \in Within(x, PageUp(len))
                THEN mem'[c] = content[c] /\ prot'[PageOf(c)] = p /\ owner'[PageOf(c)] = "object"
                ELSE SameCell(c)
  BY <1>1, <1>3, MapFixedCells
<1>5. \A c \in Cells : c \in Within(x, len) => Reserved(c)
  BY <1>1, <1>2, PartFacts
<1> QED BY <1>1, <1>2, <1>4, <1>5

LEMMA MapFileStep ==
    ASSUME ControlInv, MapFile
    PROVE  /\ SpaceTyped'
           /\ AlignedFileSize(S) = 0 \/ Aligned(BaseVAddr(file))
           /\ \A c \in Cells : IF c \in Within(MapAddr(S), AlignedFileSize(S))
                THEN /\ mem'[c] = FileCell(file, PageDown(S.off) + c - MapAddr(S))
                     /\ prot'[PageOf(c)] = MapProt(S)
                     /\ owner'[PageOf(c)] = "object" /\ Reserved(c)
                ELSE SameCell(c)
<1> DEFINE size == AlignedFileSize(S)
           fromFile == [c \in Cells |-> FileCell(file, PageDown(S.off) + c - MapAddr(S))]
<1>1. /\ phase = "file" /\ S \in Segments(file) /\ S \in Header /\ Accepted(file)
      /\ MapAddr(S) \in Int /\ size \in Nat /\ Aligned(size) /\ size <= AlignedMemSize(S)
      /\ AlignedMemSize(S) \in Nat
      /\ Aligned(MapAddr(S)) <=> Aligned(BaseVAddr(file))
  <2>1. phase = "file"
    BY DEF MapFile
  <2> QED BY <2>1, SegmentFacts, RegionFacts DEF ControlInv
<1>2. CASE size = 0
  <2>1. UNCHANGED space
    BY <1>2 DEF MapFile
  <2>2. \A c \in Cells : SameCell(c) /\ ~ (c \in Within(MapAddr(S), size))
    BY <1>1, <1>2, <2>1, CellFacts DEF space, SameCell, Within
  <2>3. SpaceTyped'
    BY <2>1 DEF space, SpaceTyped, ControlInv, TypeOK, Perms
  <2> QED BY <1>2, <2>2, <2>3
<1>3. CASE size # 0
  <2>1. Aligned(MapAddr(S)) /\ MapFixed(MapAddr(S), size, MapProt(S), fromFile)
    BY <1>3 DEF MapFile
  <2>2. Aligned(0)
    BY AlignedMultiple DEF Aligned
  <2>3. MapAddr(S) + 0 = MapAddr(S) /\ size - 0 = size /\ 0 <= size /\ 0 \in Nat
    BY <1>1
  <2> HIDE DEF size, fromFile
  <2>4. MapFixed(MapAddr(S) + 0, size - 0, MapProt(S), fromFile)
    BY <2>1, <2>3
  <2>5. /\ SpaceTyped'
        /\ \A c \in Cells : IF c \in Within(MapAddr(S) + 0, size - 0)
                THEN /\ mem'[c] = fromFile[c] /\ prot'[PageOf(c)] = MapProt(S)
                     /\ owner'[PageOf(c)] = "object" /\ Reserved(c)
                ELSE SameCell(c)
    BY <1>1, <2>1, <2>2, <2>3, <2>4, ProtFacts, MapPart
  <2>6. \A c \in Cells : IF c \in Within(MapAddr(S), size)
                THEN /\ mem'[c] = fromFile[c] /\ prot'[PageOf(c)] = MapProt(S)
                     /\ owner'[PageOf(c)] = "object" /\ Reserved(c)
                ELSE SameCell(c)
    BY <2>3, <2>5
  <2>7. \A c \in Cells : fromFile[c] = FileCell(file, PageDown(S.off) + c - MapAddr(S))
    BY DEF fromFile
  <2> QED BY <1>1, <2>1, <2>5, <2>6, <2>7 DEF size
<1> QED BY <1>2, <1>3

LEMMA MapBSSTailStep ==
    ASSUME ControlInv, MapBSSTail
    PROVE  /\ SpaceTyped' /\ Aligned(BaseVAddr(file))
           /\ \A c \in Cells :
                IF c \in Within(MapAddr(S) + AlignedFileSize(S), AlignedMemSize(S) - AlignedFileSize(S))
                THEN /\ mem'[c] = Zero /\ prot'[PageOf(c)] = MapProt(S)
                     /\ owner'[PageOf(c)] = "object" /\ Reserved(c)
                ELSE SameCell(c)
<1> DEFINE small == AlignedFileSize(S)
           large == AlignedMemSize(S)
<1>1. /\ phase = "tail" /\ S \in Segments(file) /\ S \in Header /\ Accepted(file)
      /\ MapAddr(S) \in Int /\ small \in Nat /\ Aligned(small) /\ small <= large
      /\ large \in Nat /\ Aligned(large) /\ S.memsz + Leading(S) <= large
      /\ Leading(S) \in Nat /\ S.memsz \in Nat /\ S.filesz \in Nat /\ S.filesz < S.memsz
      /\ Aligned(MapAddr(S)) <=> Aligned(BaseVAddr(file))
  <2>1. phase = "tail"
    BY DEF MapBSSTail
  <2> QED BY <2>1, SegmentFacts, RegionFacts, HeaderFacts DEF ControlInv
<1>2. Aligned(BaseVAddr(file))
  <2>1. CASE small = 0
    <3>1. large # small
      BY <1>1, <2>1
    <3> QED BY <1>1, <3>1 DEF MapBSSTail
  <2> QED BY <1>1, <2>1 DEF ControlInv
<1>3. CASE large = small
  <2>1. UNCHANGED space
    BY <1>3 DEF MapBSSTail
  <2>2. \A c \in Cells : SameCell(c) /\ ~ (c \in Within(MapAddr(S) + small, large - small))
    BY <1>1, <1>3, <2>1, CellFacts DEF space, SameCell, Within
  <2>3. SpaceTyped'
    BY <2>1 DEF space, SpaceTyped, ControlInv, TypeOK, Perms
  <2> QED BY <1>2, <2>2, <2>3
<1>4. CASE large # small
  <2>1. MapFixed(MapAddr(S) + small, large - small, MapProt(S), Zeroes)
    BY <1>4 DEF MapBSSTail
  <2> HIDE DEF small, large
  <2>2. large <= AlignedMemSize(S)
    BY <1>1 DEF large
  <2>3. MapProt(S) \in Perms
    BY <1>1, ProtFacts
  <2>4. /\ SpaceTyped'
        /\ \A c \in Cells : IF c \in Within(MapAddr(S) + small, large - small)
                THEN /\ mem'[c] = Zeroes[c] /\ prot'[PageOf(c)] = MapProt(S)
                     /\ owner'[PageOf(c)] = "object" /\ Reserved(c)
                ELSE SameCell(c)
    BY <1>1, <1>2, <2>1, <2>2, <2>3, MapPart
  <2>5. \A c \in Cells : Zeroes[c] = Zero
    BY DEF Zeroes
  <2> QED BY <1>2, <2>4, <2>5 DEF small, large
<1> QED BY <1>3, <1>4

\* The cells between the segment's last byte from the file and the end of that page
BSSHead == {c \in Cells : BSSStart(S) <= c /\ c < MapAddr(S) + AlignedFileSize(S)}

LEMMA ZeroBSSPageStep ==
    ASSUME ControlInv, ZeroBSSPage
    PROVE  /\ SpaceTyped' /\ prot' = prot /\ owner' = owner /\ phase' \in {"protect", "crashed"}
           /\ (\A c \in BSSHead : "w" \in prot[PageOf(c)]) => phase' = "protect"
           /\ \A c \in BSSHead : Reserved(c) /\ c \in Within(MapAddr(S), AlignedFileSize(S))
           /\ phase' = "protect" => \A c \in Cells : mem'[c] = IF c \in BSSHead THEN Zero ELSE mem[c]
           /\ \A c \in Cells \ BSSHead : mem'[c] = mem[c]
<1>1. /\ phase = "zero" /\ Store(BSSHead, Zeroes, "protect") /\ prot' = prot /\ owner' = owner
      /\ BSSHead \subseteq Cells /\ SpaceTyped
  BY DEF ZeroBSSPage, BSSHead, ControlInv, TypeOK, SpaceTyped, Perms
<1>2. /\ DOMAIN mem' = Cells /\ phase' \in {"protect", "crashed"}
      /\ phase' = "crashed" \/ \A c \in BSSHead : c \in Cells /\ "w" \in prot[PageOf(c)]
      /\ (\A c \in BSSHead : c \in Cells /\ "w" \in prot[PageOf(c)]) => phase' = "protect"
      /\ \A c \in Cells \ BSSHead : mem'[c] = mem[c]
      /\ \A c \in Cells \cap BSSHead :
            mem'[c] = IF \A d \in BSSHead : d \in Cells /\ "w" \in prot[PageOf(d)]
                        THEN Zeroes[c] ELSE mem[c]
  BY <1>1, StoreCells
<1>3. phase' = "protect" => \A c \in Cells : mem'[c] = IF c \in BSSHead THEN Zero ELSE mem[c]
  BY <1>2 DEF Zeroes
<1>4. ASSUME NEW c \in BSSHead PROVE Reserved(c) /\ c \in Within(MapAddr(S), AlignedFileSize(S))
  <2>1. /\ S \in Segments(file) /\ S \in Header /\ Aligned(base) /\ Accepted(file)
        /\ S.filesz \in Nat
    BY <1>1, SegmentFacts, HeaderFacts
  <2>2. /\ Leading(S) \in Nat /\ AlignedFileSize(S) \in Nat /\ AlignedMemSize(S) \in Nat
        /\ AlignedFileSize(S) <= AlignedMemSize(S) /\ MapAddr(S) \in Int
        /\ base \in Nat /\ MemSize(file) \in Nat
        /\ base <= MapAddr(S) /\ MapAddr(S) + AlignedMemSize(S) <= base + MemSize(file)
    BY <1>1, <2>1, RegionFacts DEF ControlInv
  <2>3. c \in Cells /\ c \in Int /\ MapAddr(S) + Leading(S) + S.filesz <= c
        /\ c < MapAddr(S) + AlignedFileSize(S)
    BY CellFacts DEF BSSHead, BSSStart
  <2> QED BY <2>1, <2>2, <2>3 DEF Reserved, Within
<1>5. SpaceTyped'
  BY <1>1, <1>2 DEF SpaceTyped
<1> QED BY <1>1, <1>2, <1>3, <1>4, <1>5

LEMMA ProtectSegmentStep ==
    ASSUME ControlInv, ProtectSegment
    PROVE  /\ SpaceTyped' /\ mem' = mem /\ owner' = owner
           /\ \A c \in Cells :
                /\ c \in Within(MapAddr(S), AlignedMemSize(S)) => Reserved(c)
                /\ prot'[PageOf(c)] =
                    IF S.prot # MapProt(S) /\ c \in Within(MapAddr(S), AlignedMemSize(S))
                      THEN S.prot ELSE prot[PageOf(c)]
<1> DEFINE size == AlignedMemSize(S)
<1>1. /\ phase = "protect" /\ S \in Segments(file) /\ S \in Header /\ Accepted(file)
      /\ MapAddr(S) \in Int /\ size \in Nat /\ Aligned(size) /\ Aligned(MapAddr(S))
      /\ base \in Nat /\ MemSize(file) \in Nat
      /\ base <= MapAddr(S) /\ MapAddr(S) + size <= base + MemSize(file)
  <2>1. phase = "protect"
    BY DEF ProtectSegment
  <2> QED BY <2>1, SegmentFacts, RegionFacts DEF ControlInv
<1>2. mem' = mem /\ owner' = owner /\ SpaceTyped
  BY DEF ProtectSegment, ControlInv, TypeOK, SpaceTyped, Perms
<1>3. ASSUME NEW c \in Cells, c \in Within(MapAddr(S), size) PROVE Reserved(c)
  <2>1. c \in Int /\ MapAddr(S) <= c /\ c < MapAddr(S) + size
    BY <1>3, CellFacts DEF Within
  <2> QED BY <1>1, <2>1 DEF Reserved, Within
<1>4. CASE S.prot = MapProt(S)
  <2>1. prot' = prot
    BY <1>4 DEF ProtectSegment
  <2>2. SpaceTyped'
    BY <1>2, <2>1 DEF SpaceTyped
  <2> QED BY <1>2, <1>3, <1>4, <2>1, <2>2
<1>5. CASE S.prot # MapProt(S)
  <2>1. Protect(MapAddr(S), size, S.prot)
    BY <1>5 DEF ProtectSegment
  <2>2. PageUp(size) = size /\ S.prot \in Perms /\ size \in Int
    BY <1>1, PageUpFacts, ProtFacts
  <2> HIDE DEF size
  <2>3. /\ prot' \in [Pages -> Perms]
        /\ \A c \in Cells :
              prot'[PageOf(c)] = IF c \in Within(MapAddr(S), size) THEN S.prot ELSE prot[PageOf(c)]
    BY <1>1, <1>2, <2>1, <2>2, ProtectCells
  <2>4. SpaceTyped'
    BY <1>2, <2>3 DEF SpaceTyped
  <2> QED BY <1>2, <1>3, <1>5, <2>3, <2>4 DEF size
<1> QED BY <1>4, <1>5

\* The cells that the next relocation writes, if its word is in the address space
RelocCell == base + R.offset - BaseVAddr(file)
RelocWord == RelocCell .. RelocCell + WordSize - 1

\* The first of them is in the reservation, the others are or lie behind it
LEMMA RelocateStep ==
    ASSUME ControlInv, Relocate
    PROVE  /\ SpaceTyped' /\ prot' = prot /\ owner' = owner /\ phase' \in {"reloc", "crashed"}
           /\ done + 1 \in DOMAIN file.relocs /\ R.offset \in Nat /\ R.addend \in Nat
           /\ RelocCell \in Nat
           /\ \A c \in Cells \cap RelocWord : Reserved(c) \/ c >= base + MemSize(file)
           /\ (\A c \in RelocWord : c \in Cells /\ "w" \in prot[PageOf(c)]) => phase' = "reloc"
           /\ phase' = "reloc" => \A c \in Cells :
                mem'[c] = IF c \in RelocWord THEN Pointer(base + R.addend, c - RelocCell) ELSE mem[c]
           /\ \A c \in Cells : c \notin RelocWord => mem'[c] = mem[c]
<1> DEFINE value == [c \in Cells |-> Pointer(base + R.addend, c - RelocCell)]
<1>1. /\ phase = "reloc" /\ Store(RelocWord, value, "reloc") /\ prot' = prot /\ owner' = owner
      /\ done < Len(file.relocs) /\ InImage(R) /\ SpaceTyped
  BY DEF Relocate, RelocCell, RelocWord, ControlInv, TypeOK, SpaceTyped, Perms
<1>2. /\ file \in Files /\ Accepted(file) /\ base \in Nat /\ done \in 0 .. Len(file.relocs)
      /\ base + MemSize(file) <= NumPages * PageSize
  BY <1>1, CellFacts DEF ControlInv, TypeOK, Held
<1>3. done + 1 \in DOMAIN file.relocs /\ R.offset \in Nat /\ R.addend \in Nat
  <2>1. done + 1 \in DOMAIN file.relocs
    BY <1>1, <1>2, FileFacts
  <2> QED BY <1>2, <2>1, FileFacts DEF R
<1>4. /\ BaseVAddr(file) \in Nat /\ MemSize(file) \in Nat
      /\ BaseVAddr(file) <= R.offset /\ R.offset < BaseVAddr(file) + MemSize(file)
  BY <1>1, <1>2, <1>3, RangeFacts DEF InImage
<1>5. RelocCell \in Nat /\ base <= RelocCell
  <2>1. PICK b, v, n, c \in Nat :
          b = BaseVAddr(file) /\ v = R.offset /\ n = MemSize(file) /\ c = base
    BY <1>2, <1>3, <1>4
  <2>2. c + v - b \in Nat /\ c <= c + v - b
    BY <1>4, <2>1
  <2> QED BY <2>1, <2>2 DEF RelocCell
<1>6. ASSUME NEW c \in Cells \cap RelocWord PROVE Reserved(c) \/ c >= base + MemSize(file)
  <2>1. c \in Int /\ RelocCell <= c /\ c \in Cells
    BY <1>5, CellFacts DEF RelocWord
  <2>2. base <= c
    BY <1>2, <1>5, <2>1
  <2> QED BY <1>2, <1>4, <2>1, <2>2 DEF Reserved, Within
<1> HIDE DEF value
<1>7. /\ DOMAIN mem' = Cells /\ phase' \in {"reloc", "crashed"}
      /\ phase' = "crashed" \/ \A c \in RelocWord : c \in Cells /\ "w" \in prot[PageOf(c)]
      /\ (\A c \in RelocWord : c \in Cells /\ "w" \in prot[PageOf(c)]) => phase' = "reloc"
      /\ \A c \in Cells \ RelocWord : mem'[c] = mem[c]
      /\ \A c \in Cells \cap RelocWord :
            mem'[c] = IF \A d \in RelocWord : d \in Cells /\ "w" \in prot[PageOf(d)]
                        THEN value[c] ELSE mem[c]
  BY <1>1, StoreCells
<1>8. \A c \in Cells : value[c] = Pointer(base + R.addend, c - RelocCell)
  BY DEF value
<1>9. SpaceTyped'
  BY <1>1, <1>7 DEF SpaceTyped
<1>10. phase' = "reloc" => \A c \in Cells :
         mem'[c] = IF c \in RelocWord THEN Pointer(base + R.addend, c - RelocCell) ELSE mem[c]
  BY <1>7, <1>8
<1> QED BY <1>1, <1>3, <1>5, <1>6, <1>7, <1>9, <1>10

LEMMA ApplyRELROStep ==
    ASSUME ControlInv, ApplyRELRO
    PROVE  /\ SpaceTyped' /\ mem' = mem /\ owner' = owner
           /\ \A c \in Cells : prot'[PageOf(c)] = prot[PageOf(c)] \/
                /\ file.relro.memsz > 0 /\ Aligned(file.relro.vaddr - BaseVAddr(file))
                /\ BaseVAddr(file) <= file.relro.vaddr
                /\ c \in Within(base + file.relro.vaddr - BaseVAddr(file), PageUp(file.relro.memsz))
<1> DEFINE h == file.relro
           low == BaseVAddr(file)
<1>1. /\ phase = "reloc" /\ mem' = mem /\ owner' = owner /\ SpaceTyped /\ file \in Files
      /\ Accepted(file) /\ Aligned(base) /\ base \in Nat
  BY CellFacts DEF ApplyRELRO, ControlInv, TypeOK, SpaceTyped, Perms, Held
<1>2. h \in Header /\ h.vaddr \in Nat /\ h.memsz \in Nat /\ low \in Nat
  BY <1>1, FileFacts, HeaderFacts, RangeFacts
<1>3. CASE h.memsz > 0 /\ h.vaddr >= low
  <2>0. CASE prot' = prot
    <3>1. SpaceTyped'
      BY <1>1, <2>0 DEF SpaceTyped
    <3> QED BY <1>1, <2>0, <3>1
  <2>1. SUFFICES ASSUME Protect(base + h.vaddr - low, PageUp(h.memsz), {"r"})
                 PROVE  /\ SpaceTyped' /\ mem' = mem /\ owner' = owner
                        /\ \A c \in Cells : prot'[PageOf(c)] = prot[PageOf(c)] \/
                            /\ h.memsz > 0 /\ Aligned(h.vaddr - low) /\ low <= h.vaddr
                            /\ c \in Within(base + h.vaddr - low, PageUp(h.memsz))
    BY <1>3, <2>0 DEF ApplyRELRO
  <2>2. PICK a \in Int : a = base + h.vaddr - low
    BY <1>1, <1>2
  <2>3. PICK d \in Int : d = h.vaddr - low
    BY <1>2
  <2>4. PICK len \in Int : len = PageUp(h.memsz) /\ PageUp(len) = len
    BY <1>2, PageUpFacts
  <2>5. {"r"} \in Perms
    BY DEF Perms
  <2>6. Protect(a, len, {"r"})
    BY <2>1, <2>2, <2>4
  <2>7. /\ prot' \in [Pages -> Perms]
        /\ ~ Aligned(a) => prot' = prot
        /\ Aligned(a) => \A c \in Cells :
              prot'[PageOf(c)] = IF c \in Within(a, PageUp(len)) THEN {"r"} ELSE prot[PageOf(c)]
    BY <1>1, <2>5, <2>6, ProtectCells
  <2>8. Aligned(a) => Aligned(d)
    <3>1. a = base + d
      BY <1>1, <1>2, <2>2, <2>3
    <3>2. base \in Int
      BY <1>1
    <3>3. Aligned(base + d) <=> Aligned(d)
      BY <1>1, <3>2, AlignedSum, Zenon
    <3> QED BY <3>1, <3>3, Zenon
  <2>9. SpaceTyped'
    BY <1>1, <2>7 DEF SpaceTyped
  <2> QED BY <1>1, <1>3, <2>2, <2>3, <2>4, <2>7, <2>8, <2>9
<1>4. CASE ~ (h.memsz > 0 /\ h.vaddr >= low)
  <2>1. prot' = prot
    BY <1>4 DEF ApplyRELRO
  <2>2. SpaceTyped'
    BY <1>1, <2>1 DEF SpaceTyped
  <2> QED BY <1>1, <2>1, <2>2
<1> QED BY <1>3, <1>4

LEMMA ReleaseStep ==
    ASSUME ControlInv, Held, Release
    PROVE  SpaceTyped' /\ \A c \in Cells : IF Reserved(c) THEN owner'[PageOf(c)] = "free" ELSE SameCell(c)
<1>1. /\ file \in Files /\ Accepted(file) /\ Aligned(base) /\ base \in Int /\ SpaceTyped
  BY CellFacts DEF ControlInv, TypeOK, SpaceTyped, Perms, Held
<1>2. MemSize(file) \in Int /\ PageUp(MemSize(file)) = MemSize(file)
  BY <1>1, RangeFacts, PageUpFacts
<1>3. Unmap(base, MemSize(file))
  BY DEF Release
<1>4. /\ SpaceTyped'
      /\ \A c \in Cells : IF c \in Within(base, PageUp(MemSize(file)))
            THEN owner'[PageOf(c)] = "free"
            ELSE SameCell(c)
  BY <1>1, <1>2, <1>3, UnmapCells
<1> QED BY <1>2, <1>4 DEF Reserved

LEMMA ReserveStep ==
    ASSUME ControlInv, Reserve
    PROVE  /\ SpaceTyped' /\ base' \in Cells /\ Aligned(base')
           /\ base' + MemSize(file) <= NumPages * PageSize
           /\ \A c \in Cells : IF c \in Within(base', MemSize(file))
                THEN owner[PageOf(c)] = "free" /\ owner'[PageOf(c)] = "object"
                ELSE SameCell(c)
<1>1. /\ phase = "reserve" /\ file \in Files /\ Accepted(file) /\ SpaceTyped
  BY DEF Reserve, ControlInv, TypeOK, SpaceTyped, Perms
<1>2. PICK len \in Int : len = MemSize(file) /\ Aligned(len) /\ PageUp(len) = len
  BY <1>1, RangeFacts, PageUpFacts
<1>3. PICK b \in Cells : /\ Aligned(b) /\ b + len <= NumPages * PageSize
                         /\ \A p \in PagesOf(b, len) : owner[p] = "free"
                         /\ MapFixed(b, len, {}, Zeroes) /\ base' = b
  BY <1>2 DEF Reserve
<1>4. b \in Int /\ {} \in Perms
  BY CellFacts DEF Perms
<1>5. /\ SpaceTyped'
      /\ \A c \in Cells : IF c \in Within(b, PageUp(len))
            THEN owner'[PageOf(c)] = "object"
            ELSE SameCell(c)
  BY <1>1, <1>3, <1>4, MapFixedCells
<1>6. \A c \in Cells : c \in Within(b, len) => owner[PageOf(c)] = "free"
  BY <1>2, <1>3, <1>4, WholePages
<1> QED BY <1>2, <1>3, <1>5, <1>6

LEMMA OtherMapsStep ==
    ASSUME ControlInv, OtherMaps
    PROVE  /\ SpaceTyped' /\ UNCHANGED loadVars
           /\ \E p \in Pages :
                /\ owner[p] = "free" /\ others' = others \cup {p}
                /\ \A c \in Cells : IF PageOf(c) = p
                     THEN /\ owner'[PageOf(c)] = "other" /\ prot'[PageOf(c)] = {"r", "w"}
                          /\ mem'[c] = Foreign
                     ELSE SameCell(c)
<1>1. PICK p \in Pages :
        /\ owner[p] = "free" /\ others' = others \cup {p}
        /\ owner' = [owner EXCEPT ![p] = "other"]
        /\ prot' = [prot EXCEPT ![p] = {"r", "w"}]
        /\ mem' = [c \in Cells |-> IF PageOf(c) = p THEN Foreign ELSE mem[c]]
  BY DEF OtherMaps
<1>2. SpaceTyped /\ UNCHANGED loadVars /\ {"r", "w"} \in Perms
  BY DEF OtherMaps, ControlInv, TypeOK, SpaceTyped, Perms
<1>3. \A c \in Cells : PageOf(c) \in Pages
  BY CellFacts
<1>4. SpaceTyped'
  BY <1>1, <1>2 DEF SpaceTyped
<1>5. \A c \in Cells : IF PageOf(c) = p
        THEN /\ owner'[PageOf(c)] = "other" /\ prot'[PageOf(c)] = {"r", "w"} /\ mem'[c] = Foreign
        ELSE SameCell(c)
  BY <1>1, <1>2, <1>3 DEF SpaceTyped, SameCell
<1> QED BY <1>1, <1>2, <1>4, <1>5

LEMMA SpaceStep ==
    ASSUME ControlInv, Next
    PROVE  SpaceTyped'
<1>1. ASSUME UNCHANGED space PROVE SpaceTyped'
  BY <1>1 DEF space, SpaceTyped, ControlInv, TypeOK, Perms
<1>3. ASSUME Release, Held PROVE SpaceTyped'
  BY <1>3, ReleaseStep
<1>4. CASE Parse \/ ReserveFails \/ SetupTLS
  BY <1>1, <1>4 DEF Parse, ReserveFails, SetupTLS
<1>5. CASE MapFileFails \/ MapBSSFails \/ ProtectFails \/ RelocateFails
  BY <1>3, <1>5 DEF MapFileFails, MapBSSFails, ProtectFails, RelocateFails, Fail, Held
<1>6. CASE Unload
  BY <1>3, <1>6 DEF Unload, Held
<1>7. CASE Reserve \/ MapFile \/ MapBSSTail \/ ZeroBSSPage
  <2>1. CASE Reserve
    BY <2>1, ReserveStep
  <2>2. CASE MapFile
    BY <2>2, MapFileStep
  <2>3. CASE MapBSSTail
    BY <2>3, MapBSSTailStep
  <2>4. CASE ZeroBSSPage
    BY <2>4, ZeroBSSPageStep
  <2> QED BY <1>7, <2>1, <2>2, <2>3, <2>4
<1>8. CASE ProtectSegment \/ Relocate \/ ApplyRELRO \/ OtherMaps
  BY <1>8, ProtectSegmentStep, RelocateStep, ApplyRELROStep, OtherMapsStep
<1> QED BY <1>4, <1>5, <1>6, <1>7, <1>8 DEF Next, Load

LEMMA ControlStep ==
    ASSUME ControlInv, [Next]_vars
    PROVE  ControlInv'
<1>1. CASE UNCHANGED vars
  BY <1>1 DEF vars, loadVars, space, ControlInv, TypeOK, Held, S
<1>2. CASE Next
  <2>1. SpaceTyped'
    BY <1>2, SpaceStep
  <2>2. /\ file' = file /\ file \in Files /\ base \in Cells /\ template \in Nat
        /\ done \in 0 .. Len(file.relocs) /\ Len(file.relocs) \in Nat
        /\ Len(file.segs) \in Nat /\ DOMAIN file.segs = 1 .. Len(file.segs)
        /\ others \subseteq Pages /\ seg \in 1 .. Len(file.segs) + 1
    BY <1>2, FileFacts DEF Next, Load, Parse, Reserve, ReserveFails, MapFile, MapFileFails, MapBSSTail,
        MapBSSFails, ZeroBSSPage, ProtectSegment, ProtectFails, SetupTLS, Relocate, RelocateFails,
        ApplyRELRO, Unload, OtherMaps, Fail, loadVars, ControlInv, TypeOK
  <2>3. CASE Parse \/ ReserveFails
    <3>1. /\ phase' \in {"reserve", "failed"} /\ (phase' = "reserve" => Accepted(file)) /\ seg = 1
          /\ done = 0 /\ UNCHANGED <<seg, base, template, done, others>>
      BY <2>3 DEF Parse, ReserveFails, Goto, ControlInv
    <3> QED BY <2>1, <2>2, <3>1 DEF ControlInv, TypeOK, SpaceTyped, Perms, Phases, Held
  <2>4. CASE Reserve
    <3>1. /\ phase = "reserve" /\ phase' = "file" /\ seg = 1
          /\ UNCHANGED <<seg, template, done, others>> /\ Accepted(file)
      BY <2>4 DEF Reserve, Goto, ControlInv
    <3>2. 1 \in DOMAIN file.segs
      BY <2>2, <3>1, FileFacts, EmptySeq DEF Accepted
    <3>3. base' \in Cells /\ Aligned(base') /\ base' + MemSize(file) <= NumPages * PageSize
      BY <2>4, ReserveStep
    <3> QED BY <2>1, <2>2, <3>1, <3>2, <3>3 DEF ControlInv, TypeOK, SpaceTyped, Perms, Phases, Held
  <2>5. CASE MapFileFails \/ MapBSSFails \/ ProtectFails \/ RelocateFails
    <3>1. phase' = "failed" /\ UNCHANGED <<seg, base, template, done, others>>
      BY <2>5 DEF MapFileFails, MapBSSFails, ProtectFails, RelocateFails, Fail, Goto
    <3> QED BY <2>1, <2>2, <3>1 DEF ControlInv, TypeOK, SpaceTyped, Perms, Phases, Held
  <2>6. ASSUME phase \in {"file", "protect"}, NextSegment, UNCHANGED <<base, template, done, others>>
        PROVE  ControlInv'
    <3>1. /\ seg \in DOMAIN file.segs /\ seg' = seg + 1 /\ seg' \in 1 .. Len(file.segs) + 1
          /\ \/ phase' = "file" /\ seg' \in DOMAIN file.segs
             \/ phase' = "tls" /\ seg' = Len(file.segs) + 1
      BY <2>2, <2>6 DEF NextSegment, Goto, ControlInv, TypeOK
    <3>2. Aligned(base) /\ base + MemSize(file) <= NumPages * PageSize /\ Accepted(file)
      BY <2>6 DEF ControlInv, Held
    <3> QED BY <2>1, <2>2, <2>6, <3>1, <3>2 DEF ControlInv, TypeOK, SpaceTyped, Perms, Phases
  <2>7. CASE MapFile
    <3>1. phase = "file" /\ UNCHANGED <<base, template, done, others>>
      BY <2>7 DEF MapFile
    <3>2. CASE S.memsz > S.filesz
      <4>1. phase' = "tail" /\ seg' = seg
        BY <2>7, <3>2 DEF MapFile, Goto
      <4>2. seg \in DOMAIN file.segs
        BY <3>1 DEF ControlInv, TypeOK
      <4>3. S' = S
        BY <2>2, <4>1 DEF S
      <4>4. Aligned(BaseVAddr(file)) \/ AlignedFileSize(S) = 0
        BY <2>7, MapFileStep
      <4>5. S.filesz < S.memsz
        BY <3>1, <3>2, SegmentFacts, HeaderFacts
      <4>6. Aligned(base) /\ base + MemSize(file) <= NumPages * PageSize /\ Accepted(file)
        BY <3>1 DEF ControlInv, Held
      <4> QED BY <2>1, <2>2, <3>1, <4>1, <4>2, <4>3, <4>4, <4>5, <4>6
           DEF ControlInv, TypeOK, SpaceTyped, Perms, Phases, S
    <3> QED BY <2>6, <2>7, <3>1, <3>2 DEF MapFile
  <2>8. CASE MapBSSTail \/ ZeroBSSPage
    <3>1. /\ phase \in {"tail", "zero"} /\ UNCHANGED <<seg, base, template, done, others>>
          /\ phase' \in {"zero", "protect", "crashed"}
      BY <2>8, ZeroBSSPageStep DEF MapBSSTail, ZeroBSSPage, Goto
    <3>2. seg \in DOMAIN file.segs /\ S.filesz < S.memsz
      BY <3>1 DEF ControlInv, TypeOK
    <3>3. Aligned(BaseVAddr(file))
      BY <2>8, MapBSSTailStep DEF ControlInv, ZeroBSSPage
    <3>4. Aligned(base) /\ base + MemSize(file) <= NumPages * PageSize /\ Accepted(file)
      BY <3>1 DEF ControlInv, Held
    <3>5. S' = S
      BY <2>2, <3>1 DEF S
    <3> QED BY <2>1, <2>2, <3>1, <3>2, <3>3, <3>4, <3>5
         DEF ControlInv, TypeOK, SpaceTyped, Perms, Phases, S
  <2>9. CASE ProtectSegment
    BY <2>6, <2>9 DEF ProtectSegment
  <2>10. CASE SetupTLS
    <3>1. phase = "tls" /\ phase' = "reloc" /\ UNCHANGED <<seg, base, done, others>>
      BY <2>10 DEF SetupTLS, Goto
    <3>2. template' \in Nat
      <4> DEFINE holders == {i \in DOMAIN file.segs : HoldsTemplate(i)}
                 first == CHOOSE i \in holders : \A j \in holders : i <= j
      <4>1. template' = IF file.tls.filesz = 0 \/ holders = {} THEN 0 ELSE TemplateIn(first)
        BY <2>10 DEF SetupTLS
      <4>2. CASE holders # {}
        <5>1. holders \subseteq Nat
          BY <2>2
        <5> HIDE DEF holders
        <5>2. first \in holders
          BY <4>2, <5>1, Least
        <5> USE DEF holders
        <5>3. PICK i \in DOMAIN file.segs : i = first /\ HoldsTemplate(i)
          BY <5>2
        <5> HIDE DEF holders, first
        <5>4. TemplateIn(i) \in Nat
          <6> DEFINE s == file.segs[i]
          <6>1. /\ s \in Segments(file) /\ s \in Header /\ file.tls \in Header
                /\ Aligned(base) /\ Accepted(file)
            BY <2>2, <3>1, FileFacts DEF ControlInv, Held
          <6>2. s.vaddr \in Nat /\ file.tls.vaddr \in Nat
            BY <6>1, HeaderFacts
          <6>3. /\ BaseVAddr(file) \in Nat /\ base \in Nat
                /\ MapAddr(s) + Leading(s) = base + s.vaddr - BaseVAddr(file)
                /\ MapAddr(s) \in Int /\ Leading(s) \in Nat
            BY <6>1, RegionFacts DEF Address, ControlInv
          <6>4. BaseVAddr(file) + s.vaddr <= file.tls.vaddr
            BY <5>3 DEF HoldsTemplate
          <6>5. TemplateIn(i) = MapAddr(s) + Leading(s) + file.tls.vaddr - s.vaddr
            BY DEF TemplateIn
          <6> HIDE DEF s
          <6> QED BY <6>2, <6>3, <6>4, <6>5
        <5> QED BY <4>1, <5>3, <5>4
      <4> QED BY <4>1, <4>2
    <3>3. Aligned(base) /\ base + MemSize(file) <= NumPages * PageSize /\ Accepted(file)
      BY <3>1 DEF ControlInv, Held
    <3>4. seg = Len(file.segs) + 1
      BY <3>1 DEF ControlInv
    <3> QED BY <2>1, <2>2, <3>1, <3>2, <3>3, <3>4 DEF ControlInv, TypeOK, SpaceTyped, Perms, Phases
  <2>11. CASE Relocate \/ ApplyRELRO
    <3>1. /\ phase = "reloc" /\ UNCHANGED <<seg, base, template, others>>
          /\ phase' \in {"reloc", "ready", "crashed"} /\ done' \in 0 .. Len(file.relocs)
          /\ phase' = "ready" => done' = Len(file.relocs)
      BY <2>2, <2>11, RelocateStep DEF Relocate, ApplyRELRO, Goto
    <3>2. Aligned(base) /\ base + MemSize(file) <= NumPages * PageSize /\ Accepted(file)
      BY <3>1 DEF ControlInv, Held
    <3>3. seg = Len(file.segs) + 1
      BY <3>1 DEF ControlInv
    <3> QED BY <2>1, <2>2, <3>1, <3>2, <3>3 DEF ControlInv, TypeOK, SpaceTyped, Perms, Phases
  <2>12. CASE Unload
    <3>1. phase = "ready" /\ phase' = "gone" /\ UNCHANGED <<seg, base, template, done, others>>
      BY <2>12 DEF Unload, Goto
    <3> QED BY <2>1, <2>2, <3>1 DEF ControlInv, TypeOK, SpaceTyped, Perms, Phases, Held
  <2>13. CASE OtherMaps
    <3>1. UNCHANGED loadVars /\ others' \subseteq Pages
      BY <2>2, <2>13, OtherMapsStep
    <3>2. S' = S
      BY <3>1 DEF loadVars, S
    <3> QED BY <2>1, <3>1, <3>2 DEF loadVars, ControlInv, TypeOK, SpaceTyped, Perms, Held, S
  <2> QED BY <1>2, <2>3, <2>4, <2>5, <2>7, <2>8, <2>9, <2>10, <2>11, <2>12, <2>13 DEF Next, Load
<1> QED BY <1>1, <1>2
-----------------------------------------------------------------------------
(* Whose page is whose *)

OwnerInv == \A c \in Cells : owner[PageOf(c)] = "object" <=> Held /\ Reserved(c)

LEMMA HeldSteps ==
    ASSUME ControlInv
    PROVE  /\ Reserve => ~ Held /\ Held'
           /\ Parse \/ ReserveFails => ~ Held /\ ~ Held' /\ UNCHANGED space
           /\ SetupTLS => Held /\ Held' /\ UNCHANGED space /\ base' = base
           /\ MapFile \/ MapBSSTail \/ ZeroBSSPage \/ ProtectSegment \/ Relocate \/ ApplyRELRO =>
                Held /\ Held' /\ base' = base
           /\ MapFileFails \/ MapBSSFails \/ ProtectFails \/ RelocateFails \/ Unload =>
                Held /\ ~ Held' /\ Release
           /\ OtherMaps => base' = base /\ phase' = phase
           /\ Next => file' = file /\ (OtherMaps \/ others' = others)
<1>1. /\ Reserve => ~ Held /\ Held'
      /\ Parse \/ ReserveFails => ~ Held /\ ~ Held' /\ UNCHANGED space
      /\ SetupTLS => Held /\ Held' /\ UNCHANGED space /\ base' = base
      /\ MapFileFails \/ MapBSSFails \/ ProtectFails \/ RelocateFails \/ Unload =>
            Held /\ ~ Held' /\ Release
      /\ OtherMaps => base' = base /\ phase' = phase
  BY DEF Reserve, Parse, ReserveFails, SetupTLS, MapFileFails, MapBSSFails, ProtectFails,
      RelocateFails, Fail, Unload, OtherMaps, loadVars, Goto, Held
<1>2. MapFile \/ ProtectSegment => Held /\ Held' /\ base' = base
  BY DEF MapFile, ProtectSegment, NextSegment, Goto, Held
<1>3. MapBSSTail \/ ApplyRELRO => Held /\ Held' /\ base' = base
  BY DEF MapBSSTail, ApplyRELRO, Goto, Held
<1>4. ZeroBSSPage => Held /\ Held' /\ base' = base
  BY ZeroBSSPageStep DEF ZeroBSSPage, Held
<1>5. Relocate => Held /\ Held' /\ base' = base
  BY RelocateStep DEF Relocate, Held
<1>6. Next => file' = file /\ (OtherMaps \/ others' = others)
  BY DEF Next, Load, Parse, Reserve, ReserveFails, MapFile, MapFileFails, MapBSSTail,
      MapBSSFails, ZeroBSSPage, ProtectSegment, ProtectFails, SetupTLS, Relocate, RelocateFails,
      ApplyRELRO, Unload, OtherMaps, Fail, loadVars
<1> QED BY <1>1, <1>2, <1>3, <1>4, <1>5, <1>6

LEMMA OwnerStep ==
    ASSUME ControlInv, OwnerInv, [Next]_vars
    PROVE  OwnerInv'
<1>1. CASE UNCHANGED vars
  BY <1>1 DEF vars, loadVars, space, OwnerInv, Held, Reserved
<1>2. CASE Next
  <2>1. file' = file
    BY <1>2, HeldSteps
  <2>2. ASSUME Held, Held', base' = base,
               \A c \in Cells : \/ owner'[PageOf(c)] = owner[PageOf(c)]
                                \/ owner'[PageOf(c)] = "object" /\ Reserved(c)
        PROVE  OwnerInv'
    BY <2>1, <2>2 DEF OwnerInv, Reserved
  <2>3. CASE Parse \/ ReserveFails \/ SetupTLS
    BY <2>1, <2>2, <2>3, HeldSteps DEF OwnerInv, space
  <2>4. CASE Reserve
    <3>1. ~ Held /\ Held'
      BY <2>4, HeldSteps
    <3>2. \A c \in Cells : IF c \in Within(base', MemSize(file))
             THEN owner'[PageOf(c)] = "object" ELSE owner'[PageOf(c)] = owner[PageOf(c)]
      BY <2>4, ReserveStep DEF SameCell
    <3> QED BY <2>1, <3>1, <3>2 DEF OwnerInv, Reserved
  <2>5. CASE MapFileFails \/ MapBSSFails \/ ProtectFails \/ RelocateFails \/ Unload
    <3>1. Held /\ ~ Held' /\ Release
      BY <2>5, HeldSteps
    <3>2. \A c \in Cells : IF Reserved(c) THEN owner'[PageOf(c)] = "free"
                                          ELSE owner'[PageOf(c)] = owner[PageOf(c)]
      BY <3>1, ReleaseStep DEF SameCell
    <3> QED BY <3>1, <3>2 DEF OwnerInv
  <2>6. CASE MapFile
    <3>1. \A c \in Cells : \/ owner'[PageOf(c)] = owner[PageOf(c)]
                           \/ owner'[PageOf(c)] = "object" /\ Reserved(c)
      BY <2>6, MapFileStep DEF SameCell
    <3> QED BY <2>2, <2>6, <3>1, HeldSteps
  <2>7. CASE MapBSSTail
    <3>1. \A c \in Cells : \/ owner'[PageOf(c)] = owner[PageOf(c)]
                           \/ owner'[PageOf(c)] = "object" /\ Reserved(c)
      BY <2>7, MapBSSTailStep DEF SameCell
    <3> QED BY <2>2, <2>7, <3>1, HeldSteps
  <2>8. CASE ZeroBSSPage \/ ProtectSegment \/ Relocate \/ ApplyRELRO
    <3>1. owner' = owner
      BY <2>8 DEF ZeroBSSPage, ProtectSegment, Relocate, ApplyRELRO
    <3> QED BY <2>2, <2>8, <3>1, HeldSteps
  <2>9. CASE OtherMaps
    <3>1. Held' = Held /\ base' = base
      BY <2>9, HeldSteps DEF Held
    <3>2. PICK p \in Pages : /\ owner[p] = "free"
                             /\ \A c \in Cells : IF PageOf(c) = p
                                  THEN owner'[PageOf(c)] = "other"
                                  ELSE owner'[PageOf(c)] = owner[PageOf(c)]
      BY <2>9, OtherMapsStep DEF SameCell
    <3> QED BY <2>1, <3>1, <3>2 DEF OwnerInv, Reserved
  <2> QED BY <1>2, <2>3, <2>4, <2>5, <2>6, <2>7, <2>8, <2>9 DEF Next, Load
<1> QED BY <1>1, <1>2

OthersKept ==
    \A c \in Cells : PageOf(c) \in others =>
        /\ owner[PageOf(c)] = "other" /\ prot[PageOf(c)] = {"r", "w"}
        /\ c \in Overrun \/ mem[c] = Foreign

\* A cell of the word that relocation k is for
InWord(k, c) == c - base + BaseVAddr(file) \in Word(file.relocs[k])

\* Relocations are done one after the other, in one place
LEMMA OverrunGrows ==
    ASSUME ControlInv, Next
    PROVE  Overrun \subseteq Overrun'
<1>1. file' = file
  BY HeldSteps
<1>2. done \in Nat
  BY DEF ControlInv, TypeOK
<1>3. CASE base' = base /\ done' \in {done, done + 1}
  BY <1>1, <1>2, <1>3 DEF Overrun
<1>4. CASE done = 0
  BY <1>4 DEF Overrun
<1>5. Reserve => done = 0
  BY DEF Reserve, ControlInv
<1>6. Parse \/ ReserveFails \/ SetupTLS \/ MapFile \/ MapBSSTail \/ ZeroBSSPage =>
        base' = base /\ done' = done
  BY DEF Parse, ReserveFails, SetupTLS, MapFile, MapBSSTail, ZeroBSSPage
<1>7. ProtectSegment \/ ApplyRELRO \/ Unload \/ OtherMaps => base' = base /\ done' = done
  BY DEF ProtectSegment, ApplyRELRO, Unload, OtherMaps, loadVars
<1>8. MapFileFails \/ MapBSSFails \/ ProtectFails \/ RelocateFails => base' = base /\ done' = done
  BY DEF MapFileFails, MapBSSFails, ProtectFails, RelocateFails, Fail
<1>9. Relocate => base' = base /\ done' = done + 1
  BY DEF Relocate
<1> QED BY <1>3, <1>4, <1>5, <1>6, <1>7, <1>8, <1>9 DEF Next, Load

\* The relocation that is done next overruns the end of the reservation, or stays inside
LEMMA RelocWordOverruns ==
    ASSUME ControlInv, Relocate, NEW c \in Cells, c \in RelocWord
    PROVE  InWord(done + 1, c) /\ (Reserved(c) \/ c \in Overrun')
<1>1. /\ file \in Files /\ Accepted(file) /\ base \in Nat /\ done \in Nat /\ c \in Int
      /\ BaseVAddr(file) \in Nat /\ R.offset \in Nat /\ R = file.relocs[done + 1]
      /\ base' = base /\ file' = file /\ done' = done + 1
  <2>1. /\ file \in Files /\ Accepted(file) /\ base \in Nat /\ done \in Nat /\ c \in Int
    BY CellFacts DEF Relocate, ControlInv, TypeOK
  <2>2. R.offset \in Nat /\ R = file.relocs[done + 1] /\ base' = base /\ file' = file /\ done' = done + 1
    BY RelocateStep DEF R, Relocate
  <2> QED BY <2>1, <2>2, RangeFacts
<1>2. c - base + BaseVAddr(file) \in Word(R)
  <2>1. PICK b, v, a \in Nat : b = BaseVAddr(file) /\ v = R.offset /\ a = base
    BY <1>1
  <2>2. a + v - b <= c /\ c <= a + v - b + WordSize - 1
    BY <1>1, <2>1 DEF RelocWord, RelocCell
  <2>3. c - a + b \in v .. v + WordSize - 1
    BY <1>1, <2>1, <2>2
  <2> QED BY <2>1, <2>3 DEF Word
<1>3. InWord(done + 1, c)
  BY <1>1, <1>2 DEF InWord
<1>4. Reserved(c) \/ c >= base + MemSize(file)
  BY RelocateStep
<1>5. ASSUME c >= base + MemSize(file) PROVE c \in Overrun'
  <2>1. done + 1 \in 1 .. done'
    BY <1>1
  <2> QED BY <1>1, <1>3, <1>5, <2>1 DEF Overrun, InWord
<1> QED BY <1>3, <1>4, <1>5

\* The pages that RELRO protects are inside the image
LEMMA RelroReserved ==
    ASSUME ControlInv, Held, RelroInside(file), file.relro.memsz > 0,
           Aligned(file.relro.vaddr - BaseVAddr(file)), BaseVAddr(file) <= file.relro.vaddr,
           NEW c \in Cells,
           c \in Within(base + file.relro.vaddr - BaseVAddr(file), PageUp(file.relro.memsz))
    PROVE  Reserved(c)
<1> DEFINE h == file.relro
           low == BaseVAddr(file)
<1>1. /\ file \in Files /\ Accepted(file) /\ base \in Nat /\ c \in Int
  BY CellFacts DEF ControlInv, TypeOK, Held
<1>2. /\ h.vaddr \in Nat /\ h.memsz \in Nat /\ low \in Nat /\ MemSize(file) \in Nat
      /\ Aligned(MemSize(file)) /\ h.vaddr + h.memsz <= low + MemSize(file)
  BY <1>1, FileFacts, HeaderFacts, RangeFacts DEF RelroInside
<1>3. PICK d \in Int : d = h.vaddr - low
  BY <1>2
<1>4. Aligned(d)
  BY <1>3
<1>5. PageUp(d + h.memsz) = d + PageUp(h.memsz)
  <2>1. PICK m \in Int : m = h.memsz
    BY <1>2
  <2>2. PageUp(d + m) = d + PageUp(m)
    BY <1>4, PageUpShift, Zenon
  <2> QED BY <2>1, <2>2
<1>6. PageUp(d + h.memsz) <= MemSize(file) /\ PageUp(h.memsz) \in Int
  <2>1. d + h.memsz \in Int /\ d + h.memsz <= MemSize(file)
    BY <1>2, <1>3
  <2> QED BY <1>2, <2>1, PageUpFacts
<1>7. base + h.vaddr - low <= c /\ c < base + h.vaddr - low + PageUp(h.memsz)
  BY DEF Within
<1> HIDE DEF h, low
<1>8. base <= c /\ c < base + MemSize(file)
  <2>1. base + d <= c /\ c < base + d + PageUp(h.memsz) /\ d >= 0
    BY <1>1, <1>2, <1>3, <1>7 DEF h, low
  <2> QED BY <1>1, <1>2, <1>5, <1>6, <2>1
<1> QED BY <1>8 DEF Reserved, Within

LEMMA OthersStep ==
    ASSUME ControlInv, OwnerInv, OthersKept, Accepted(file) => RelroInside(file), [Next]_vars
    PROVE  OthersKept'
<1>1. CASE UNCHANGED vars
  BY <1>1 DEF vars, loadVars, space, OthersKept, Overrun
<1>2. CASE Next
  <2>0. \A c : c \in Overrun => c \in Overrun'
    BY <1>2, OverrunGrows
  <2>1. ASSUME others' = others, \A c \in Cells : SameCell(c) \/ owner[PageOf(c)] # "other"
        PROVE  OthersKept'
    BY <2>0, <2>1 DEF OthersKept, SameCell
  <2>2. ASSUME others' = others, Held, \A c \in Cells : SameCell(c) \/ Reserved(c)
        PROVE  OthersKept'
    <3>1. \A c \in Cells : SameCell(c) \/ owner[PageOf(c)] # "other"
      BY <2>2 DEF OwnerInv
    <3> QED BY <2>1, <2>2, <3>1
  <2>3. ~ OtherMaps => others' = others
    BY <1>2, HeldSteps
  <2>4. CASE Parse \/ ReserveFails \/ SetupTLS
    <3>1. UNCHANGED space /\ others' = others
      BY <2>4 DEF Parse, ReserveFails, SetupTLS
    <3> QED BY <2>0, <3>1 DEF space, OthersKept
  <2>5. CASE Reserve
    <3>1. \A c \in Cells : SameCell(c) \/ owner[PageOf(c)] # "other"
      BY <2>5, ReserveStep
    <3> QED BY <2>1, <2>5, <3>1 DEF Reserve
  <2>6. CASE MapFileFails \/ MapBSSFails \/ ProtectFails \/ RelocateFails \/ Unload
    <3>1. Held /\ Release
      BY <2>6, HeldSteps
    <3>2. others' = others
      BY <2>6 DEF MapFileFails, MapBSSFails, ProtectFails, RelocateFails, Fail, Unload
    <3> QED BY <2>2, <3>1, <3>2, ReleaseStep
  <2>7. CASE MapFile
    <3>1. Held /\ others' = others
      BY <2>7, HeldSteps DEF MapFile
    <3> QED BY <2>2, <2>7, <3>1, MapFileStep
  <2>8. CASE MapBSSTail
    <3>1. Held /\ others' = others
      BY <2>8, HeldSteps DEF MapBSSTail
    <3> QED BY <2>2, <2>8, <3>1, MapBSSTailStep
  <2>9. CASE ZeroBSSPage
    <3>1. Held /\ others' = others
      BY <2>9, HeldSteps DEF ZeroBSSPage
    <3>2. \A c \in Cells : SameCell(c) \/ Reserved(c)
      BY <2>9, ZeroBSSPageStep DEF SameCell
    <3> QED BY <2>2, <3>1, <3>2
  <2>10. CASE ProtectSegment
    <3>1. Held /\ others' = others
      BY <2>10, HeldSteps DEF ProtectSegment
    <3>2. \A c \in Cells : SameCell(c) \/ Reserved(c)
      BY <2>10, ProtectSegmentStep DEF SameCell
    <3> QED BY <2>2, <3>1, <3>2
  <2>11. CASE Relocate
    <3>1. Held /\ others' = others
      BY <2>11, HeldSteps DEF Relocate
    <3>2. prot' = prot /\ owner' = owner /\ \A c \in Cells : c \notin RelocWord => mem'[c] = mem[c]
      BY <2>11, RelocateStep
    <3>3. \A c \in Cells : c \in RelocWord => Reserved(c) \/ c \in Overrun'
      BY <2>11, RelocWordOverruns
    <3>4. \A c \in Cells : Reserved(c) => owner[PageOf(c)] # "other"
      BY <3>1 DEF OwnerInv
    <3> QED BY <2>0, <3>1, <3>2, <3>3, <3>4 DEF OthersKept
  <2>12. CASE ApplyRELRO
    <3>1. Held /\ others' = others /\ Accepted(file)
      BY <2>12, HeldSteps DEF ApplyRELRO, ControlInv
    <3>2. \A c \in Cells : SameCell(c) \/ Reserved(c)
      BY <2>12, <3>1, ApplyRELROStep, RelroReserved DEF SameCell
    <3> QED BY <2>2, <3>1, <3>2
  <2>13. CASE OtherMaps
    <3>1. PICK p \in Pages :
            /\ owner[p] = "free" /\ others' = others \cup {p}
            /\ \A c \in Cells : IF PageOf(c) = p
                 THEN owner'[PageOf(c)] = "other" /\ prot'[PageOf(c)] = {"r", "w"} /\ mem'[c] = Foreign
                 ELSE SameCell(c)
      BY <2>13, OtherMapsStep
    <3> QED BY <2>0, <3>1 DEF OthersKept, SameCell
  <2> QED BY <1>2, <2>4, <2>5, <2>6, <2>7, <2>8, <2>9, <2>10, <2>11, <2>12, <2>13 DEF Next, Load
<1> QED BY <1>1, <1>2
-----------------------------------------------------------------------------
(* Types, the reservation, and the rest of the process *)

LEMMA LayoutInit ==
    ASSUME Init PROVE ControlInv /\ OwnerInv /\ OthersKept
<1>1. \A c \in Cells : PageOf(c) \in Pages
  BY CellFacts
<1>2. /\ file \in Files /\ phase = "parse" /\ seg = 1 /\ base = 0 /\ template = 0 /\ done = 0
      /\ others = Others /\ Others \subseteq Pages
      /\ owner = [p \in Pages |-> IF p \in Others THEN "other" ELSE "free"]
      /\ prot = [p \in Pages |-> IF p \in Others THEN {"r", "w"} ELSE {}]
      /\ mem = [c \in Cells |-> IF PageOf(c) \in Others THEN Foreign ELSE Zero]
  BY DEF Init, PageOf
<1>3. Len(file.segs) \in Nat /\ Len(file.relocs) \in Nat
  BY <1>2, FileFacts
<1>4. 0 \in Cells
  <2>1. 0 \in Pages /\ PageSize * 0 = 0
    BY SMT DEF Pages
  <2> QED BY <2>1, CellFacts
<1>5. TypeOK
  BY <1>2, <1>3, <1>4 DEF TypeOK, Phases
<1>6. ControlInv /\ OwnerInv
  BY <1>1, <1>2, <1>5 DEF ControlInv, OwnerInv, Held
<1>7. OthersKept
  BY <1>1, <1>2 DEF OthersKept
<1> QED BY <1>6, <1>7

\* Whatever Load and Unload do with a file, and the rest of the process in between, every
\* variable keeps its type: the index of the segment being mapped, the address of the TLS
\* template and the count of the relocations that are done (Layout's TypeOK)
THEOREM LayoutTypeCorrect == Spec => []TypeOK
<1>1. Init => ControlInv
  BY LayoutInit
<1>2. ControlInv /\ [Next]_vars => ControlInv'
  BY ControlStep
<1>3. ControlInv => TypeOK
  BY DEF ControlInv
<1> QED BY <1>1, <1>2, <1>3, PTL DEF Spec

\* When Load has failed, at whatever step, or Unload is done, no page of the address space
\* is still the object's: what was mapped over the reservation goes with it (Layout's
\* ReservationReleased: the error paths of Load, and mmap.Unmap in Unload)
THEOREM NoPageLeft == Spec => []ReservationReleased
<1>1. Init => ControlInv /\ OwnerInv
  BY LayoutInit
<1>2. ControlInv /\ OwnerInv /\ [Next]_vars => (ControlInv /\ OwnerInv)'
  BY ControlStep, OwnerStep
<1>3. OwnerInv => ReservationReleased
  <2> SUFFICES ASSUME OwnerInv, phase \in {"failed", "gone"}, NEW p \in Pages
               PROVE  owner[p] # "object"
    BY DEF ReservationReleased
  <2>1. PICK c \in Cells : PageOf(c) = p
    BY CellFacts
  <2> QED BY <2>1 DEF OwnerInv, Held
<1> QED BY <1>1, <1>2, <1>3, PTL DEF Spec

\* MAP_FIXED, mprotect, munmap and the stores of the loader never touch memory that is not
\* the object's, except for one case: what the rest of the process has mapped stays as it
\* is, but for the cells behind the image that are the end of a word whose relocation has
\* been applied, since validateRelocationOffset looks at the first byte only.  It holds for
\* files whose PT_GNU_RELRO is inside the image, which neither elf.Parse nor Load checks
\* (Layout's OthersIntact)
THEOREM OthersKeepTheirs ==
    ASSUME \A f \in Files : Accepted(f) => RelroInside(f)
    PROVE  Spec => []OthersIntact
<1> DEFINE Inv == ControlInv /\ OwnerInv /\ OthersKept
<1>1. Init => Inv
  BY LayoutInit
<1>2. Inv /\ [Next]_vars => Inv'
  BY ControlStep, OwnerStep, OthersStep DEF ControlInv, TypeOK
<1>3. Inv => OthersIntact
  <2> SUFFICES ASSUME Inv, NEW p \in others
               PROVE  /\ owner[p] = "other" /\ prot[p] = {"r", "w"}
                      /\ \A c \in Cells \ Overrun : PageOf(c) = p => mem[c] = Foreign
    BY DEF OthersIntact
  <2>1. p \in Pages
    BY DEF ControlInv, TypeOK
  <2>2. PICK d \in Cells : PageOf(d) = p
    BY <2>1, CellFacts
  <2> QED BY <2>2 DEF OthersKept
<1> QED BY <1>1, <1>2, <1>3, PTL DEF Spec
-----------------------------------------------------------------------------
(* The permissions of the segments *)

\* A segment can be mapped, permissions and bytes are told of it
Alive == phase \in {"file", "tail", "zero", "protect", "tls", "reloc", "ready"}
SegCells(s) == Within(MapAddr(s), AlignedMemSize(s))
FileCells(s) == Within(MapAddr(s), AlignedFileSize(s))
BSSCells(s) == Within(MapAddr(s) + AlignedFileSize(s), AlignedMemSize(s) - AlignedFileSize(s))

InRelro(c) ==
    /\ file.relro.memsz > 0 /\ Aligned(file.relro.vaddr - BaseVAddr(file))
    /\ BaseVAddr(file) <= file.relro.vaddr
    /\ c \in Within(base + file.relro.vaddr - BaseVAddr(file), PageUp(file.relro.memsz))

\* The segments that are mapped have the permissions of their headers, the one being mapped
\* has those of computeMapProt
Finished(s) ==
    /\ AlignedMemSize(s) = 0 \/ Aligned(BaseVAddr(file))
    /\ \A c \in Cells : c \in SegCells(s) =>
        prot[PageOf(c)] = s.prot \/ (phase = "ready" /\ InRelro(c))

PermInv ==
    Alive =>
        /\ \A i \in DOMAIN file.segs : i < seg => Finished(file.segs[i])
        /\ phase = "tail" => \A c \in Cells : c \in FileCells(S) => prot[PageOf(c)] = MapProt(S)
        /\ phase \in {"zero", "protect"} =>
            \A c \in Cells : c \in SegCells(S) => prot[PageOf(c)] = MapProt(S)

LEMMA CellsOfSegment ==
    ASSUME ControlInv, Held, NEW s \in Segments(file)
    PROVE  /\ FileCells(s) \subseteq SegCells(s)
           /\ \A c \in SegCells(s) : c \in FileCells(s) \/ c \in BSSCells(s)
           /\ BSSCells(s) \subseteq SegCells(s)
           /\ Aligned(BaseVAddr(file)) => \A c \in SegCells(s) : Reserved(c)
           /\ AlignedMemSize(s) = 0 => SegCells(s) = {}
           /\ \A v \in Extent(s) : Address(v) \in SegCells(s) \/ Address(v) \notin Cells
           /\ SegCells(s) \subseteq Cells
<1>1. TypeOK /\ Accepted(file) /\ Aligned(base)
  BY DEF ControlInv, Held
<1>2. /\ MapAddr(s) \in Int /\ AlignedFileSize(s) \in Nat /\ AlignedMemSize(s) \in Nat
      /\ AlignedFileSize(s) <= AlignedMemSize(s) /\ base \in Nat /\ MemSize(file) \in Nat
      /\ BaseVAddr(file) \in Nat /\ Leading(s) \in Nat
      /\ MapAddr(s) + Leading(s) = Address(s.vaddr) /\ s.memsz + Leading(s) <= AlignedMemSize(s)
      /\ Aligned(BaseVAddr(file)) =>
            base <= MapAddr(s) /\ MapAddr(s) + AlignedMemSize(s) <= base + MemSize(file)
      /\ s.vaddr \in Nat /\ s.memsz \in Nat
  BY <1>1, RegionFacts, HeaderFacts
<1>3. Cells \subseteq Int
  BY CellFacts
<1>4. ASSUME NEW v \in Extent(s), Address(v) \in Cells PROVE Address(v) \in SegCells(s)
  <2>1. v \in Int /\ s.vaddr <= v /\ v < s.vaddr + s.memsz
    BY <1>2 DEF Extent
  <2> QED BY <1>2, <1>3, <1>4, <2>1 DEF SegCells, Within, Address
<1>5. FileCells(s) \subseteq SegCells(s) /\ SegCells(s) \subseteq Cells
  <2>1. ASSUME NEW c \in FileCells(s) PROVE c \in SegCells(s)
    <3>1. c \in Cells /\ c \in Int /\ MapAddr(s) <= c /\ c < MapAddr(s) + AlignedFileSize(s)
      BY <1>3 DEF FileCells, Within
    <3> QED BY <1>2, <3>1 DEF SegCells, Within
  <2> QED BY <2>1 DEF SegCells, Within
<1>6. ASSUME NEW c \in SegCells(s) PROVE c \in FileCells(s) \/ c \in BSSCells(s)
  <2>1. c \in Cells /\ c \in Int /\ MapAddr(s) <= c /\ c < MapAddr(s) + AlignedMemSize(s)
    BY <1>3 DEF SegCells, Within
  <2> QED BY <1>2, <2>1 DEF FileCells, BSSCells, Within
<1>7. ASSUME NEW c \in BSSCells(s) PROVE c \in SegCells(s)
  <2>1. /\ c \in Cells /\ c \in Int /\ MapAddr(s) + AlignedFileSize(s) <= c
        /\ c < MapAddr(s) + AlignedFileSize(s) + (AlignedMemSize(s) - AlignedFileSize(s))
    BY <1>3, <1>7 DEF BSSCells, Within
  <2> QED BY <1>2, <2>1 DEF SegCells, Within
<1>8. ASSUME Aligned(BaseVAddr(file)), NEW c \in SegCells(s) PROVE Reserved(c)
  <2>1. c \in Cells /\ c \in Int /\ MapAddr(s) <= c /\ c < MapAddr(s) + AlignedMemSize(s)
    BY <1>3 DEF SegCells, Within
  <2> QED BY <1>2, <1>8, <2>1 DEF Reserved, Within
<1>9. ASSUME AlignedMemSize(s) = 0, NEW c \in SegCells(s) PROVE FALSE
  <2>1. c \in Int /\ MapAddr(s) <= c /\ c < MapAddr(s) + AlignedMemSize(s)
    BY <1>3 DEF SegCells, Within
  <2> QED BY <1>2, <1>9, <2>1
<1> QED BY <1>4, <1>5, <1>6, <1>7, <1>8, <1>9

\* No cell is in the pages of two segments
LEMMA CellsApart ==
    ASSUME ControlInv, Held, SegmentsApart(file),
           NEW i \in DOMAIN file.segs, NEW j \in DOMAIN file.segs, i # j,
           NEW c \in SegCells(file.segs[i])
    PROVE  c \notin SegCells(file.segs[j])
<1>1. /\ TypeOK /\ Accepted(file) /\ Aligned(base) /\ file \in Files
      /\ file.segs[i] \in Segments(file) /\ file.segs[j] \in Segments(file)
      /\ i \in Int /\ j \in Int /\ c \in Int
  BY FileFacts, CellFacts DEF ControlInv, Held, TypeOK, SegCells, Within
<1>2. ASSUME NEW s \in Segments(file)
      PROVE  /\ base \in Int /\ BaseVAddr(file) \in Int
             /\ PageDown(s.vaddr) \in Int /\ PageUp(s.vaddr + s.memsz) \in Int
             /\ MapAddr(s) = base + PageDown(s.vaddr) - BaseVAddr(file)
             /\ MapAddr(s) + AlignedMemSize(s) = base - BaseVAddr(file) + PageUp(s.vaddr + s.memsz)
             /\ AlignedMemSize(s) \in Nat
  <2>1. s.vaddr \in Nat /\ s.memsz \in Nat /\ s.vaddr + s.memsz \in Int
    BY <1>1, FileFacts, HeaderFacts
  <2>2. PageDown(s.vaddr) \in Int /\ PageUp(s.vaddr + s.memsz) \in Int
    <3>1. PICK x \in Int : x = s.vaddr
      BY <2>1
    <3>2. PICK y \in Int : y = s.vaddr + s.memsz
      BY <2>1
    <3> QED BY <3>1, <3>2, PageDownFacts, PageUpFacts
  <2> QED BY <1>1, <2>2, RegionFacts DEF MapAddr
<1>3. /\ MapAddr(file.segs[i]) <= c
      /\ c < MapAddr(file.segs[i]) + AlignedMemSize(file.segs[i])
  BY DEF SegCells, Within
<1>4. SUFFICES ASSUME /\ MapAddr(file.segs[j]) <= c
                      /\ c < MapAddr(file.segs[j]) + AlignedMemSize(file.segs[j])
               PROVE  FALSE
  BY DEF SegCells, Within
<1>5. \/ PageUp(file.segs[i].vaddr + file.segs[i].memsz) <= PageDown(file.segs[j].vaddr)
      \/ PageUp(file.segs[j].vaddr + file.segs[j].memsz) <= PageDown(file.segs[i].vaddr)
  BY <1>1 DEF SegmentsApart
<1>6. /\ base \in Int /\ BaseVAddr(file) \in Int
      /\ PageDown(file.segs[i].vaddr) \in Int /\ PageDown(file.segs[j].vaddr) \in Int
      /\ PageUp(file.segs[i].vaddr + file.segs[i].memsz) \in Int
      /\ PageUp(file.segs[j].vaddr + file.segs[j].memsz) \in Int
      /\ base + PageDown(file.segs[i].vaddr) - BaseVAddr(file) <= c
      /\ base + PageDown(file.segs[j].vaddr) - BaseVAddr(file) <= c
      /\ c < base - BaseVAddr(file) + PageUp(file.segs[i].vaddr + file.segs[i].memsz)
      /\ c < base - BaseVAddr(file) + PageUp(file.segs[j].vaddr + file.segs[j].memsz)
  BY <1>1, <1>2, <1>3, <1>4
<1> QED BY <1>1, <1>5, <1>6

LEMMA CellsStay ==
    ASSUME base' = base, file' = file, NEW s
    PROVE  /\ SegCells(s)' = SegCells(s) /\ FileCells(s)' = FileCells(s) /\ BSSCells(s)' = BSSCells(s)
           /\ MapProt(s)' = MapProt(s)
           /\ \A c : InRelro(c)' <=> InRelro(c)
BY DEF SegCells, FileCells, BSSCells, Within, MapAddr, InRelro, AlignedFileSize, AlignedMemSize,
    Leading, MapProt

LEMMA FinishedStays ==
    ASSUME base' = base, file' = file, NEW s, Finished(s), phase = "ready" => phase' = "ready",
           \A c \in Cells : c \in SegCells(s) =>
                prot'[PageOf(c)] = prot[PageOf(c)] \/ (phase' = "ready" /\ InRelro(c))
    PROVE  Finished(s)'
<1>1. \A c \in Cells : c \in SegCells(s) =>
        prot'[PageOf(c)] = s.prot \/ (phase' = "ready" /\ InRelro(c))
  BY DEF Finished
<1>2. AlignedMemSize(s) = 0 \/ Aligned(BaseVAddr(file))
  BY DEF Finished
<1>3. SegCells(s)' = SegCells(s) /\ \A c : InRelro(c)' <=> InRelro(c)
  BY CellsStay
<1> QED BY <1>1, <1>2, <1>3 DEF Finished

\* What PermInv says of the next state
LEMMA PermNext ==
    ASSUME file' = file, base' = base, seg' \in Nat,
           \A i \in DOMAIN file.segs : i < seg' => \A s : s = file.segs[i] => Finished(s)',
           \A s : s = file.segs[seg'] =>
               /\ phase' = "tail" => \A c \in Cells : c \in FileCells(s) => prot'[PageOf(c)] = MapProt(s)
               /\ phase' \in {"zero", "protect"} =>
                    \A c \in Cells : c \in SegCells(s) => prot'[PageOf(c)] = MapProt(s)
    PROVE  PermInv'
<1>1. \A i \in DOMAIN file'.segs : i < seg' => Finished(file.segs[i])'
  <2> SUFFICES ASSUME NEW i \in DOMAIN file.segs, i < seg' PROVE Finished(file.segs[i])'
    OBVIOUS
  <2>1. PICK s : s = file.segs[i]
    OBVIOUS
  <2>2. Finished(s)'
    BY <2>1
  <2> QED BY <2>1, <2>2 DEF Finished, SegCells, InRelro, Within, MapAddr
<1>2. PICK s : s = file.segs[seg'] /\ s = S'
  BY DEF S
<1>3. SegCells(s)' = SegCells(s) /\ FileCells(s)' = FileCells(s)
  BY CellsStay
<1>4. phase' = "tail" => \A c \in Cells : c \in FileCells(s)' => prot'[PageOf(c)] = MapProt(s)
  BY <1>2, <1>3
<1>5. phase' \in {"zero", "protect"} =>
            \A c \in Cells : c \in SegCells(s)' => prot'[PageOf(c)] = MapProt(s)
  BY <1>2, <1>3
<1> QED BY <1>1, <1>2, <1>4, <1>5 DEF PermInv, FileCells, SegCells, Within, MapAddr

\* The segments that are finished, and the one that is next
LEMMA SegmentsThere ==
    ASSUME ControlInv, Alive
    PROVE  /\ Held /\ file \in Files /\ Accepted(file) /\ seg \in Nat
           /\ \A i \in DOMAIN file.segs : i \in Nat /\ file.segs[i] \in Segments(file)
           /\ phase \in {"file", "tail", "zero", "protect"} =>
                seg \in DOMAIN file.segs /\ S \in Segments(file) /\ S = file.segs[seg]
<1>1. Held /\ file \in Files /\ Accepted(file) /\ seg \in 1 .. Len(file.segs) + 1
  BY DEF ControlInv, TypeOK, Alive, Held
<1>2. /\ DOMAIN file.segs = 1 .. Len(file.segs) /\ Len(file.segs) \in Nat
      /\ \A i \in DOMAIN file.segs : file.segs[i] \in Segments(file)
  BY <1>1, FileFacts
<1>3. phase \in {"file", "tail", "zero", "protect"} =>
        seg \in DOMAIN file.segs /\ S \in Segments(file) /\ S = file.segs[seg]
  BY <1>2 DEF ControlInv, TypeOK, S
<1> QED BY <1>1, <1>2, <1>3

\* A step that touches no permission outside the segment being mapped
LEMMA EarlierStay ==
    ASSUME ControlInv, PermInv, SegmentsApart(file),
           phase \in {"file", "tail", "zero", "protect"}, base' = base, file' = file,
           \A c \in Cells : c \notin SegCells(S) => prot'[PageOf(c)] = prot[PageOf(c)]
    PROVE  \A i \in DOMAIN file.segs : i < seg => \A s : s = file.segs[i] => Finished(s)'
<1> SUFFICES ASSUME NEW i \in DOMAIN file.segs, i < seg, NEW s, s = file.segs[i]
             PROVE  Finished(s)'
  OBVIOUS
<1>1. Alive
  BY DEF Alive
<1>2. Finished(s)
  BY <1>1 DEF PermInv
<1>3. \A c \in Cells : c \in SegCells(s) => c \notin SegCells(S)
  <2>1. i # seg /\ seg \in DOMAIN file.segs /\ S = file.segs[seg] /\ Held
    BY <1>1, SegmentsThere
  <2> QED BY <2>1, CellsApart
<1> QED BY <1>2, <1>3, FinishedStays

\* All permissions stay
LEMMA PermsSame ==
    ASSUME ControlInv, PermInv, base' = base, file' = file, seg' = seg,
           phase' \in {phase, "crashed"},
           \A c \in Cells : Reserved(c) => prot'[PageOf(c)] = prot[PageOf(c)]
    PROVE  PermInv'
<1> SUFFICES ASSUME Alive, phase' = phase PROVE PermInv'
  BY DEF PermInv, Alive
<1>0. seg \in Nat /\ Held /\ Alive
  BY SegmentsThere
<1>1. ASSUME NEW i \in DOMAIN file.segs, i < seg, NEW s, s = file.segs[i]
      PROVE  Finished(s)'
  <2>1. Finished(s) /\ s \in Segments(file)
    BY <1>1, SegmentsThere DEF PermInv
  <2>2. \A c \in Cells : c \in SegCells(s) => prot'[PageOf(c)] = prot[PageOf(c)]
    <3>1. CASE AlignedMemSize(s) = 0
      BY <1>0, <2>1, <3>1, CellsOfSegment
    <3>2. CASE Aligned(BaseVAddr(file))
      BY <1>0, <2>1, <3>2, CellsOfSegment
    <3> QED BY <2>1, <3>1, <3>2 DEF Finished
  <2> QED BY <2>1, <2>2, FinishedStays
<1>2. ASSUME NEW s, s = file.segs[seg]
      PROVE  /\ phase = "tail" => \A c \in Cells : c \in FileCells(s) => prot'[PageOf(c)] = MapProt(s)
             /\ phase \in {"zero", "protect"} =>
                  \A c \in Cells : c \in SegCells(s) => prot'[PageOf(c)] = MapProt(s)
  <2>1. ASSUME phase \in {"tail", "zero", "protect"} PROVE s = S /\ s \in Segments(file)
    BY <1>2, <2>1, SegmentsThere
  <2>2. ASSUME phase = "tail", NEW c \in Cells, c \in FileCells(s)
        PROVE  prot'[PageOf(c)] = MapProt(s)
    <3>1. prot[PageOf(c)] = MapProt(s)
      BY <2>1, <2>2 DEF PermInv
    <3>2. c \in SegCells(s) /\ AlignedMemSize(s) # 0
      BY <1>0, <2>1, <2>2, CellsOfSegment
    <3>3. Aligned(BaseVAddr(file))
      <4>1. AlignedFileSize(s) # 0
        <5> SUFFICES ASSUME AlignedFileSize(s) = 0 PROVE FALSE
          OBVIOUS
        <5>1. c \in Int /\ MapAddr(s) <= c /\ c < MapAddr(s) + AlignedFileSize(s) /\ MapAddr(s) \in Int
          BY <1>0, <2>1, <2>2, CellFacts, RegionFacts DEF FileCells, Within, ControlInv, Held
        <5> QED BY <5>1
      <4> QED BY <2>1, <2>2, <4>1 DEF ControlInv
    <3> QED BY <1>0, <2>1, <2>2, <3>1, <3>2, <3>3, CellsOfSegment
  <2>3. ASSUME phase \in {"zero", "protect"}, NEW c \in Cells, c \in SegCells(s)
        PROVE  prot'[PageOf(c)] = MapProt(s)
    <3>1. prot[PageOf(c)] = MapProt(s) /\ Aligned(BaseVAddr(file))
      BY <2>1, <2>3 DEF PermInv, ControlInv
    <3> QED BY <1>0, <2>1, <2>3, <3>1, CellsOfSegment
  <2> QED BY <2>2, <2>3
<1> QED BY <1>0, <1>1, <1>2, PermNext

\* The next segment: the one that was being mapped is finished
LEMMA PermNextSegment ==
    ASSUME ControlInv, PermInv, SegmentsApart(file), phase \in {"file", "protect"},
           NextSegment, base' = base, file' = file,
           AlignedMemSize(S) = 0 \/ Aligned(BaseVAddr(file)),
           \A c \in Cells : prot'[PageOf(c)] = IF c \in SegCells(S) THEN S.prot ELSE prot[PageOf(c)]
    PROVE  PermInv'
<1>1. /\ Alive /\ Held /\ seg \in Nat /\ S \in Segments(file)
      /\ \A i \in DOMAIN file.segs : i \in Nat
      /\ S = file.segs[seg]
  BY SegmentsThere DEF Alive
<1>2. phase' \in {"file", "tls"} /\ seg' = seg + 1
  BY DEF NextSegment, Goto
<1>3. ASSUME NEW i \in DOMAIN file.segs, i < seg', NEW s, s = file.segs[i] PROVE Finished(s)'
  <2>1. CASE i < seg
    <3>1. \A c \in Cells : c \notin SegCells(S) => prot'[PageOf(c)] = prot[PageOf(c)]
      OBVIOUS
    <3> QED BY <1>3, <2>1, <3>1, EarlierStay
  <2>2. CASE i = seg
    <3>1. s = S
      BY <1>1, <1>3, <2>2
    <3>2. SegCells(s)' = SegCells(s)
      BY CellsStay
    <3>3. \A c \in Cells : c \in SegCells(s)' => prot'[PageOf(c)] = s.prot
      BY <3>1, <3>2
    <3>4. AlignedMemSize(s) = 0 \/ Aligned(BaseVAddr(file'))
      BY <3>1
    <3> QED BY <3>3, <3>4 DEF Finished
  <2> QED BY <1>1, <1>2, <1>3, <2>1, <2>2
<1> QED BY <1>1, <1>2, <1>3, PermNext

LEMMA PermStep ==
    ASSUME ControlInv, OwnerInv, PermInv, Accepted(file) => SegmentsApart(file), [Next]_vars
    PROVE  PermInv'
<1>1. CASE UNCHANGED vars
  BY <1>1, PermsSame DEF vars, loadVars, space
<1>2. CASE Next
  <2>0. file' = file
    BY <1>2, HeldSteps
  <2>1. CASE Parse \/ ReserveFails
    BY <2>1 DEF Parse, ReserveFails, Goto, PermInv, Alive
  <2>2. CASE Reserve
    <3>1. phase' = "file" /\ seg' = 1 /\ \A i \in DOMAIN file.segs : i \in Nat /\ ~ (i < 1)
      BY <2>2, FileFacts DEF Reserve, Goto, ControlInv, TypeOK
    <3> QED BY <2>0, <3>1 DEF PermInv
  <2>3. CASE MapFileFails \/ MapBSSFails \/ ProtectFails \/ RelocateFails \/ Unload
    <3>1. phase' \in {"failed", "gone"}
      BY <2>3 DEF MapFileFails, MapBSSFails, ProtectFails, RelocateFails, Fail, Unload, Goto
    <3> QED BY <3>1 DEF PermInv, Alive
  <2>4. CASE MapFile
    <3>1. /\ phase = "file" /\ base' = base /\ Alive
          /\ IF S.memsz > S.filesz THEN phase' = "tail" /\ seg' = seg ELSE NextSegment
      BY <2>4 DEF MapFile, Goto, Alive
    <3>2. /\ Accepted(file) /\ SegmentsApart(file) /\ S \in Segments(file) /\ Held /\ seg \in Nat
          /\ S = file.segs[seg] /\ file \in Files
      BY <3>1, SegmentsThere
    <3>3. /\ AlignedFileSize(S) = 0 \/ Aligned(BaseVAddr(file))
          /\ \A c \in Cells :
                prot'[PageOf(c)] = IF c \in FileCells(S) THEN MapProt(S) ELSE prot[PageOf(c)]
      BY <2>4, MapFileStep DEF FileCells, SameCell
    <3>4. FileCells(S) \subseteq SegCells(S)
      BY <3>2, CellsOfSegment
    <3>5. CASE S.memsz > S.filesz
      <4>1. \A c \in Cells : c \notin SegCells(S) => prot'[PageOf(c)] = prot[PageOf(c)]
        BY <3>3, <3>4
      <4>2. \A i \in DOMAIN file.segs : i < seg => \A s : s = file.segs[i] => Finished(s)'
        BY <2>0, <3>1, <3>2, <4>1, EarlierStay
      <4>3. \A s : s = file.segs[seg] =>
              \A c \in Cells : c \in FileCells(s) => prot'[PageOf(c)] = MapProt(s)
        BY <3>2, <3>3
      <4> QED BY <2>0, <3>1, <3>2, <3>5, <4>2, <4>3, PermNext
    <3>6. CASE ~ (S.memsz > S.filesz)
      <4>1. S.filesz <= S.memsz /\ S.memsz \in Nat /\ S.filesz \in Nat
        BY <3>2, RangeFacts, FileFacts, HeaderFacts
      <4>2. S.memsz = S.filesz
        BY <3>6, <4>1
      <4>3. AlignedMemSize(S) = AlignedFileSize(S)
        BY <4>2 DEF AlignedMemSize, AlignedFileSize
      <4>4. MapProt(S) = S.prot
        BY <3>6 DEF MapProt
      <4>5. FileCells(S) = SegCells(S)
        BY <4>3 DEF FileCells, SegCells
      <4> QED BY <2>0, <3>1, <3>2, <3>3, <3>6, <4>3, <4>4, <4>5, PermNextSegment
    <3> QED BY <3>5, <3>6
  <2>5. CASE MapBSSTail
    <3>1. phase = "tail" /\ base' = base /\ Alive /\ phase' = "zero" /\ seg' = seg
      BY <2>5 DEF MapBSSTail, Goto, Alive
    <3>2. /\ SegmentsApart(file) /\ S \in Segments(file) /\ Held /\ seg \in Nat
          /\ S = file.segs[seg]
      BY <3>1, SegmentsThere
    <3>3. \A c \in Cells :
             prot'[PageOf(c)] = IF c \in BSSCells(S) THEN MapProt(S) ELSE prot[PageOf(c)]
      BY <2>5, MapBSSTailStep DEF BSSCells, SameCell
    <3>4. /\ BSSCells(S) \subseteq SegCells(S)
          /\ \A c \in SegCells(S) : c \in FileCells(S) \/ c \in BSSCells(S)
      BY <3>2, CellsOfSegment
    <3>5. \A c \in Cells : c \in FileCells(S) => prot[PageOf(c)] = MapProt(S)
      BY <3>1 DEF PermInv
    <3>6. \A c \in Cells : c \notin SegCells(S) => prot'[PageOf(c)] = prot[PageOf(c)]
      BY <3>3, <3>4
    <3>7. \A i \in DOMAIN file.segs : i < seg => \A s : s = file.segs[i] => Finished(s)'
      BY <2>0, <3>1, <3>2, <3>6, EarlierStay
    <3>8. \A s : s = file.segs[seg] =>
            \A c \in Cells : c \in SegCells(s) => prot'[PageOf(c)] = MapProt(s)
      BY <3>2, <3>3, <3>4, <3>5
    <3> QED BY <2>0, <3>1, <3>2, <3>7, <3>8, PermNext
  <2>6. CASE ZeroBSSPage
    <3>1. phase = "zero" /\ base' = base /\ seg' = seg /\ prot' = prot /\ Alive
      BY <2>6 DEF ZeroBSSPage, Alive
    <3>2. phase' \in {"protect", "crashed"}
      BY <2>6, ZeroBSSPageStep
    <3>3. CASE phase' = "crashed"
      BY <3>3 DEF PermInv, Alive
    <3>4. CASE phase' = "protect"
      <4>1. /\ SegmentsApart(file) /\ S \in Segments(file) /\ seg \in Nat /\ S = file.segs[seg]
        BY <3>1, SegmentsThere
      <4>2. \A i \in DOMAIN file.segs : i < seg => \A s : s = file.segs[i] => Finished(s)'
        BY <2>0, <3>1, <4>1, EarlierStay
      <4>3. \A s : s = file.segs[seg] =>
              \A c \in Cells : c \in SegCells(s) => prot'[PageOf(c)] = MapProt(s)
        BY <3>1, <4>1 DEF PermInv
      <4> QED BY <2>0, <3>1, <3>4, <4>1, <4>2, <4>3, PermNext
    <3> QED BY <3>2, <3>3, <3>4
  <2>7. CASE ProtectSegment
    <3>1. phase = "protect" /\ base' = base /\ Alive /\ NextSegment
      BY <2>7 DEF ProtectSegment, Alive
    <3>2. /\ SegmentsApart(file) /\ S \in Segments(file) /\ seg \in Nat /\ S = file.segs[seg]
          /\ Aligned(BaseVAddr(file))
      BY <3>1, SegmentsThere DEF ControlInv
    <3>3. \A c \in Cells : prot'[PageOf(c)] =
              IF S.prot # MapProt(S) /\ c \in SegCells(S) THEN S.prot ELSE prot[PageOf(c)]
      BY <2>7, ProtectSegmentStep DEF SegCells
    <3>4. \A c \in Cells : c \in SegCells(S) => prot[PageOf(c)] = MapProt(S)
      BY <3>1 DEF PermInv
    <3>5. \A c \in Cells : prot'[PageOf(c)] = IF c \in SegCells(S) THEN S.prot ELSE prot[PageOf(c)]
      BY <3>3, <3>4
    <3> QED BY <2>0, <3>1, <3>2, <3>5, PermNextSegment
  <2>8. ASSUME phase \in {"tls", "reloc"}, base' = base, seg' = seg, prot' = prot,
               phase' \in {"reloc", "crashed"}
        PROVE  PermInv'
    <3> SUFFICES ASSUME phase' = "reloc" PROVE PermInv'
      BY <2>8 DEF PermInv, Alive
    <3>1. Alive /\ seg \in Nat
      BY <2>8, SegmentsThere DEF Alive
    <3>2. ASSUME NEW i \in DOMAIN file.segs, i < seg, NEW s, s = file.segs[i] PROVE Finished(s)'
      <4>1. Finished(s)
        BY <3>1, <3>2 DEF PermInv
      <4> QED BY <2>0, <2>8, <4>1, FinishedStays
    <3> QED BY <2>0, <2>8, <3>1, <3>2, PermNext
  <2>9. CASE SetupTLS
    BY <2>8, <2>9 DEF SetupTLS, Goto, space
  <2>10. CASE Relocate
    BY <2>8, <2>10, RelocateStep DEF Relocate
  <2>11. CASE ApplyRELRO
    <3>1. phase = "reloc" /\ base' = base /\ seg' = seg /\ phase' = "ready" /\ Alive
      BY <2>11 DEF ApplyRELRO, Goto, Alive
    <3>2. \A c \in Cells : prot'[PageOf(c)] = prot[PageOf(c)] \/ InRelro(c)
      BY <2>11, ApplyRELROStep DEF InRelro
    <3>3. seg \in Nat
      BY <3>1, SegmentsThere
    <3>4. ASSUME NEW i \in DOMAIN file.segs, i < seg, NEW s, s = file.segs[i] PROVE Finished(s)'
      <4>1. Finished(s)
        BY <3>1, <3>4 DEF PermInv
      <4> QED BY <2>0, <3>1, <3>2, <4>1, FinishedStays
    <3> QED BY <2>0, <3>1, <3>3, <3>4, PermNext
  <2>12. CASE OtherMaps
    <3>1. UNCHANGED loadVars
      BY <2>12, OtherMapsStep
    <3>2. PICK p \in Pages : /\ owner[p] = "free"
                             /\ \A c \in Cells : PageOf(c) # p => SameCell(c)
      BY <2>12, OtherMapsStep
    <3>3. Alive => \A c \in Cells : Reserved(c) => prot'[PageOf(c)] = prot[PageOf(c)]
      BY <3>2, SegmentsThere DEF OwnerInv, SameCell
    <3>4. CASE Alive
      BY <3>1, <3>3, <3>4, PermsSame DEF loadVars
    <3>5. CASE ~ Alive
      BY <3>1, <3>5 DEF PermInv, Alive, loadVars
    <3> QED BY <3>4, <3>5
  <2> QED BY <1>2, <2>1, <2>2, <2>3, <2>4, <2>5, <2>6, <2>7, <2>9, <2>10, <2>11, <2>12 DEF Next, Load
<1> QED BY <1>1, <1>2

\* Where the cells of a segment are that is not empty
LEMMA ExtentCells ==
    ASSUME ControlInv, Held, NEW s \in Segments(file),
           AlignedMemSize(s) = 0 \/ Aligned(BaseVAddr(file)), NEW v \in Extent(s)
    PROVE  /\ v \in Nat /\ s.vaddr <= v /\ v < s.vaddr + s.memsz
           /\ Aligned(BaseVAddr(file))
           /\ Address(v) \in Cells /\ Address(v) \in SegCells(s)
<1>1. /\ TypeOK /\ Accepted(file) /\ Aligned(base) /\ base + MemSize(file) <= NumPages * PageSize
  BY DEF ControlInv, Held
<1>2. /\ MapAddr(s) \in Int /\ AlignedMemSize(s) \in Nat /\ base \in Nat /\ MemSize(file) \in Nat
      /\ BaseVAddr(file) \in Nat /\ Leading(s) \in Nat /\ s.vaddr \in Nat /\ s.memsz \in Nat
      /\ MapAddr(s) + Leading(s) = Address(s.vaddr) /\ s.memsz + Leading(s) <= AlignedMemSize(s)
      /\ Aligned(BaseVAddr(file)) =>
            base <= MapAddr(s) /\ MapAddr(s) + AlignedMemSize(s) <= base + MemSize(file)
  BY <1>1, RegionFacts, HeaderFacts
<1>3. v \in Nat /\ s.vaddr <= v /\ v < s.vaddr + s.memsz
  BY <1>2 DEF Extent
<1>4. AlignedMemSize(s) # 0 /\ Aligned(BaseVAddr(file))
  BY <1>2, <1>3
<1>5. Address(v) = base + v - BaseVAddr(file) /\ Address(s.vaddr) = base + s.vaddr - BaseVAddr(file)
  BY DEF Address
<1>6. /\ Address(v) \in Nat /\ Address(v) < base + MemSize(file)
      /\ MapAddr(s) <= Address(v) /\ Address(v) < MapAddr(s) + AlignedMemSize(s)
  BY <1>2, <1>3, <1>4, <1>5
<1>7. NumPages * PageSize \in Int
  BY SMT
<1>8. Address(v) \in Cells
  BY <1>1, <1>2, <1>6, <1>7 DEF Cells
<1> QED BY <1>3, <1>4, <1>6, <1>8 DEF SegCells, Within

LEMMA FaultStep ==
    ASSUME ControlInv, PermInv, phase # "crashed", [Next]_vars, RelocsWritable(file)
    PROVE  phase' # "crashed"
<1>1. CASE ZeroBSSPage
  <2>1. phase = "zero" /\ Alive
    BY <1>1 DEF ZeroBSSPage, Alive
  <2>2. S \in Segments(file) /\ Held /\ S.filesz < S.memsz /\ S \in Header
    BY <2>1, SegmentsThere, SegmentFacts DEF ControlInv
  <2>3. MapProt(S) = S.prot \cup {"w"}
    BY <2>2, HeaderFacts DEF MapProt
  <2>4. ASSUME NEW c \in BSSHead PROVE "w" \in prot[PageOf(c)]
    <3>1. c \in SegCells(S) /\ c \in Cells
      BY <1>1, <2>2, ZeroBSSPageStep, CellsOfSegment DEF FileCells, BSSHead
    <3> QED BY <2>1, <2>3, <3>1 DEF PermInv
  <2> QED BY <1>1, <2>4, ZeroBSSPageStep
<1>2. CASE Relocate
  <2>1. phase = "reloc" /\ Alive /\ InImage(R) /\ seg = Len(file.segs) + 1 /\ base \in Nat
    BY <1>2, CellFacts DEF Relocate, Alive, ControlInv, TypeOK
  <2>2. /\ done + 1 \in DOMAIN file.relocs /\ R = file.relocs[done + 1] /\ R.offset \in Nat
        /\ (\A c \in RelocWord : c \in Cells /\ "w" \in prot[PageOf(c)]) => phase' = "reloc"
    BY <1>2, RelocateStep DEF R
  <2>3. PICK s \in Segments(file) : "w" \in s.prot /\ Word(R) \subseteq Extent(s)
    BY <2>1, <2>2, SegmentsThere DEF RelocsWritable, InImage
  <2>4. PICK i \in DOMAIN file.segs : s = file.segs[i]
    BY DEF Segments
  <2>5. i < seg
    BY <2>1, FileFacts, SegmentsThere
  <2>6. Finished(s) /\ Held /\ phase # "ready"
    BY <2>1, <2>4, <2>5, SegmentsThere DEF PermInv
  <2>7. ASSUME NEW c \in RelocWord PROVE c \in Cells /\ "w" \in prot[PageOf(c)]
    <3>1. BaseVAddr(file) \in Nat
      BY <2>6, SegmentsThere, RangeFacts DEF ControlInv, TypeOK, Held
    <3>2. PICK b, v, a \in Nat : b = BaseVAddr(file) /\ v = R.offset /\ a = base
      BY <2>1, <2>2, <3>1
    <3>3. c \in Int /\ a + v - b <= c /\ c <= a + v - b + WordSize - 1
      BY <3>2 DEF RelocWord, RelocCell
    <3>4. PICK w \in Int : w = c - a + b
      BY <3>2, <3>3
    <3>5. w \in Word(R) /\ a + w - b = c
      BY <3>2, <3>3, <3>4 DEF Word
    <3>6. w \in Extent(s) /\ Address(w) = c
      BY <2>3, <3>2, <3>5 DEF Address
    <3>7. AlignedMemSize(s) = 0 \/ Aligned(BaseVAddr(file))
      BY <2>6 DEF Finished
    <3>8. Address(w) \in Cells /\ Address(w) \in SegCells(s)
      BY <2>6, <3>6, <3>7, ExtentCells
    <3>9. prot[PageOf(c)] = s.prot
      BY <2>6, <3>6, <3>8 DEF Finished
    <3> QED BY <2>3, <3>6, <3>8, <3>9
  <2> QED BY <2>2, <2>7
<1> QED BY <1>1, <1>2 DEF Next, Load, Parse, Reserve, ReserveFails, MapFile, MapFileFails, MapBSSTail,
     MapBSSFails, ProtectSegment, ProtectFails, SetupTLS, RelocateFails, NextSegment,
     ApplyRELRO, Unload, OtherMaps, Fail, Goto, loadVars, vars

\* The loader never stores in a page that is not writable at the time: the pages whose end
\* it must zero have the permission until it has, and the relocations come before RELRO.
\* It holds for files whose relocated words are in writable segments, that share no page
\* with others: elf.Parse does not check it (Layout's NoFault: zeroBSSPage,
\* applyRelocation)
THEOREM NothingFaults ==
    ASSUME \A f \in Files : Accepted(f) => SegmentsApart(f)
    PROVE  Spec => []NoFault
<1> DEFINE Inv == ControlInv /\ OwnerInv /\ PermInv /\ NoFault
<1>1. Init => Inv
  <2>1. Init => phase = "parse"
    BY DEF Init
  <2> QED BY <2>1, LayoutInit DEF PermInv, Alive, NoFault
<1>2. Inv /\ [Next]_vars => Inv'
  <2> SUFFICES ASSUME Inv, [Next]_vars PROVE Inv'
    OBVIOUS
  <2>1. Accepted(file) => SegmentsApart(file)
    BY DEF ControlInv, TypeOK
  <2>2. file' = file
    BY HeldSteps DEF vars, loadVars
  <2>3. NoFault'
    <3> SUFFICES ASSUME RelocsWritable(file)' PROVE phase' # "crashed"
      BY DEF NoFault
    <3>1. RelocsWritable(file)
      BY <2>2
    <3> QED BY <3>1, FaultStep DEF NoFault
  <2> QED BY <2>1, <2>3, ControlStep, OwnerStep, PermStep
<1>3. Inv => NoFault
  OBVIOUS
<1> QED BY <1>1, <1>2, <1>3, PTL DEF Spec

LEMMA PermMeaning ==
    ASSUME ControlInv, PermInv, Accepted(file) => RelroWhole(file)
    PROVE  ProtectionFaithful
<1> SUFFICES ASSUME phase = "ready", NEW s \in Segments(file),
                    NEW v \in Extent(s) \ Extent(file.relro)
             PROVE  prot[PageOf(Address(v))] = s.prot
  BY DEF ProtectionFaithful
<1>1. /\ Alive /\ Held /\ file \in Files /\ Accepted(file) /\ seg = Len(file.segs) + 1 /\ base \in Nat
  BY SegmentsThere, CellFacts DEF Alive, ControlInv, TypeOK
<1>2. PICK i \in DOMAIN file.segs : s = file.segs[i]
  BY DEF Segments
<1>3. i < seg
  BY <1>1, FileFacts
<1>4. Finished(s)
  BY <1>1, <1>2, <1>3 DEF PermInv
<1>5. v \in Nat /\ Address(v) \in Cells /\ Address(v) \in SegCells(s)
  BY <1>1, <1>4, ExtentCells DEF Finished
<1>6. ASSUME InRelro(Address(v)) PROVE FALSE
  <2> DEFINE h == file.relro
  <2>1. h.vaddr \in Nat /\ h.memsz \in Nat /\ BaseVAddr(file) \in Nat
    BY <1>1, FileFacts, HeaderFacts, RangeFacts
  <2>2. PageUp(h.memsz) = h.memsz
    <3>1. Aligned(h.memsz)
      BY <1>1, <1>6 DEF InRelro, RelroWhole
    <3> QED BY <2>1, <3>1, PageUpFacts
  <2>3. base + h.vaddr - BaseVAddr(file) <= Address(v)
        /\ Address(v) < base + h.vaddr - BaseVAddr(file) + h.memsz
    BY <1>6, <2>2 DEF InRelro, Within
  <2>4. Address(v) = base + v - BaseVAddr(file)
    BY DEF Address
  <2>5. h.vaddr <= v /\ v <= h.vaddr + h.memsz - 1
    <3>1. PICK a, n, b, c \in Nat :
            a = h.vaddr /\ n = h.memsz /\ b = BaseVAddr(file) /\ c = base
      BY <1>1, <2>1
    <3>2. c + a - b <= c + v - b /\ c + v - b < c + a - b + n
      BY <2>3, <2>4, <3>1
    <3>3. a <= v /\ v <= a + n - 1
      BY <1>5, <3>2
    <3> QED BY <3>1, <3>3
  <2> QED BY <1>5, <2>1, <2>5 DEF Extent
<1> QED BY <1>4, <1>5, <1>6 DEF Finished

\* In a loaded object every page of a segment has the permissions of its header, except
\* where PT_GNU_RELRO is: the write permission that computeMapProt adds is taken back, and
\* neither it nor RELRO is left on a page of another segment.  It holds for files whose
\* segments share no page, and whose RELRO is whole pages if it starts with one (Layout's
\* ProtectionFaithful: mapSegment, mapBSSRegion and applyRELROProtection)
THEOREM ProtectionAsAsked ==
    ASSUME \A f \in Files : Accepted(f) => SegmentsApart(f) /\ RelroWhole(f)
    PROVE  Spec => []ProtectionFaithful
<1> DEFINE Inv == ControlInv /\ OwnerInv /\ PermInv
<1>1. Init => Inv
  <2>1. Init => phase = "parse"
    BY DEF Init
  <2> QED BY <2>1, LayoutInit DEF PermInv, Alive
<1>2. Inv /\ [Next]_vars => Inv'
  <2> SUFFICES ASSUME Inv, [Next]_vars PROVE Inv'
    OBVIOUS
  <2>1. Accepted(file) => SegmentsApart(file)
    BY DEF ControlInv, TypeOK
  <2> QED BY <2>1, ControlStep, OwnerStep, PermStep
<1>3. Inv => ProtectionFaithful
  <2> SUFFICES ASSUME Inv PROVE ProtectionFaithful
    OBVIOUS
  <2>1. Accepted(file) => RelroWhole(file)
    BY DEF ControlInv, TypeOK
  <2> QED BY <2>1, PermMeaning
<1> QED BY <1>1, <1>2, <1>3, PTL DEF Spec
-----------------------------------------------------------------------------
(* The bytes of the segments *)

RelocAt(k) == base + file.relocs[k].offset - BaseVAddr(file)
Touched(c) == \E k \in 1 .. done : InWord(k, c)
ByteCells(s) == Within(Address(s.vaddr), s.memsz)

\* What the header says of a cell, and what mmap makes of the file
Loaded(s, c) ==
    IF c < Address(s.vaddr) + s.filesz THEN FileCell(file, s.off + c - Address(s.vaddr)) ELSE Zero
FromFile(s, c) == FileCell(file, PageDown(s.off) + c - MapAddr(s))

\* A segment is there, as far as no relocation has been applied to it
Filled(s) == \A c \in Cells : c \in ByteCells(s) /\ ~ Touched(c) => mem[c] = Loaded(s, c)

BytesInv ==
    Alive =>
        /\ \A k \in 1 .. done : \A c \in Cells : InWord(k, c) /\ Reserved(c) =>
                mem[c] = Pointer(base + file.relocs[k].addend, c - RelocAt(k))
        /\ \A i \in DOMAIN file.segs : i < seg => Filled(file.segs[i])
        /\ phase \in {"tail", "zero"} =>
            \A c \in Cells : c \in FileCells(S) => mem[c] = FromFile(S, c)
        /\ phase = "zero" => \A c \in Cells : c \in BSSCells(S) => mem[c] = Zero
        /\ phase = "protect" => Filled(S)

LEMMA BytesStay ==
    ASSUME base' = base, file' = file, NEW s
    PROVE  /\ FileCells(s)' = FileCells(s) /\ BSSCells(s)' = BSSCells(s) /\ ByteCells(s)' = ByteCells(s)
           /\ \A c : Loaded(s, c)' = Loaded(s, c) /\ FromFile(s, c)' = FromFile(s, c)
           /\ \A k : RelocAt(k)' = RelocAt(k) /\ \A c : InWord(k, c)' = InWord(k, c)
           /\ \A c : Reserved(c)' = Reserved(c)
           /\ done' = done => \A c : Touched(c)' = Touched(c)
BY DEF FileCells, BSSCells, ByteCells, Within, Address, Loaded, FromFile, RelocAt, InWord, Touched,
    MapAddr, AlignedFileSize, AlignedMemSize, Leading, Reserved

LEMMA FilledStays ==
    ASSUME base' = base, file' = file, NEW s, Filled(s),
           \A c : Touched(c) => Touched(c)',
           \A c \in Cells : c \in ByteCells(s) => mem'[c] = mem[c] \/ Touched(c)'
    PROVE  Filled(s)'
<1>1. \A c : Loaded(s, c)' = Loaded(s, c)
  BY BytesStay
<1>2. ByteCells(s)' = ByteCells(s)
  BY BytesStay
<1> QED BY <1>1, <1>2 DEF Filled

\* What BytesInv says of the next state, when no relocation is applied
LEMMA BytesNext ==
    ASSUME file' = file, base' = base, done' = done, seg' \in Nat, BytesInv, Alive,
           \A c \in Cells : Touched(c) /\ Reserved(c) => mem'[c] = mem[c],
           \A i \in DOMAIN file.segs : i < seg' => \A s : s = file.segs[i] => Filled(s)',
           \A s : s = file.segs[seg'] =>
               /\ phase' \in {"tail", "zero"} =>
                    \A c \in Cells : c \in FileCells(s) => mem'[c] = FromFile(s, c)
               /\ phase' = "zero" => \A c \in Cells : c \in BSSCells(s) => mem'[c] = Zero
               /\ phase' = "protect" => Filled(s)'
    PROVE  BytesInv'
<1>1. \A i \in DOMAIN file'.segs : i < seg' => Filled(file.segs[i])'
  <2> SUFFICES ASSUME NEW i \in DOMAIN file.segs, i < seg' PROVE Filled(file.segs[i])'
    OBVIOUS
  <2>1. PICK s : s = file.segs[i]
    OBVIOUS
  <2>2. Filled(s)'
    BY <2>1
  <2> QED BY <2>1, <2>2 DEF Filled, ByteCells, Within, Address, Loaded
<1>2. PICK s : s = file.segs[seg'] /\ s = S'
  BY DEF S
<1>3. FileCells(s)' = FileCells(s) /\ BSSCells(s)' = BSSCells(s)
  BY BytesStay
<1>4. \A c : FromFile(s, c)' = FromFile(s, c)
  BY BytesStay
<1>5. /\ phase' \in {"tail", "zero"} =>
            \A c \in Cells : c \in FileCells(s)' => mem'[c] = FromFile(s, c)'
      /\ phase' = "zero" => \A c \in Cells : c \in BSSCells(s)' => mem'[c] = Zero
      /\ phase' = "protect" => Filled(s)'
  BY <1>2, <1>3, <1>4
<1>6. ASSUME NEW k \in 1 .. done', NEW c \in Cells, InWord(k, c)', Reserved(c)'
      PROVE  mem'[c] = Pointer(base' + file'.relocs[k].addend, c - RelocAt(k)')
  <2>1. RelocAt(k)' = RelocAt(k) /\ InWord(k, c) /\ Reserved(c)
    BY <1>6, BytesStay
  <2>2. mem[c] = Pointer(base + file.relocs[k].addend, c - RelocAt(k))
    BY <2>1 DEF BytesInv
  <2>3. mem'[c] = mem[c]
    BY <2>1 DEF Touched
  <2> QED BY <2>1, <2>2, <2>3
<1> QED BY <1>1, <1>2, <1>5, <1>6
     DEF BytesInv, FileCells, BSSCells, Within, MapAddr, FromFile, Filled, ByteCells, Address, Loaded

\* Where the bytes of a segment are, and that the file's are mapped to their addresses
LEMMA ByteFacts ==
    ASSUME ControlInv, Held, NEW s \in Segments(file), s.off % PageSize = s.vaddr % PageSize
    PROVE  /\ ByteCells(s) \subseteq SegCells(s)
           /\ BSSStart(s) = Address(s.vaddr) + s.filesz
           /\ \A c \in Cells : c \in ByteCells(s) =>
                IF c < BSSStart(s)
                  THEN c \in FileCells(s) /\ FromFile(s, c) = Loaded(s, c)
                  ELSE Loaded(s, c) = Zero
<1>1. TypeOK /\ Accepted(file) /\ Aligned(base) /\ file \in Files
  BY DEF ControlInv, Held, TypeOK
<1>2. /\ s.vaddr \in Nat /\ s.memsz \in Nat /\ s.filesz \in Nat /\ s.off \in Nat
      /\ MapAddr(s) \in Int /\ AlignedFileSize(s) \in Nat /\ AlignedMemSize(s) \in Nat
      /\ Leading(s) \in Nat /\ MapAddr(s) + Leading(s) = Address(s.vaddr)
      /\ s.filesz + Leading(s) <= AlignedFileSize(s) /\ s.memsz + Leading(s) <= AlignedMemSize(s)
  BY <1>1, RegionFacts, FileFacts, HeaderFacts DEF Header
<1>3. Cells \subseteq Int
  BY CellFacts
<1>4. BSSStart(s) = Address(s.vaddr) + s.filesz /\ Address(s.vaddr) \in Int
  BY <1>2 DEF BSSStart
<1>5. ASSUME NEW c \in Int
      PROVE  FromFile(s, c) = FileCell(file, s.off + c - Address(s.vaddr))
  <2>1. PICK m \in Int : m = s.vaddr % PageSize /\ m = s.off % PageSize
    <3>1. PICK x \in Int : x = s.vaddr
      BY <1>2
    <3>2. x % PageSize \in Int
      BY Division
    <3> QED BY <3>1, <3>2
  <2>2. PageDown(s.off) = s.off - m /\ Leading(s) = m
    BY <1>2, <2>1 DEF PageDown, Leading
  <2>3. PageDown(s.off) + c - MapAddr(s) = s.off + c - Address(s.vaddr)
    BY <1>2, <2>1, <2>2
  <2> QED BY <2>3 DEF FromFile
<1>6. ASSUME NEW c \in ByteCells(s)
      PROVE  /\ c \in SegCells(s)
             /\ IF c < BSSStart(s)
                  THEN c \in FileCells(s) /\ FromFile(s, c) = Loaded(s, c)
                  ELSE Loaded(s, c) = Zero
  <2>1. c \in Cells /\ c \in Int /\ Address(s.vaddr) <= c /\ c < Address(s.vaddr) + s.memsz
    BY <1>3 DEF ByteCells, Within
  <2>2. c \in SegCells(s)
    BY <1>2, <2>1 DEF SegCells, Within
  <2>3. ASSUME c < BSSStart(s) PROVE c \in FileCells(s) /\ FromFile(s, c) = Loaded(s, c)
    BY <1>2, <1>4, <1>5, <2>1, <2>3 DEF FileCells, Within, Loaded
  <2>4. ASSUME ~ (c < BSSStart(s)) PROVE Loaded(s, c) = Zero
    BY <1>4, <2>4 DEF Loaded
  <2> QED BY <2>2, <2>3, <2>4
<1> QED BY <1>4, <1>6

\* The cells of a finished segment are in the reservation
LEMMA FinishedReserved ==
    ASSUME ControlInv, PermInv, SegmentsApart(file), Alive,
           NEW i \in DOMAIN file.segs, i < seg, NEW c \in Cells, c \in ByteCells(file.segs[i])
    PROVE  Reserved(c)
<1>1. PICK s \in Segments(file) : s = file.segs[i]
  BY SegmentsThere
<1>2. Finished(s) /\ Held /\ s.off % PageSize = s.vaddr % PageSize
  BY <1>1, SegmentsThere DEF PermInv, SegmentsApart
<1>3. c \in SegCells(s)
  BY <1>1, <1>2, ByteFacts
<1> QED BY <1>2, <1>3, CellsOfSegment DEF Finished

\* A step of mapSegment stores nothing in the cells of other segments
LEMMA EarlierFilled ==
    ASSUME ControlInv, BytesInv, SegmentsApart(file),
           phase \in {"file", "tail", "zero", "protect"}, base' = base, file' = file, done' = done,
           \A c \in Cells : c \notin SegCells(S) => mem'[c] = mem[c]
    PROVE  \A i \in DOMAIN file.segs : i < seg => \A s : s = file.segs[i] => Filled(s)'
<1> SUFFICES ASSUME NEW i \in DOMAIN file.segs, i < seg, NEW s, s = file.segs[i]
             PROVE  Filled(s)'
  OBVIOUS
<1>1. Alive
  BY DEF Alive
<1>2. Filled(s) /\ s \in Segments(file) /\ s.off % PageSize = s.vaddr % PageSize /\ Held
  BY <1>1, SegmentsThere DEF BytesInv, SegmentsApart
<1>3. \A c \in Cells : c \in ByteCells(s) => c \notin SegCells(S)
  <2>1. i # seg /\ seg \in DOMAIN file.segs /\ S = file.segs[seg] /\ Held
    BY <1>1, SegmentsThere
  <2> QED BY <1>2, <2>1, CellsApart, ByteFacts
<1>4. \A c : Touched(c)' = Touched(c)
  BY BytesStay
<1> QED BY <1>2, <1>3, <1>4, FilledStays

\* Nothing is relocated while the segments are mapped
LEMMA NothingTouched ==
    ASSUME ControlInv, done = 0
    PROVE  \A c : ~ Touched(c)
BY DEF Touched

\* The memory of the reservation stays
LEMMA BytesSame ==
    ASSUME ControlInv, PermInv, BytesInv, Accepted(file) => SegmentsApart(file),
           base' = base, file' = file, seg' = seg, done' = done,
           phase' \in {phase, "crashed"} \/ (phase \in {"tls", "reloc"} /\ phase' \in {"reloc", "ready"}),
           \A c \in Cells : Reserved(c) => mem'[c] = mem[c]
    PROVE  BytesInv'
<1> SUFFICES ASSUME Alive PROVE BytesInv'
  BY DEF BytesInv, Alive
<1>0. seg \in Nat /\ Held /\ Accepted(file) /\ SegmentsApart(file)
  BY SegmentsThere
<1>1. \A c \in Cells : Touched(c) /\ Reserved(c) => mem'[c] = mem[c]
  OBVIOUS
<1>2. ASSUME NEW i \in DOMAIN file.segs, i < seg, NEW s, s = file.segs[i] PROVE Filled(s)'
  <2>1. Filled(s)
    BY <1>2 DEF BytesInv
  <2>2. \A c \in Cells : c \in ByteCells(s) => mem'[c] = mem[c]
    BY <1>0, <1>2, FinishedReserved
  <2>3. \A c : Touched(c)' = Touched(c)
    BY BytesStay
  <2> QED BY <2>1, <2>2, <2>3, FilledStays
<1>3. ASSUME NEW s, s = file.segs[seg], phase' \in {"tail", "zero", "protect"}
      PROVE  /\ phase' \in {"tail", "zero"} =>
                  \A c \in Cells : c \in FileCells(s) => mem'[c] = FromFile(s, c)
             /\ phase' = "zero" => \A c \in Cells : c \in BSSCells(s) => mem'[c] = Zero
             /\ phase' = "protect" => Filled(s)'
  <2>1. phase' = phase /\ s = S /\ s \in Segments(file) /\ s.off % PageSize = s.vaddr % PageSize
    <3>1. phase' = phase
      BY <1>3
    <3> QED BY <1>0, <1>3, <3>1, SegmentsThere DEF SegmentsApart
  <2>2. ASSUME NEW c \in Cells, c \in FileCells(s) \/ Aligned(BaseVAddr(file)), c \in SegCells(s)
        PROVE  mem'[c] = mem[c]
    <3>1. Aligned(BaseVAddr(file))
      <4>1. CASE c \in FileCells(s)
        <5>1. AlignedFileSize(s) # 0
          <6> SUFFICES ASSUME AlignedFileSize(s) = 0 PROVE FALSE
            OBVIOUS
          <6>1. c \in Int /\ MapAddr(s) <= c /\ c < MapAddr(s) + AlignedFileSize(s) /\ MapAddr(s) \in Int
            BY <1>0, <2>1, <4>1, CellFacts, RegionFacts DEF FileCells, Within, ControlInv, Held
          <6> QED BY <6>1
        <5> QED BY <1>3, <2>1, <5>1 DEF ControlInv
      <4> QED BY <2>2, <4>1
    <3> QED BY <1>0, <2>1, <2>2, <3>1, CellsOfSegment
  <2>3. /\ FileCells(s) \subseteq SegCells(s) /\ BSSCells(s) \subseteq SegCells(s)
        /\ ByteCells(s) \subseteq SegCells(s)
    BY <1>0, <2>1, CellsOfSegment, ByteFacts
  <2>4. ASSUME phase' \in {"tail", "zero"}, NEW c \in Cells, c \in FileCells(s)
        PROVE  mem'[c] = FromFile(s, c)
    BY <2>1, <2>2, <2>3, <2>4 DEF BytesInv
  <2>5. ASSUME phase' = "zero", NEW c \in Cells, c \in BSSCells(s) PROVE mem'[c] = Zero
    <3>1. Aligned(BaseVAddr(file))
      BY <2>1, <2>5 DEF ControlInv
    <3> QED BY <2>1, <2>2, <2>3, <2>5, <3>1 DEF BytesInv
  <2>6. ASSUME phase' = "protect" PROVE Filled(s)'
    <3>1. Aligned(BaseVAddr(file)) /\ Filled(s)
      BY <2>1, <2>6 DEF ControlInv, BytesInv
    <3>2. \A c \in Cells : c \in ByteCells(s) => mem'[c] = mem[c]
      BY <2>2, <2>3, <3>1
    <3>3. \A c : Touched(c)' = Touched(c)
      BY BytesStay
    <3> QED BY <3>1, <3>2, <3>3, FilledStays
  <2> QED BY <2>4, <2>5, <2>6
<1> QED BY <1>0, <1>1, <1>2, <1>3, BytesNext

LEMMA NextSegmentFilled ==
    ASSUME ControlInv, BytesInv, SegmentsApart(file), phase \in {"file", "protect"},
           NextSegment, base' = base, file' = file, done' = done, done = 0,
           \A c \in Cells : c \notin SegCells(S) => mem'[c] = mem[c],
           \A s : s = S => Filled(s)'
    PROVE  BytesInv'
<1>1. /\ Alive /\ Held /\ seg \in Nat /\ S \in Segments(file)
      /\ \A i \in DOMAIN file.segs : i \in Nat
      /\ S = file.segs[seg]
  BY SegmentsThere DEF Alive
<1>2. phase' \in {"file", "tls"} /\ seg' = seg + 1
  BY DEF NextSegment, Goto
<1>3. ASSUME NEW i \in DOMAIN file.segs, i < seg', NEW s, s = file.segs[i] PROVE Filled(s)'
  <2>1. CASE i < seg
    BY <1>3, <2>1, EarlierFilled
  <2>2. CASE i = seg
    BY <1>1, <1>3, <2>2
  <2> QED BY <1>1, <1>2, <1>3, <2>1, <2>2
<1>4. \A c : ~ Touched(c)
  BY NothingTouched
<1> QED BY <1>1, <1>2, <1>3, <1>4, BytesNext

\* A relocation adds its word to the ones that are relocated, and stores in no other
LEMMA BytesRelocated ==
    ASSUME ControlInv, BytesInv, SegmentsApart(file), RelocsApart(file), Relocate, phase' = "reloc"
    PROVE  BytesInv'
<1>1. /\ phase = "reloc" /\ Alive /\ base' = base /\ file' = file /\ seg' = seg /\ done' = done + 1
      /\ done \in Nat /\ base \in Nat /\ file \in Files /\ BaseVAddr(file) \in Nat
      /\ seg \in Nat /\ \A i \in DOMAIN file.segs : i \in Nat
  <2>1. phase = "reloc" /\ base' = base /\ file' = file /\ seg' = seg /\ done' = done + 1 /\ Alive
    BY DEF Relocate, Alive
  <2> QED BY <2>1, SegmentsThere, RangeFacts, CellFacts DEF ControlInv, TypeOK
<1>2. /\ done + 1 \in DOMAIN file.relocs /\ RelocCell \in Nat
      /\ RelocCell = RelocAt(done + 1) /\ R = file.relocs[done + 1] /\ R.offset \in Nat
      /\ \A c \in Cells : mem'[c] =
            IF c \in RelocWord THEN Pointer(base + R.addend, c - RelocCell) ELSE mem[c]
  BY RelocateStep DEF RelocCell, RelocAt, R
<1>3. \A k \in 1 .. done : k \in DOMAIN file.relocs /\ k # done + 1
  BY <1>1, <1>2, FileFacts
<1>4. ASSUME NEW c \in Cells PROVE c \in RelocWord <=> InWord(done + 1, c)
  <2>1. c \in Int
    BY CellFacts
  <2>2. PICK b, v, a \in Nat : b = BaseVAddr(file) /\ v = R.offset /\ a = base
    BY <1>1, <1>2
  <2>3. c \in a + v - b .. a + v - b + WordSize - 1 <=> c - a + b \in v .. v + WordSize - 1
    BY <2>1, <2>2
  <2>4. c \in RelocWord <=> c \in a + v - b .. a + v - b + WordSize - 1
    BY <2>2 DEF RelocWord, RelocCell
  <2>5. InWord(done + 1, c) <=> c - a + b \in v .. v + WordSize - 1
    BY <1>2, <2>2 DEF InWord, Word
  <2> QED BY <2>3, <2>4, <2>5
<1>5. ASSUME NEW k \in 1 .. done + 1, NEW c \in Cells, InWord(k, c), Reserved(c)
      PROVE  mem'[c] = Pointer(base + file.relocs[k].addend, c - RelocAt(k))
  <2>1. CASE k = done + 1
    BY <1>2, <1>4, <1>5, <2>1
  <2>2. CASE k # done + 1
    <3>1. k \in 1 .. done
      BY <1>1, <2>2
    <3>2. mem[c] = Pointer(base + file.relocs[k].addend, c - RelocAt(k))
      BY <1>1, <1>5, <3>1 DEF BytesInv
    <3>3. ~ InWord(done + 1, c)
      <4>1. Word(file.relocs[k]) \cap Word(file.relocs[done + 1]) = {}
        BY <1>2, <1>3, <2>2, <3>1 DEF RelocsApart
      <4> QED BY <1>5, <4>1 DEF InWord
    <3> QED BY <1>2, <1>4, <3>2, <3>3
  <2> QED BY <2>1, <2>2
<1>6. ASSUME NEW k \in 1 .. done', NEW c \in Cells, InWord(k, c)', Reserved(c)'
      PROVE  mem'[c] = Pointer(base' + file'.relocs[k].addend, c - RelocAt(k)')
  <2>1. RelocAt(k)' = RelocAt(k) /\ InWord(k, c) /\ Reserved(c)
    BY <1>1, <1>6, BytesStay
  <2>2. mem'[c] = Pointer(base + file.relocs[k].addend, c - RelocAt(k))
    BY <1>1, <1>5, <2>1
  <2> QED BY <1>1, <2>1, <2>2
<1>7. ASSUME NEW i \in DOMAIN file'.segs, i < seg' PROVE Filled(file.segs[i])'
  <2>1. PICK s : s = file.segs[i]
    OBVIOUS
  <2>2. Filled(s)
    BY <1>1, <1>7, <2>1 DEF BytesInv
  <2>3. ASSUME NEW k \in 1 .. done + 1, NEW c, InWord(k, c) PROVE Touched(c)'
    <3>1. k \in 1 .. done' /\ InWord(k, c)'
      BY <1>1, <2>3, BytesStay
    <3> QED BY <3>1 DEF Touched
  <2>4. \A c : Touched(c) => Touched(c)'
    <3> SUFFICES ASSUME NEW c, NEW k \in 1 .. done, InWord(k, c) PROVE Touched(c)'
      BY DEF Touched
    <3>1. k \in 1 .. done + 1
      BY <1>1
    <3> QED BY <2>3, <3>1
  <2>5. \A c \in Cells : c \in ByteCells(s) => mem'[c] = mem[c] \/ Touched(c)'
    <3>1. done + 1 \in 1 .. done + 1
      BY <1>1
    <3> QED BY <1>2, <1>4, <2>3, <3>1
  <2>6. Filled(s)'
    BY <1>1, <2>2, <2>4, <2>5, FilledStays
  <2> QED BY <1>1, <2>1, <2>6 DEF Filled, ByteCells, Within, Address, Loaded
<1> QED BY <1>6, <1>7 DEF BytesInv

LEMMA BytesStep ==
    ASSUME ControlInv, OwnerInv, PermInv, BytesInv,
           Accepted(file) => SegmentsApart(file) /\ RelocsApart(file), [Next]_vars
    PROVE  BytesInv'
<1>1. CASE UNCHANGED vars
  BY <1>1, BytesSame DEF vars, loadVars, space
<1>2. CASE Next
  <2>0. file' = file
    BY <1>2, HeldSteps
  <2>1. CASE Parse \/ ReserveFails
    BY <2>1 DEF Parse, ReserveFails, Goto, BytesInv, Alive
  <2>2. CASE Reserve
    <3>1. phase' = "file" /\ seg' = 1 /\ done' = 0 /\ \A i \in DOMAIN file.segs : i \in Nat /\ ~ (i < 1)
      BY <2>2, FileFacts DEF Reserve, Goto, ControlInv, TypeOK
    <3>2. \A k : k \notin 1 .. done'
      BY <3>1
    <3> QED BY <2>0, <3>1, <3>2 DEF BytesInv
  <2>3. CASE MapFileFails \/ MapBSSFails \/ ProtectFails \/ RelocateFails \/ Unload
    <3>1. phase' \in {"failed", "gone"}
      BY <2>3 DEF MapFileFails, MapBSSFails, ProtectFails, RelocateFails, Fail, Unload, Goto
    <3> QED BY <3>1 DEF BytesInv, Alive
  <2>4. CASE MapFile
    <3>1. /\ phase = "file" /\ base' = base /\ done' = done /\ Alive
          /\ IF S.memsz > S.filesz THEN phase' = "tail" /\ seg' = seg ELSE NextSegment
      BY <2>4 DEF MapFile, Goto, Alive
    <3>2. /\ Accepted(file) /\ SegmentsApart(file) /\ S \in Segments(file) /\ Held /\ seg \in Nat
          /\ S = file.segs[seg] /\ file \in Files /\ done = 0 /\ S.off % PageSize = S.vaddr % PageSize
      BY <3>1, SegmentsThere DEF ControlInv, SegmentsApart
    <3>3. \A c \in Cells : IF c \in FileCells(S) THEN mem'[c] = FromFile(S, c) ELSE mem'[c] = mem[c]
      BY <2>4, MapFileStep DEF FileCells, FromFile, SameCell
    <3>4. FileCells(S) \subseteq SegCells(S)
      BY <3>2, CellsOfSegment
    <3>5. \A c \in Cells : c \notin SegCells(S) => mem'[c] = mem[c]
      BY <3>3, <3>4
    <3>6. CASE S.memsz > S.filesz
      <4>1. \A i \in DOMAIN file.segs : i < seg => \A s : s = file.segs[i] => Filled(s)'
        BY <2>0, <3>1, <3>2, <3>5, EarlierFilled
      <4>2. \A s : s = file.segs[seg] =>
              \A c \in Cells : c \in FileCells(s) => mem'[c] = FromFile(s, c)
        BY <3>2, <3>3
      <4>3. \A c : ~ Touched(c)
        BY <3>2, NothingTouched
      <4> QED BY <2>0, <3>1, <3>2, <3>6, <4>1, <4>2, <4>3, BytesNext
    <3>7. CASE ~ (S.memsz > S.filesz)
      <4>1. S.filesz <= S.memsz /\ S.memsz \in Nat /\ S.filesz \in Nat
        BY <3>2, RangeFacts, FileFacts, HeaderFacts
      <4>2. S.memsz = S.filesz
        BY <3>7, <4>1
      <4>3. ASSUME NEW s, s = S PROVE Filled(s)'
        <5>1. ASSUME NEW c \in Cells, c \in ByteCells(s) PROVE mem'[c] = Loaded(s, c)
          <6>1. c < BSSStart(s)
            BY <3>2, <4>2, <4>3, <5>1, ByteFacts DEF ByteCells, Within
          <6> QED BY <3>2, <3>3, <4>3, <5>1, <6>1, ByteFacts
        <5>2. ByteCells(s)' = ByteCells(s) /\ \A c : Loaded(s, c)' = Loaded(s, c)
          BY <2>0, <3>1, BytesStay
        <5> QED BY <5>1, <5>2 DEF Filled
      <4> QED BY <2>0, <3>1, <3>2, <3>5, <3>7, <4>3, NextSegmentFilled
    <3> QED BY <3>6, <3>7
  <2>5. CASE MapBSSTail
    <3>1. phase = "tail" /\ base' = base /\ done' = done /\ Alive /\ phase' = "zero" /\ seg' = seg
      BY <2>5 DEF MapBSSTail, Goto, Alive
    <3>2. /\ SegmentsApart(file) /\ S \in Segments(file) /\ Held /\ seg \in Nat
          /\ S = file.segs[seg] /\ done = 0 /\ Accepted(file) /\ Aligned(base)
      BY <3>1, SegmentsThere DEF ControlInv
    <3>3. \A c \in Cells : IF c \in BSSCells(S) THEN mem'[c] = Zero ELSE mem'[c] = mem[c]
      BY <2>5, MapBSSTailStep DEF BSSCells, SameCell
    <3>4. \A c \in Cells : c \in FileCells(S) => c \notin BSSCells(S)
      <4>1. PICK s \in Segments(file) : s = S
        BY <3>2
      <4>2. TypeOK
        BY DEF ControlInv
      <4>3. MapAddr(s) \in Int /\ AlignedFileSize(s) \in Nat
        BY <3>2, <4>2, RegionFacts
      <4>4. Cells \subseteq Int
        BY CellFacts
      <4> QED BY <4>1, <4>3, <4>4 DEF FileCells, BSSCells, Within
    <3>5. \A c \in Cells : c \notin SegCells(S) => mem'[c] = mem[c]
      BY <3>2, <3>3, CellsOfSegment
    <3>6. \A i \in DOMAIN file.segs : i < seg => \A s : s = file.segs[i] => Filled(s)'
      BY <2>0, <3>1, <3>2, <3>5, EarlierFilled
    <3>7. \A c \in Cells : c \in FileCells(S) => mem[c] = FromFile(S, c)
      BY <3>1 DEF BytesInv
    <3>8. \A s : s = file.segs[seg] =>
            /\ \A c \in Cells : c \in FileCells(s) => mem'[c] = FromFile(s, c)
            /\ \A c \in Cells : c \in BSSCells(s) => mem'[c] = Zero
      BY <3>2, <3>3, <3>4, <3>7
    <3>9. \A c : ~ Touched(c)
      BY <3>2, NothingTouched
    <3> QED BY <2>0, <3>1, <3>2, <3>6, <3>8, <3>9, BytesNext
  <2>6. CASE ZeroBSSPage
    <3>1. phase = "zero" /\ base' = base /\ done' = done /\ seg' = seg /\ Alive
      BY <2>6 DEF ZeroBSSPage, Alive
    <3>2. phase' \in {"protect", "crashed"}
      BY <2>6, ZeroBSSPageStep
    <3>3. CASE phase' = "crashed"
      BY <3>3 DEF BytesInv, Alive
    <3>4. CASE phase' = "protect"
      <4>1. /\ SegmentsApart(file) /\ S \in Segments(file) /\ seg \in Nat /\ S = file.segs[seg]
            /\ Held /\ done = 0 /\ S.off % PageSize = S.vaddr % PageSize
        BY <3>1, SegmentsThere DEF ControlInv, SegmentsApart
      <4>2. /\ \A c \in BSSHead : c \in FileCells(S)
            /\ \A c \in Cells : mem'[c] = IF c \in BSSHead THEN Zero ELSE mem[c]
        BY <2>6, <3>4, ZeroBSSPageStep DEF FileCells
      <4>3. \A c \in Cells : c \notin SegCells(S) => mem'[c] = mem[c]
        BY <4>1, <4>2, CellsOfSegment
      <4>4. \A i \in DOMAIN file.segs : i < seg => \A s : s = file.segs[i] => Filled(s)'
        BY <2>0, <3>1, <4>1, <4>3, EarlierFilled
      <4>5. ASSUME NEW s, s = file.segs[seg] PROVE Filled(s)'
        <5>0. /\ s = S /\ Cells \subseteq Int
              /\ \A c \in Cells : c \in FileCells(s) => mem[c] = FromFile(s, c)
              /\ \A c \in Cells : c \in BSSCells(s) => mem[c] = Zero
          BY <3>1, <4>1, <4>5, CellFacts DEF BytesInv
        <5>a. Accepted(file) /\ Aligned(base) /\ TypeOK /\ s \in Segments(file)
          BY <3>1, <4>1, <5>0, SegmentFacts DEF ControlInv
        <5>b. BSSStart(s) \in Int
          <6>1. MapAddr(s) \in Int /\ Leading(s) \in Nat /\ s.filesz \in Nat
            BY <5>a, RegionFacts, HeaderFacts
          <6> QED BY <6>1 DEF BSSStart
        <5>1. ASSUME NEW c \in Cells, c \in ByteCells(s) PROVE mem'[c] = Loaded(s, c)
          <6>1. CASE c < BSSStart(s)
            <7>1. c \notin BSSHead
              <8> QED BY <5>0, <5>b, <6>1 DEF BSSHead
            <7> QED BY <4>1, <4>2, <5>0, <5>1, <6>1, <7>1, ByteFacts
          <6>2. CASE ~ (c < BSSStart(s))
            <7>1. Loaded(s, c) = Zero /\ c \in SegCells(s)
              BY <4>1, <5>0, <5>1, <6>2, ByteFacts
            <7>2. CASE c \in FileCells(s)
              <8>1. c \in BSSHead
                BY <5>0, <5>b, <6>2, <7>2 DEF BSSHead, FileCells, Within
              <8> QED BY <4>2, <7>1, <8>1
            <7>3. CASE c \in BSSCells(s)
              BY <4>2, <5>0, <7>1, <7>3
            <7> QED BY <4>1, <5>0, <7>1, <7>2, <7>3, CellsOfSegment
          <6> QED BY <6>1, <6>2
        <5>2. ByteCells(s)' = ByteCells(s) /\ \A c : Loaded(s, c)' = Loaded(s, c)
          BY <2>0, <3>1, BytesStay
        <5> QED BY <5>1, <5>2 DEF Filled
      <4>6. \A c : ~ Touched(c)
        BY <4>1, NothingTouched
      <4> QED BY <2>0, <3>1, <3>4, <4>1, <4>4, <4>5, <4>6, BytesNext
    <3> QED BY <3>2, <3>3, <3>4
  <2>7. CASE ProtectSegment
    <3>1. phase = "protect" /\ base' = base /\ done' = done /\ Alive /\ NextSegment /\ mem' = mem
      BY <2>7 DEF ProtectSegment, Alive
    <3>2. SegmentsApart(file) /\ done = 0
      BY <3>1, SegmentsThere DEF ControlInv
    <3>3. ASSUME NEW s, s = S PROVE Filled(s)'
      <4>1. Filled(s)
        BY <3>1, <3>3 DEF BytesInv
      <4>2. \A c : Touched(c)' = Touched(c)
        BY <2>0, <3>1, BytesStay
      <4> QED BY <2>0, <3>1, <4>1, <4>2, FilledStays
    <3> QED BY <2>0, <3>1, <3>2, <3>3, NextSegmentFilled
  <2>8. CASE SetupTLS \/ ApplyRELRO
    <3>1. /\ base' = base /\ seg' = seg /\ done' = done /\ mem' = mem
          /\ phase \in {"tls", "reloc"} /\ phase' \in {"reloc", "ready"}
      BY <2>8 DEF SetupTLS, ApplyRELRO, Goto, space
    <3> QED BY <2>0, <3>1, BytesSame
  <2>9. CASE Relocate
    <3>1. phase' \in {"reloc", "crashed"} /\ phase = "reloc"
      BY <2>9, RelocateStep DEF Relocate
    <3>2. SegmentsApart(file) /\ RelocsApart(file)
      BY <3>1 DEF ControlInv
    <3>3. CASE phase' = "crashed"
      BY <3>3 DEF BytesInv, Alive
    <3> QED BY <2>9, <3>1, <3>2, <3>3, BytesRelocated
  <2>10. CASE OtherMaps
    <3>1. UNCHANGED loadVars
      BY <2>10, OtherMapsStep
    <3>2. PICK p \in Pages : /\ owner[p] = "free"
                             /\ \A c \in Cells : PageOf(c) # p => SameCell(c)
      BY <2>10, OtherMapsStep
    <3>3. Alive => \A c \in Cells : Reserved(c) => mem'[c] = mem[c]
      BY <3>2, SegmentsThere DEF OwnerInv, SameCell
    <3>4. CASE Alive
      BY <3>1, <3>3, <3>4, BytesSame DEF loadVars
    <3>5. CASE ~ Alive
      BY <3>1, <3>5 DEF BytesInv, Alive, loadVars
    <3> QED BY <3>4, <3>5
  <2> QED BY <1>2, <2>1, <2>2, <2>3, <2>4, <2>5, <2>6, <2>7, <2>8, <2>9, <2>10 DEF Next, Load
<1> QED BY <1>1, <1>2


\* In a loaded object every cell has what its header and the relocations say
LEMMA BytesMeaning ==
    ASSUME ControlInv, PermInv, BytesInv, Accepted(file) => SegmentsApart(file)
    PROVE  ImageFaithful
<1> SUFFICES ASSUME phase = "ready", NEW s \in Segments(file), NEW v \in Extent(s),
                    LinkedAtZero \/ ~ Relocates(v)
             PROVE  mem[Address(v)] = Expected(s, v)
  BY DEF ImageFaithful
<1>1. /\ Alive /\ Held /\ file \in Files /\ Accepted(file) /\ seg = Len(file.segs) + 1 /\ base \in Nat
      /\ done = Len(file.relocs) /\ SegmentsApart(file) /\ BaseVAddr(file) \in Nat
  BY SegmentsThere, CellFacts, RangeFacts DEF Alive, ControlInv, TypeOK
<1>2. PICK i \in DOMAIN file.segs : s = file.segs[i] /\ i < seg
  <2>1. PICK i \in DOMAIN file.segs : s = file.segs[i]
    BY DEF Segments
  <2> QED BY <1>1, <2>1, FileFacts
<1>3. Finished(s) /\ Filled(s) /\ s.off % PageSize = s.vaddr % PageSize
  BY <1>1, <1>2 DEF PermInv, BytesInv, SegmentsApart
<1>4. /\ v \in Nat /\ s.vaddr <= v /\ v < s.vaddr + s.memsz /\ Address(v) \in Cells
      /\ s.vaddr \in Nat /\ s.memsz \in Nat /\ s.filesz \in Nat /\ s.off \in Nat
  BY <1>1, <1>3, ExtentCells, FileFacts, HeaderFacts DEF Finished
<1>5. Address(v) = base + v - BaseVAddr(file) /\ Address(s.vaddr) = base + s.vaddr - BaseVAddr(file)
  BY DEF Address
<1>6. Address(v) \in ByteCells(s)
  BY <1>1, <1>4, <1>5 DEF ByteCells, Within
<1>7. /\ DOMAIN file.relocs = 1 .. done
      /\ \A k \in DOMAIN file.relocs : file.relocs[k].offset \in Nat
  BY <1>1, FileFacts
<1>8. ASSUME NEW k \in 1 .. done PROVE InWord(k, Address(v)) <=> v \in Word(file.relocs[k])
  <2>1. PICK b \in Nat : b = BaseVAddr(file)
    BY <1>1
  <2>2. Address(v) - base + b = v
    BY <1>1, <1>4, <1>5, <2>1
  <2> QED BY <2>1, <2>2 DEF InWord
<1>9. CASE Relocates(v)
  <2>1. PICK k \in DOMAIN file.relocs :
            /\ k = CHOOSE j \in DOMAIN file.relocs : v \in Word(file.relocs[j])
            /\ v \in Word(file.relocs[k])
    BY <1>9 DEF Relocates
  <2>2. Expected(s, v) = Pointer(Address(file.relocs[k].addend), v - file.relocs[k].offset)
    BY <1>9, <2>1 DEF Expected
  <2>3. k \in 1 .. done /\ InWord(k, Address(v))
    BY <1>7, <1>8, <2>1
  <2>4. Reserved(Address(v))
    <3>1. Aligned(BaseVAddr(file)) /\ Address(v) \in SegCells(s)
      BY <1>1, <1>3, ExtentCells DEF Finished
    <3> QED BY <1>1, <3>1, CellsOfSegment
  <2>5. mem[Address(v)] = Pointer(base + file.relocs[k].addend, Address(v) - RelocAt(k))
    BY <1>1, <1>4, <2>3, <2>4 DEF BytesInv
  <2>6. /\ Address(file.relocs[k].addend) = base + file.relocs[k].addend
        /\ Address(v) - RelocAt(k) = v - file.relocs[k].offset
    <3>1. PICK x, y \in Nat : x = file.relocs[k].addend /\ y = file.relocs[k].offset
      BY <1>1, <2>1, FileFacts
    <3>2. BaseVAddr(file) = 0
      BY <1>9 DEF LinkedAtZero
    <3>3. Address(x) = base + x - 0 /\ Address(v) = base + v - 0 /\ RelocAt(k) = base + y - 0
      BY <3>1, <3>2 DEF Address, RelocAt
    <3>4. PICK a \in Nat : a = base
      BY <1>1
    <3>5. a + x - 0 = a + x /\ (a + v - 0) - (a + y - 0) = v - y
      BY <1>4, <3>1
    <3> QED BY <3>1, <3>3, <3>4, <3>5
  <2> QED BY <2>2, <2>5, <2>6
<1>10. CASE ~ Relocates(v)
  <2>1. ~ Touched(Address(v))
    BY <1>7, <1>8, <1>10 DEF Touched, Relocates
  <2>2. mem[Address(v)] = Loaded(s, Address(v))
    BY <1>3, <1>4, <1>6, <2>1 DEF Filled
  <2>3. Expected(s, v) = IF v - s.vaddr < s.filesz THEN FileCell(file, s.off + v - s.vaddr) ELSE Zero
    BY <1>10 DEF Expected
  <2>4. /\ Address(v) < Address(s.vaddr) + s.filesz <=> v - s.vaddr < s.filesz
        /\ s.off + Address(v) - Address(s.vaddr) = s.off + v - s.vaddr
    <3>1. PICK a, b, u, n, o \in Nat :
            a = base /\ b = BaseVAddr(file) /\ u = s.vaddr /\ n = s.filesz /\ o = s.off
      BY <1>1, <1>4
    <3>2. /\ a + v - b < (a + u - b) + n <=> v - u < n
          /\ o + (a + v - b) - (a + u - b) = o + v - u
      BY <1>4, <3>1
    <3> QED BY <1>5, <3>1, <3>2
  <2> QED BY <2>2, <2>3, <2>4 DEF Loaded
<1> QED BY <1>9, <1>10

\* A loaded segment holds the bytes of the file and then zeroes in every cell, wherever in
\* a page it starts, ends, or turns from file to BSS; and, in a file linked at 0, every
\* relocated word the address that it names.  Nothing that is mapped, zeroed or relocated
\* later writes there.  It holds for files whose segments share no page and are at the
\* same place of a page in the file, and whose relocated words share no cell (Layout's
\* ImageFaithful: mapSegment, zeroBSSPage and applyRelative)
THEOREM ImageAsLinked ==
    ASSUME \A f \in Files : Accepted(f) => SegmentsApart(f) /\ RelocsApart(f)
    PROVE  Spec => []ImageFaithful
<1> DEFINE Inv == ControlInv /\ OwnerInv /\ PermInv /\ BytesInv
<1>1. Init => Inv
  <2>1. Init => phase = "parse"
    BY DEF Init
  <2> QED BY <2>1, LayoutInit DEF PermInv, BytesInv, Alive
<1>2. Inv /\ [Next]_vars => Inv'
  <2> SUFFICES ASSUME Inv, [Next]_vars PROVE Inv'
    OBVIOUS
  <2>1. Accepted(file) => SegmentsApart(file) /\ RelocsApart(file)
    BY DEF ControlInv, TypeOK
  <2> QED BY <2>1, ControlStep, OwnerStep, PermStep, BytesStep
<1>3. Inv => ImageFaithful
  <2> SUFFICES ASSUME Inv PROVE ImageFaithful
    OBVIOUS
  <2>1. Accepted(file) => SegmentsApart(file)
    BY DEF ControlInv, TypeOK
  <2> QED BY <2>1, BytesMeaning
<1> QED BY <1>1, <1>2, <1>3, PTL DEF Spec
-----------------------------------------------------------------------------
(* The template of the TLS module *)

\* Whichever segment findTLSInitData finds, it computes the same address
TemplateInv ==
    phase \in {"reloc", "ready"} /\ file.tls.filesz > 0 /\ TemplateInside(file) =>
        template = Address(file.tls.vaddr) \/ (template = 0 /\ ~ LinkedAtZero)

LEMMA TemplateStep ==
    ASSUME ControlInv, TemplateInv, [Next]_vars
    PROVE  TemplateInv'
<1>1. CASE UNCHANGED <<file, base, template>> /\ (phase' \in {"reloc", "ready"} => phase \in {"reloc", "ready"})
  BY <1>1 DEF TemplateInv, LinkedAtZero, Address
<1>2. CASE SetupTLS
  <2> SUFFICES ASSUME file.tls.filesz > 0, TemplateInside(file)
               PROVE  template' = Address(file.tls.vaddr) \/ (template' = 0 /\ ~ LinkedAtZero)
    BY <1>2 DEF SetupTLS, TemplateInv, LinkedAtZero, Address
  <2> DEFINE holders == {i \in DOMAIN file.segs : HoldsTemplate(i)}
  <2>1. /\ phase = "tls" /\ file \in Files /\ Accepted(file) /\ Aligned(base) /\ base \in Nat
        /\ TypeOK /\ BaseVAddr(file) \in Nat
    BY <1>2, CellFacts, RangeFacts DEF SetupTLS, ControlInv, TypeOK, Held
  <2>2. /\ file.tls.vaddr \in Nat /\ file.tls.filesz \in Nat
        /\ \A i \in DOMAIN file.segs : i \in Nat /\ file.segs[i] \in Segments(file)
    BY <2>1, FileFacts, HeaderFacts
  <2>3. LinkedAtZero => holders # {}
    <3> SUFFICES ASSUME LinkedAtZero PROVE holders # {}
      OBVIOUS
    <3>1. PICK s \in Segments(file) :
              \A k \in 0 .. file.tls.filesz - 1 : file.tls.vaddr + k \in Extent(s)
      BY DEF TemplateInside
    <3>2. PICK i \in DOMAIN file.segs : s = file.segs[i]
      BY DEF Segments
    <3>3. s.vaddr \in Nat /\ s.memsz \in Nat
      BY <2>1, FileFacts, HeaderFacts
    <3>4. file.tls.vaddr + 0 \in Extent(s)
      BY <2>2, <3>1
    <3>5. s.vaddr <= file.tls.vaddr /\ file.tls.vaddr < s.vaddr + s.memsz
      BY <2>2, <3>3, <3>4 DEF Extent
    <3>6. HoldsTemplate(i)
      BY <3>2, <3>3, <3>5 DEF HoldsTemplate, LinkedAtZero
    <3> QED BY <2>2, <3>6
  <2>4. CASE holders = {}
    BY <1>2, <2>3, <2>4 DEF SetupTLS
  <2>5. CASE holders # {}
    <3>1. PICK i \in holders : template' = TemplateIn(i)
      <4>1. \E i \in holders : \A j \in holders : i <= j
        BY <2>2, <2>5, Least
      <4>2. PICK i : /\ i = CHOOSE h \in holders : \A j \in holders : h <= j
                     /\ i \in holders
        BY <4>1
      <4>3. template' = TemplateIn(i)
        BY <1>2, <2>5, <4>2 DEF SetupTLS
      <4> QED BY <4>2, <4>3
    <3>2. PICK s \in Segments(file) : s = file.segs[i]
      BY <2>2, <3>1
    <3>3. /\ MapAddr(s) \in Int /\ Leading(s) \in Nat /\ s.vaddr \in Nat
          /\ MapAddr(s) + Leading(s) = Address(s.vaddr)
      BY <2>1, RegionFacts, HeaderFacts
    <3>4. PICK b \in Nat : b = BaseVAddr(file)
      BY <2>1
    <3>5. Address(s.vaddr) = base + s.vaddr - b /\ Address(file.tls.vaddr) = base + file.tls.vaddr - b
      BY <3>4 DEF Address
    <3>6. template' = MapAddr(s) + Leading(s) + file.tls.vaddr - s.vaddr
      BY <3>1, <3>2 DEF TemplateIn
    <3>7. template' = Address(file.tls.vaddr)
      BY <2>1, <2>2, <3>3, <3>4, <3>5, <3>6
    <3> QED BY <3>7
  <2> QED BY <2>4, <2>5
<1>3. CASE Relocate
  BY <1>1, <1>3 DEF Relocate
<1>4. CASE ApplyRELRO
  BY <1>1, <1>4 DEF ApplyRELRO
<1>5. CASE OtherMaps \/ UNCHANGED vars
  BY <1>1, <1>5 DEF OtherMaps, vars, loadVars
<1>6. CASE Parse \/ Reserve \/ ReserveFails \/ MapFileFails \/ MapBSSTail \/ MapBSSFails \/ ProtectFails
            \/ RelocateFails \/ Unload
  <2>1. phase' \notin {"reloc", "ready"}
    BY <1>6 DEF Parse, Reserve, ReserveFails, MapFileFails, MapBSSTail, MapBSSFails, ProtectFails,
        RelocateFails, Unload, Fail, Goto
  <2> QED BY <2>1 DEF TemplateInv
<1>7. CASE MapFile \/ ProtectSegment
  <2>1. phase' \notin {"reloc", "ready"}
    BY <1>7 DEF MapFile, ProtectSegment, NextSegment, Goto
  <2> QED BY <2>1 DEF TemplateInv
<1>8. CASE ZeroBSSPage
  <2>1. phase' \notin {"reloc", "ready"}
    BY <1>8, ZeroBSSPageStep
  <2> QED BY <2>1 DEF TemplateInv
<1> QED BY <1>2, <1>3, <1>4, <1>5, <1>6, <1>7, <1>8 DEF Next, Load

\* If a TLS module is given a template, it is the initialised part of PT_TLS, in the memory
\* of the segment it is part of: calculateTLSDataAddress starts at the segment's first
\* byte, not at its page.  It always is given one if the file is linked at 0; in a file
\* linked elsewhere findTLSInitData may find none.  It holds for files whose PT_TLS is
\* inside a segment, and whose segments and relocated words are apart (Layout's
\* TemplateFaithful: findTLSInitData)
THEOREM TemplateAsLinked ==
    ASSUME \A f \in Files : Accepted(f) => SegmentsApart(f) /\ RelocsApart(f) /\ TemplateInside(f)
    PROVE  Spec => []TemplateFaithful
<1> DEFINE Inv == ControlInv /\ OwnerInv /\ PermInv /\ BytesInv /\ TemplateInv
<1>1. Init => Inv
  <2>1. Init => phase = "parse"
    BY DEF Init
  <2> QED BY <2>1, LayoutInit DEF PermInv, BytesInv, TemplateInv, Alive
<1>2. Inv /\ [Next]_vars => Inv'
  <2> SUFFICES ASSUME Inv, [Next]_vars PROVE Inv'
    OBVIOUS
  <2>1. Accepted(file) => SegmentsApart(file) /\ RelocsApart(file)
    BY DEF ControlInv, TypeOK
  <2> QED BY <2>1, ControlStep, OwnerStep, PermStep, BytesStep, TemplateStep
<1>3. Inv => TemplateFaithful
  <2> SUFFICES ASSUME Inv, phase = "ready", file.tls.filesz > 0, LinkedAtZero \/ template # 0
               PROVE  \E s \in Segments(file) : \A k \in 0 .. file.tls.filesz - 1 :
                        LET v == file.tls.vaddr + k IN
                        /\ v \in Extent(s)
                        /\ LinkedAtZero \/ ~ Relocates(v) => mem[template + k] = Expected(s, v)
    BY DEF TemplateFaithful
  <2>1. /\ file \in Files /\ Accepted(file) /\ SegmentsApart(file) /\ TemplateInside(file)
        /\ base \in Nat /\ BaseVAddr(file) \in Nat /\ file.tls.vaddr \in Nat
    BY CellFacts, RangeFacts, FileFacts, HeaderFacts DEF ControlInv, TypeOK
  <2>2. ImageFaithful
    BY <2>1, BytesMeaning
  <2>3. template = Address(file.tls.vaddr)
    BY <2>1 DEF TemplateInv
  <2>4. PICK s \in Segments(file) :
            \A k \in 0 .. file.tls.filesz - 1 : file.tls.vaddr + k \in Extent(s)
    BY <2>1 DEF TemplateInside
  <2>5. ASSUME NEW k \in 0 .. file.tls.filesz - 1,
               LinkedAtZero \/ ~ Relocates(file.tls.vaddr + k)
        PROVE  mem[template + k] = Expected(s, file.tls.vaddr + k)
    <3>1. template + k = Address(file.tls.vaddr + k)
      BY <2>1, <2>3 DEF Address
    <3>2. mem[Address(file.tls.vaddr + k)] = Expected(s, file.tls.vaddr + k)
      BY <2>2, <2>4, <2>5 DEF ImageFaithful
    <3> QED BY <3>1, <3>2
  <2> QED BY <2>4, <2>5
<1> QED BY <1>1, <1>2, <1>3, PTL DEF Spec
=============================================================================
