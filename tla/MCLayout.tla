------------------------------ MODULE MCLayout ------------------------------
(***************************************************************************)
(* Small files for model checking Layout, laid out as linkers do: offset   *)
(* and address of a segment are congruent modulo the page size, and no two *)
(* segments share a page of memory.  A page has four cells, a word two.    *)
(***************************************************************************)
EXTENDS Layout

Seg(vaddr, off, filesz, memsz, p) ==
    [vaddr |-> vaddr, off |-> off, filesz |-> filesz, memsz |-> memsz, prot |-> p]
Absent == Seg(0, 0, 0, 0, {})
RX == {"r", "x"}
RW == {"r", "w"}
RO == {"r"}

File(segs, tls, relro, relocs) ==
    [segs |-> segs, tls |-> tls, relro |-> relro, relocs |-> relocs, size |-> 14]
Reloc(offset, addend) == [offset |-> offset, addend |-> addend]
Code == Seg(0, 0, 3, 3, RX)

\* Code at 0, and data that starts and ends anywhere in its pages, with and without BSS
TwoSegments ==
    {File(<<Code, Seg(v, v, f, f + b, p)>>, Absent, Absent, <<>>) :
        v \in {4, 5}, f \in {0, 1, 3, 4}, b \in {0, 1, 2, 4}, p \in {RO, RW}}

\* Data with a TLS template, pointers and RELRO up to the end of its first page, first or
\* last in the table; the same linked at 8
Data(v) == Seg(v, v, 11 - v, 13 - v, RW)
Template(v) == Seg(v + 1, v + 1, 2, 3, RO)
Relro(v) == Seg(v, v, 8 - v, 8 - v, RO)
WithPointers == UNION {
    {File(segs, Template(v), h, <<Reloc(5, 1), Reloc(9, 6), Reloc(11, v)>>) :
        segs \in {<<Code, Data(v)>>, <<Data(v), Code>>}, h \in {Absent, Relro(v)}} : v \in {4, 5}}
Up(h) == [h EXCEPT !.vaddr = @ + 8]
Prelinked ==
    {File(<<Up(Code), Up(Data(5))>>, Up(Template(5)), Up(Relro(5)), <<Reloc(13, 9)>>)}

\* Files that elf.Parse or the kernel refuses, and one with a relocation outside the image
Refused ==
    {File(<<>>, Absent, Absent, <<>>),
     File(<<Seg(0, 0, 4, 3, RX)>>, Absent, Absent, <<>>),
     File(<<Seg(0, 0, 0, 0, RX)>>, Absent, Absent, <<>>),
     File(<<Seg(1, 1, 3, 3, RX)>>, Absent, Absent, <<>>),
     File(<<Seg(4, 0, 0, 4, RW), Seg(1, 1, 0, 2, RW)>>, Absent, Absent, <<>>),
     File(<<Code, Data(4)>>, Absent, Absent, <<Reloc(4, 1), Reloc(16, 0)>>)}

LinkedFiles == TwoSegments \cup WithPointers \cup Prelinked \cup Refused

\* What the theorems about Layout ask of a file holds of these
ASSUME FilesAreLinked == \A f \in LinkedFiles : Accepted(f) => Linked(f)

\* Only the first cell of the last word is in the image
Overrunning ==
    {File(<<Seg(0, 0, 3, 5, RW)>>, Absent, Absent, <<Reloc(2, 1), Reloc(7, 3)>>)}
LayoutFiles == LinkedFiles \cup Overrunning

\* RELRO as GNU ld writes it: it ends on a page and starts where the data does
UnalignedRelro ==
    {File(<<Code, Seg(5, 5, 9, 9, RW)>>, Absent, Seg(5, 5, 7, 7, RO), <<>>)}
=============================================================================
