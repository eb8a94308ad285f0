------------------------------ MODULE MCLoader ------------------------------
(***************************************************************************)
(* Small libraries for model checking Loader.                              *)
(***************************************************************************)
EXTENDS Loader, TLC

RA(kind, sym, addend) == [kind |-> kind, sym |-> sym, addend |-> addend]
R(kind, sym) == RA(kind, sym, 0)
Lib(tls, defs, relocs) == [tls |-> tls, defs |-> defs, relocs |-> relocs]

OneObject   == {"a"}
TwoObjects  == {"a", "b"}
FourObjects == {"a", "b", "c", "d"}
XY == {"x", "y"}

\* "b" needs x of "a", and takes a TPOFF of it
PairFile ==
    [o \in TwoObjects |->
        IF o = "a" THEN Lib(TRUE, {"x"}, <<R("gd", "x")>>)
                   ELSE Lib(TRUE, {"y"}, <<R("sym", "x"), R("tpoff64", "x"), R("mod", None)>>)]

\* TLSLD beside a TLSGD without a symbol; "a" comes back to its first GOT page for another
\* address of x and to its second for the last, "b" stays on one page; "c" may find no module ID left, and "d"
\* has relocations for TLS and no PT_TLS
GotFile ==
    [o \in FourObjects |->
        CASE o = "a" -> Lib(TRUE, {"x"}, <<R("gd", "x"), R("ld", None), RA("gd", None, 1),
                                           RA("gd", "x", 1), RA("gd", None, 1)>>)
          [] o = "b" -> Lib(TRUE, {"y"}, <<RA("gd", "y", 1), RA("gd", None, 1)>>)
          [] o = "c" -> Lib(TRUE, {}, <<>>)
          [] o = "d" -> Lib(FALSE, {}, <<R("gottpoff", "y")>>)]

PlainFile == [o \in OneObject |-> Lib(TRUE, {"x"}, <<R("gd", "x")>>)]

\* One key is asked for twice, and its entry is on the second page
RepeatFile == [o \in OneObject |-> Lib(TRUE, {"x"}, <<R("gd", "x"), R("ld", None), R("ld", None)>>)]

SymmetricRegions == Permutations(Regions)
=============================================================================
