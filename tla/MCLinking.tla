----------------------------- MODULE MCLinking ------------------------------
(***************************************************************************)
(* Small libraries for model checking Linking.  The hashes of f and g      *)
(* differ in the lowest bit only, which the chains of DT_GNU_HASH do not   *)
(* keep.                                                                   *)
(***************************************************************************)
EXTENDS Linking

LinkNames == {"f", "g", "t"}
LinkVersions == {"V1", "V2"}
LinkHash == [n \in LinkNames |-> CASE n = "f" -> 12 [] n = "g" -> 13 [] n = "t" -> 7]

Sym(name, bind, def, value, ver, hidden) ==
    [name |-> name, bind |-> bind, def |-> def, value |-> value, ver |-> ver, hidden |-> hidden]
Rec(revision, ndx, name, next) ==
    [revision |-> revision, ndx |-> ndx, name |-> name, next |-> next]
NoChain == [records |-> <<>>, num |-> 0]
Both == [records |-> <<Rec(1, 2, "V1", TRUE), Rec(1, 3, "V2", FALSE)>>, num |-> 2]

Plain(syms) == [syms |-> syms, behind |-> <<>>, strtabBehind |-> TRUE,
                versym |-> TRUE, verdef |-> Both, verneed |-> NoChain]
Rel(kind, sym, addend, offset) ==
    [kind |-> kind, sym |-> sym, addend |-> addend, offset |-> offset]
Linked(lib, relocs) == [lib |-> lib, relocs |-> relocs, tls |-> TRUE]

\* Up to three of: two versions of f and an older definition without one, two of g, and
\* symbols that must not get into the table
Entries == {Sym("f", "global", TRUE, 1, 2, TRUE), Sym("f", "weak", TRUE, 2, 3, FALSE),
            Sym("f", "global", TRUE, 3, 1, TRUE), Sym("g", "global", TRUE, 4, 3, FALSE),
            Sym("g", "global", FALSE, 0, 0, FALSE), Sym("f", "local", TRUE, 5, 1, FALSE),
            Sym("t", "weak", TRUE, 6, 5, FALSE)}
Tables == {s \in UNION {[1 .. n -> Entries] : n \in 0 .. 3} :
            \A i, j \in DOMAIN s : i # j => s[i] # s[j]}
Versioned == {Linked(Plain(s), <<Rel("64", 1, 2, 0)>>) : s \in Tables}

\* The same with DT_VERSYM missing, and with chains that end early, are too new, or are
\* not there; with a symbol table that seems to go on, or whose end is not known
Some == <<Sym("f", "global", TRUE, 1, 2, TRUE), Sym("f", "global", TRUE, 2, 3, FALSE),
          Sym("g", "global", FALSE, 0, 2, FALSE)>>
Odd == {[Plain(Some) EXCEPT !.versym = FALSE],
        [Plain(Some) EXCEPT !.verdef.num = 1],
        [Plain(Some) EXCEPT !.verdef.records[1].next = FALSE],
        [Plain(Some) EXCEPT !.verdef.records[2].revision = 2],
        [Plain(Some) EXCEPT !.verneed = [records |-> <<Rec(1, 4, "V2", FALSE)>>, num |-> 1]],
        [Plain(Some) EXCEPT !.behind = <<Sym("g", "global", TRUE, 9, 0, FALSE)>>],
        [Plain(Some) EXCEPT !.strtabBehind = FALSE]}
Irregular == {Linked(lib, <<Rel("64", 1, 0, 0), Rel("64", 3, 0, 4)>>) : lib \in Odd}

\* Relocations of each of Kinds, of symbols that are the library's own, the provider's,
\* undefined and weak, undefined and strong, and of none
Own == <<Sym("g", "global", FALSE, 0, 0, FALSE), Sym("t", "weak", FALSE, 0, 0, FALSE),
         Sym("f", "global", TRUE, 6, 0, FALSE)>>
Addressing ==
    {Linked(Plain(Own), <<Rel(k, 3, a, 5), Rel(k, 1, a, 9), Rel(k, 2, a, 2), Rel(k, 0, a, 2)>>) :
        k \in {"64", "slot", "32", "32s", "pc32", "copy", "none", "unknown"}, a \in {-4, 0, 3}}
Local == <<Sym("g", "global", FALSE, 0, 0, FALSE), Sym("t", "global", TRUE, 6, 0, FALSE)>>
ThreadLocal ==
    {[Linked(Plain(Local), <<Rel(k, 2, a, 5), Rel(k, 0, a, 2), Rel(k, 1, a, 3)>>) EXCEPT !.tls = b] :
        k \in {"dtpoff64", "dtpoff32", "tlsgd"}, a \in {-4, 0, 3}, b \in BOOLEAN}

\* f of version V1
OldCaller ==
    {Linked([Plain(<<Sym("f", "global", FALSE, 0, 2, FALSE)>>) EXCEPT
                !.verdef = NoChain,
                !.verneed = [records |-> <<Rec(1, 2, "V1", FALSE)>>, num |-> 1]],
            <<Rel(k, 1, 0, 0)>>) : k \in {"64", "slot"}}

LinkFiles == Versioned \cup Irregular \cup Addressing \cup ThreadLocal \cup OldCaller

\* What the theorem on versions asks of the libraries
ASSUME AllNumbered == \A f \in LinkFiles : VersionsNumbered(f.lib)

Empty == Plain(<<>>)
HasG == Plain(<<Sym("g", "weak", TRUE, 7, 3, FALSE), Sym("f", "global", TRUE, 2, 2, FALSE)>>)
TwoVersions ==
    Plain(<<Sym("f", "global", TRUE, 1, 2, TRUE), Sym("f", "global", TRUE, 2, 3, FALSE)>>)
LinkProviders == {Empty, HasG, [HasG EXCEPT !.strtabBehind = FALSE], TwoVersions}
=============================================================================
