------------------------------ MODULE MCSearch ------------------------------
(***************************************************************************)
(* A small system for model checking Search.                               *)
(***************************************************************************)
EXTENDS Search

SomeDirs == {"/run", "/env", "/opt", "/r", "/lib"}
SomeBases == {"a", "b"}

At(d, n) == [dir |-> d, base |-> n]
Ask(d, n, runpath, rpath) == [name |-> At(d, n), runpath |-> runpath, rpath |-> rpath]

SomeRequests ==
    {Ask(None, "a", <<"/run">>, <<None, "/r">>), Ask("/opt", "a", <<>>, <<>>)}
EnvPath == <<None, "/env">>
Standard == <<"/lib">>

E(libc6, arch, key, value) ==
    [libc6 |-> libc6, arch |-> arch, whole |-> TRUE, key |-> key, value |-> value]
Cut(e) == [e EXCEPT !.whole = FALSE]
Opt == At("/opt", "a")
SomeCaches ==
    {[readable |-> FALSE, entries |-> <<>>],
     [readable |-> TRUE, entries |->
        <<E(TRUE, "any", "a", At("/lib", "a")), E(TRUE, "x86-64", "a", Opt),
          E(TRUE, "other", "a", At("/r", "a")), E(FALSE, "any", "a", At("/run", "a")),
          Cut(E(TRUE, "any", "a", None)), E(TRUE, "any", None, Opt), E(TRUE, "any", "b", None)>>],
     [readable |-> TRUE, entries |->
        <<E(TRUE, "any", "a", Opt), E(TRUE, "any", "a", None), Cut(E(TRUE, "any", "a", Opt))>>]}
SomeFiles == {At("/run", "a"), Opt, At("/r", "a"), At("/lib", "a")}
SomeChanging == {Opt, At("/r", "a")}
TwoSearchers == {"g1", "g2"}
=============================================================================
