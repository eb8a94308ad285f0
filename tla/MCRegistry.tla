----------------------------- MODULE MCRegistry -----------------------------
(***************************************************************************)
(* Small file systems and programs for model checking Registry.            *)
(***************************************************************************)
EXTENDS Registry

LocalFlags  == <<>>
GlobalFlags == <<RTLD_GLOBAL>>
NowFlags    == <<RTLD_NOW>>

Open(n, fs) == [name |-> n, flags |-> fs]

File(needed, soname, undef, weakref, strong, weak) ==
    [needed |-> needed, soname |-> soname, undef |-> undef, weakref |-> weakref,
     strong |-> strong, weak |-> weak]

TwoGoroutines == {"g1", "g2"}
OneGoroutine  == {"g1"}
ThreeGoroutines == {"g1", "g2", "g3"}

\* "/a" needs "b.so" and "c.so"; "/c" needs "b.so" and a library that is not installed.
\* "/b" defines x strongly, "/c" weakly; "/a" refers to x, to y of its own, and weakly
\* to z, which nobody defines.
DiamondPaths == {"/a", "/b", "/c"}
DiamondNames == DiamondPaths \cup {"b.so", "c.so", "d.so"}
DiamondSyms  == {"x", "y", "z"}
DiamondImage ==
    [p \in DiamondPaths |->
        CASE p = "/a" -> File(<<"b.so", "c.so">>, None, <<"x", "y", "z">>, {"z"}, {"y"}, {})
          [] p = "/b" -> File(<<>>, "b.so", <<>>, {}, {"x"}, {})
          [] p = "/c" -> File(<<"d.so", "b.so">>, "c.so", <<"x">>, {}, {}, {"x"})]
DiamondFind ==
    [r \in DiamondPaths \cup {None} |-> [n \in DiamondNames |->
        CASE n \in DiamondPaths -> n
          [] n = "b.so" -> "/b"
          [] n = "c.so" -> "/c"
          [] n = "d.so" -> None]]
DiamondCalls == {Open("/a", LocalFlags), Open("b.so", GlobalFlags), Open("d.so", NowFlags)}
-----------------------------------------------------------------------------
\* "/a" cannot do without x of "/b", which needs "/a" again, by path and by soname; both
\* may turn out to be unreadable
BrokenPaths == {"/a", "/b"}
BrokenNames == BrokenPaths \cup {"a.so", "b.so"}
BrokenSyms  == {"x"}
BrokenImage ==
    [p \in BrokenPaths |->
        IF p = "/a" THEN File(<<"b.so">>, "a.so", <<"x">>, {}, {}, {})
                    ELSE File(<<"/a", "a.so">>, "b.so", <<>>, {}, {"x"}, {})]
BrokenFind ==
    [r \in BrokenPaths \cup {None} |-> [n \in BrokenNames |->
        CASE n \in BrokenPaths -> n
          [] n = "a.so" -> "/a"
          [] n = "b.so" -> "/b"]]
BrokenCalls == {Open("/a", GlobalFlags), Open("a.so", LocalFlags)}

-----------------------------------------------------------------------------
\* "/a" and "/b" need each other, "/a" by soname and "/b" by path
RingPaths == {"/a", "/b"}
RingNames == RingPaths \cup {"a.so", "b.so"}
RingSyms  == {"x", "y"}
RingImage ==
    [p \in RingPaths |->
        IF p = "/a" THEN File(<<"b.so">>, "a.so", <<"x">>, {"x"}, {"y"}, {})
                    ELSE File(<<"/a", "a.so">>, "b.so", <<"y">>, {"y"}, {"x"}, {})]
RingFind ==
    [r \in RingPaths \cup {None} |-> [n \in RingNames |->
        CASE n \in RingPaths -> n
          [] n = "a.so" -> "/a"
          [] n = "b.so" -> "/b"]]
RingCalls == {Open("a.so", LocalFlags), Open("b.so", GlobalFlags)}

-----------------------------------------------------------------------------
\* A plugin "/a" takes x from "/b" without a DT_NEEDED entry for it
PluginPaths == {"/a", "/b"}
PluginNames == PluginPaths
PluginSyms  == {"x"}
PluginImage ==
    [p \in PluginPaths |->
        IF p = "/a" THEN File(<<>>, None, <<"x">>, {}, {}, {})
                    ELSE File(<<>>, None, <<>>, {}, {"x"}, {})]
PluginFind == [r \in PluginPaths \cup {None} |-> [n \in PluginNames |-> n]]
PluginCalls == {Open("/a", LocalFlags), Open("/b", GlobalFlags)}
=============================================================================
