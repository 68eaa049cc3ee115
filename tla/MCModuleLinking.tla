--------------------------- MODULE MCModuleLinking ---------------------------
(* Small instances of ModuleLinking for TLC: an entry, three modules and one *)
(* that cannot be loaded.  Each module is chosen from a few that differ in   *)
(* how they import and re-export the name "x".                               *)
EXTENDS ModuleLinking

CONSTANTS main, a, b, c, missing

MCModules == {main, a, b, c, missing}

Named_(from, s)  == [kind |-> "name", from |-> from, imported |-> "x", slot |-> s]
Default_(from)   == [kind |-> "name", from |-> from, imported |-> "default", slot |-> "s"]
Whole(k, from)   == [kind |-> k, from |-> from, slot |-> "s"]
Local(n, s)      == [kind |-> "local", exported |-> n, slot |-> s]
Indirect(n, d)   == [kind |-> "indirect", exported |-> n, from |-> d, imported |-> "x"]
Namespace(d)     == [kind |-> "namespace", exported |-> "x", from |-> d]
Star(d)          == [kind |-> "star", from |-> d]

Module(requests, dyn, imports, exports) ==
    [requests |-> requests, dynamic |-> dyn, imports |-> imports, exports |-> exports]

Empty     == Module(<<>>, <<>>, <<>>, <<>>)
Declares  == Module(<<>>, <<>>, <<>>, <<Local("x", "t"), Local("default", "s")>>)
Declares_(dyn) == Module(<<>>, dyn, <<>>, <<Local("x", "t")>>)
Bare(d)   == Module(<<d>>, <<>>, <<>>, <<Local("x", "t")>>)
Forward(d)    == Module(<<d>>, <<>>, <<Named_(d, "s")>>, <<Local("x", "s")>>)
Uses(d)       == Module(<<d>>, <<>>, <<Named_(d, "s")>>, <<>>)
ForwardAll(k, d) == Module(<<d>>, <<>>, <<Whole(k, d)>>, <<Local("x", "s")>>)
ForwardVia(d, e) == Module(<<d, e>>, <<>>, <<Named_(e, "s")>>, <<Local("x", "s")>>)
Reexport(d)   == Module(<<d>>, <<>>, <<>>, <<Indirect("x", d)>>)
ReexportAs(d) == Module(<<d>>, <<>>, <<>>, <<Namespace(d)>>)
Stars2(d, e)  == Module(<<d, e>>, <<>>, <<>>, <<Star(d), Star(e)>>)
Star1(d)      == Module(<<d>>, <<>>, <<>>, <<Star(d)>>)
Shadow(d, e)  == Module(<<d, e>>, <<>>, <<>>, <<Star(d), Indirect("x", e)>>)

Mains == {Module(<<a, b>>, <<>>, <<Named_(a, "s"), Named_(b, "t")>>, <<>>),
          Module(<<b, a>>, <<>>, <<Named_(b, "t"), Whole("namespace", a)>>, <<>>),
          Module(<<a>>, <<b>>, <<Default_(a)>>, <<>>),
          Module(<<b>>, <<a, c>>, <<>>, <<>>),
          Module(<<a, b>>, <<>>, <<>>, <<Indirect("x", b)>>)}

As == {Declares, ForwardVia(b, c), Reexport(b), Stars2(b, c), Forward(b), ReexportAs(b),
       ForwardAll("source", b), ForwardAll("deferred", b), Stars2(b, missing), Bare(missing),
       Reexport(missing), ReexportAs(missing), Shadow(b, c), Uses(main)}

Bs == {Declares, Star1(a), Reexport(c), Forward(a), Stars2(c, a),
       Forward(c), ForwardAll("source", c), ForwardAll("namespace", c), Declares_(<<missing, c>>)}

Cs == {Declares, Empty, Reexport(a), Star1(b), Forward(b), Declares_(<<a>>), Bare(missing)}

MCPrograms ==
    {[m \in MCModules |-> CASE m = main -> pm [] m = a -> pa [] m = b -> pb
                            [] m = c -> pc [] m = missing -> Empty] :
        pm \in Mains, pa \in As, pb \in Bs, pc \in Cs}

(* A module that re-exports one of its imports, in a cycle with b or c.      *)
MCForwarding == {p \in MCPrograms : p[a] = ForwardVia(b, c)}
=============================================================================
