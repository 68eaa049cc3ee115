------------------------- MODULE MCModuleEvaluation -------------------------
(* Small instances of ModuleEvaluation for TLC.                            *)
EXTENDS ModuleEvaluation

CONSTANTS m1, m2, m3, json

MCModules == {m1, m2, m3, json}

(* The static imports of three scripts and a JSON module: chains, diamonds    *)
(* with a shared dependency, cycles of two and three modules, a module named *)
(* in two requests, and modules that only import() can reach.                *)
MCGraphs ==
    {[m \in MCModules |-> CASE m = m1 -> r1 [] m = m2 -> r2
                            [] m = m3 -> r3 [] m = json -> <<>>] :
        r1 \in {<<>>, <<m2>>, <<m2, m3>>, <<m2, m2>>},
        r2 \in {<<>>, <<m1>>, <<m3>>, <<json>>},
        r3 \in {<<>>, <<m1>>, <<m2>>, <<m1, m2>>}}
=============================================================================
