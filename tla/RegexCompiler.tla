--------------------------- MODULE RegexCompiler ----------------------------
(***************************************************************************)
(* The compiler of a pattern's tree for the Pike machine (js-vm::regex).   *)
(***************************************************************************)
EXTENDS RegexSyntax

\* Instructions are nodes, and jumps with their targets.
Jump(k, to) == [Node(k) EXCEPT !.kids = to]
\* Mutant: a jump is left as it was emitted, to be patched.
JmpUnpatched(a) == Jump("jmp", <<0>>)
Jmp(a)      == Jump("jmp", <<a>>)
Split(a, b) == Jump("split", <<a, b>>)
Save(slot)  == [Node("save") EXCEPT !.n = slot]
\* The instructions of x when the first of them is at address a.
RECURSIVE Instructions(_, _)
Instructions(x, a) ==
    CASE x.k \in Consuming \cup Asserting -> <<x>>
      [] x.k = "concat" -> FoldLeft(LAMBDA code, kid : code \o Instructions(kid, a + Len(code)), <<>>, x.kids)
      [] x.k = "alt" ->
           LET first == Instructions(x.kids[1], a + 1)
               next  == a + Len(first) + 2
               rest  == Instructions(Alt(Tail(x.kids)), next)
           IN <<Split(a + 1, next)>> \o first \o <<Jmp(next + Len(rest))>> \o rest
      [] x.k = "star" ->
           LET body == Instructions(x.kids[1], a + 1)
               exit == a + Len(body) + 2
           IN <<IF x.greedy THEN Split(a + 1, exit) ELSE Split(exit, a + 1)>> \o body \o <<Jmp(a)>>
      [] x.k = "plus" ->
           LET body == Instructions(x.kids[1], a)
               exit == a + Len(body) + 1
           IN body \o <<IF x.greedy THEN Split(a, exit) ELSE Split(exit, a)>>
      [] x.k = "quest" ->
           LET body == Instructions(x.kids[1], a + 1)
               exit == a + Len(body) + 1
           IN <<IF x.greedy THEN Split(a + 1, exit) ELSE Split(exit, a + 1)>> \o body
      [] x.k = "group" -> <<Save(2 * x.n)>> \o Instructions(x.kids[1], a + 1) \o <<Save(2 * x.n + 1)>>
      [] OTHER -> <<>>
RECURSIVE NeedsBacktrack(_)
NeedsBacktrack(x) == x.k \in {"look", "backref"} \/ \E i \in DOMAIN x.kids : NeedsBacktrack(x.kids[i])

\* compile: a tree that the Pike machine cannot match has no instructions.
CompiledTree(x) ==
    IF NeedsBacktrack(x) THEN <<>> ELSE <<Save(0)>> \o Instructions(x, 2) \o <<Save(1), Node("match")>>

=============================================================================
