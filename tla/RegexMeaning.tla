---------------------------- MODULE RegexMeaning ----------------------------
(***************************************************************************)
(* What a pattern means: the ways in which it matches from a position, the *)
(* preferred one first, with captures that are values and no instructions, *)
(* branches to come back to or threads.  And the properties of the two     *)
(* matchers and of replace, which rest on it.                              *)
(***************************************************************************)
EXTENDS RegexSearch, RegexCompiler

Way(p, caps) == [pos |-> p, caps |-> caps]
FlatMap(Op(_), s) == FoldLeft(LAMBDA all, v : all \o Op(v), <<>>, s)

\* A turn of a star takes something; a backreference to a group that was not
\* taken matches nothing; a lookbehind has the first way of its pattern from a
\* position or none.
RECURSIVE Ways(_, _)
Ways(x, w) ==
    LET body         == x.kids[1]
        stay         == <<w>>
        if(ok, v)    == IF ok THEN <<v>> ELSE <<>>
        prefer(a)    == IF x.greedy THEN a \o stay ELSE stay \o a
        went(v)      == v.pos > w.pos
        turns(ways)  == FlatMap(LAMBDA v : Ways(Loop("star", body, x.greedy), v), SelectSeq(ways, went))
        first(p)     == Part(Ways(body, Way(p, w.caps)), 1, 1)
        looks        == IF IsAhead(x) THEN first(w.pos)
                        ELSE FlatMap(LAMBDA i : SelectSeq(first(w.pos + 1 - i), LAMBDA v : v.pos = w.pos),
                                     [i \in 1..w.pos |-> i])
        taken        == x.n <= parse.groups /\ w.caps[2 * x.n] # 0 /\ w.caps[2 * x.n + 1] # 0
        again        == SubSeq(input, w.caps[2 * x.n], w.caps[2 * x.n + 1] - 1)
        end          == w.pos + Len(again)
    IN CASE x.k \in Consuming -> if(Takes(x, w.pos), Way(w.pos + 1, w.caps))
         [] x.k \in Asserting -> if(Holds(x, w.pos), w)
         [] x.k = "empty" -> stay
         [] x.k = "concat" -> FoldLeft(LAMBDA all, y : FlatMap(LAMBDA v : Ways(y, v), all), stay, x.kids)
         [] x.k = "alt" -> FlatMap(LAMBDA y : Ways(y, w), x.kids)
         [] x.k = "quest" -> prefer(Ways(body, w))
         [] x.k = "star" -> prefer(turns(Ways(body, w)))
         [] x.k = "plus" -> FlatMap(LAMBDA v : IF went(v) THEN Ways(Loop("star", body, x.greedy), v) ELSE <<v>>,
                                    Ways(body, w))
         [] x.k = "group" -> FlatMap(LAMBDA v : <<[v EXCEPT !.caps[2 * x.n + 1] = v.pos]>>,
                                     Ways(body, [w EXCEPT !.caps[2 * x.n] = w.pos]))
         [] x.k = "look" -> if((looks # <<>>) # x.neg, [w EXCEPT !.caps = IF x.neg THEN @ ELSE looks[1].caps])
         [] x.k = "backref" -> IF taken THEN if(Part(input, w.pos, end - 1) = again, Way(end, w.caps))
                               ELSE if(x.n <= parse.groups, w)

\* The matches from position p, of which the first is preferred; and where
\* from q on the first position is that has one, 0 when none has.
MatchesFrom(p) == FlatMap(LAMBDA v : <<BuildMatch([v.caps EXCEPT ![0] = p, ![1] = v.pos])>>,
                          Ways(Ast, Way(p, NoCaptures)))
StartFrom(q)   == LET s == {p \in q..(N + 1) : Ways(Ast, Way(p, NoCaptures)) # <<>>} IN
                  IF s = {} THEN 0 ELSE Min(s)
IsMatch(m, q) ==
    LET p  == StartFrom(q)
        ms == MatchesFrom(p)
    IN p # 0 /\ IF program = <<>> THEN m = ms[1] ELSE m \in ToSet(ms)

Searched == stage = "searched" /\ search.replaced = 0

-----------------------------------------------------------------------------
\* The search finds a match when there is one, from the leftmost position that
\* has one, with captures that belong to one way of matching.  The backtracker
\* finds the preferred way: what a branch captured is undone when it is left.
MatchAgrees ==
    Searched => IF search.found = <<>> THEN StartFrom(1) = 0 ELSE IsMatch(search.found[1], 1)

\* With the flag g replace finds every match: the next is the first from where
\* the last one ended, or a character further when it was empty, and the string
\* is whole again when each match is replaced by itself.  An empty match at the
\* very end is found twice when the search did not start there.
GlobalMatches ==
    /\ Searched /\ Global =>
         LET f == search.found
             after(m) == IF m[0][2] > m[0][1] \/ CharIndex(m[0][1]) > N THEN CharIndex(m[0][2])
                         ELSE CharIndex(m[0][1]) + 1
             atEnd(m) == m[0][1] = Byte(N + 1)
         IN /\ \A k \in 1..(Len(f) - 1) : IsMatch(f[k + 1], after(f[k]))
            /\ f # <<>> => StartFrom(after(Last(f))) = 0 \/ atEnd(Last(f))
            /\ \A k \in 1..(Len(f) - 2) : ~ atEnd(f[k])
    /\ stage = "answered" /\ call.with = <<"$", "&">> => search.answer = input

\* The Pike machine finds the preferred way: a lazy quantifier takes as little
\* as it can, and an alternative that comes first is taken first.
PreferredWay ==
    Searched /\ search.found # <<>> => search.found[1] = MatchesFrom(StartFrom(1))[1]

=============================================================================
