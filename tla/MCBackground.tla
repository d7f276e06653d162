---------------------------- MODULE MCBackground ----------------------------
\* Background for TLC: ann plays a game with each of the two others.
EXTENDS Background

CONSTANTS ann, bob, cid, g1, g2

MCUsers == {ann, bob, cid}
MCGames == {g1, g2}
MCOwner == [g \in MCGames |-> ann]
MCOpponent == [g \in MCGames |-> IF g = g1 THEN bob ELSE cid]

\* The rows of a miscounted user bear on no other user's and on no property.
Kept(st) == [u \in DOMAIN st |-> IF u \in miscounted THEN {} ELSE {st[u]}]
KeptOf(work) == IF "stats" \in DOMAIN work THEN [work EXCEPT !.stats = Kept(@)] ELSE work

CountedView ==
  <<part, noticesVars, game, Kept(stats), [g \in Games |-> KeptOf(table[g])],
    KeptOf(reaper), KeptOf(answer), accepted, miscounted>>
=============================================================================
