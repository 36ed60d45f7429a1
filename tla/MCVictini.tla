------------------------------ MODULE MCVictini ------------------------------
(* Instances of Victini for TLC. *)
EXTENDS Victini

Texts(S, n) == UNION {[1..l -> S] : l \in 1..n}

\* All short texts, all texts over two symbols long enough for the suffix sort
\* to meet repeated triples at every length modulo 3 and to recurse, and uniform
\* texts long enough for it to recurse twice.
MCInputs == Texts(Symbols, 3) \cup Texts({0, 1}, 8)
            \cup UNION {[1..l -> {s}] : l \in 9..20, s \in {0, 3}}

\* No pair, the same pair twice over, pairs with other symbols.
MCTrainingInputs == {<<1>>, <<1, 1>>, <<0, 3, 0>>, <<2, 1, 3>>}
=============================================================================
