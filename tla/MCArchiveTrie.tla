---------------------------- MODULE MCArchiveTrie ----------------------------
(* Instances of ArchiveTrie for TLC. *)
EXTENDS ArchiveTrie

\* Every path of up to three tokens over a two-token alphabet, three deep only
\* below "a": enough for a climb of two levels that stops at a shared ancestor.
MCPaths == {<<"a">>, <<"b">>, <<"a", "a">>, <<"a", "b">>, <<"b", "a">>,
            <<"a", "a", "a">>, <<"a", "a", "b">>, <<"a", "b", "a">>}
=============================================================================
