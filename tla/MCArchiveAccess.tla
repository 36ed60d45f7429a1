-------------------------- MODULE MCArchiveAccess --------------------------
(* Values of the constants of ArchiveAccess for TLC. *)
EXTENDS ArchiveAccess

CONSTANTS p1, p2, s1, s2, n1, n2

\* Both names are names of one file, as "a.hz" and its absolute path are.
MCAbsolute == [n \in Names |-> CHOOSE f \in Paths : TRUE]

\* Two sessions of one process, each with its own name for the file, and a
\* session of another process.
MCAsks == {<<p1, s1, n1>>, <<p1, s2, n2>>, <<p2, s1, n1>>}

=============================================================================
