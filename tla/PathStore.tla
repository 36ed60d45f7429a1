------------------------------ MODULE PathStore ------------------------------
(***************************************************************************)
(* What HZ_ArchiveTrie promises: a map from paths to values in which no    *)
(* key lies below another one.                                             *)
(***************************************************************************)
EXTENDS PathMap

CONSTANTS Paths, Values

VARIABLE map

Init == map = EmptyMap

SetValue(p, v) ==
  /\ ~Blocked(map, p) /\ ~IsDir(map, p)
  /\ map' = Put(map, p, v)

\* Erasing a directory erases what is below it.
Erase(p) == map' = [q \in {q \in DOMAIN map : ~Prefix(p, q)} |-> map[q]]

Next == \/ \E p \in Paths, v \in Values : SetValue(p, v)
        \/ \E p \in Paths : Erase(p)

Spec == Init /\ [][Next]_map
=============================================================================
