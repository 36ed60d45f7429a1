------------------------------- MODULE PathMap -------------------------------
(***************************************************************************)
(* The slash-separated paths of the archive, and the map from paths to     *)
(* values that HZ_ArchiveTrie (src/src/hzip_storage/archive/archive_trie.h)*)
(* offers to HZ_Archive.  A path is the sequence of its non-empty tokens,  *)
(* which is what std::getline(ss, token, '/') leaves of it.  A map is a    *)
(* function whose domain is the set of paths that were set; the module     *)
(* ArchiveTrie shows that the pointer structure implements it.             *)
(***************************************************************************)
EXTENDS Naturals, Sequences

\* p is q or an ancestor directory of q.
Prefix(p, q) == Len(p) <= Len(q) /\ \A i \in 1..Len(p) : p[i] = q[i]

ProperPrefix(p, q) == Len(p) < Len(q) /\ Prefix(p, q)

\* HZ_ArchiveTrie::contains: a node exists for p, be it a leaf or a directory.
Contains(m, p) == \E q \in DOMAIN m : Prefix(p, q)

\* The node of p has children: get() and set() throw.
IsDir(m, p) == \E q \in DOMAIN m : ProperPrefix(p, q)

\* "A file exists in the path prefix": set() throws below a leaf.
Blocked(m, p) == \E q \in DOMAIN m : ProperPrefix(q, p)

\* No key is an ancestor of another one: a leaf never has children.
LeavesOnly(m) == \A p, q \in DOMAIN m : ~ProperPrefix(p, q)

-----------------------------------------------------------------------------
\* Partial functions as std::unordered_map uses them.
Put(f, k, v) == [x \in DOMAIN f \cup {k} |-> IF x = k THEN v ELSE f[x]]

Drop(f, k) == [x \in DOMAIN f \ {k} |-> f[x]]

EmptyMap == [x \in {} |-> x]
=============================================================================
