----------------------------- MODULE ArchiveTrie -----------------------------
(***************************************************************************)
(* HZ_ArchiveTrie (src/src/hzip_storage/archive/archive_trie.h): the tree  *)
(* of nodes behind file_map and mstate_aux_map.  A node is the path that   *)
(* leads to it, the root the empty path; the children pointers are then    *)
(* the nodes one token longer.                                             *)
(***************************************************************************)
EXTENDS PathMap, FiniteSets

CONSTANTS Paths,   \* paths callers use, non-root
          Values

ASSUME TrieAssumption == Paths \subseteq Seq(STRING) \ {<<>>}

VARIABLES nodes,   \* the paths of the nodes
          leaves,  \* nodes with is_leaf
          value    \* value of each leaf

vars == <<nodes, leaves, value>>

Root == <<>>

Cut(p, n) == SubSeq(p, 1, n)

\* The path of p and of its ancestors, the root included.
Ancestry(p) == {Cut(p, n) : n \in 0..Len(p)}

children(p) == {q \in nodes : Len(q) = Len(p) + 1 /\ Prefix(p, q)}

is_dir_node(p) == children(p) # {}

contains(p) == p \in nodes

\* The node where the walk from the root along p stops finding children.
DeepestNode(p) ==
  CHOOSE q \in Ancestry(p) \cap nodes : \A r \in Ancestry(p) \cap nodes : Len(r) <= Len(q)

-----------------------------------------------------------------------------
\* Mutant: files below files.
SetBelowLeaf(p, v) ==
  /\ ~is_dir_node(p)
  /\ nodes' = nodes \cup Ancestry(p)
  /\ leaves' = leaves \cup {p}
  /\ value' = Put(value, p, v)

\* set: missing nodes are created on the way down unless that would be below a
\* leaf; a directory takes no value.
set(p, v) ==
  /\ DeepestNode(p) = p \/ DeepestNode(p) \notin leaves
  /\ ~is_dir_node(p)
  /\ nodes' = nodes \cup Ancestry(p)
  /\ leaves' = leaves \cup {p}
  /\ value' = Put(value, p, v)

\* Mutant: the climb passes nodes with two children.
StopLate(p) ==
  CHOOSE q \in Ancestry(p) :
    /\ q = Root \/ Cardinality(children(q)) >= 3
    /\ \A r \in Ancestry(p) : Len(r) > Len(q) => Cardinality(children(r)) < 3

\* The climb of erase stops at the root or at a node with several children.
Stop(p) ==
  CHOOSE q \in Ancestry(p) :
    /\ q = Root \/ Cardinality(children(q)) >= 2
    /\ \A r \in Ancestry(p) : Len(r) > Len(q) => Cardinality(children(r)) < 2

\* Mutant: no climb, ancestors stay.
DescendantIsTarget(p) == p

\* The topmost node erase removes: p itself when the climb does not start.
Descendant(p) == IF Stop(p) = p THEN p ELSE Cut(p, Len(Stop(p)) + 1)

\* Mutant: erase_node without its recursion.
EraseOneNode(p) ==
  /\ contains(p)
  /\ nodes' = nodes \ {Descendant(p)}
  /\ leaves' = leaves \ {Descendant(p)}
  /\ value' = Drop(value, Descendant(p))

erase(p) ==
  /\ contains(p)
  /\ LET gone == {q \in nodes : Prefix(Descendant(p), q)}
     IN  /\ nodes' = nodes \ gone
         /\ leaves' = leaves \ gone
         /\ value' = [q \in leaves \ gone |-> value[q]]

Init == nodes = {Root} /\ leaves = {} /\ value = EmptyMap

Next == \/ \E p \in Paths, v \in Values : set(p, v)
        \/ \E p \in Paths : erase(p)

Spec == Init /\ [][Next]_vars
-----------------------------------------------------------------------------
\* The type invariant: the leaves carry the values and every node's parent is
\* a node.  A file is never a directory: no leaf has children, although set() and
\* erase() change is_leaf and the children tables separately.
TypeOK ==
  /\ leaves \subseteq nodes /\ DOMAIN value = leaves
  /\ \A p \in leaves : value[p] \in Values
  /\ \A p \in nodes : Ancestry(p) \subseteq nodes
  /\ \A p \in leaves : children(p) = {}

EmptyDirectories == {p \in nodes \ {Root} : \A q \in leaves : ~Prefix(p, q)}

\* Erasing a file takes along the directories it leaves without a file.  Only
\* that is claimed: HZ_Archive erases files only (a path get() has just found),
\* while erasing a directory with several children leaves its parent behind,
\* empty.
FilesTidyUp ==
  [][\A p \in leaves : erase(p) /\ EmptyDirectories = {} => EmptyDirectories' = {}]_vars

Map == INSTANCE PathStore WITH map <- value

\* set() and erase() act on the keys and values as on a map in which no key
\* lies below another one.
ImplementsMap == Map!Spec

\* erase() takes the files at and below its target, and no other: the climb to
\* the topmost node to delete never passes a directory that holds another file.
\* (The map alone would allow it to erase some directory above.)
ErasesTargetOnly ==
  [][\A p \in Paths : erase(p) => leaves' = {q \in leaves : ~Prefix(p, q)}]_vars
=============================================================================
