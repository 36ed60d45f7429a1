--------------------------- MODULE ArchiveTrieProofs ---------------------------
(***************************************************************************)
(* HZ_ArchiveTrie, for every set of paths and values: its nodes stay a     *)
(* tree whose leaves have no children, erase() removes what is at and      *)
(* below its target and nothing else, and leaves no empty directory where  *)
(* a file was; so the trie is the map that Archive uses.                   *)
(***************************************************************************)
EXTENDS ArchiveTrie, WellFoundedInduction, FiniteSetTheorems, TLAPS

Path == Seq(STRING)

(* Paths and what they begin with *)
LEMMA CutIs ==
  ASSUME NEW p \in Path, NEW n \in 0..Len(p)
  PROVE  /\ Cut(p, n) \in Path /\ Len(Cut(p, n)) = n
         /\ \A i \in 1..n : Cut(p, n)[i] = p[i]
         /\ Prefix(Cut(p, n), p)
BY DEF Cut, Path, Prefix

LEMMA SamePath ==
  ASSUME NEW p \in Path, NEW q \in Path, Len(p) = Len(q), \A i \in 1..Len(p) : p[i] = q[i]
  PROVE  p = q
BY DEF Path

LEMMA PrefixCuts ==
  ASSUME NEW p \in Path, NEW q \in Path
  PROVE  Prefix(p, q) <=> Len(p) <= Len(q) /\ p = Cut(q, Len(p))
<1>1. Len(p) \in Nat /\ Len(q) \in Nat
  BY DEF Path
<1>2. ASSUME Prefix(p, q) PROVE p = Cut(q, Len(p)) /\ Len(p) <= Len(q)
  <2>1. Len(p) \in 0..Len(q)
    BY <1>1, <1>2 DEF Prefix
  <2> QED BY <1>1, <1>2, <2>1, CutIs, SamePath DEF Prefix
<1>3. ASSUME Len(p) <= Len(q), p = Cut(q, Len(p)) PROVE Prefix(p, q)
  BY <1>1, <1>3, CutIs
<1> QED BY <1>2, <1>3

LEMMA PrefixOrder ==
  /\ \A p \in Path : Prefix(p, p)
  /\ \A p, q, r \in Path : Prefix(p, q) /\ Prefix(q, r) => Prefix(p, r)
  /\ \A p, q \in Path : Prefix(p, q) /\ Len(p) = Len(q) => p = q
  /\ \A p, q, r \in Path : Prefix(p, r) /\ Prefix(q, r) /\ Len(p) <= Len(q) => Prefix(p, q)
<1>1. \A p \in Path : Len(p) \in Nat
  BY DEF Path
<1> QED BY <1>1, SamePath DEF Prefix

LEMMA RootIs == Root \in Path /\ Len(Root) = 0 /\ \A p \in Path : Len(p) = 0 => p = Root
BY DEF Root, Path

\* The ancestry of a path are the paths it begins with.
LEMMA AncestryIs ==
  ASSUME NEW p \in Path
  PROVE  /\ Ancestry(p) = {q \in Path : Prefix(q, p)}
         /\ Root \in Ancestry(p) /\ p \in Ancestry(p)
<1>1. Len(p) \in Nat
  BY DEF Path
<1>2. ASSUME NEW q \in Ancestry(p) PROVE q \in Path /\ Prefix(q, p)
  BY <1>1, CutIs DEF Ancestry
<1>3. ASSUME NEW q \in Path, Prefix(q, p) PROVE q \in Ancestry(p)
  <2>1. Len(q) \in 0..Len(p) /\ q = Cut(p, Len(q))
    BY <1>1, <1>3, PrefixCuts DEF Path
  <2> QED BY <2>1 DEF Ancestry
<1>4. Prefix(Root, p) /\ Prefix(p, p)
  BY <1>1, RootIs, PrefixOrder DEF Prefix
<1> QED BY <1>2, <1>3, <1>4, RootIs

LEMMA Least ==
  ASSUME NEW T \in SUBSET Nat, T # {}
  PROVE  \E n \in T : \A m \in T : n <= m
<1>1. PICK n \in T : \A m \in T : ~(<<m, n>> \in OpToRel(<, Nat))
  BY NatLessThanWellFounded, WFMin
<1>2. n \in T /\ \A m \in T : ~(m < n)
  BY <1>1 DEF OpToRel
<1>3. n \in Nat /\ T \subseteq Nat
  BY <1>2
<1> QED BY <1>2, <1>3

\* Of the ancestors with some property one is the longest.
LEMMA Longest ==
  ASSUME NEW p \in Path, NEW S \in SUBSET Ancestry(p), S # {}
  PROVE  \E q \in S : \A r \in S : Len(r) <= Len(q)
<1> DEFINE T == {Len(p) - Len(q) : q \in S}
<1>1. \A q \in S : Len(q) \in 0..Len(p) /\ Len(p) - Len(q) \in Nat
  BY AncestryIs DEF Path, Prefix
<1>2. T \in SUBSET Nat /\ T # {}
  BY <1>1
<1>3. PICK n \in T : \A m \in T : n <= m
  BY <1>2, Least
<1>4. PICK q \in S : n = Len(p) - Len(q)
  BY <1>3
<1>5. \A r \in S : Len(p) - Len(q) <= Len(p) - Len(r)
  BY <1>3, <1>4
<1>6. Len(p) \in Nat
  BY DEF Path
<1> QED BY <1>1, <1>5, <1>6

-----------------------------------------------------------------------------
(* The tree *)
\* The inductive invariant: a finite tree of paths that carries TypeOK, and
\* whose root is not a file.
Tree ==
  /\ nodes \subseteq Path /\ IsFiniteSet(nodes)
  /\ Root \in nodes \ leaves
  /\ TypeOK

LEMMA ChildrenAre ==
  ASSUME Tree, NEW p
  PROVE  IsFiniteSet(children(p)) /\ Cardinality(children(p)) \in Nat /\ children(p) \subseteq nodes
<1>1. children(p) \in SUBSET nodes
  BY DEF children
<1> QED BY <1>1, FS_Subset, FS_CardinalityType DEF Tree

\* The node of q after that of p is a child of p.
LEMMA ChildBelow ==
  ASSUME Tree, NEW q \in Path, Ancestry(q) \subseteq nodes, NEW p \in Path, Prefix(p, q), p # q
  PROVE  /\ Cut(q, Len(p) + 1) \in children(p) /\ Cut(q, Len(p) + 1) \in Path
         /\ Prefix(Cut(q, Len(p) + 1), q) /\ Len(Cut(q, Len(p) + 1)) = Len(p) + 1
<1>1. Len(p) \in Nat /\ Len(q) \in Nat /\ Len(p) <= Len(q)
  BY DEF Prefix, Path
<1>2. Len(p) # Len(q)
  BY PrefixOrder
<1> DEFINE c == Cut(q, Len(p) + 1)
<1>3. c \in Path /\ Len(c) = Len(p) + 1 /\ Prefix(c, q)
  BY <1>1, <1>2, CutIs
<1>4. c \in nodes
  BY <1>3, AncestryIs
<1> HIDE DEF c
<1>5. Len(p) <= Len(c)
  BY <1>1, <1>3
<1>6. Prefix(p, c)
  BY <1>3, <1>5, PrefixOrder
<1> QED BY <1>3, <1>4, <1>6 DEF c, children

\* Nothing is below a leaf.
LEMMA LeafEnds ==
  ASSUME Tree, NEW q \in leaves, NEW r \in nodes, Prefix(q, r)
  PROVE  r = q
<1>1. q \in Path /\ r \in Path /\ Ancestry(r) \subseteq nodes /\ children(q) = {}
  BY DEF Tree, TypeOK
<1> QED BY <1>1, ChildBelow

LEMMA AncestorsThere ==
  ASSUME Tree, NEW q \in nodes, NEW p \in Path, Prefix(p, q)
  PROVE  p \in nodes
BY AncestryIs DEF Tree, TypeOK

LEMMA InitTree == Init => Tree
<1> SUFFICES ASSUME Init PROVE Tree
  OBVIOUS
<1>1. IsFiniteSet(nodes)
  BY FS_Singleton DEF Init
<1>2. Ancestry(Root) = {Root}
  <2>1. \A q \in Path : Prefix(q, Root) => q = Root
    BY RootIs DEF Prefix, Path
  <2> QED BY <2>1, RootIs, AncestryIs
<1> QED BY <1>1, <1>2, RootIs DEF Init, Tree, TypeOK, EmptyMap

-----------------------------------------------------------------------------
(* set *)
LEMMA Deepest ==
  ASSUME Tree, NEW p \in Path
  PROVE  /\ DeepestNode(p) \in Ancestry(p) \cap nodes
         /\ \A r \in Ancestry(p) \cap nodes : Len(r) <= Len(DeepestNode(p))
<1>1. Ancestry(p) \cap nodes # {}
  BY AncestryIs DEF Tree
<1>2. \E q \in Ancestry(p) \cap nodes : \A r \in Ancestry(p) \cap nodes : Len(r) <= Len(q)
  BY <1>1, Longest
<1> QED BY <1>2 DEF DeepestNode

\* Where a value can be set no leaf is above, and no node below.
LEMMA SetClear ==
  ASSUME Tree, NEW p \in Paths, NEW v \in Values, set(p, v)
  PROVE  /\ p \in Path /\ p # Root
         /\ \A q \in leaves : Prefix(q, p) => q = p
         /\ \A q \in nodes : Prefix(p, q) => q = p
<1>1. p \in Path /\ p # Root
  BY TrieAssumption DEF Path, Root
<1>2. \A q \in nodes : Prefix(p, q) => q = p
  <2> SUFFICES ASSUME NEW q \in nodes, Prefix(p, q), q # p PROVE FALSE
    OBVIOUS
  <2>1. q \in Path /\ Ancestry(q) \subseteq nodes
    BY DEF Tree, TypeOK
  <2>2. children(p) # {}
    BY <1>1, <2>1, ChildBelow
  <2> QED BY <2>2 DEF set, is_dir_node
<1>3. ASSUME NEW q \in leaves, Prefix(q, p) PROVE q = p
  <2> DEFINE d == DeepestNode(p)
  <2>1. d \in Path /\ Prefix(d, p) /\ d \in nodes
    BY <1>1, Deepest, AncestryIs
  <2>2. q \in nodes /\ q \in Path
    BY DEF Tree, TypeOK
  <2>3. Len(q) <= Len(d)
    BY <1>1, <1>3, <2>2, Deepest, AncestryIs
  <2>4. Prefix(q, d)
    BY <1>1, <1>3, <2>1, <2>2, <2>3, PrefixOrder
  <2>5. d = q
    BY <1>3, <2>1, <2>4, LeafEnds
  <2> QED BY <1>3, <2>5 DEF set
<1> QED BY <1>1, <1>2, <1>3

LEMMA SetTree ==
  ASSUME Tree, NEW p \in Paths, NEW v \in Values, set(p, v)
  PROVE  Tree'
<1>1. p \in Path /\ Len(p) \in Nat
  BY SetClear DEF Path
<1>2. /\ nodes' = nodes \cup Ancestry(p) /\ leaves' = leaves \cup {p} /\ value' = Put(value, p, v)
  BY DEF set
<1>3. nodes' \subseteq Path /\ Root \in nodes' \ leaves' /\ leaves' \subseteq nodes'
  BY <1>1, <1>2, SetClear, AncestryIs DEF Tree, TypeOK
<1>4. IsFiniteSet(nodes')
  <2>1. IsFiniteSet(Ancestry(p))
    <3>1. IsFiniteSet(0..Len(p))
      BY <1>1, FS_Interval
    <3> DEFINE f == [n \in 0..Len(p) |-> Cut(p, n)]
    <3>2. f \in Surjection(0..Len(p), Ancestry(p))
      BY DEF Surjection, Ancestry
    <3> QED BY <3>1, <3>2, FS_Surjection
  <2> QED BY <1>2, <2>1, FS_Union DEF Tree
<1>5. DOMAIN value' = leaves' /\ \A q \in leaves' : value'[q] \in Values
  BY <1>2 DEF Tree, TypeOK, Put
<1>6. ASSUME NEW q \in nodes' PROVE Ancestry(q) \subseteq nodes'
  <2>1. CASE q \in nodes
    BY <1>2, <2>1 DEF Tree, TypeOK
  <2>2. CASE q \in Ancestry(p)
    <3>1. q \in Path /\ Prefix(q, p)
      BY <1>1, <2>2, AncestryIs
    <3>2. \A r \in Ancestry(q) : r \in Ancestry(p)
      BY <1>1, <3>1, AncestryIs, PrefixOrder
    <3> QED BY <1>2, <3>2
  <2> QED BY <1>2, <2>1, <2>2
<1>7. ASSUME NEW q \in leaves' PROVE children(q)' = {}
  <2> SUFFICES ASSUME NEW r \in nodes', Len(r) = Len(q) + 1, Prefix(q, r) PROVE FALSE
    BY DEF children
  <2>1. r \in Path /\ q \in Path /\ Len(q) \in Nat
    BY <1>3 DEF Path
  <2>2. r # q
    BY <2>1
  <2>3. CASE r \in nodes
    <3>1. q = p
      BY <1>2, <2>2, <2>3, LeafEnds
    <3> QED BY <2>2, <2>3, <3>1, SetClear
  <2>4. CASE r \in Ancestry(p)
    <3>1. Prefix(r, p) /\ Prefix(q, p)
      BY <1>1, <2>1, <2>4, AncestryIs, PrefixOrder
    <3>2. q = p
      BY <1>2, <3>1, SetClear
    <3>3. Len(r) <= Len(p)
      BY <3>1 DEF Prefix
    <3> QED BY <2>1, <3>2, <3>3
  <2> QED BY <1>2, <2>3, <2>4
<1> QED BY <1>3, <1>4, <1>5, <1>6, <1>7 DEF Tree, TypeOK

-----------------------------------------------------------------------------
(* The climb of erase *)
LEMMA TwoChildren ==
  ASSUME Tree, NEW r, NEW a \in children(r), NEW b \in children(r), a # b
  PROVE  Cardinality(children(r)) >= 2
<1>1. IsFiniteSet({a}) /\ Cardinality({a}) = 1
  BY FS_Singleton
<1>2. IsFiniteSet({a} \cup {b}) /\ Cardinality({a} \cup {b}) = 2
  BY <1>1, FS_AddElement
<1>3. {a} \cup {b} \in SUBSET children(r)
  OBVIOUS
<1> QED BY <1>2, <1>3, ChildrenAre, FS_Subset

\* Of a set of several children there is one that is not the given one.
LEMMA OtherChild ==
  ASSUME Tree, NEW r, Cardinality(children(r)) >= 2, NEW a
  PROVE  \E b \in children(r) : b # a
<1> SUFFICES ASSUME \A b \in children(r) : b = a PROVE FALSE
  OBVIOUS
<1>1. children(r) \in SUBSET {a}
  OBVIOUS
<1>2. IsFiniteSet({a}) /\ Cardinality({a}) = 1
  BY FS_Singleton
<1>3. Cardinality(children(r)) <= 1
  BY <1>1, <1>2, FS_Subset
<1> QED BY <1>3, ChildrenAre

LEMMA StopIs ==
  ASSUME Tree, NEW p \in Path
  PROVE  /\ Stop(p) \in Ancestry(p)
         /\ Stop(p) = Root \/ Cardinality(children(Stop(p))) >= 2
         /\ \A r \in Ancestry(p) : Len(r) > Len(Stop(p)) => Cardinality(children(r)) < 2
<1> DEFINE S == {q \in Ancestry(p) : q = Root \/ Cardinality(children(q)) >= 2}
<1>1. S \in SUBSET Ancestry(p) /\ Root \in S
  BY AncestryIs
<1> HIDE DEF S
<1>2. PICK q \in S : \A r \in S : Len(r) <= Len(q)
  BY <1>1, Longest
<1>3. q \in Ancestry(p) /\ (q = Root \/ Cardinality(children(q)) >= 2)
  BY <1>2 DEF S
<1>4. ASSUME NEW r \in Ancestry(p), Len(r) > Len(q) PROVE Cardinality(children(r)) < 2
  <2>1. Len(r) \in Nat /\ Len(q) \in Nat
    BY <1>3, AncestryIs DEF Path
  <2>2. r \notin S
    BY <1>2, <1>4, <2>1
  <2>3. ~(Cardinality(children(r)) >= 2)
    BY <2>2 DEF S
  <2> QED BY <2>3, ChildrenAre
<1> QED BY <1>3, <1>4 DEF Stop

\* The topmost node erase removes is an ancestor of the target below where the
\* climb stopped.
LEMMA DescendantIs ==
  ASSUME Tree, NEW p \in Path, p # Root
  PROVE  /\ Descendant(p) \in Path /\ Descendant(p) # Root /\ Prefix(Descendant(p), p)
         /\ Prefix(Stop(p), Descendant(p))
         /\ Stop(p) = p => Descendant(p) = p
         /\ Stop(p) # p => /\ Len(Descendant(p)) = Len(Stop(p)) + 1
                           /\ \A r \in Ancestry(p) : Prefix(Descendant(p), r) =>
                                                       Cardinality(children(r)) < 2
<1> DEFINE s == Stop(p)
<1>1. s \in Path /\ Prefix(s, p) /\ Len(s) \in Nat /\ Len(p) \in Nat /\ Len(s) <= Len(p)
  BY StopIs, AncestryIs DEF Path, Prefix
<1>2. CASE s = p
  BY <1>1, <1>2, PrefixOrder DEF Descendant
<1>3. CASE s # p
  <2> DEFINE d == Cut(p, Len(s) + 1)
  <2>1. Len(s) # Len(p)
    BY <1>1, <1>3, PrefixOrder
  <2>2. d \in Path /\ Len(d) = Len(s) + 1 /\ Prefix(d, p)
    BY <1>1, <2>1, CutIs
  <2>3. Descendant(p) = d
    BY <1>3 DEF Descendant
  <2> HIDE DEF d
  <2>4. d # Root
    BY <1>1, <2>2, RootIs
  <2>5. Prefix(s, d)
    BY <1>1, <2>2, PrefixOrder
  <2>6. ASSUME NEW r \in Ancestry(p), Prefix(d, r) PROVE Cardinality(children(r)) < 2
    <3>1. Len(r) > Len(s)
      <4>1. r \in Path /\ Len(r) \in Nat /\ Len(d) <= Len(r)
        BY <2>6, AncestryIs DEF Path, Prefix
      <4> QED BY <1>1, <2>2, <4>1
    <3> QED BY <3>1, StopIs
  <2> QED BY <1>3, <2>2, <2>3, <2>4, <2>5, <2>6
<1> QED BY <1>2, <1>3

-----------------------------------------------------------------------------
(* erase *)
\* A file below the topmost removed node is at or below the target: the climb
\* passed only nodes with one child.
LEMMA OnlyBelowTarget ==
  ASSUME Tree, NEW p \in nodes, p # Root, NEW q \in leaves
  PROVE  Prefix(Descendant(p), q) <=> Prefix(p, q)
<1> DEFINE d == Descendant(p)
<1>1. /\ p \in Path /\ q \in Path /\ Ancestry(p) \subseteq nodes /\ Ancestry(q) \subseteq nodes
      /\ q \in nodes
  BY DEF Tree, TypeOK
<1>2. d \in Path /\ Prefix(d, p)
  BY <1>1, DescendantIs
<1>3. ASSUME Prefix(p, q) PROVE Prefix(d, q)
  BY <1>1, <1>2, <1>3, PrefixOrder
<1>4. ASSUME Prefix(d, q), ~Prefix(p, q) PROVE FALSE
  <2>1. \A r \in Ancestry(p) : Prefix(d, r) => Cardinality(children(r)) < 2
    <3>1. Stop(p) # p
      BY <1>1, <1>4, DescendantIs
    <3> QED BY <1>1, <3>1, DescendantIs
  <2> DEFINE S == {r \in Ancestry(p) : Prefix(d, r) /\ Prefix(r, q)}
  <2>2. d \in S
    BY <1>1, <1>2, <1>4, AncestryIs, PrefixOrder
  <2>3. S \in SUBSET Ancestry(p)
    OBVIOUS
  <2>4. PICK m \in S : \A r \in S : Len(r) <= Len(m)
    <3> HIDE DEF S
    <3> QED BY <1>1, <2>2, <2>3, Longest
  <2>5. m \in Path /\ Prefix(m, p) /\ Prefix(d, m) /\ Prefix(m, q) /\ Len(m) \in Nat /\ m \in Ancestry(p)
    BY <1>1, <2>4, AncestryIs DEF Path
  <2>6. m # p
    BY <1>4, <2>5
  <2> DEFINE a == Cut(p, Len(m) + 1)
             b == Cut(q, Len(m) + 1)
  <2>7. a \in children(m) /\ a \in Path /\ Prefix(a, p) /\ Len(a) = Len(m) + 1
    BY <1>1, <2>5, <2>6, ChildBelow
  <2>8. m # q
    BY <2>7, <1>1 DEF Tree, TypeOK
  <2>9. b \in children(m) /\ b \in Path /\ Prefix(b, q) /\ Len(b) = Len(m) + 1
    BY <1>1, <2>5, <2>8, ChildBelow
  <2> HIDE DEF a, b
  <2>10. a = b
    <3>1. Cardinality(children(m)) < 2 /\ Cardinality(children(m)) \in Nat
      BY <2>1, <2>5, ChildrenAre
    <3> QED BY <2>7, <2>9, <3>1, TwoChildren
  <2>11. Prefix(d, a)
    <3>1. Prefix(m, a)
      BY <2>7 DEF children
    <3> QED BY <1>2, <2>5, <2>7, <3>1, PrefixOrder
  <2>12. a \in S
    BY <1>1, <2>7, <2>9, <2>10, <2>11, AncestryIs
  <2> QED BY <2>4, <2>5, <2>7, <2>12
<1> QED BY <1>3, <1>4

\* What erase() leaves of the leaves.
LEMMA EraseLeaves ==
  ASSUME Tree, NEW p \in Path, p # Root, erase(p)
  PROVE  /\ leaves' = {q \in leaves : ~Prefix(p, q)}
         /\ value' = [q \in leaves' |-> value[q]]
<1>1. p \in nodes
  BY DEF erase, contains
<1> DEFINE gone == {q \in nodes : Prefix(Descendant(p), q)}
<1>2. leaves' = leaves \ gone /\ value' = [q \in leaves \ gone |-> value[q]]
  BY DEF erase
<1>3. leaves \subseteq nodes
  BY DEF Tree, TypeOK
<1>4. \A q \in leaves : q \in gone <=> Prefix(p, q)
  BY <1>1, <1>3, OnlyBelowTarget
<1> QED BY <1>2, <1>4

LEMMA EraseTree ==
  ASSUME Tree, NEW p \in Path, p # Root, erase(p)
  PROVE  Tree'
<1> DEFINE d == Descendant(p)
           gone == {q \in nodes : Prefix(d, q)}
<1>1. d \in Path /\ d # Root
  BY DescendantIs
<1>2. /\ nodes' = nodes \ gone /\ leaves' = leaves \ gone
      /\ value' = [q \in leaves \ gone |-> value[q]]
  BY DEF erase
<1>3. /\ nodes \subseteq Path /\ IsFiniteSet(nodes) /\ Root \in nodes \ leaves /\ leaves \subseteq nodes
      /\ DOMAIN value = leaves /\ \A q \in leaves : value[q] \in Values /\ children(q) = {}
      /\ \A q \in nodes : Ancestry(q) \subseteq nodes
  BY DEF Tree, TypeOK
<1> HIDE DEF d
<1>4. Root \notin gone
  <2>1. Len(d) \in Nat /\ Len(d) # 0
    BY <1>1, RootIs DEF Path
  <2> QED BY <2>1, RootIs DEF Prefix
<1>5. IsFiniteSet(nodes')
  <2>1. nodes' \in SUBSET nodes
    BY <1>2
  <2> QED BY <1>3, <2>1, FS_Subset
<1>6. ASSUME NEW q \in nodes', NEW r \in Ancestry(q) PROVE r \in nodes'
  <2>1. q \in nodes /\ ~Prefix(d, q) /\ q \in Path /\ r \in nodes
    BY <1>2, <1>3, <1>6
  <2>2. r \in Path /\ Prefix(r, q)
    BY <1>6, <2>1, AncestryIs
  <2>3. ~Prefix(d, r)
    BY <1>1, <2>1, <2>2, PrefixOrder
  <2> QED BY <1>2, <2>1, <2>3
<1>7. ASSUME NEW q \in leaves' PROVE children(q)' = {}
  <2>1. children(q)' \subseteq children(q)
    BY <1>2 DEF children
  <2> QED BY <1>2, <1>3, <2>1
<1>8. TypeOK'
  BY <1>2, <1>3, <1>6, <1>7 DEF TypeOK
<1> QED BY <1>2, <1>3, <1>4, <1>5, <1>8 DEF Tree

LEMMA NextTree == Tree /\ [Next]_vars => Tree'
<1> SUFFICES ASSUME Tree, [Next]_vars PROVE Tree'
  OBVIOUS
<1>1. ASSUME NEW p \in Paths, NEW v \in Values, set(p, v) PROVE Tree'
  BY <1>1, SetTree
<1>2. ASSUME NEW p \in Paths, erase(p) PROVE Tree'
  <2>1. p \in Path /\ p # Root
    BY TrieAssumption DEF Path, Root
  <2> QED BY <1>2, <2>1, EraseTree
<1>3. ASSUME UNCHANGED vars PROVE Tree'
  BY <1>3 DEF Tree, TypeOK, children, Ancestry, vars
<1> QED BY <1>1, <1>2, <1>3 DEF Next

LEMMA AlwaysTree == Spec => []Tree
BY InitTree, NextTree, PTL DEF Spec

\* The tables of nodes, leaves and values agree, every node hangs in the tree
\* and a file is never a directory (TypeOK).
THEOREM TreeTyped == Spec => []TypeOK
<1>1. Tree => TypeOK
  BY DEF Tree
<1> QED BY <1>1, AlwaysTree, PTL

-----------------------------------------------------------------------------
(* What erase promises *)
LEMMA PathsAre == \A p \in Paths : p \in Path /\ p # Root
BY TrieAssumption DEF Path, Root

\* erase() takes the files at and below its target and no other one
\* (ErasesTargetOnly).
THEOREM ErasesOnlyTarget == Spec => ErasesTargetOnly
<1>1. Tree /\ [Next]_vars => [\A p \in Paths : erase(p) => leaves' = {q \in leaves : ~Prefix(p, q)}]_vars
  BY PathsAre, EraseLeaves
<1> QED BY <1>1, AlwaysTree, PTL DEF Spec, ErasesTargetOnly

LEMMA EraseFileTidy ==
  ASSUME Tree, NEW p \in leaves, erase(p), EmptyDirectories = {}
  PROVE  EmptyDirectories' = {}
<1> DEFINE d == Descendant(p)
           s == Stop(p)
           gone == {q \in nodes : Prefix(d, q)}
<1>1. /\ nodes \subseteq Path /\ p \in nodes /\ p \in Path /\ p # Root /\ leaves \subseteq nodes
      /\ Ancestry(p) \subseteq nodes
  BY DEF Tree, TypeOK
<1>2. d \in Path /\ Prefix(d, p)
  BY <1>1, DescendantIs
<1>3. s \in Ancestry(p) /\ s \in Path /\ Prefix(s, p)
  BY <1>1, StopIs, AncestryIs
<1>4. s # p
  <2>1. Cardinality(children(p)) = 0
    BY FS_EmptySet DEF Tree, TypeOK
  <2> QED BY <1>1, <2>1, StopIs
<1>5. Prefix(s, d) /\ Len(d) = Len(s) + 1
  BY <1>1, <1>4, DescendantIs
<1>6. nodes' = nodes \ gone /\ leaves' = leaves \ gone
  BY DEF erase
<1>7. s = Root \/ Cardinality(children(s)) >= 2
  BY <1>1, StopIs
<1> HIDE DEF d, s
\* A directory that is left and not the root holds a file that is left.
<1>8. ASSUME NEW x \in nodes', x # Root PROVE \E q \in leaves' : Prefix(x, q)
  <2>1. x \in nodes /\ x \in Path /\ ~Prefix(d, x) /\ Len(x) \in Nat /\ Len(x) # 0
    BY <1>1, <1>6, <1>8, RootIs DEF Path
  <2>2. PICK q \in leaves : Prefix(x, q)
    BY <1>8, <2>1 DEF EmptyDirectories
  <2>3. CASE ~Prefix(d, q)
    BY <1>6, <2>2, <2>3
  <2>4. CASE Prefix(d, q)
    <3>1. q \in Path /\ Len(d) \in Nat /\ Len(s) \in Nat
      BY <1>1, <1>2, <1>3 DEF Path
    <3>2. Len(x) < Len(d)
      <4>1. Len(d) <= Len(x) => Prefix(d, x)
        BY <1>2, <2>1, <2>2, <2>4, <3>1, PrefixOrder
      <4> QED BY <2>1, <3>1, <4>1
    <3>3. Prefix(x, d)
      BY <1>2, <2>1, <2>2, <2>4, <3>1, <3>2, PrefixOrder
    <3>4. Prefix(x, s)
      <4>1. Len(x) <= Len(s)
        BY <1>5, <2>1, <3>1, <3>2
      <4> QED BY <1>2, <1>3, <1>5, <2>1, <3>3, <4>1, PrefixOrder
    <3>5. s # Root
      BY <2>1, <3>1, <3>4, RootIs DEF Prefix
    <3>6. PICK b \in children(s) : b # d
      BY <1>7, <3>5, OtherChild
    <3>7. b \in nodes /\ b \in Path /\ Len(b) = Len(d) /\ Prefix(s, b) /\ b # Root
      BY <1>1, <1>5, <3>1, <3>6, RootIs DEF children
    <3>8. PICK r \in leaves : Prefix(b, r)
      BY <3>7 DEF EmptyDirectories
    <3>9. r \in Path
      BY <1>1, <3>8
    <3>10. ~Prefix(d, r)
      <4> SUFFICES ASSUME Prefix(d, r) PROVE FALSE
        OBVIOUS
      <4>1. Prefix(b, d)
        <5>1. Len(b) <= Len(d)
          BY <3>1, <3>7
        <5> QED BY <1>2, <3>7, <3>8, <3>9, <5>1, PrefixOrder
      <4> QED BY <1>2, <3>6, <3>7, <4>1, PrefixOrder
    <3>11. Prefix(x, r)
      <4>1. Prefix(x, b)
        BY <1>3, <2>1, <3>4, <3>7, PrefixOrder
      <4> QED BY <2>1, <3>7, <3>8, <3>9, <4>1, PrefixOrder
    <3> QED BY <1>6, <3>8, <3>10, <3>11
  <2> QED BY <2>3, <2>4
<1> QED BY <1>8 DEF EmptyDirectories

\* Erasing a file from a trie without empty directories leaves none behind
\* (FilesTidyUp).
THEOREM ErasedFilesTidy == Spec => FilesTidyUp
<1>1. Tree /\ [Next]_vars =>
        [\A p \in leaves : erase(p) /\ EmptyDirectories = {} => EmptyDirectories' = {}]_vars
  BY EraseFileTidy
<1> QED BY <1>1, AlwaysTree, PTL DEF Spec, FilesTidyUp

-----------------------------------------------------------------------------
(* The trie is a map *)
LEMMA MapInit == Init => Map!Init
BY DEF Init, Map!Init, EmptyMap, Map!EmptyMap

LEMMA MapSet ==
  ASSUME Tree, NEW p \in Paths, NEW v \in Values, set(p, v)
  PROVE  Map!SetValue(p, v)
<1>1. DOMAIN value = leaves /\ leaves \subseteq nodes /\ nodes \subseteq Path
  BY DEF Tree, TypeOK
<1>2. ~Map!Blocked(value, p)
  BY <1>1, SetClear DEF Map!Blocked, Map!ProperPrefix, Map!Prefix, Prefix
<1>3. ~Map!IsDir(value, p)
  BY <1>1, SetClear DEF Map!IsDir, Map!ProperPrefix, Map!Prefix, Prefix
<1>4. value' = Map!Put(value, p, v)
  BY DEF set, Put, Map!Put
<1> QED BY <1>2, <1>3, <1>4 DEF Map!SetValue

LEMMA MapErase ==
  ASSUME Tree, NEW p \in Paths, erase(p)
  PROVE  Map!Erase(p)
<1>1. DOMAIN value = leaves
  BY DEF Tree, TypeOK
<1>2. leaves' = {q \in leaves : ~Prefix(p, q)} /\ value' = [q \in leaves' |-> value[q]]
  BY PathsAre, EraseLeaves
<1> QED BY <1>1, <1>2 DEF Map!Erase, Map!Prefix, Prefix

\* The pointer structure implements the map from paths to values in which no
\* key lies below another one: a set() or erase() that goes through does to the
\* map what the map promises.
THEOREM TrieIsMap == Spec => ImplementsMap
<1>1. Tree /\ [Next]_vars => [Map!Next]_value
  <2> SUFFICES ASSUME Tree, [Next]_vars PROVE [Map!Next]_value
    OBVIOUS
  <2>1. ASSUME NEW p \in Paths, NEW v \in Values, set(p, v) PROVE Map!Next
    BY <2>1, MapSet DEF Map!Next
  <2>2. ASSUME NEW p \in Paths, erase(p) PROVE Map!Next
    BY <2>2, MapErase DEF Map!Next
  <2>3. ASSUME UNCHANGED vars PROVE UNCHANGED value
    BY <2>3 DEF vars
  <2> QED BY <2>1, <2>2, <2>3 DEF Next
<1> QED BY <1>1, MapInit, AlwaysTree, PTL DEF Spec, ImplementsMap, Map!Spec
=============================================================================
