------------------------------ MODULE MCArchive ------------------------------
(* Instances of ArchiveRefinement, and with it of Archive, for TLC. *)
EXTENDS ArchiveRefinement, TLC

\* A file and a directory with the same name.
MCFilePaths == {<<"a">>, <<"a", "b">>}

MCTagPaths == {<<"t">>}

\* A tag below another one: set() throws.
MCNestedTags == {<<"t">>, <<"t", "u">>}

\* Tags side by side.
MCTwoTags == {<<"t">>, <<"u">>}

MCPathLength == [p \in MCFilePaths \cup MCNestedTags \cup MCTwoTags |-> 2 * Len(p)]

BlobSymmetry == Permutations(BlobIds)

IdSymmetry == BlobSymmetry \cup Permutations(MstateIds)
=============================================================================
