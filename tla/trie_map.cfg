\* All operations of the trie, directories erased too.
CONSTANTS
  Paths <- MCPaths
  Values = {1, 2}
SPECIFICATION Spec
INVARIANTS TypeOK
PROPERTIES ImplementsMap ErasesTargetOnly FilesTidyUp
