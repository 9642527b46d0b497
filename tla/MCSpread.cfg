SPECIFICATION Spec
CONSTANTS
  Hosts <- MCHosts
  RowLists <- MCRowLists
  Nodes <- MCNodes
  WordBits = 2
  MaxWorkers = 2
CHECK_DEADLOCK FALSE
PROPERTY SiblingsLast
