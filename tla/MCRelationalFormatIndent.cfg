\* The indentation of a node's header against its parent's.
CONSTANTS
  MaxNodes <- MCMaxNodes
  MaxRows <- MCMaxRows
SPECIFICATION Spec
CHECK_DEADLOCK FALSE
INVARIANT ChildIndentedBelowParent
