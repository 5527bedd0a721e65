\* The explain rendering of every small plan, against the reference preorder.
CONSTANTS
  MaxNodes <- MCMaxNodes
  MaxRows <- MCMaxRows
SPECIFICATION Spec
\* Display is a single call: the model stops once the plan is rendered.
CHECK_DEADLOCK FALSE
INVARIANT HeadersArePreorder
