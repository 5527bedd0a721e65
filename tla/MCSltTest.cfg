CONSTANTS
  ta = ta
  tb = tb
  h1 = h1
  h2 = h2
  Tests <- MCTests
  Hooks <- MCHooks
  Matches <- MCMatches

SPECIFICATION Spec
\* Every task ends once its result is sent.
CHECK_DEADLOCK FALSE

INVARIANT ClientClosedWhenSent
INVARIANT OkMeansPassedOrSkipped
