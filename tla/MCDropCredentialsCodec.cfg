\* The round trip of the DropCredentials extension node through its encoding.
CONSTANTS
  c1 = c1
  c2 = c2
  c3 = c3
  None = None
  Names <- MCNames
  MaxNames <- MCMaxNames
SPECIFICATION Spec
\* Encoding and decoding happen once: the model stops when the node is rebuilt.
CHECK_DEADLOCK FALSE
INVARIANT RoundTrip
