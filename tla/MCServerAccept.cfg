\* The accept loop of Server::serve with handlers that may never return.
CONSTANTS
  k1 = k1
  k2 = k2
  k3 = k3
  Clients <- MCClients
SPECIFICATION Spec
\* Every client may have been served and closed, or serve may have returned.
CHECK_DEADLOCK FALSE
PROPERTY AcceptProgress
