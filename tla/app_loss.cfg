CONSTANTS
  PeerInputs <- MCPeerInputs
SPECIFICATION Spec
INVARIANT NoDataDiscarded
