-------------------------- MODULE MCApplicationData --------------------------
EXTENDS ApplicationData

\* Record lengths below, at and above the quantum and at twice it, and
\* close_notify.
MCItems == {CloseNotify, 500, 1024, 1500, 2048}

\* Every non-empty input of up to three items.
MCPeerInputs == UNION {[1..n -> MCItems] : n \in 1..3}

=============================================================================
