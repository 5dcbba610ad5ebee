---------------------------- MODULE MCSessionTail ----------------------------
EXTENDS SessionTail

\* Application-data records below, at and above the quantum, close_notify (0,
\* ApplicationData's CloseNotify) and a fatal Alert (-1, its FatalAlert).
MCRecords == {500, 1024, 1500, 0, -1}

\* Every input of up to four records, none included.
MCTailInputs == UNION {[1..n -> MCRecords] : n \in 0..4}

\* main passes socketTimeout 1 and closeTimeout 3 for the client, 0 and 0
\* for the server.
MCTimeouts == {[socket |-> 1, close |-> 3], [socket |-> 0, close |-> 0]}

=============================================================================
