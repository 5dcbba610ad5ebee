----------------------------- MODULE SessionTail -----------------------------
(***************************************************************************)
(* executeTlsSession after a handshake that returned: checkTcpConnection,  *)
(* the wait of socketTimeout seconds for application data, the call of     *)
(* receiveApplicationData (module ApplicationData) when data is available, *)
(* TlsSession::close(closeTimeout) with its forced Alert reads and its     *)
(* close_notify, and socket.close; every exception leads to                *)
(* waitForClosedTcpConnection.                                             *)
(*                                                                         *)
(* The peer's records are in flight until they arrive in the socket's      *)
(* receive buffer (pending), in order; after the last one the peer may     *)
(* close the connection (a FIN).  isClosed() is taken as exact: the peer   *)
(* has closed and nothing is left to read.  The real probe can also stay   *)
(* FALSE once the io_context has stopped (TcpClient.tla, run tcp_blind),   *)
(* which only makes the loops below run to their timeouts.  Time is not    *)
(* modelled: a timeout is the loop ending without the event it waited     *)
(* for, and races the peer's actions.                                      *)
(***************************************************************************)
EXTENDS Integers, Sequences

CONSTANTS
  PeerInputs,     \* the peer's possible records after the handshake
  Timeouts        \* executeTlsSession's [socket, close] timeouts (seconds)

VARIABLES
  pending, cur, read, bufSize, outcome, consumed,  \* receiveApplicationData
  inflight,    \* the peer's records not yet arrived
  fin,         \* the peer has closed its side of the connection
  phase,       \* where executeTlsSession is
  notifySent,  \* mbedtls_ssl_close_notify has written the close_notify
  logged,      \* bytes logged as "Application data received"
  dropped,     \* application bytes consumed by forced reads and not logged
  alertRead,   \* a fatal Alert of the peer has been read
  alertSent,   \* history: a fatal Alert arrived before the close_notify went out
  timeouts     \* the socketTimeout and closeTimeout of this call

appVars == <<pending, cur, read, bufSize, outcome, consumed>>
tailVars == <<inflight, fin, phase, notifySent, logged, dropped, alertRead, alertSent, timeouts>>
vars == <<appVars, tailVars>>

App == INSTANCE ApplicationData

Phases == {"check", "wait", "available", "receive", "close", "notify",
           "closeSocket", "waitClosed", "end"}

-----------------------------------------------------------------------------

\* TcpClient::isClosed(): the peer's FIN has arrived and nothing is left
\* to read.
Closed == fin /\ pending = << >>

\* Data::tryToReadAlertMessage(true) on the records in the receive buffer:
\* while data is readable, mbedtls_ssl_read_record consumes one record
\* (forced, whatever its type); a fatal Alert ends the loop.  Application
\* data read this way is discarded.
RECURSIVE ForcedReads(_)
ForcedReads(p) ==
  IF p = << >> THEN [rest |-> p, dropped |-> 0, alert |-> FALSE]
  ELSE IF Head(p) = App!FatalAlert THEN [rest |-> Tail(p), dropped |-> 0, alert |-> TRUE]
  ELSE LET r == ForcedReads(Tail(p))
       IN [r EXCEPT !.dropped = @ + (IF Head(p) > 0 THEN Head(p) ELSE 0)]

\* The effect of one tryToReadAlertMessage(true) on the variables.
TryToReadAlertMessage ==
  LET r == ForcedReads(pending)
  IN /\ pending' = r.rest
     /\ dropped' = dropped + r.dropped
     /\ alertRead' = (alertRead \/ r.alert)

-----------------------------------------------------------------------------
(* The tool.                                                               *)

\* checkTcpConnection after performHandshake: return when closed.
CheckTcpConnection ==
  /\ phase = "check"
  /\ phase' = IF Closed THEN "end" ELSE IF timeouts.socket # 0 THEN "wait" ELSE "available"
  /\ UNCHANGED <<appVars, inflight, fin, notifySent, logged, dropped, alertRead, alertSent, timeouts>>

\* while (0 == socket.available()) until the timeout: ends at once when
\* data is there, or when the timeout passes.
WaitForData ==
  /\ phase = "wait"
  /\ phase' = "available"
  /\ UNCHANGED <<appVars, inflight, fin, notifySent, logged, dropped, alertRead, alertSent, timeouts>>

\* if (0 < socket.available()) receiveApplicationData(), else on to close.
CheckAvailable ==
  /\ phase = "available"
  /\ IF pending # << >>
     THEN /\ phase' = "receive"
          /\ outcome' = "reading" /\ read' = 0 /\ bufSize' = App!BlockSize /\ consumed' = 0
          /\ UNCHANGED <<pending, cur>>
     ELSE /\ phase' = "close"
          /\ UNCHANGED appVars
  /\ UNCHANGED <<inflight, fin, notifySent, logged, dropped, alertRead, alertSent, timeouts>>

\* One pass of receiveApplicationData's loop.
Receive ==
  /\ phase = "receive"
  /\ App!ReadOnce
  /\ UNCHANGED tailVars

\* receiveApplicationData returned: the data is logged, then close.  It
\* threw: "Receiving application data failed", waitForClosedTcpConnection.
ReceiveEnds ==
  /\ phase = "receive"
  /\ \/ outcome = "returned" /\ phase' = "close" /\ logged' = bufSize
     \/ outcome = "threw" /\ phase' = "waitClosed" /\ UNCHANGED logged
  /\ UNCHANGED <<appVars, inflight, fin, notifySent, dropped, alertRead, alertSent, timeouts>>

\* Mutant: the close loop has no deadline.
CloseLoopNoTimeout ==
  /\ phase = "close" /\ timeouts.close # 0 /\ ~Closed
  /\ TryToReadAlertMessage
  /\ phase' = "close"
  /\ UNCHANGED <<cur, read, bufSize, outcome, consumed, inflight, fin, notifySent, logged,
                 alertSent, timeouts>>

\* close(closeTimeout), closeTimeout # 0: one pass of while (!isClosed()):
\* tryToReadAlertMessage(true), then the loop breaks if the timeout passed.
CloseLoop ==
  /\ phase = "close" /\ timeouts.close # 0 /\ ~Closed
  /\ TryToReadAlertMessage
  /\ phase' \in {"close", "notify"}
  /\ UNCHANGED <<cur, read, bufSize, outcome, consumed, inflight, fin, notifySent, logged,
                 alertSent, timeouts>>

\* The loop is skipped (closeTimeout 0) or finds the connection closed.
CloseLoopEnds ==
  /\ phase = "close" /\ (timeouts.close = 0 \/ Closed)
  /\ phase' = "notify"
  /\ UNCHANGED <<appVars, inflight, fin, notifySent, logged, dropped, alertRead, alertSent, timeouts>>

\* Mutant: no forced read after the close_notify.
SendCloseNotifyNoDrain ==
  /\ phase = "notify"
  /\ notifySent' = TRUE
  /\ phase' = "closeSocket"
  /\ UNCHANGED <<appVars, inflight, fin, logged, dropped, alertRead, alertSent, timeouts>>

\* mbedtls_ssl_close_notify writes the close_notify (tcpSend never returns
\* WANT_WRITE), then tryToReadAlertMessage(true).
SendCloseNotify ==
  /\ phase = "notify"
  /\ notifySent' = TRUE
  /\ TryToReadAlertMessage
  /\ phase' = "closeSocket"
  /\ UNCHANGED <<cur, read, bufSize, outcome, consumed, inflight, fin, logged, alertSent,
                 timeouts>>

\* The write throws (the peer has closed and reset the connection):
\* "Closing failed", waitForClosedTcpConnection.
CloseNotifyFails ==
  /\ phase = "notify" /\ fin
  /\ phase' = "waitClosed"
  /\ UNCHANGED <<appVars, inflight, fin, notifySent, logged, dropped, alertRead, alertSent, timeouts>>

\* checkTcpConnection (it only logs) and socket.close().
CloseSocket ==
  /\ phase = "closeSocket"
  /\ phase' = "end"
  /\ UNCHANGED <<appVars, inflight, fin, notifySent, logged, dropped, alertRead, alertSent, timeouts>>

\* waitForClosedTcpConnection: while (checkTcpConnection) until the
\* timeout; it ends when the connection is closed or the time is up.
WaitForClosedTcpConnection ==
  /\ phase = "waitClosed"
  /\ phase' = "end"
  /\ UNCHANGED <<appVars, inflight, fin, notifySent, logged, dropped, alertRead, alertSent, timeouts>>

-----------------------------------------------------------------------------
(* The peer.                                                               *)

\* The next record arrives in the socket's receive buffer.
PeerDelivers ==
  /\ phase # "end" /\ inflight # << >>
  /\ pending' = Append(pending, Head(inflight))
  /\ inflight' = Tail(inflight)
  /\ alertSent' = (alertSent \/ (Head(inflight) = App!FatalAlert /\ ~notifySent))
  /\ UNCHANGED <<cur, read, bufSize, outcome, consumed, fin, phase, notifySent,
                 logged, dropped, alertRead, timeouts>>

\* The peer closes the connection after its last record.
PeerCloses ==
  /\ phase # "end" /\ inflight = << >> /\ ~fin
  /\ fin' = TRUE
  /\ UNCHANGED <<appVars, inflight, phase, notifySent, logged, dropped, alertRead, alertSent, timeouts>>

Init ==
  /\ inflight \in PeerInputs
  /\ timeouts \in Timeouts
  /\ pending = << >> /\ cur = 0 /\ read = 0 /\ bufSize = App!BlockSize
  /\ outcome = "idle" /\ consumed = 0
  /\ fin = FALSE
  /\ phase = "check"
  /\ notifySent = FALSE /\ logged = 0 /\ dropped = 0 /\ alertRead = FALSE
  /\ alertSent = FALSE

\* executeTlsSession has returned.
Done == phase = "end" /\ UNCHANGED vars

Tool ==
  \/ CheckTcpConnection \/ WaitForData \/ CheckAvailable \/ Receive \/ ReceiveEnds
  \/ CloseLoop \/ CloseLoopEnds \/ SendCloseNotify \/ CloseNotifyFails
  \/ CloseSocket \/ WaitForClosedTcpConnection

Next == Tool \/ PeerDelivers \/ PeerCloses \/ Done

\* The tool is one thread, and every loop of the tail ends by its timeout;
\* the peer owes nothing.
Spec == Init /\ [][Next]_vars /\ WF_vars(Tool)

-----------------------------------------------------------------------------
(* Properties.                                                             *)

TypeOK ==
  /\ pending \in Seq(Nat \cup {App!FatalAlert}) /\ inflight \in Seq(Nat \cup {App!FatalAlert})
  /\ cur \in Nat /\ consumed \in Nat /\ bufSize \in Nat /\ read \in 0..bufSize
  /\ outcome \in {"idle", "reading", "returned", "threw"}
  /\ fin \in BOOLEAN /\ phase \in Phases
  /\ notifySent \in BOOLEAN /\ logged \in Nat /\ dropped \in Nat /\ alertRead \in BOOLEAN
  /\ alertSent \in BOOLEAN
  /\ timeouts \in Timeouts

\* When receiveApplicationData returns inside the session, the buffer holds
\* every byte mbedtls handed over and no record is left half read.
ReturnsWholeRecords == App!ReturnsWholeRecords

\* executeTlsSession returns, whatever the peer does: it may never send,
\* never close, or close at any point (the server loop and the client's
\* exit depend on it).
SessionTailEnds == <>(phase = "end")

\* Spec section 7 says a fatal Alert is drained before the session ends.
\* Once close() has written its close_notify, a fatal Alert that reached the receive buffer before the
\* close_notify went out has been read by tryToReadAlertMessage(true):
\* in the close loop, or in the forced read after the close_notify.
AlertDrainedBeforeClose ==
  (notifySent /\ alertSent) => alertRead

=============================================================================
