--------------------------- MODULE ApplicationData ---------------------------
(***************************************************************************)
(* TlsSession::Data::receiveApplicationData (mbedtls backend) as called by *)
(* executeTlsSession after the handshake: the data the peer sent is read   *)
(* in 1024-byte quanta with mbedtls_ssl_read until a read returns less     *)
(* than a quantum.                                                         *)
(*                                                                         *)
(* The peer's input after the handshake is a sequence of application data  *)
(* records (their lengths), close_notify and fatal Alerts, after which the  *)
(* peer either goes silent or closes the connection.  mbedtls_ssl_read returns bytes   *)
(* of one record per call, at most the length asked for.  When no record   *)
(* is left, the receive callback (tcpReceive) ends the read with           *)
(* MBEDTLS_ERR_SSL_TIMEOUT, which mbedtls_ssl_read returns, or with        *)
(* MBEDTLS_ERR_SSL_CONN_EOF, for which mbedtls_ssl_read returns 0.  Empty  *)
(* records are skipped inside mbedtls, so no other read returns 0.         *)
(***************************************************************************)
EXTENDS Integers, Sequences

CONSTANTS
  PeerInputs   \* the peer's possible inputs after the handshake

VARIABLES
  pending,   \* records not yet started
  cur,       \* bytes left of the record mbedtls is reading from
  read,      \* the local variable read: bytes in the buffer
  bufSize,   \* buffer.size()
  outcome,   \* "reading", "returned" or "threw"
  consumed   \* application bytes mbedtls has handed over

vars == <<pending, cur, read, bufSize, outcome, consumed>>

BlockSize == 1024

CloseNotify == 0     \* a close_notify alert in the peer's input
FatalAlert == -1     \* a fatal Alert record in the peer's input
PeerClosedNotify == -2
FatalAlertMessage == -3  \* MBEDTLS_ERR_SSL_FATAL_ALERT_MESSAGE
Timeout == -4  \* MBEDTLS_ERR_SSL_TIMEOUT

\* What mbedtls_ssl_read returns when tcpReceive finds nothing to read: its
\* receive timeout, or 0 for MBEDTLS_ERR_SSL_CONN_EOF.  Either is possible
\* whether or not the peer has closed: isClosed can miss a FIN and, on the
\* client, report one that did not happen (TcpClient.tla).
TransportEnds == {Timeout, 0}

-----------------------------------------------------------------------------

\* What mbedtls_ssl_read(len) returns, and the records and the current
\* record's remainder after it, when tcpReceive would end with e.
SslRead(len, e) ==
  IF cur > 0
  THEN [res |-> IF cur < len THEN cur ELSE len, pend |-> pending,
        rem |-> cur - (IF cur < len THEN cur ELSE len)]
  ELSE IF pending = << >>
  THEN [res |-> e, pend |-> pending, rem |-> 0]
  ELSE IF Head(pending) = CloseNotify
  THEN [res |-> PeerClosedNotify, pend |-> Tail(pending), rem |-> 0]
  ELSE IF Head(pending) = FatalAlert
  THEN [res |-> FatalAlertMessage, pend |-> Tail(pending), rem |-> 0]
  ELSE LET n == Head(pending)
       IN [res |-> IF n < len THEN n ELSE len, pend |-> Tail(pending),
           rem |-> n - (IF n < len THEN n ELSE len)]

\* Mutant: the loop goes on only when a read returns more than a quantum.
ReadMoreGreater(result) == result > BlockSize

\* "check if more data is available": a full quantum was read.
ReadMore(result) == BlockSize = result

\* Mutant: the final resize uses the offset from before the read.
NewSizeBeforeAdd(offset, result) ==
  IF ReadMore(result) THEN offset + result + BlockSize ELSE offset

\* buffer.resize after a read of result bytes at offset: one more quantum
\* when the loop goes on, else the bytes read.
NewSize(offset, result) ==
  IF ReadMore(result) THEN offset + result + BlockSize ELSE offset + result

\* One pass of the while (true) loop: mbedtls_ssl_read into the buffer at
\* offset read, then the result's branches: close_notify or 0 (EOF) with
\* data read is logged and ends the loop, without data it throws; another
\* negative result throws; a full quantum grows the buffer and loops.
ReadOnce ==
  /\ outcome = "reading"
  /\ \E e \in TransportEnds :
     LET r == SslRead(BlockSize, e)
         res == r.res
     IN /\ pending' = r.pend
        /\ cur' = r.rem
        /\ consumed' = consumed + (IF res > 0 THEN res ELSE 0)
        /\ \/ /\ res \in {PeerClosedNotify, 0} /\ read > 0
              /\ bufSize' = read
              /\ outcome' = "returned"
              /\ UNCHANGED read
           \/ /\ res <= 0 /\ ~(res \in {PeerClosedNotify, 0} /\ read > 0)
              /\ outcome' = "threw"
              /\ UNCHANGED <<read, bufSize>>
           \/ /\ res > 0
              /\ read' = read + res
              /\ bufSize' = NewSize(read, res)
              /\ outcome' = IF ReadMore(res) THEN "reading" ELSE "returned"

\* executeTlsSession calls receiveApplicationData only when data is
\* available: the peer has sent at least one record.
Init ==
  /\ pending \in PeerInputs
  /\ cur = 0
  /\ read = 0
  /\ bufSize = BlockSize
  /\ outcome = "reading"
  /\ consumed = 0

\* receiveApplicationData has returned or thrown.
Done == outcome # "reading" /\ UNCHANGED vars

Next == ReadOnce \/ Done

Spec == Init /\ [][Next]_vars /\ WF_vars(ReadOnce)

-----------------------------------------------------------------------------
(***************************************************************************)
(* Properties.                                                             *)
(***************************************************************************)

TypeOK ==
  /\ pending \in Seq(Nat \cup {FatalAlert}) /\ cur \in Nat /\ consumed \in Nat
  /\ bufSize \in Nat /\ read \in 0..bufSize /\ outcome \in {"reading", "returned", "threw"}

\* When receiveApplicationData returns, the buffer holds every byte mbedtls
\* handed over and no record is left half read (spec 4: it grows the
\* buffer "until the backend returns less than the quantum").
ReturnsWholeRecords ==
  outcome = "returned" => (bufSize = consumed /\ cur = 0)

\* No byte read from the peer is thrown away: the call throws only when it
\* has read nothing.
NoDataDiscarded ==
  outcome = "threw" => consumed = 0

=============================================================================
