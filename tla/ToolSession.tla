----------------------------- MODULE ToolSession -----------------------------
(***************************************************************************)
(* executeTlsSession whole, in main's loop: the handshake of TlsHandshake  *)
(* followed, once performHandshake has returned, by the tail of            *)
(* SessionTail (data wait, receiveApplicationData, close, socket close).   *)
(* TlsHandshake abstracts that tail to its one action FinishSession; here  *)
(* the tail runs in its place and starts from what the handshake left:    *)
(* an Alert record buffered and unread, and the peer's FIN.                *)
(*                                                                         *)
(* The two components share no variable: the handshake's phase stays      *)
(* "post" while the tail runs, and the tail's variables are idle outside   *)
(* it.  The composition is checked to implement TlsHandshake.             *)
(***************************************************************************)
EXTENDS Integers, Sequences

CONSTANTS
  IsClient, Manipulations, SecretFile, RandomByteIndexInputs,
  ListenTimeoutSeconds, MaxSessions, CertificateFiles, \* TlsHandshake's
  PeerInputs, Timeouts                 \* SessionTail's

VARIABLES
  phase, result, state, expectAlert, inProgress, padding, checks, pms,
  pmsIndex, rsaKey, byteIndex, clientRandom, keyLog, sentAt, lastStep,
  alertPending, peerClosed, sessions,           \* TlsHandshake's
  pending, cur, read, bufSize, outcome, consumed, inflight, fin,
  tailPhase, notifySent, logged, dropped, alertRead, alertSent,
  timeouts                                      \* SessionTail's

hsVars == <<phase, result, state, expectAlert, inProgress, padding, checks, pms,
            pmsIndex, rsaKey, byteIndex, clientRandom, keyLog, sentAt, lastStep,
            alertPending, peerClosed, sessions>>
tailVars == <<pending, cur, read, bufSize, outcome, consumed, inflight, fin,
              tailPhase, notifySent, logged, dropped, alertRead, alertSent, timeouts>>
vars == <<hsVars, tailVars>>

HS == INSTANCE TlsHandshake
ST == INSTANCE SessionTail WITH phase <- tailPhase

-----------------------------------------------------------------------------

\* The tail's variables outside executeTlsSession's tail.
TailIdle ==
  /\ tailPhase = "idle"
  /\ pending = << >> /\ cur = 0 /\ read = 0 /\ bufSize = ST!App!BlockSize
  /\ outcome = "idle" /\ consumed = 0 /\ inflight = << >> /\ fin = FALSE
  /\ notifySent = FALSE /\ logged = 0 /\ dropped = 0 /\ alertRead = FALSE
  /\ alertSent = FALSE /\ timeouts = [socket |-> 0, close |-> 0]

\* A step of performHandshake, or the peer acting during it.
HandshakeStep ==
  /\ HS!PerformHandshakeStepOk \/ HS!PerformHandshakeStepThrows
  /\ UNCHANGED tailVars

PeerDuringHandshake ==
  /\ phase = "handshake"
  /\ HS!PeerSendsAlert \/ HS!PeerCloses
  /\ UNCHANGED tailVars

\* performHandshake has returned: executeTlsSession goes on with the socket
\* as the handshake left it.  An Alert still buffered is the first record
\* in the receive buffer; after the peer's FIN nothing more arrives.  main
\* passes the role's socketTimeout and closeTimeout.
StartTail ==
  /\ phase = "post" /\ tailPhase = "idle"
  /\ tailPhase' = "check"
  /\ pending' = IF alertPending THEN << ST!App!FatalAlert >> ELSE << >>
  /\ fin' = peerClosed
  /\ alertSent' = alertPending
  /\ inflight' \in IF peerClosed THEN {<< >>} ELSE PeerInputs
  /\ timeouts' \in Timeouts
  /\ UNCHANGED <<cur, read, bufSize, outcome, consumed, notifySent, logged, dropped,
                 alertRead, hsVars>>

\* A step of the tail: the tool's, or the peer's.
TailStep ==
  /\ phase = "post" /\ tailPhase # "idle"
  /\ ST!Tool \/ ST!PeerDelivers \/ ST!PeerCloses
  /\ UNCHANGED hsVars

TailToolStep == TailStep /\ ST!Tool

\* executeTlsSession has returned, and main's next iteration creates a new
\* TcpServer and TlsSession: the tail's variables are idle again
\* (TailIdle).
EndSession ==
  /\ tailPhase = "end"
  /\ HS!FinishSession
  /\ tailPhase' = "idle"
  /\ pending' = << >> /\ cur' = 0 /\ read' = 0 /\ bufSize' = ST!App!BlockSize
  /\ outcome' = "idle" /\ consumed' = 0 /\ inflight' = << >> /\ fin' = FALSE
  /\ notifySent' = FALSE /\ logged' = 0 /\ dropped' = 0 /\ alertRead' = FALSE
  /\ alertSent' = FALSE /\ timeouts' = [socket |-> 0, close |-> 0]

\* main's next server iteration, or the end of the run.
LoopStep ==
  /\ HS!NewSession \/ HS!Terminated
  /\ UNCHANGED tailVars

Init == HS!Init /\ TailIdle

Next ==
  \/ HandshakeStep \/ PeerDuringHandshake \/ StartTail \/ TailStep
  \/ EndSession \/ LoopStep

\* TlsHandshake's fairness, and SessionTail's for the tool's tail steps.
Spec ==
  /\ Init /\ [][Next]_vars
  /\ WF_vars(HandshakeStep) /\ WF_vars(StartTail) /\ WF_vars(TailToolStep)
  /\ WF_vars(EndSession) /\ WF_vars(HS!NewSession /\ UNCHANGED tailVars)

-----------------------------------------------------------------------------
(* Properties.                                                             *)

\* The composition implements TlsHandshake: with the detailed tail in place
\* of FinishSession, every session still goes from "post" to "ended" (the
\* tail returns from every state the handshake leaves it in, whatever the
\* peer does next), and nothing of the handshake changes meanwhile.
HandshakeModel == HS!Spec

\* TlsHandshake's properties, in the composed session loop: the overrides
\* and the key log, and the refinement of HandshakeOrder, whose liveness
\* says that performHandshake returns or throws whatever the client's
\* manipulations make the driver do.
OverridesInForceExactlyAtKeyExchange == HS!OverridesInForceExactlyAtKeyExchange
KeyLogOncePerHandshake == HS!KeyLogOncePerHandshake
HandshakeInOrder == HS!HandshakeInOrder

\* A fatal Alert that the peer sent during the handshake, and that was still
\* buffered when performHandshake returned, or that arrived later but before
\* the close_notify, has been read once close() has written the close_notify.
AlertDrainedBeforeClose == ST!AlertDrainedBeforeClose

====
