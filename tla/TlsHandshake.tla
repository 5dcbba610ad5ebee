---------------------------- MODULE TlsHandshake ----------------------------
(***************************************************************************)
(* The scripted TLS handshake of the TLS Test Tool: the driver loop        *)
(* TlsSession::performHandshake / performHandshakeStep of the mbed TLS     *)
(* adapter, the pre/post-step callbacks installed by configureCallbacks,   *)
(* the manipulation pipeline they iterate, the backend override flags the  *)
(* manipulations set and restore, the NSS key log, and the session loop of *)
(* main / executeTlsSession around it.                                     *)
(*                                                                         *)
(* The program is single-threaded: a whole handshake step (pre-step        *)
(* callbacks, alert probe, mbedtls step, alert wait, post-step callbacks,  *)
(* closed check) is one atomic action.  The peer under test is the         *)
(* environment: it may send an Alert or close the connection between two   *)
(* steps, and its misbehaviour is the nondeterministic outcome of a        *)
(* receiving step.  Message contents, bytes and log text are abstracted.   *)
(***************************************************************************)
EXTENDS Naturals, Sequences, FiniteSets, SequencesExt

CONSTANTS
  IsClient,             \* TlsSessionFactory::createClientSession (TRUE) or createServerSession
  Manipulations,        \* configuration.getManipulations(), in configuration order
  SecretFile,           \* tlsSecretFile configured: isSecrectInformationCollected()
  RandomByteIndexInputs,\* raw values of manipulatePreMasterSecretRandomByte tried
  ListenTimeoutSeconds, \* configuration.getListenTimeoutSeconds(); 0 = wait forever
  MaxSessions,          \* bound on the iterations of main's server loop
  CertificateFiles      \* certificateFile and privateKeyFile both configured

(***************************************************************************)
(* mbedtls ssl.state, in the order of convertState.                       *)
(***************************************************************************)
HELLO_REQUEST == 0
CLIENT_HELLO == 1
SERVER_HELLO == 2
SERVER_CERTIFICATE == 3
SERVER_KEY_EXCHANGE == 4
CERTIFICATE_REQUEST == 5
SERVER_HELLO_DONE == 6
CLIENT_CERTIFICATE == 7
CLIENT_KEY_EXCHANGE == 8
CERTIFICATE_VERIFY == 9
CLIENT_CHANGE_CIPHER_SPEC == 10
CLIENT_FINISHED == 11
SERVER_CHANGE_CIPHER_SPEC == 12
SERVER_FINISHED == 13
INTERNAL_1 == 14
INTERNAL_2 == 15
HANDSHAKE_DONE == 16
\* The states convertState translates in both directions; it throws
\* "Unsupported TLS handshake state" for the mbedtls states past
\* HANDSHAKE_OVER (new session ticket, hello verify request sent).
States == HELLO_REQUEST .. HANDSHAKE_DONE

\* Kinds of manipulation (the classes parsed by ManipulationsParser).
Kinds == {"SkipChangeCipherSpec", "SkipFinished", "PreMasterSecretVersion",
          "PreMasterSecretRandom", "PreMasterSecretRandomByte",
          "RsaesPkcs1V15EncryptPadding", "SkipRsaesPkcs1V15PaddingCheck"}
\* The four checks SkipRsaesPkcs1V15PaddingCheck may switch off.
Checks == {"firstByte", "blockType", "delimiter", "pmsVersion"}
\* conf.overwrite_pms_version / overwrite_pms_random / overwrite_pms_random_byte
PmsFields == {"version", "random", "randomByte"}
\* Indices of the 46-byte field PreMasterSecret.random.
RandomFieldIndices == 0 .. 45

ASSUME IsClient \in BOOLEAN /\ SecretFile \in BOOLEAN /\ CertificateFiles \in BOOLEAN
ASSUME \A i \in DOMAIN Manipulations :
         Manipulations[i].kind \in Kinds /\ Manipulations[i].skip \subseteq Checks
ASSUME MaxSessions \in Nat \ {0} /\ ListenTimeoutSeconds \in Nat

Phases == {"handshake", "post", "ended", "exited"}
Results == {"none", "successful", "aborted", "failed"}
NoStep == [at |-> HANDSHAKE_DONE, padding |-> FALSE, checks |-> {}, pms |-> {}]

VARIABLES
  phase,        \* where executeTlsSession is: in performHandshake, after it, or returned
  result,       \* how performHandshake ended
  state,        \* impl->ssl.state
  expectAlert,  \* impl->expectAlertMessage
  inProgress,   \* manipulationInProgress of each configured manipulation object
  padding,      \* rsaContext->use_wrong_padding of the peer certificate key
  checks,       \* skip_*_check flags of the own RSA key and conf.skip_pms_version_check
  pms,          \* conf.overwrite_pms_* flags that are set
  pmsIndex,     \* conf.pms_random_byte_index
  rsaKey,       \* the key the overrides act on is an RSA key (else they return early)
  byteIndex,    \* index member of the configured ManipulatePreMasterSecretRandomByte
  clientRandom, \* impl->clientRandom: 0 when empty, else the session it was copied in
  keyLog,       \* lines of the secret file: <<session written in, client random>>
  sentAt,       \* states at which this session transmitted its message (history)
  lastStep,     \* state and overrides in force during the last mbedtls step (history)
  alertPending, \* an Alert record from the peer is buffered and unread
  peerClosed,   \* the peer has closed the TCP connection
  sessions      \* number of TlsSession objects created so far

vars == <<phase, result, state, expectAlert, inProgress, padding, checks, pms,
          pmsIndex, rsaKey, byteIndex, clientRandom, keyLog, sentAt, lastStep,
          alertPending, peerClosed, sessions>>

-----------------------------------------------------------------------------
(***************************************************************************)
(* Configuration and the message table.                                   *)
(***************************************************************************)

\* Mutant: the bound check off by one.
ParsedRandomByteIndexOffByOne(v) == v <= 46

\* ManipulationsParser::parse rejects an index >= 46 for
\* manipulatePreMasterSecretRandomByte.
ParsedRandomByteIndex(v) == v < 46

Configured(kind) == \E i \in DOMAIN Manipulations : Manipulations[i].kind = kind

\* TlsMessage::isSent: does the role transmit the message of state s?
IsSent(client, s) ==
  IF client
  THEN s \in {CLIENT_HELLO, CLIENT_CERTIFICATE, CLIENT_KEY_EXCHANGE,
              CERTIFICATE_VERIFY, CLIENT_CHANGE_CIPHER_SPEC, CLIENT_FINISHED}
  ELSE s \in {HELLO_REQUEST, SERVER_HELLO, SERVER_CERTIFICATE, SERVER_KEY_EXCHANGE,
              CERTIFICATE_REQUEST, SERVER_HELLO_DONE, SERVER_CHANGE_CIPHER_SPEC,
              SERVER_FINISHED}

\* States whose step reads a message of the peer (a client's HelloRequest
\* state only moves on to ClientHello).
Receives(s) == IsSent(~IsClient, s) /\ s # HELLO_REQUEST

OwnChangeCipherSpec == IF IsClient THEN CLIENT_CHANGE_CIPHER_SPEC ELSE SERVER_CHANGE_CIPHER_SPEC
OwnFinished == IF IsClient THEN CLIENT_FINISHED ELSE SERVER_FINISHED

-----------------------------------------------------------------------------
(***************************************************************************)
(* The session's mutation hooks, on a context record c holding the state  *)
(* the pipeline may change.                                                *)
(***************************************************************************)

\* TlsSession::setState: assign the state and expect an Alert.
SetState(c, s) == [c EXCEPT !.state = s, !.expectAlert = TRUE]

\* wrongRsaesPkcs1V15EncryptPadding and skipRsaesPkcs1V15EncryptPaddingCheck
\* (and their restores) return early when the key is not an RSA key.
IfRsaKey(old, new) == IF rsaKey THEN new ELSE old

\* TlsSession::overwritePreMasterSecretVersion / overwritePreMasterSecretRandom:
\* set the conf flag of the field.
OverwritePreMasterSecret(c, field) == [c EXCEPT !.pms = @ \cup {field}]

\* TlsSession::overwritePreMasterSecretRandomByte: the flag and the index.
OverwritePreMasterSecretRandomByte(c, index) ==
  [c EXCEPT !.pms = @ \cup {"randomByte"}, !.pmsIndex = index]

\* TlsSession::overwriteRsaesPkcs1V15EncryptPadding / restoreRsaesPkcs1V15EncryptPadding:
\* use_wrong_padding of the peer certificate's RSA context.
OverwriteRsaesPkcs1V15EncryptPadding(c) == [c EXCEPT !.padding = IfRsaKey(@, TRUE)]
RestoreRsaesPkcs1V15EncryptPadding(c) == [c EXCEPT !.padding = IfRsaKey(@, FALSE)]

\* TlsSession::skipRsaesPkcs1V15EncryptPaddingCheck: set the skip flags asked
\* for (a flag already set stays set); restoreRsaesPkcs1V15EncryptPaddingCheck
\* clears all four.
SkipRsaesPkcs1V15EncryptPaddingCheck(c, skip) == [c EXCEPT !.checks = IfRsaKey(@, @ \cup skip)]
RestoreRsaesPkcs1V15EncryptPaddingCheck(c) == [c EXCEPT !.checks = IfRsaKey(@, {})]

-----------------------------------------------------------------------------
(***************************************************************************)
(* The manipulations' executePreStep / executePostStep.                    *)
(***************************************************************************)

\* Mutant: only the client branch written.
SkipChangeCipherSpecPreStepClientOnly(c) ==
  IF IsClient /\ c.state = CLIENT_CHANGE_CIPHER_SPEC THEN SetState(c, CLIENT_FINISHED) ELSE c

SkipChangeCipherSpecPreStep(c) ==
  IF c.state = OwnChangeCipherSpec THEN SetState(c, OwnFinished) ELSE c

\* Mutant: triggered at the ChangeCipherSpec state.
SkipFinishedPreStepWrongState(c) ==
  IF IsClient /\ c.state = CLIENT_CHANGE_CIPHER_SPEC
  THEN SetState(c, SERVER_CHANGE_CIPHER_SPEC) ELSE c

\* Mutant: jumps to the client's instead of the server's ChangeCipherSpec.
SkipFinishedPreStepBackToCcs(c) ==
  IF IsClient /\ c.state = CLIENT_FINISHED
  THEN SetState(c, CLIENT_CHANGE_CIPHER_SPEC) ELSE c

SkipFinishedPreStep(c) ==
  IF IsClient /\ c.state = CLIENT_FINISHED
  THEN SetState(c, SERVER_CHANGE_CIPHER_SPEC) ELSE c

\* overwritePreMasterSecretVersion / overwritePreMasterSecretRandom
OverwritePmsPreStep(c, field) ==
  IF IsClient /\ c.state = CLIENT_KEY_EXCHANGE
  THEN OverwritePreMasterSecret(c, field) ELSE c

PreMasterSecretRandomBytePreStep(c) ==
  IF IsClient /\ c.state = CLIENT_KEY_EXCHANGE
  THEN OverwritePreMasterSecretRandomByte(c, byteIndex) ELSE c

RsaesPkcs1V15EncryptPaddingPreStep(c, i) ==
  IF IsClient /\ c.state = CLIENT_KEY_EXCHANGE
  THEN OverwriteRsaesPkcs1V15EncryptPadding([c EXCEPT !.inProgress[i] = TRUE]) ELSE c

\* Mutant: the flag is cleared but the padding not restored.
RsaesPkcs1V15EncryptPaddingPostStepNoRestore(c, i) ==
  IF c.inProgress[i] THEN [c EXCEPT !.inProgress[i] = FALSE] ELSE c

RsaesPkcs1V15EncryptPaddingPostStep(c, i) ==
  IF c.inProgress[i]
  THEN [RestoreRsaesPkcs1V15EncryptPadding(c) EXCEPT !.inProgress[i] = FALSE] ELSE c

SkipRsaesPkcs1V15PaddingCheckPreStep(c, i) ==
  IF ~IsClient /\ c.state = CLIENT_KEY_EXCHANGE
  THEN SkipRsaesPkcs1V15EncryptPaddingCheck([c EXCEPT !.inProgress[i] = TRUE],
                                            Manipulations[i].skip) ELSE c

\* Mutant: the flag is cleared but the checks not restored.
SkipRsaesPkcs1V15PaddingCheckPostStepNoRestore(c, i) ==
  IF c.inProgress[i] THEN [c EXCEPT !.inProgress[i] = FALSE] ELSE c

SkipRsaesPkcs1V15PaddingCheckPostStep(c, i) ==
  IF c.inProgress[i]
  THEN [RestoreRsaesPkcs1V15EncryptPaddingCheck(c) EXCEPT !.inProgress[i] = FALSE] ELSE c

\* Virtual dispatch of Manipulation::executePreStep.
ExecutePreStep(c, i) ==
  CASE Manipulations[i].kind = "SkipChangeCipherSpec" -> SkipChangeCipherSpecPreStep(c)
    [] Manipulations[i].kind = "SkipFinished" -> SkipFinishedPreStep(c)
    [] Manipulations[i].kind = "PreMasterSecretVersion" -> OverwritePmsPreStep(c, "version")
    [] Manipulations[i].kind = "PreMasterSecretRandom" -> OverwritePmsPreStep(c, "random")
    [] Manipulations[i].kind = "PreMasterSecretRandomByte" -> PreMasterSecretRandomBytePreStep(c)
    [] Manipulations[i].kind = "RsaesPkcs1V15EncryptPadding" -> RsaesPkcs1V15EncryptPaddingPreStep(c, i)
    [] Manipulations[i].kind = "SkipRsaesPkcs1V15PaddingCheck" -> SkipRsaesPkcs1V15PaddingCheckPreStep(c, i)

\* Virtual dispatch of Manipulation::executePostStep (the others are empty).
ExecutePostStep(c, i) ==
  CASE Manipulations[i].kind = "RsaesPkcs1V15EncryptPadding" -> RsaesPkcs1V15EncryptPaddingPostStep(c, i)
    [] Manipulations[i].kind = "SkipRsaesPkcs1V15PaddingCheck" -> SkipRsaesPkcs1V15PaddingCheckPostStep(c, i)
    [] OTHER -> c

\* The callbacks registered by configureCallbacks: every manipulation, in
\* configuration order, on the same session.
OnPreStep(c) == FoldLeftDomain(ExecutePreStep, c, Manipulations)
OnPostStep(c) == FoldLeftDomain(ExecutePostStep, c, Manipulations)

-----------------------------------------------------------------------------
(***************************************************************************)
(* A handshake step.                                                       *)
(***************************************************************************)

\* The part of the state the manipulation pipeline reads and writes.
Ctx == [state |-> state, expectAlert |-> expectAlert, inProgress |-> inProgress,
        padding |-> padding, checks |-> checks, pms |-> pms, pmsIndex |-> pmsIndex]

\* Mutant: the roles swapped.
ExpectingPeerFinishedMessageSwapped(s) ==
  \/ IsClient /\ s = CLIENT_FINISHED
  \/ ~IsClient /\ s = SERVER_FINISHED

\* Mutant: the role test dropped.
ExpectingPeerFinishedMessageAnyRole(s) == s \in {CLIENT_FINISHED, SERVER_FINISHED}

\* performHandshakeStep: is the step the one that receives the peer's Finished?
ExpectingPeerFinishedMessage(s) ==
  \/ IsClient /\ s = SERVER_FINISHED
  \/ ~IsClient /\ s = CLIENT_FINISHED

\* TlsSession::isSecrectInformationCollected: a secret output was set.
IsSecrectInformationCollected == SecretFile

\* TlsSession::provideSecrectInformation: one CLIENT_RANDOM line, written to
\* the secret output if there is one (the master secret is abstracted).
ProvideSecrectInformation(log, random) ==
  IF SecretFile THEN Append(log, <<sessions, random>>) ELSE log

\* The snapshot of handshake->randbytes taken at ClientKeyExchange (0 = empty).
SnapshotClientRandom(s) ==
  IF IsSecrectInformationCollected /\ s = CLIENT_KEY_EXCHANGE THEN sessions ELSE clientRandom

\* Can mbedtls_ssl_handshake_step at s return a fatal error?  A receiving
\* step fails on a buffered Alert, a closed connection, a malformed message
\* or the receive timeout of tcpReceive; a sending step only when the
\* connection is gone; the internal states do no I/O.
MayFail(s) == (Receives(s) \/ (IsSent(IsClient, s) /\ peerClosed))
\* Must it?  A receive with an Alert or nothing but EOF in the buffer.
MustFail(s) == Receives(s) /\ (alertPending \/ peerClosed)

\* TcpClient::isClosed(isClient()) after a step.  Either answer is possible
\* whether or not the peer has closed: a probe misses a close once an
\* earlier probe has stopped the io_context, and reports one that did not
\* happen when a descriptor_state left by an earlier poll_one() completes
\* its read (TcpClient.tla, runs tcp_blind and tcp_client_eof).
AbortCheckOutcomes == BOOLEAN

\* tryToReadAlertMessage(false) before a sending step: a buffered Alert
\* record is read (and the session goes on).
TryToReadAlertMessage(sent) == IF sent THEN FALSE ELSE alertPending

\* waitForExpectedAlertMessage(isSent): after a manipulated state was sent,
\* wait for an Alert and stop expecting one.
WaitForExpectedAlertMessage(expect, sent) == IF expect /\ sent THEN FALSE ELSE expect

\* performHandshakeStep returns normally, and performHandshake's loop
\* checks the connection and the state.
PerformHandshakeStepOk ==
  /\ phase = "handshake"
  /\ LET pre == OnPreStep(Ctx)
         cur == pre.state
         sent == IsSent(IsClient, cur)
         random == SnapshotClientRandom(cur)
         post == OnPostStep([pre EXCEPT !.state = cur + 1,
                                        !.expectAlert = WaitForExpectedAlertMessage(@, sent)])
     IN /\ ~MustFail(cur)
        /\ state' = post.state
        /\ expectAlert' = post.expectAlert
        /\ inProgress' = post.inProgress
        /\ padding' = post.padding
        /\ checks' = post.checks
        /\ pms' = post.pms
        /\ pmsIndex' = post.pmsIndex
        /\ clientRandom' = random
        /\ keyLog' = IF IsSecrectInformationCollected /\ random # 0 /\ ExpectingPeerFinishedMessage(cur)
                     THEN ProvideSecrectInformation(keyLog, random) ELSE keyLog
        /\ sentAt' = IF sent THEN sentAt \cup {cur} ELSE sentAt
        /\ lastStep' = [at |-> cur, padding |-> pre.padding, checks |-> pre.checks,
                        pms |-> pre.pms]
        /\ alertPending' = TryToReadAlertMessage(sent)
        /\ \E detect \in AbortCheckOutcomes :
             IF detect
             THEN phase' = "post" /\ result' = "aborted"
             ELSE IF post.state = HANDSHAKE_DONE
                  THEN phase' = "post" /\ result' = "successful"
                  ELSE UNCHANGED <<phase, result>>
  /\ UNCHANGED <<rsaKey, byteIndex, peerClosed, sessions>>

\* mbedtls_ssl_handshake_step fails: tryToReadAlertMessage(true), throw;
\* performHandshake's catch waits for an Alert and rethrows, and
\* executeTlsSession's catch waits for the close and returns.  onPostStep
\* is not reached.
PerformHandshakeStepThrows ==
  /\ phase = "handshake"
  /\ LET pre == OnPreStep(Ctx)
         cur == pre.state
     IN /\ MayFail(cur)
        /\ state' = cur
        /\ expectAlert' = FALSE
        /\ inProgress' = pre.inProgress
        /\ padding' = pre.padding
        /\ checks' = pre.checks
        /\ pms' = pre.pms
        /\ pmsIndex' = pre.pmsIndex
        /\ clientRandom' = SnapshotClientRandom(cur)
        /\ lastStep' = [at |-> cur, padding |-> pre.padding, checks |-> pre.checks,
                        pms |-> pre.pms]
  /\ alertPending' = FALSE
  /\ phase' = "ended"
  /\ result' = "failed"
  /\ UNCHANGED <<rsaKey, byteIndex, keyLog, sentAt, peerClosed, sessions>>

\* executeTlsSession after performHandshake returned: checkTcpConnection,
\* receiveApplicationData, close and socket.close.  Every path reads what
\* is buffered (an Alert included) or finds the connection closed.
FinishSession ==
  /\ phase = "post"
  /\ phase' = "ended"
  /\ alertPending' = FALSE
  /\ UNCHANGED <<result, state, expectAlert, inProgress, padding, checks, pms,
                 pmsIndex, rsaKey, byteIndex, clientRandom, keyLog, sentAt,
                 lastStep, peerClosed, sessions>>

\* The peer sends a fatal Alert, or closes the connection.
PeerSendsAlert ==
  /\ phase \in {"handshake", "post"}
  /\ ~alertPending /\ ~peerClosed
  /\ alertPending' = TRUE
  /\ UNCHANGED <<phase, result, state, expectAlert, inProgress, padding, checks,
                 pms, pmsIndex, rsaKey, byteIndex, clientRandom, keyLog, sentAt,
                 lastStep, peerClosed, sessions>>

PeerCloses ==
  /\ phase \in {"handshake", "post"}
  /\ ~peerClosed
  /\ peerClosed' = TRUE
  /\ UNCHANGED <<phase, result, state, expectAlert, inProgress, padding, checks,
                 pms, pmsIndex, rsaKey, byteIndex, clientRandom, keyLog, sentAt,
                 lastStep, alertPending, sessions>>

-----------------------------------------------------------------------------
(***************************************************************************)
(* Sessions.                                                               *)
(***************************************************************************)

\* setCertificate: parseCertificate, parsePrivateKey and
\* mbedtls_ssl_conf_own_cert, each checked by assertSuccess, which throws
\* on an mbedtls error.  Whether the files parse is up to their contents,
\* read again for every session.
SetCertificate == BOOLEAN

\* configureCertificates: with both files configured, setCertificate is
\* called and an exception from it is logged and reported as FALSE.
ConfigureCertificates == IF CertificateFiles THEN SetCertificate ELSE {TRUE}

\* prepareTlsSession: setLogger, configureTlsSession, configureCallbacks
\* and configureCertificates.  Only the last can report a failure:
\* configureTlsSession's catch is never reached, since an std::ofstream
\* that cannot open the secret file does not throw.
PrepareTlsSession == ConfigureCertificates

\* Whether a client connects: the client is connected before its session
\* exists; the server's wait ends with a connection, or, with a listen
\* timeout, without one.
Connections == IF IsClient \/ ListenTimeoutSeconds = 0 THEN {TRUE} ELSE BOOLEAN

\* A failed preparation makes main return EXIT_FAILURE; the server
\* prepares before it waits for a client.
SessionPhase(prepared, connected) ==
  CASE ~prepared -> "exited"
    [] connected -> "handshake"
    [] OTHER     -> "ended"

\* TlsSession::Data::Data: a fresh mbedtls context in HELLO_REQUEST, with
\* no override, no expected Alert and nothing sent yet.
FreshSessionData ==
  /\ result' = "none"
  /\ state' = HELLO_REQUEST
  /\ expectAlert' = FALSE
  /\ padding' = FALSE
  /\ checks' = {}
  /\ pms' = {}
  /\ pmsIndex' = 0
  /\ clientRandom' = 0
  /\ sentAt' = {}
  /\ lastStep' = NoStep

\* main creates a new TlsSession (a new Data), prepares it and runs it on
\* a new connection.  The manipulation objects, and so their inProgress
\* flags, belong to the Configuration and outlive it.
StartSession(n) ==
  /\ sessions' = n
  /\ \E prepared \in PrepareTlsSession, connected \in Connections :
       phase' = SessionPhase(prepared, connected)
  /\ FreshSessionData
  /\ alertPending' = FALSE
  /\ peerClosed' = FALSE

\* main: parse the configuration (which rejects a bad random byte index),
\* connect (client) or listen (server), and start the first session.  A
\* client prepares its session after connecting.
Init ==
  /\ \E v \in {x \in RandomByteIndexInputs : ParsedRandomByteIndex(x)} : byteIndex = v
  /\ rsaKey \in BOOLEAN
  /\ inProgress = [i \in DOMAIN Manipulations |-> FALSE]
  /\ keyLog = << >>
  /\ sessions = 1
  /\ \E prepared \in PrepareTlsSession, connected \in Connections :
       phase = SessionPhase(prepared, connected)
  /\ result = "none"
  /\ state = HELLO_REQUEST
  /\ expectAlert = FALSE
  /\ padding = FALSE
  /\ checks = {}
  /\ pms = {}
  /\ pmsIndex = 0
  /\ clientRandom = 0
  /\ sentAt = {}
  /\ lastStep = NoStep
  /\ alertPending = FALSE
  /\ peerClosed = FALSE

\* The next iteration of main's server loop: a new TcpServer and TlsSession.
NewSession ==
  /\ ~IsClient
  /\ phase = "ended"
  /\ sessions < MaxSessions
  /\ StartSession(sessions + 1)
  /\ UNCHANGED <<inProgress, rsaKey, byteIndex, keyLog>>

\* main has returned: after the client's session, on a failed preparation,
\* or the server loop reached the bound of the model.
Terminated ==
  /\ \/ phase = "exited"
     \/ phase = "ended" /\ (IsClient \/ sessions = MaxSessions)
  /\ UNCHANGED vars

Next ==
  \/ PerformHandshakeStepOk
  \/ PerformHandshakeStepThrows
  \/ FinishSession
  \/ NewSession
  \/ PeerSendsAlert
  \/ PeerCloses
  \/ Terminated

\* The tool is one thread that always takes its next step: every wait in it
\* is bounded by a timeout.  The peer is under no obligation.
Fairness ==
  /\ WF_vars(PerformHandshakeStepOk \/ PerformHandshakeStepThrows)
  /\ WF_vars(FinishSession)
  /\ WF_vars(NewSession)

Spec == Init /\ [][Next]_vars /\ Fairness

-----------------------------------------------------------------------------
(***************************************************************************)
(* Properties.                                                             *)
(***************************************************************************)

TypeOK ==
  /\ phase \in Phases
  /\ result \in Results
  /\ state \in States
  /\ expectAlert \in BOOLEAN
  /\ inProgress \in [DOMAIN Manipulations -> BOOLEAN]
  /\ padding \in BOOLEAN
  /\ checks \subseteq Checks
  /\ pms \subseteq PmsFields
  /\ pmsIndex \in RandomFieldIndices
  /\ rsaKey \in BOOLEAN
  /\ byteIndex \in RandomFieldIndices
  /\ clientRandom \in 0 .. MaxSessions
  /\ keyLog \in Seq((1 .. MaxSessions) \X (1 .. MaxSessions))
  /\ sentAt \subseteq States
  /\ lastStep \in [at : States, padding : BOOLEAN, checks : SUBSET Checks,
                   pms : SUBSET PmsFields]
  /\ alertPending \in BOOLEAN
  /\ peerClosed \in BOOLEAN
  /\ sessions \in 1 .. MaxSessions

ConfiguredSkips ==
  UNION {Manipulations[i].skip :
           i \in {j \in DOMAIN Manipulations :
                    Manipulations[j].kind = "SkipRsaesPkcs1V15PaddingCheck"}}
ConfiguredPmsFields ==
  {f \in PmsFields :
     \/ f = "version" /\ Configured("PreMasterSecretVersion")
     \/ f = "random" /\ Configured("PreMasterSecretRandom")
     \/ f = "randomByte" /\ Configured("PreMasterSecretRandomByte")}

\* The backend overrides installed by the manipulations' preStep are in
\* force during exactly the ClientKeyExchange step: the wrong encryption
\* padding of RsaesPkcs1V15EncryptPadding and the relaxed decryption checks
\* of SkipRsaesPkcs1V15PaddingCheck during that step and no other (their
\* postStep restores them), and every configured PreMasterSecret override
\* during the client's ClientKeyExchange.
OverridesInForceExactlyAtKeyExchange ==
  lastStep # NoStep =>
    /\ lastStep.padding =
         (lastStep.at = CLIENT_KEY_EXCHANGE /\ IsClient /\ rsaKey
          /\ Configured("RsaesPkcs1V15EncryptPadding"))
    /\ lastStep.checks =
         IF lastStep.at = CLIENT_KEY_EXCHANGE /\ ~IsClient /\ rsaKey
         THEN ConfiguredSkips ELSE {}
    /\ lastStep.at = CLIENT_KEY_EXCHANGE /\ IsClient =>
         ConfiguredPmsFields \subseteq lastStep.pms

\* SkipChangeCipherSpec jumps over the own ChangeCipherSpec.
SkipChangeCipherSpecSkips ==
  {s \in {OwnChangeCipherSpec} : Configured("SkipChangeCipherSpec")}

\* SkipFinished, on a client only, jumps over CLIENT_FINISHED.
SkipFinishedSkips == {s \in {CLIENT_FINISHED} : IsClient /\ Configured("SkipFinished")}

\* The messages the configured skip manipulations are meant to remove.
SkippedStates == SkipChangeCipherSpecSkips \cup SkipFinishedSkips

\* The abstract view of the session loop: the messages this session has
\* transmitted, and how the session stands.
Order == INSTANCE HandshakeOrder
           WITH Own <- {s \in States : IsSent(IsClient, s)},
                Skipped <- SkippedStates,
                sent <- sentAt,
                outcome <- IF phase = "handshake" THEN "running" ELSE result

\* The session loop implements HandshakeOrder: in every session the own
\* messages go out in protocol order, none twice, none a configured
\* SkipChangeCipherSpec or SkipFinished removes (whatever the order of the
\* manipulations' forced state jumps), and a handshake is reported
\* successful only when every other own message was transmitted; and every
\* handshake ends, whatever state jumps the manipulations force on the
\* driver's loop.
HandshakeInOrder == Order!Spec

LinesOf(n) == {k \in 1 .. Len(keyLog) : keyLog[k][1] = n}

\* The secret file gets one CLIENT_RANDOM line per session at most, carrying
\* the client random of that session, and exactly one once a handshake with
\* a secret file configured has succeeded.
KeyLogOncePerHandshake ==
  /\ \A k \in 1 .. Len(keyLog) : keyLog[k][2] = keyLog[k][1]
  /\ \A n \in 1 .. sessions : Cardinality(LinesOf(n)) <= 1
  /\ SecretFile /\ result = "successful" => Cardinality(LinesOf(sessions)) = 1

====
