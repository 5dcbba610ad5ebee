# TLA+ models of the TLS Test Tool

These modules model the scripted TLS engine of the TLS Test Tool in `src/`.
The tool runs one TLS handshake at a time, against a peer under test, as a
client or as a server. It can deliberately misbehave: it skips messages,
corrupts the PreMasterSecret, corrupts the PKCS#1 padding, or relaxes the
server's padding checks. It then records what the peer answers. The modules
are checked with TLC. Each run is listed below with what it shows.
`PROJECT.json` maps every definition to the source lines it translates.

## 1. The system

### Parts and how they interact

| Part | Source | Role |
|---|---|---|
| Session loop | `scriptable_client/src/TlsTestTool.cpp` (`main`, `executeTlsSession`, `prepareTlsSession`, `configureCallbacks`, `checkTcpConnection*`, `waitForClosedTcpConnection`) | Connects as a client, or loops forever as a server (`while (true)`: new `TcpServer`, new `TlsSession`, wait for a client or the listen timeout). Runs preHandshake, handshake, postHandshake, application data, close. |
| Handshake driver | `tls_test_tool_client/src/tls/mbedtls/TlsSession.cpp` (`performHandshake`, `performHandshakeStep`, `tryToReadAlertMessage`, `waitForExpectedAlertMessage`, `tcpSend`/`tcpReceive`, `close`) | Calls `mbedtls_ssl_handshake_step` once per state. Before a step it runs the pre-step callback. Before a sending step it reads any buffered Alert. After a manipulated send it waits for an Alert, then runs the post-step callback. After every step it checks `isClosed`. |
| Session hooks | `scriptable_client/src/tls/TlsSession.cpp` (`onPreStep`, `onPostStep`, `provideSecrectInformation`) | The two callback slots, and the NSS key log (appended to the secret file). |
| Backend overrides | `TlsSession.cpp` (mbedtls): `setState`, `overwritePreMasterSecret*`, `overwrite/restoreRsaesPkcs1V15EncryptPadding`, `skip/restoreRsaesPkcs1V15EncryptPaddingCheck` | Flags in the patched mbedtls context. The manipulations set them, and the library reads them at ClientKeyExchange. |
| Manipulations | `*/src/manipulation/*.cpp` | Seven variants. Each one has preHandshake, preStep, postStep and postHandshake operations, and each reads the state and the role. Two of them pair a preStep override with a postStep restore through their `manipulationInProgress` flag. |
| Manipulations parser | `tls_test_tool_client/src/manipulation/ManipulationsParser.cpp` | Turns `manipulate*` keys into manipulation objects. The objects are owned by the `Configuration` and shared by every session. |
| Configuration parser | `scriptable_client/src/configuration/ConfigurationParser.cpp`, `Configuration.h` | Handles the other keys: version, cipher suites, secret file, timeouts, server simulation and its delay. |
| TcpClient | `scriptable_client/src/network/TcpClient.cpp`, `private/TcpClientData.h` | Blocking read and write, with observer notification. Marks the connection closed on a reset. `isClosed(pollOnce)` probes readiness through an asio `io_context`. |
| TcpServer | `TcpServer.h` only (its `.cpp` is not in `src/`) | Listens, accepts one client, and provides `work()`. |
| TimestampObserver | `scriptable_client/src/network/TimestampObserver.cpp` | Logs a timestamp for every block written (SO_TIMESTAMPING, with a fallback to the clock after 3 s) and for every block read. |
| WaitFor | `tls_test_tool_client/src/network/WaitFor.cpp` | Polls a server until it has a client or enough data. |
| TlsLogFilter | `tls_test_tool_client/src/tls/mbedtls/TlsLogFilter.cpp` | Parses mbedtls debug output and logs handshake, alert and heartbeat fields. |
| Tooling | `*/tooling/src/*` | Logger, hex and string helpers. |

Control is single-threaded. The only concurrency comes from outside: the
peer's messages and TCP events, which the code sees through `available()`,
`isClosed()` and the mbedtls reads. Inside the process, asio completion
handlers run only when `poll()` or `poll_one()` runs them. They run later
than they were queued, and that matters.

### State, operations and hard behaviour

* **Handshake state** is `ssl.state`, one of 17 states in wire order. The
  driver loops until `HANDSHAKE_DONE`. A manipulation may assign any state
  through `setState`, which also sets `expectAlertMessage`.
* **Manipulation flags.** `manipulationInProgress` lives in the
  manipulation object, and that object outlives the session. Two flags are
  overrides that a postStep must restore: `use_wrong_padding` on the peer's
  RSA key, and the `skip_*_check` flags on the own RSA key. The
  `overwrite_pms_*` flags are never restored, because they belong to the
  per-session `conf`.
* **Ordering inside a step.** The order is: preStep callbacks (with an
  `isClosed(true)` probe), the state read, the client-random snapshot at
  ClientKeyExchange, the Alert read before a send, the mbedtls step, the key
  log at the peer's Finished, the Alert wait after a manipulated send, and
  the postStep callbacks (with another probe). An exception thrown by the
  step skips everything after it, the postStep restores included.
* **The closed probe.** `isClosed` registers an asio null_buffers read.
  It then runs `poll_one()` once, or `poll()` twice. It cancels what is
  still pending and checks `available() == 0`. The reactor's readiness
  event for the socket (a descriptor_state) can stay queued after
  `poll_one()` returns. When a later probe runs it, it completes that
  probe's read with readiness that may no longer hold. The first probe
  whose read's handler runs with nothing else queued stops the
  io_context for good, because nothing calls `restart()`.
* **The peer** may send a fatal Alert, close the connection, reset it,
  answer with a malformed message, or not answer before the receive
  timeout.

## 2. Modules

### `TlsHandshake.tla`: driver, pipeline, overrides, key log, session loop

| Variable | Code |
|---|---|
| `state` | `impl->ssl.state` (0..16, in the order of `convertState`) |
| `expectAlert` | `impl->expectAlertMessage` |
| `inProgress[i]` | `manipulationInProgress` of manipulation *i* of the configuration |
| `padding` | `use_wrong_padding` of the peer certificate's RSA context |
| `checks` | the `skip_*_check` flags set on the own RSA key, and `conf.skip_pms_version_check` |
| `pms`, `pmsIndex` | `conf.overwrite_pms_*`, `conf.pms_random_byte_index` |
| `rsaKey` | whether the key the overrides act on is an RSA key (if not, the overrides return early) |
| `byteIndex` | the index member of the configured `ManipulatePreMasterSecretRandomByte` |
| `clientRandom` | `impl->clientRandom`: 0 when empty, otherwise the number of the session it was copied in |
| `keyLog` | the lines appended to the secret file |
| `phase`, `result`, `sessions` | where `executeTlsSession` is (`"exited"`: `main` returned `EXIT_FAILURE` because `prepareTlsSession` failed), how `performHandshake` ended, and how many sessions `main` has created |
| `alertPending`, `peerClosed` | the peer's Alert that sits unread in the receive buffer, and the peer's FIN |
| `sentAt`, `lastStep` | history: the states at which a message was sent, and the overrides in force during the last step |

The manipulation list is the constant `Manipulations`, a sequence of
records in configuration order. The pre-step and post-step callbacks are
`FoldLeftDomain` (from SequencesExt) over that sequence, with one operator
per variant. Each operator is translated from that variant's
`executePreStep` or `executePostStep`.

Actions:

* `PerformHandshakeStepOk` is one whole iteration of `performHandshake`
  that does not throw, from the preStep to the `isClosed` check.
* `PerformHandshakeStepThrows` is a failing step. It does
  `tryToReadAlertMessage(true)`, the catch in `performHandshake`, and the
  catch in `executeTlsSession`. The postStep is not run.
* `FinishSession` is the rest of `executeTlsSession`.
* `NewSession` is the next iteration of the server loop. Like `Init`, it
  goes through `StartSession`, which first prepares the session
  (`PrepareTlsSession`) and then waits. The wait ends either with a client
  connecting or with the listen timeout (`Connections`). Preparation
  fails only in `configureCertificates`, when the constant
  `CertificateFiles` says both files are configured and `setCertificate`
  throws; `main` then returns `EXIT_FAILURE` (`phase = "exited"`). The
  files are read again for every server session, so a later session can
  fail where the first did not. `configureTlsSession`'s catch around the
  secret file is never reached, see section 4.
* `PeerSendsAlert` and `PeerCloses` are the environment.
* `Terminated` is `main` having returned: the client after its session,
  either role after a failed preparation, or the server at the model's
  session bound.

The outcome of the mbedtls step is chosen nondeterministically, as follows:

| Step | Possible outcomes |
|---|---|
| Receiving step | Must fail if an Alert or EOF is buffered. Otherwise it may succeed, or fail on a malformed message or the receive timeout. |
| Sending step | May fail only when the peer has closed. |
| Internal step | Always succeeds. |

After each step, `performHandshake` asks `isClosed(isClient())`
(`AbortCheckOutcomes`). Either answer is possible whether or not the peer
has closed. A stopped io_context misses a FIN, and a stale descriptor_state
reports a close that did not happen (`TcpClient.tla`).

`TlsMessage::isSent` is not in `src/`. The role/sender table used in its
place is taken from the spec.

### `HandshakeOrder.tla`: what the session loop promises

This is the abstract specification of one endpoint's handshake, session
after session. It has two variables:

* `sent`: the messages the session has transmitted. A message is named
  by the state that sends it.
* `outcome`: whether the session is running or how it ended.

Its `Step` sends at most one message and may end the session. The message
must be a required one (an own message that no configured skip removes)
and must come later than everything already sent. `successful` is allowed
only once every required message has gone out. `Restart` begins the next
session. Its fairness, `WF_avars(Step)`, says that a running session does
not run forever: it transmits a message or ends. A new session is not
promised, since a client, or a server at its last connection, stops.

`TlsHandshake` instantiates it as `Order`. The refinement mapping is:

* `Own` is the role's row of the `isSent` table.
* `Skipped` is `SkippedStates`: the own ChangeCipherSpec when
  SkipChangeCipherSpec is configured, and the client's Finished when
  SkipFinished is configured.
* `sent` is `sentAt`.
* `outcome` is `"running"` while in the handshake, and `result` after it.

`HandshakeInOrder == Order!Spec` is checked as a `PROPERTY` in both
handshake runs. It replaces the earlier invariant that skipped messages
are never sent. It adds three things that invariant did not check:

* the order of the messages;
* that no message is sent twice, which a backward state jump would do;
* that a session reported successful really sent all the others;
* through the fairness, that every handshake ends. This replaces the
  earlier `HandshakeTerminates`. The liveness part is not vacuous: a
  version of `PerformHandshakeStepOk` that returns from the client
  Certificate to ServerHelloDone, so that the driver cycles without
  sending anything new, violates it.

`MCTlsHandshake.tla` instantiates the module. It supplies three
manipulation lists: every client variant in the order
SkipChangeCipherSpec, SkipFinished; the two skips in the reverse order; and
a server list with two padding-check relaxations and a skipped
ChangeCipherSpec. It also supplies the raw random-byte indices the
configuration might contain: 0, 45 and 46.

### `TcpClient.tla`: the connection and its closed probe

Variables:

* `rx`: `available()`, counted in segments.
* `fin` and `rst`: the peer's FIN and reset.
* `open`.
* `closedByError`.
* `queue`: the io_context's operation queue. It holds the reactor task,
  the socket's descriptor_state (`Ready`) and aborted read handlers.
* `stopped`: the io_context's `stopped_` flag.
* `lastCall` and `lastEof`: what the last probe and the last EOF check saw
  and returned. These are history variables for the properties.

The actions are:

* `IsClosedEarlyReturn` and `IsClosedProbe`, the two halves of
  `isClosed(pollOnce)`.
* `TcpReceiveEofCheck`, the EOF test inside `tcpReceive`. The client does
  one `isClosed(true)`. The server does `isClosed() && isClosed()`.
* `Read`, `Write` and `Close`.
* The peer's `PeerSends`, `PeerCloses` and `PeerResets`.

The probe is assembled from operators that follow asio's scheduler:

| Operator | What it models |
|---|---|
| `RunReactor` | the reactor task doing a non-blocking `epoll_wait`. It queues the descriptor_state when the socket is readable and a read is registered. |
| `RunHandler` | running one entry. A descriptor_state performs whichever read is registered, and that read's lambda sets `isReadable`. An aborted handler sets nothing. |
| `Work`, `Finished` | asio's outstanding work: the registered read and the queued aborted handlers. When a read's handler has run and no work is left, the context stops. |
| `DoPollOne` | `scheduler::do_poll_one`: nothing once stopped; otherwise run the task if it is at the front, then the front entry |
| `Poll` | `poll`, which repeats `DoPollOne` until it runs nothing |
| `Cancel` | cancelling the read that is still pending |

The asio source is not in the repository. The model relies on these asio
behaviours:

* Handlers run only inside `poll` and `poll_one`, in FIFO order.
* Registering a read re-arms the descriptor with `EPOLL_CTL_MOD`, so the
  next reactor run reports a readable socket. The descriptor_state is
  queued once, and the read is performed when the descriptor_state runs.
* A pending read that is cancelled is queued with `operation_aborted`.
  That error is neither `connection_aborted` nor `connection_reset`, so
  the lambda sets nothing.
* Descriptor_states are not counted as work. A read counts from
  registration until its handler has run. When the count falls to zero,
  the scheduler stops. `poll` and `poll_one` on a stopped context return
  at once.

Once the context has stopped, the model no longer follows the queue:
nothing in it runs again. asio still appends one aborted handler per probe,
so the real queue grows without bound (a hazard in `PROJECT.json`). The
TLS server's socket comes from `TcpServer`, whose source is not in the
repository. The model assumes that nothing restarts the context during a
session. `server.work()` is not called once the session has started.

### `ConfigurationParser.tla`: the key=value loop

`input` is the `keyValuePairs` vector, and `i` is the loop index. `conf`
holds the `Configuration` fields the parser sets, starting from the
constructor's defaults. `delaySet` and `delayEnabled` are the two local
flags. `UpdateOne` is one loop iteration: `ApplyPair` is its `if` chain,
with one operator per branch that does more than store text. `Finish` is
the mode-6 check after the loop. `MCConfigurationParser` defines the
inputs: every sequence of up to three pairs from a set of edge values.

`ConfigureTlsSession` is `configureTlsSession` in `TlsTestTool.cpp`. It
runs on an accepted configuration and fills `session`, which holds what
the mbedtls config is given:

* the version range, set only when `hasTlsVersion`;
* the cipher-suite array, built by `setCipherSuites` as
  `(first << 8) | second` with a 0 terminator (`CipherSuiteIds`);
* the simulation id;
* the delay, passed only for simulation 6.

The value text of a key is abstract:

* `HexPairs(s)` is text in which the regex finds the byte pairs `s`;
* `Bools(bs)` is a `true`/`false` list;
* `HexBytes(bs)` is a comma-separated list of `0xNN` bytes.

Every `manipulate...` key goes to `ManipulationsParser::parse`
(`ParseManipulation`). It checks the value where the key has one and
appends the manipulation through `Configuration::addManipulation`
(`AddManipulation`). The list's order is the order in which the session's
pipeline runs the manipulations, and finding 5 shows that order matters.

The regex allows two hex digits per byte, so `matchByte`'s check above 255
can never fire.

The conversions keep their semantics. `std::stoul` throws on text that is
not a number and wraps a negative number modulo the `unsigned long`
range. `strtoul` gives 0 for non-numeric text. The setters narrow the
result to `uint16_t` or `uint32_t`. TLC integers have 32 bits, so
`unsigned long` and `uint32_t` are scaled down to 2^30 and 2^24. Every
bound the code compares with lies below both. The input "one past
`uint32_t`" is written as `UInt32`. Each comparison and each wrap
therefore gives the same result as at the real widths.

### `TimestampObserver.tla`: TX timestamps of written blocks

The observer is created per session in `executeTlsSession` and registered
on the socket. `TcpClient::write` runs `asio::write` and then
`notifyWrite`, which calls `onBlockWritten`.

| Variable | Code |
|---|---|
| `tsEnabled` | `setsockopt(SO_TIMESTAMPING)` succeeded, so the kernel stamps sends |
| `useSo` | `Data::useSoTimestamping` |
| `inflight`, `errqueue` | Stamps the kernel has yet to queue, and the socket's error queue. Both are tagged with the block number. |
| `written`, `failed`, `notified` | Blocks written; whether a write threw; blocks whose observers ran |
| `pc` | Whether the thread is inside `onBlockWritten`'s recvmsg loop |
| `tsLog` | The `Write.timestamp` lines: block, source, and the block the stamp belongs to |

The constructor's outcome is a choice in `Init`. `Write` chooses how many
send calls `asio::write` needed. Once `isClosed` has started an async wait,
the socket is non-blocking, and a large block takes several calls. Each
send call yields one stamp. `WriteFails` stands for a write that throws
after some of its sends; the exception ends the session's I/O.
`KernelStamps` is the kernel. `RecvmsgReturnsMessage` and `RecvmsgTimeout`
are the two ways the recvmsg loop ends. The timeout is modelled with the
undefined read of the control buffer as a choice: the buffer parses as a
stamp, or the clock is logged.

### `ApplicationData.tla`: reading the peer's application data

`executeTlsSession` calls `receiveApplicationData` when the socket has
data after the handshake (`TlsTestTool.cpp:177-188`). The function reads
1024-byte quanta with `mbedtls_ssl_read`, and keeps reading while a read
returns a full quantum.

| Variable | Code |
|---|---|
| `pending`, `cur` | The peer's records not yet started, and the bytes left of the current one |
| `read`, `bufSize` | The local `read`, and `buffer.size()` |
| `consumed` | Application bytes mbedtls has handed over |
| `outcome` | Still reading, returned, or threw |

`SslRead` abstracts mbedtls: one call returns bytes of one record, at
most the length asked for. A close_notify gives
`MBEDTLS_ERR_SSL_PEER_CLOSE_NOTIFY`. With no record left, `tcpReceive`
returns `MBEDTLS_ERR_SSL_TIMEOUT` or `MBEDTLS_ERR_SSL_CONN_EOF`.
`mbedtls_ssl_read` passes the timeout on and turns EOF into 0
(`TransportEnds`). Either end is possible, whether or not the peer closed:
`isClosed` can miss a FIN, and on the client it can report one that did not
happen. `ReadOnce` is one pass of the
`while (true)` loop, with every branch of its result. `NewSize` is the
`buffer.resize` after the read.

### `SessionTail.tla`: the session after the handshake

`executeTlsSession` (`TlsTestTool.cpp:174-211`) continues a handshake that
returned as follows. It checks the connection. It waits up to
`socketTimeout` seconds for data, then calls `receiveApplicationData` if
data is there. Next it calls `TlsSession::close(closeTimeout)`
(`TlsSession.cpp:469-486`) and closes the socket. Every exception leads to
`waitForClosedTcpConnection`. The module composes `ApplicationData`
(`App == INSTANCE ApplicationData`, the same variables): `Receive` is
`App!ReadOnce` taken in phase `receive`.

| Variable | Code |
|---|---|
| `phase` | Where `executeTlsSession` is: `check`, `wait`, `available`, `receive`, `close`, `notify`, `closeSocket`, `waitClosed` or `end` |
| `inflight`, `fin` | The peer's records not yet in the receive buffer, and its FIN |
| `notifySent` | `mbedtls_ssl_close_notify` has written the close_notify |
| `logged`, `dropped` | Bytes logged as "Application data received", and application bytes consumed by forced reads |
| `alertRead` | A forced read has met a fatal Alert |
| `alertSent` | History only: a fatal Alert arrived before the close_notify was written |
| `timeouts` | The `socketTimeout` and `closeTimeout` of the call |

`ForcedReads` is `tryToReadAlertMessage(true)`. While data is readable, it
reads one record of any type. A fatal Alert ends the loop. Application
data read this way is discarded. `CloseLoop` is one pass of `close`'s
`while (!isClosed())`. After it, the loop may go on or its timeout may
pass. `SendCloseNotify` writes the close_notify and does the final forced
read, both in the same step, as `close` does. `Closed` takes `isClosed()`
as exact (`TcpClient.tla` checks the probe itself). `main` passes
timeouts 1 s and 3 s for the client and 0 and 0 for the server, and
`MCSessionTail` enumerates exactly these two pairs.

### `ToolSession.tla`: the whole session, composed

`ToolSession` composes the two models of `executeTlsSession`. It runs
`TlsHandshake` (`HS`) for `main` (the client's one session or the server's loop) and the handshake, and
`SessionTail` (`ST`, with its `phase` renamed `tailPhase`) for what follows
`performHandshake`. The tail replaces `TlsHandshake`'s one action
`FinishSession`. The two share no variable: each action of one leaves the
other's variables unchanged.

| Action | Code |
|---|---|
| `HandshakeStep`, `PeerDuringHandshake` | `performHandshake` (`TlsTestTool.cpp:160-166`), and the peer meanwhile |
| `StartTail` | `performHandshake` has returned: the tail starts from the socket as the handshake left it. An Alert still buffered (`alertPending`) is the first record in the receive buffer, and after the peer's FIN (`peerClosed`) nothing more arrives. |
| `TailStep` | A step of `SessionTail` (`TlsTestTool.cpp:174-211`) |
| `EndSession` | `executeTlsSession` returns (`TlsTestTool.cpp:287-288`). The tail's variables go back to `TailIdle`, because the next iteration creates a new `TcpServer` and `TlsSession` (`TlsTestTool.cpp:261-272`). |
| `LoopStep` | `main`'s next iteration, or the end of the run |

`HandshakeModel` is `HS!Spec`, checked as a property. It states that the
composition implements `TlsHandshake`: with the detailed tail in place of
`FinishSession`, every session that reaches "post" ends, and nothing of the
handshake changes meanwhile. A tail that can hang breaks it, for example a
`close` loop without its deadline against a peer that never closes. The
run `session_client` checks the client, whose tail has the non-zero
timeouts and so every wait of `SessionTail`.

### `TlsLogFilter.tla`: the mbedtls log filters

The input is a session's mbedtls debug calls (`Traces`). Each call is a
labelled buffer, a labelled big number, a message or an alert. `CallLines`
expands a call into the lines mbedtls prints: a header, then 16 bytes per
line. `FilterLine` is one call of `writeToLogger`. It runs the logger's
filter list on the next line: `Registrations` copies of the five filters
of `registerInstances`, threaded through one set of statics
(`RunFilters`, `FilterSet`). `InterceptHexDump` and `InterceptBits` are
the two functions with their `static` variables. `numLinesToCollect`,
`collectedBytes` and the two `finalOutput` strings are variables.
`Dispatch` holds the branches on a complete dump. The record parsers are
pure operators over the collected bytes: `LogTlsRecord`,
`LogHandshakeMessage` with its `RECURSIVE` certificate loop
`CertificateList`, `CertificateRequest`, `LogHeartbeatRecord` and
`LogEcdhParams`. A read past the bytes has an undefined result: the
parse stops there and logs an `overread` entry. Each logged line carries
the call it came from, so the properties can compare it with a reference
computed from the call directly. The reference for certificates is
`CertificateRecord` in `MCTlsLogFilter`, which builds the record from
its certificate list.

## 3. Runs

| Run | Module / cfg | Expect | What it shows |
|---|---|---|---|
| `session_client` | MCToolSession / `session_client.cfg` | pass | A client's whole session (`ToolSession`). The handshake has every client-side manipulation configured, and the peer may send a fatal Alert or close during it. Then the tail runs with `main`'s client timeouts (1 s and 3 s), and the peer sends up to two records (500, 1024 or 1500 bytes of data, a close_notify or a fatal Alert) and may close. The checks on the handshake are `OverridesInForceExactlyAtKeyExchange`, `KeyLogOncePerHandshake`, and the refinement `HandshakeInOrder` of `HandshakeOrder`, which includes its liveness: every handshake ends, whatever state jumps the client's manipulations force. `AlertDrainedBeforeClose` now also covers an Alert left buffered by the handshake. `HandshakeModel` checks that the composition implements `TlsHandshake`; it fails if `close`'s loop has no deadline. |
| `hs_server` | MCTlsHandshake / `hs_server.cfg` | pass | The safety properties and the refinement of `session_client`, for a server with three sessions, listen timeouts, failing steps, a certificate that may fail to load in any session, and two padding-check relaxations whose flags add up. The liveness part of the refinement holds here by the shape of the model: with no server-side backward jump, every server step advances the state. |
| `tcp_server` | TcpClient / `tcp_server.cfg` | pass | The server mixes `isClosed(true)` (in the step callbacks) and `isClosed()`. Readiness can be left queued by earlier `poll_one` probes, and the io_context can stop. Even so, the double check in `tcpReceive` never reports EOF on a live connection (`TcpReceiveEofSound`). |
| `tcp_client_eof` | TcpClient / `tcp_client_eof.cfg` | violation | The client's single `isClosed(true)` in `tcpReceive` returns EOF on a live connection. This is the timing problem the comment at `TlsSession.cpp:357` describes. The mechanism starts with a probe while data is available. `poll_one` runs an older aborted handler at the front of the queue, and the socket's descriptor_state stays queued behind it. The data is then read. The EOF check's `poll_one` runs that descriptor_state, which completes the new read with the old readiness, and FIONREAD is 0. The workaround is applied only to the server. |
| `tcp_blind` | TcpClient / `tcp_blind.cfg` | violation | `isClosed()` stops seeing a FIN (`IsClosedComplete`, spec 4.1). In the shortest trace, the probe that sees the FIN drains the queue and stops the io_context. The next probe returns FALSE on the same closed connection, which also contradicts the spec's claim that `is_closed` is monotonic. A probe that sees data stops the context in the same way, so a FIN that arrives later is never seen. |
| `cfg_pass` | MCConfigurationParser / `cfg_pass.cfg` | pass | The inputs are all sequences of up to three key/value pairs with edge values. On every accepted one: simulation mode 6 was given a delay, whatever the key order; simulation ids are in 0..6 and random-byte indices in 0..45, including negative text that `std::stoul` wraps. After `configureTlsSession`, the session runs the simulation, the delay and the version that were given last (`SessionAsGiven`), whatever the key order and repetitions. The manipulation list holds one entry per `manipulate...` key, in the order of the keys (`ManipulationsAsGiven`; it fails if a parsed manipulation replaces the list instead of being appended). |
| `ts_pass` | TimestampObserver / `ts_pass.cfg` | pass | Every notified block gets exactly one `Write.timestamp` line, and `onBlockWritten`'s recvmsg loop always returns. This holds with and without kernel timestamping, and with late stamps and blocks sent in two calls. |
| `tail_pass` | MCSessionTail / `tail_pass.cfg` | pass | The peer sends up to four records: 500, 1024 or 1500 bytes of data, a close_notify or a fatal Alert. It may close after them. Both timeout pairs of `main` are checked. `executeTlsSession` always returns (`SessionTailEnds`, which fails if `close`'s loop has no deadline). A fatal Alert that arrives before the close_notify is written has been read by then (`AlertDrainedBeforeClose`, spec section 7; it fails without the forced read after the close_notify). The history variable `alertSent` records such an arrival. Inside it, `receiveApplicationData` returns only whole records (`ReturnsWholeRecords`). |
| `app_loss` | MCApplicationData / `app_loss.cfg` | violation | The peer sends exactly 1024 bytes. The loop asks for more, and the receive timeout that ends that read throws away the 1024 bytes. If `tcpReceive` reports EOF instead, `mbedtls_ssl_read` returns 0 and the data is kept. |
| `tlf_pass` | MCTlsLogFilter / `tlf_pass.cfg` | pass | The filters are registered once (the client, or the server's first connection). Over every sequence of up to three debug calls: each dump is logged whole, as its label's branch renders the whole buffer, and only intercepted ones are logged. Each DHM value is logged once with all its bytes. A well-formed Certificate record is logged certificate by certificate, with the count. |
| `tlf_overread` | MCTlsLogFilter / `tlf_overread.cfg` | violation | A heartbeat record whose `payload_length` (40) exceeds the 4 bytes of the message makes `logHeartbeatMessage` read past the dumped bytes. |
| `tlf_sessions` | MCTlsLogFilter / `tlf_sessions.cfg` | violation | With the filters registered twice (the server's second connection), an empty `client hello, session id` dump is logged twice. |

Every property of a passing run has a mutant in `PROJECT.json`. A mutant is
a plausible bug in the mapped code, and TLC finds the property violated
under it. Some examples: the random-byte bound off by one; a postStep that
clears its flag but does not restore the override; SkipFinished triggered
at the wrong state, or jumping back to CLIENT_CHANGE_CIPHER_SPEC (the
handshake then never ends); the roles swapped in
`expectingPeerFinishedMessage`; the server's double check reduced to one;
the 3 s fallback leaving `useSoTimestamping` set; the deadline tested only
while SO_TIMESTAMPING is in use.

### Bounds and why they are enough

| Model | Bound | Why it is enough |
|---|---|---|
| `TlsHandshake` | The 17 states | These are all of them. |
| `TlsHandshake` | `MaxSessions = 3` (server) | Two sessions are what it takes for state to leak from one session into the next: the shared manipulation objects, and the appended key log. A third shows that what leaks does not build up over sessions. |
| `ToolSession` | One client session; the tail's peer sends up to two records of 500, 1024 or 1500 bytes, a close_notify or a fatal Alert; the client's timeouts 1 s and 3 s | The client runs one session. Two records let data precede a close_notify or an Alert. They also combine with an Alert buffered during the handshake. Up to four records are checked in `tail_pass`, without the handshake. |
| `TlsHandshake` | `CertificateFiles = TRUE` in both runs | With the files configured, loading may succeed or fail in every session, so both outcomes of `prepareTlsSession` are reached, for the first session and for a later server session. Without them, preparation cannot fail. |
| `TlsHandshake` | `RandomByteIndexInputs = {0, 45, 46}` | Both ends of the accepted range, and the first rejected value. |
| `TcpClient` | `MaxRx = 2` | One segment is enough for every trace. Two allow a read between probes while data remains. |
| `TimestampObserver` | `MaxWrites = 3`, `MaxSendCalls = 2` | It takes two blocks for a stamp to be read for the wrong one, and a third for the fallback and a late stamp to meet. Two send calls per block is the smallest split. |
| `TlsLogFilter` | Up to three calls from 14 | Dumps of 0, 7 and 17 bytes (one line, and two lines with a remainder), one not intercepted; each record parser with a well-formed input and, for the heartbeat and the certificate list, a length one past what is there; a 17-byte DHM value followed by each kind of line, and one as the last line. |
| `TlsLogFilter` | `Registrations` 1 or 2 | The second registration is where the copies of the filters start to share statics. |
| `SessionTail` (`ApplicationData` inside it) | Up to four records, each of 500, 1024 or 1500 bytes, a close_notify or a fatal Alert; the peer may close after them | The lengths are one below the quantum, one equal to it, and one between it and twice it. Four records let two full quanta be followed by data, by a close_notify, by an Alert or by nothing. They also let a record arrive before, during or after each wait. The two timeout pairs are the only ones `main` passes. `app_loss` uses 1024-byte records alone. |
| `TcpClient` | The queue | Not bounded by a constant. Before the context stops it holds the task, at most one descriptor_state and a few aborted handlers. After the stop the model no longer follows it. |

### Fairness

`TlsHandshake` assumes weak fairness of the tool's own steps: the handshake
step (success or failure), `FinishSession`, and `NewSession`. The tool is
a single thread, and every wait in it ends at a timeout:

* the Alert wait;
* the receive timeout;
* the close wait;
* the listen timeout.

So the tool always takes its next step. The peer's actions have no
fairness, because the peer under test owes nothing. `HandshakeOrder`'s
fairness on `Step` is not assumed but checked: it is part of
`HandshakeInOrder`, which the handshake's own fairness must imply. `TcpClient` checks
safety only. `TimestampObserver` assumes weak fairness of two things. The
first is the kernel's delivery of a stamp it has taken. The second is the
observer's recvmsg loop: it busy-waits, and ends at the 3 s deadline at
the latest. `ApplicationData` assumes weak fairness of `ReadOnce`: the
function runs on the tool's only thread, and every read it makes ends by
the receive timeout at the latest. Writes have no fairness, because a session may stop writing. `SessionTail` assumes weak fairness of the tool's steps (`Tool`), for the same reason: each of its loops (the data wait, the read loop, the close loop and the close wait) ends at its timeout at the latest. The peer's delivery and FIN have no fairness. `ToolSession` keeps the fairness of both components: the handshake step, `NewSession`, the start and the tool's steps of the tail, and `EndSession`. They are all steps of the tool's single thread.
`TlsLogFilter` assumes weak fairness of `FilterLine`: the logger runs
its filters on every line mbedtls emits, on the tool's thread.

## 4. Findings

See `findings` in `PROJECT.json`. In short:

1. **Stale readiness in `TcpClient::isClosed` (code bug, `tcp_client_eof`).**
   `poll_one()` runs only the front entry of the queue. The socket's
   descriptor_state can stay queued behind an older aborted handler. A
   later probe runs it, and it completes that probe's read with readiness
   that no longer holds. This produces spurious "closed" results, and a
   spurious `MBEDTLS_ERR_SSL_CONN_EOF` on the client. The server works
   around it with a double `poll` probe; the client does not.
2. **`isClosed` goes blind once the io_context stops (code bug,
   `tcp_blind`).** asio stops an io_context whose outstanding work falls
   to zero. That happens in the first probe whose read's handler runs
   with nothing else queued, for example `main`'s check at
   `TlsTestTool.cpp:282` once the client has sent data. Nothing calls
   `restart()`, so from then on `poll` and `poll_one` do nothing.
   `isClosed` then returns FALSE unless its early checks fail, also after
   the peer's FIN. The same trace shows that `isClosed` is not monotonic
   (spec section 8). `TlsHandshake`'s abort check after a step may
   therefore answer either way. `SessionTail` keeps its probe exact; a
   blind probe would only make its waits run to their timeouts.
3. **Application data of 1024·k bytes is lost (code bug, `app_loss`).** A
   read of exactly 1024 bytes makes `receiveApplicationData` read again.
   When the peer sends nothing more, that read ends in `tcpReceive`'s
   receive timeout. `mbedtls_ssl_read` returns `MBEDTLS_ERR_SSL_TIMEOUT`,
   and the `0 > result` branch throws away what was read. (When
   `tcpReceive` reports EOF instead, `mbedtls_ssl_read` returns 0, and
   the `0 == result && 0 < read` branch keeps the data.)
4. **The log filters read past a dumped record (code bug, `tlf_overread`).**
   `logHeartbeatMessage` logs `payload_length` bytes without comparing it
   with the record size, so a Heartbleed-style heartbeat from the peer
   makes the tool read past its own buffer. The certificate list and the
   CertificateRequest fields trust their inner lengths in the same way.
5. **Filters registered once per server connection (code bug,
   `tlf_sessions`).** `TlsSession::setLogger` calls `registerInstances`,
   and each connection in server mode gets a new TlsSession on the same
   Logger. From the second connection on, two copies of each filter run
   on every line over the same statics. Translations and empty dumps are
   logged twice. A dump of more than one line is logged as its first
   line twice, with the rest dropped. DHM values are doubled.

Three further disagreements were found by TLC. They have no run of their
own at present, and each can be reproduced as described:

6. **Manipulation order matters (spec divergence).** With SkipFinished
   listed before SkipChangeCipherSpec, the Finished is sent.
   The refinement `HandshakeInOrder` fails on `MCTlsHandshake` when the
   client's manipulations are in that order (`MCClientSkipsReversed`).
7. **Out-of-range numbers are stored wrapped (code bug).** `port=65536`
   becomes 0, `receiveTimeout=4294967296` becomes 0, and `listenTimeout=-1`
   becomes 4294967295. Spec section 6 says a malformed value rejects the
   configuration. To see it, state that an accepted configuration holds
   the number given last for each numeric key, and check it on
   `MCConfigurationParser`.
8. **Timestamps are attributed to the wrong block (code bug).** Only one
   error-queue message is read per block. A late stamp, or the extra stamp
   of a block sent in two calls, is logged for the next block. State that
   every logged kernel stamp has `of = blk`, and TLC finds it violated
   with `MaxSendCalls = 2`. The recvmsg loop ignores
   `useSoTimestamping`, so the fallback to the clock is not permanent
   either (spec 4.2).

A related hazard is listed without a run. After the timeout,
`getSwTimestamp` parses a `controlBuffer` that `recvmsg` never wrote.
`RecvmsgTimeout` keeps both possible outcomes of that undefined read.

Eight more disagreements have no run:

* **A (0x00,0x00) cipher suite empties the list.** The value
  `tlsCipherSuites=(0x00,0x00),(0xC0,0x2F)` is accepted.
  `CipherSuiteIds` then gives `<<0, 49199, 0>>`. mbedtls reads the array
  only up to its first 0, so it offers no suite at all. Nothing in the
  spec or the code rejects this pair.

* **A failed step leaves a manipulation active.** Spec sections 3 and 8
  say a preStep's flag is cleared by its postStep before the next state
  change. When `mbedtls_ssl_handshake_step` throws at ClientKeyExchange,
  `onPostStep` is skipped. In server mode the next session then starts
  with `manipulationInProgress` set. The next postStep of that
  manipulation restores the override anyway, so no override leaks:
  `OverridesInForceExactlyAtKeyExchange` holds in `hs_server`, and it
  covers this hazard.
* **close_notify after a fatal Alert.** In `close`, a fatal Alert ends
  the forced reads of `tryToReadAlertMessage(true)`, but not the
  `while (!isClosed())` loop. The close_notify is still written to a peer
  that has aborted. Spec section 7 says a fatal Alert aborts the session.
  `SessionTail` reaches a state with `alertRead` and `notifySent` both set.
* **Late application data is dropped.** Data that arrives after the
  `socketTimeout` wait, or at any time on the server (whose timeout is 0),
  is read by `close`'s forced reads and discarded without being logged.
  `SessionTail` reaches `dropped > 0` with `logged = 0`. The spec does
  not say whether such data must be logged.
* **Listen timeout.** After "Listen timeout", `main`'s `while (true)`
  creates a new server. Spec scenario 6 says the tool exits with code 0.
  The spec's open questions, however, call re-listening forever correct.
  The spec contradicts itself, so no property is stated.
* **A fatal Alert read before a send does not end the handshake.** Spec
  section 7 says a received fatal Alert aborts the session.
  `tryToReadAlertMessage(false)` before a sending step
  (`TlsSession.cpp:426`) logs the Alert, breaks its loop and returns, and
  the step goes on sending. `TlsHandshake` consumes the Alert there
  (`alertPending` becomes FALSE) and the session continues, as in the code.
* **Application data drained during the handshake.** Spec section 4.4
  (Alert probing) drains an application-data record only when the
  handshake is over. `tryToReadAlertMessage(false)` at
  `TlsSession.cpp:273`, called before every handshake send, calls
  `receiveApplicationData` with no such check. Inside an unfinished
  handshake `mbedtls_ssl_read` drives the handshake itself, past the step
  callbacks. What it does there is mbedtls code, so no model states it.

* **An unwritable secret file goes unnoticed.** `configureTlsSession`
  (`TlsTestTool.cpp:62-69`) catches an exception from
  `std::make_unique<std::ofstream>(tlsSecretFile, ...)` and fails the
  session. But an `ofstream` that cannot open its file does not throw; it
  is only in a failed state. The sink is installed,
  `isSecrectInformationCollected()` is TRUE, and every `CLIENT_RANDOM`
  line is silently lost, while the tool exits 0. Spec sections 3 and 6 expect
  one line per handshake. `KeyLogOncePerHandshake` states that, and it
  would fail with an unopenable file in the model. The model assumes the
  file opens.

## 5. Not modelled (yet), and why

* **mbedtls itself.** It is not in `src/`, and it is patched in places.
  The model replaces `mbedtls_ssl_handshake_step` with the outcomes listed
  in section 2. Nothing is modelled of message contents, cryptography,
  or the behaviour of the server simulation modes. Two pieces of code are
  never reached from the tool's `main`. `sendApplicationData` is never
  called. `renegotiationStarted` is never set, so the renegotiation
  branch of `tcpSend` is dead. The id that
  `setServerSimulation` stores is modelled, in `ConfigureTlsSession`.
* **TcpServer and WaitFor.** `TcpServer.cpp` is not in `src/`. The server
  loop's wait for a client is the nondeterministic "connected or listen
  timeout" choice in `StartSession`.
* **`TimestampObserver::onBlockRead`.** It logs only the clock, and no
  property is about it.
* **Text matching of `tlsCipherSuites`.** The value is abstracted to
  the pairs the regex iterator finds. The iterator accepts junk between
  the pairs, and the model cannot tell that apart.
* **The rest of TlsLogFilter.** The cipher-suite, padding, compression
  and signature-algorithm regex translations are one-line rewrites without
  state, and are left out. `mbedtls_ecdh_read_params` is reduced to the
  curve id and the point. The point is read as 0x04 followed by two
  coordinates of half the remaining length each, where mbedtls uses the
  curve's coordinate length. x25519 points are read the same way. mbedtls
  cuts a hex dump at 4096 bytes. The dumps in the model are far shorter,
  so `CallLines` ignores that cut. The `Logger` (not in `src/`) is taken to run
  its filters in registration order (spec 4.6).
* **Timing.** Durations are not modelled. The timeouts appear only as the
  possibility that a wait ends without the awaited event. The
  `...Seconds` values are used as milliseconds. That unit error is left
  as a hazard without a property.

## 6. Plan for the next sittings

1. **Compose** `TlsHandshake` with `TcpClient`. The abort check and the EOF
   of a receiving step become the probes of `TcpClient`, so that the
   spurious "Handshake aborted" and the spurious EOF appear as handshake
   outcomes. Then check the handshake properties on that composition.
2. **Alert handling in the handshake.** `TlsHandshake` already reads a
   buffered Alert before a send. A violation run stating spec section 7
   for it (a fatal Alert ends the session) would take a run of its own.
3. **TlsLogFilter across sessions.** Carry the statics from one server
   session into the next (a DHM value held at the end of a session).
