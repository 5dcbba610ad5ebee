-------------------------- MODULE TimestampObserver --------------------------
(***************************************************************************)
(* The block-timestamping observer of scriptable_client (TimestampObserver *)
(* and TcpClient::write, built with USE_SO_TIMESTAMPING).                  *)
(*                                                                         *)
(* TcpClient::write hands a block to asio::write, which may take several   *)
(* send calls (the socket is non-blocking once isClosed has started an     *)
(* async wait on it).  With SO_TIMESTAMPING enabled the kernel queues one  *)
(* TX timestamp per send call, when the data leaves for the driver, on the *)
(* socket's error queue.  After every block, onBlockWritten reads that     *)
(* queue with recvmsg(MSG_ERRQUEUE) in a busy loop bounded by 3 seconds    *)
(* and logs the first message's timestamp; on the timeout it falls back to *)
(* the user-space clock.  Time is not modelled: the deadline passing is an *)
(* action that competes with the kernel's delivery.                        *)
(***************************************************************************)
EXTENDS Naturals, Sequences, FiniteSets

CONSTANTS
  MaxWrites,     \* blocks written in one session
  MaxSendCalls   \* send calls asio::write may need for one block

VARIABLES
  tsEnabled,  \* setsockopt(SO_TIMESTAMPING) succeeded: the kernel stamps sends
  useSo,      \* Data::useSoTimestamping
  inflight,   \* timestamps of sent data not yet queued (tags: block number)
  errqueue,   \* the socket's error queue (tags: block number)
  written,    \* blocks handed to TcpClient::write so far
  failed,     \* a write threw: the exception ends the session's I/O
  pc,         \* "idle", or "polling" inside onBlockWritten's recvmsg loop
  notified,   \* blocks whose observers were notified
  tsLog       \* Write.timestamp lines: [blk, src, of]

vars == <<tsEnabled, useSo, inflight, errqueue, written, failed, pc, notified, tsLog>>

\* Sources of a logged Write.timestamp: a kernel timestamp (of the block
\* tagged "of"), the user-space clock, or bytes of the uninitialised control
\* buffer that happen to parse as an SCM_TIMESTAMPING message.
Sources == {"kernel", "clock", "garbage"}
Blocks == 1..MaxWrites
NoTag == 0

-----------------------------------------------------------------------------

\* TimestampObserver constructor: setsockopt may fail, and getsockopt may
\* fail or report other flags; only when both succeed and agree is
\* useSoTimestamping set.
Init ==
  /\ tsEnabled \in BOOLEAN
  /\ \E flagsConfirmed \in BOOLEAN : useSo = (tsEnabled /\ flagsConfirmed)
  /\ inflight = << >>
  /\ errqueue = << >>
  /\ written = 0
  /\ failed = FALSE
  /\ pc = "idle"
  /\ notified = {}
  /\ tsLog = << >>

\* The timestamps the kernel will queue for the n send calls of block k.
Stamps(k, n) == IF tsEnabled THEN [i \in 1..n |-> k] ELSE << >>

\* TcpClient::write: asio::write completes with n send calls, then
\* notifyWrite runs the observer.
Write ==
  /\ pc = "idle" /\ ~failed /\ written < MaxWrites
  /\ \E n \in 1..MaxSendCalls :
       /\ inflight' = inflight \o Stamps(written + 1, n)
       /\ written' = written + 1
       /\ pc' = "polling"
       /\ notified' = notified \cup {written + 1}
  /\ UNCHANGED <<tsEnabled, useSo, errqueue, failed, tsLog>>

\* TcpClient::write: asio::write throws (connection reset or aborted) after
\* n of its send calls; the observer is not notified, and the exception
\* leaves tcpSend and the handshake or close that called it.
WriteFails ==
  /\ pc = "idle" /\ ~failed /\ written < MaxWrites
  /\ \E n \in 0..(MaxSendCalls - 1) :
       /\ inflight' = inflight \o Stamps(written + 1, n)
       /\ written' = written + 1
  /\ failed' = TRUE
  /\ UNCHANGED <<tsEnabled, useSo, errqueue, pc, notified, tsLog>>

\* The kernel queues the oldest pending TX timestamp on the error queue.
KernelStamps ==
  /\ inflight # << >>
  /\ errqueue' = Append(errqueue, Head(inflight))
  /\ inflight' = Tail(inflight)
  /\ UNCHANGED <<tsEnabled, useSo, written, failed, pc, notified, tsLog>>

\* Mutant: the line is attributed to the next block.
LogTimestampNextBlock(src, of) ==
  tsLog' = Append(tsLog, [blk |-> written + 1, src |-> src, of |-> of])

\* Logs the Write.timestamp line of the block being notified.
LogTimestamp(src, of) ==
  tsLog' = Append(tsLog, [blk |-> written, src |-> src, of |-> of])

\* recvmsg(MSG_ERRQUEUE) returns the oldest message; its SCM_TIMESTAMPING
\* timestamp is logged and onBlockWritten returns.
RecvmsgReturnsMessage ==
  /\ pc = "polling" /\ errqueue # << >>
  /\ LogTimestamp("kernel", Head(errqueue))
  /\ errqueue' = Tail(errqueue)
  /\ pc' = "idle"
  /\ UNCHANGED <<tsEnabled, useSo, inflight, written, failed, notified>>

\* Mutant: the fallback leaves useSoTimestamping set.
RecvmsgTimeoutKeepsSo ==
  /\ pc = "polling" /\ errqueue = << >>
  /\ \/ LogTimestamp("garbage", NoTag)
     \/ useSo /\ UNCHANGED tsLog
     \/ ~useSo /\ LogTimestamp("clock", NoTag)
  /\ pc' = "idle"
  /\ UNCHANGED <<tsEnabled, useSo, inflight, errqueue, written, failed, notified>>

\* Mutant: the 3 s deadline is only checked while SO_TIMESTAMPING is used.
RecvmsgTimeoutOnlyWithSo ==
  /\ pc = "polling" /\ errqueue = << >> /\ useSo
  /\ useSo' = FALSE
  /\ \/ LogTimestamp("garbage", NoTag)
     \/ LogTimestamp("clock", NoTag)
  /\ pc' = "idle"
  /\ UNCHANGED <<tsEnabled, inflight, errqueue, written, failed, notified>>

\* recvmsg keeps failing with EAGAIN until the 3 s deadline passes: the
\* observer falls back to the clock.  recvmsg never filled the control
\* buffer, so getSwTimestamp walks uninitialised bytes (msg_controllen is
\* still 512), in practice the stack slot where an earlier call's recvmsg
\* left its message: they parse as an SCM_TIMESTAMPING message, which is
\* logged, or they do not, and as useSoTimestamping is now false the clock
\* time is logged.
RecvmsgTimeout ==
  /\ pc = "polling" /\ errqueue = << >>
  /\ useSo' = FALSE
  /\ \/ LogTimestamp("garbage", NoTag)
     \/ LogTimestamp("clock", NoTag)
  /\ pc' = "idle"
  /\ UNCHANGED <<tsEnabled, inflight, errqueue, written, failed, notified>>

\* The session has written all its blocks, or a write failed.
Done == pc = "idle" /\ (written = MaxWrites \/ failed) /\ UNCHANGED vars

Next ==
  \/ Write \/ WriteFails \/ KernelStamps
  \/ RecvmsgReturnsMessage \/ RecvmsgTimeout
  \/ Done

\* The kernel delivers what it stamped; the thread keeps calling recvmsg
\* while it polls, and the clock passes the deadline.
Fairness ==
  /\ WF_vars(KernelStamps)
  /\ WF_vars(RecvmsgReturnsMessage \/ RecvmsgTimeout)

Spec == Init /\ [][Next]_vars /\ Fairness

-----------------------------------------------------------------------------
(***************************************************************************)
(* Properties.                                                             *)
(***************************************************************************)

TypeOK ==
  /\ tsEnabled \in BOOLEAN /\ useSo \in BOOLEAN
  /\ inflight \in Seq(Blocks) /\ errqueue \in Seq(Blocks)
  /\ written \in 0..MaxWrites /\ failed \in BOOLEAN /\ pc \in {"idle", "polling"}
  /\ notified \subseteq Blocks
  /\ tsLog \in Seq([blk : Blocks, src : Sources, of : Blocks \cup {NoTag}])

\* Lines logged for block k.
LinesFor(k) == {i \in DOMAIN tsLog : tsLog[i].blk = k}

\* Every block whose onBlockWritten has returned logged exactly one
\* Write.timestamp line (spec 4.2: "Each event emits two trace lines"), on
\* every path through the recvmsg loop and the fallback.
OneTimestampPerWrite ==
  \A k \in notified :
    (pc = "idle" \/ k # written) => Cardinality(LinesFor(k)) = 1

\* onBlockWritten returns: the busy recvmsg loop ends for every block,
\* whether or not timestamps are enabled or arrive.
OnBlockWrittenReturns == (pc = "polling") ~> (pc = "idle")


=============================================================================
