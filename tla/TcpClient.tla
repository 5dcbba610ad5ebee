----------------------------- MODULE TcpClient -----------------------------
(***************************************************************************)
(* TcpClient: the connection the TLS session reads from and writes to, and *)
(* its closed probe TcpClient::isClosed(pollOnce).  The probe registers an *)
(* asio null_buffers read on the socket's io_context, runs the context     *)
(* with poll_one() or with poll() twice, cancels what is still pending and *)
(* asks FIONREAD.                                                          *)
(*                                                                         *)
(* The io_context is modelled as asio's scheduler queue: a sequence of the *)
(* reactor task, descriptor_states the reactor found readable, and the     *)
(* handlers of cancelled reads.  A descriptor_state performs whichever     *)
(* read is registered when it runs, so one queued by an earlier probe and  *)
(* left behind by poll_one() completes a later probe's read with readiness *)
(* that may no longer hold.                                                *)
(*                                                                         *)
(* asio stops the io_context when its outstanding work falls to zero: once *)
(* a read's handler has run with no other read registered or cancelled    *)
(* handler queued, stopped_ is set, and since nothing in src/ calls        *)
(* restart(), every later poll() and poll_one() returns at once.           *)
(***************************************************************************)
EXTENDS Naturals, Sequences

CONSTANTS
  Modes,     \* the pollOnce arguments the callers use: "poll" and/or "pollOne"
  EofChecks, \* the roles whose tcpReceive EOF check runs on this socket
  MaxRx      \* bound on the number of unread segments in the receive buffer

ASSUME Modes \subseteq {"poll", "pollOne"} /\ Modes # {} /\ MaxRx \in Nat \ {0}
ASSUME EofChecks \subseteq {"client", "server"}

VARIABLES
  rx,            \* socket.available(), in segments
  fin,           \* the peer's FIN has arrived
  rst,           \* the peer reset the connection
  open,          \* socket.is_open(): TcpClient::close not yet called
  closedByError, \* Data::connectionClosedByError
  queue,         \* the io_context's operation queue
  stopped,       \* the io_context's stopped_ flag
  lastCall,      \* what the last probe saw and returned (history)
  lastEof        \* what tcpReceive's last EOF check saw and returned (history)

vars == <<rx, fin, rst, open, closedByError, queue, stopped, lastCall, lastEof>>

\* Entries of the queue: the reactor task, the socket's descriptor_state
\* with EPOLLIN, and the handler of a read completed with operation_aborted.
Task == "task"
Ready == "ready"
Aborted == "aborted"
Entries == {Task, Ready, Aborted}

NoEof == [role |-> "none", eof |-> FALSE, closed |-> FALSE]

NoCall == [mode |-> "none", result |-> FALSE, finNoData |-> FALSE]

\* The socket reports read readiness (EPOLLIN): data, or the peer's FIN.
Readable == rx > 0 \/ fin

-----------------------------------------------------------------------------
(***************************************************************************)
(* The scheduler.  A probe's state st: the queue, whether its read is      *)
(* still registered with the reactor, its local isReadable, whether the    *)
(* last do_poll_one ran a handler, and the io_context's stopped_ flag.     *)
(***************************************************************************)

\* The reactor task runs (non-blocking epoll_wait).  Registering the read
\* re-armed the descriptor (EPOLL_CTL_MOD), so a readable socket is
\* reported; its descriptor_state is queued unless it already is, then the
\* task.
RunReactor(st) ==
  LET ev == st.pending /\ Readable /\ \A k \in DOMAIN st.queue : st.queue[k] # Ready
  IN [st EXCEPT !.queue = @ \o (IF ev THEN << Ready >> ELSE << >>) \o << Task >>]

\* The scheduler's outstanding work: the registered read and every queued
\* aborted handler (descriptor_states do not count).
Work(st) ==
  Len(SelectSeq(st.queue, LAMBDA e : e = Aborted)) + (IF st.pending THEN 1 ELSE 0)

\* The read's handler has run (work_finished): the context stops when no
\* work is left.
Finished(st) == [st EXCEPT !.stopped = (Work(st) = 0)]

\* Running entry h.  A descriptor_state performs the registered read, if
\* any, and runs its handler, whose error-free completion sets isReadable.
\* An aborted handler sets nothing (operation_aborted is neither
\* connection_aborted nor connection_reset).
RunHandler(st, h) ==
  CASE h = Ready /\ st.pending ->
         Finished([st EXCEPT !.isReadable = TRUE, !.pending = FALSE])
    [] h = Ready -> st
    [] h = Aborted -> Finished(st)

\* scheduler::do_poll_one: nothing once stopped; else run the task if it is
\* at the front, then run the entry at the front, if it is not the task.
DoPollOne(st) ==
  LET s1 == IF Head(st.queue) = Task THEN RunReactor([st EXCEPT !.queue = Tail(@)]) ELSE st
  IN IF st.stopped THEN [st EXCEPT !.ran = FALSE]
     ELSE IF Head(s1.queue) # Task
     THEN [RunHandler([s1 EXCEPT !.queue = Tail(@)], Head(s1.queue)) EXCEPT !.ran = TRUE]
     ELSE [s1 EXCEPT !.ran = FALSE]

\* io_context::poll: do_poll_one until it runs nothing.
RECURSIVE Poll(_)
Poll(st) == LET s == DoPollOne(st) IN IF s.ran THEN Poll(s) ELSE s

\* isClosed: poll_one() once, or poll() twice.
PollFor(mode, st) == IF mode = "pollOne" THEN DoPollOne(st) ELSE Poll(Poll(st))

\* socket.cancel(): a read still registered is completed with
\* operation_aborted and its handler queued.  Once the context has stopped
\* that handler never runs, and the queue is no longer followed (asio
\* appends one aborted handler per such probe).
Cancel(st) ==
  IF st.pending /\ ~st.stopped
  THEN [st EXCEPT !.queue = @ \o << Aborted >>, !.pending = FALSE]
  ELSE [st EXCEPT !.pending = FALSE]

\* (isReadable && nothingToRead) || isAborted || isReset; the last two need
\* an error the early checks exclude (a reset fails remote_endpoint first).
IsClosedResult(st) == st.isReadable /\ rx = 0

\* The I/O part of isClosed(pollOnce) on queue q and stopped flag sp:
\* register, poll, cancel.
Probe(q, sp, mode) ==
  Cancel(PollFor(mode, [queue |-> q, pending |-> TRUE, isReadable |-> FALSE,
                        ran |-> FALSE, stopped |-> sp]))

-----------------------------------------------------------------------------
(***************************************************************************)
(* Operations.                                                             *)
(***************************************************************************)

\* isClosed returns TRUE before any I/O: closed by a write or read error,
\* closed locally, or remote_endpoint fails (after a reset).
IsClosedEarlyReturn(mode) ==
  /\ closedByError \/ ~open \/ rst
  /\ lastCall' = [mode |-> mode, result |-> TRUE, finNoData |-> fin /\ rx = 0]
  /\ UNCHANGED <<rx, fin, rst, open, closedByError, queue, stopped, lastEof>>

\* isClosed probes the socket through the io_context.
IsClosedProbe(mode) ==
  /\ ~closedByError /\ open /\ ~rst
  /\ LET st == Probe(queue, stopped, mode)
     IN /\ queue' = st.queue /\ stopped' = st.stopped
        /\ lastCall' = [mode |-> mode, result |-> IsClosedResult(st),
                        finNoData |-> fin /\ rx = 0]
  /\ UNCHANGED <<rx, fin, rst, open, closedByError, lastEof>>

IsClosed(mode) == IsClosedEarlyReturn(mode) \/ IsClosedProbe(mode)

\* Mutant: the server checks once, like the client.
TcpReceiveEofCheckSingle(role) ==
  /\ ~closedByError /\ open /\ ~rst /\ rx = 0
  /\ LET st == Probe(queue, stopped, IF role = "client" THEN "pollOne" ELSE "poll")
     IN /\ queue' = st.queue /\ stopped' = st.stopped
        /\ lastEof' = [role |-> role, eof |-> IsClosedResult(st), closed |-> fin]
  /\ UNCHANGED <<rx, fin, rst, open, closedByError, lastCall>>

\* tcpReceive, while nothing is available, on a connection the early checks
\* pass: a client returns EOF on isClosed(true); a server on isClosed() &&
\* isClosed(), "to circumvent a timing problem in isClosed".  The second
\* probe runs only if the first returned TRUE.
TcpReceiveEofCheck(role) ==
  /\ ~closedByError /\ open /\ ~rst /\ rx = 0
  /\ LET st1 == Probe(queue, stopped, IF role = "client" THEN "pollOne" ELSE "poll")
         again == role = "server" /\ IsClosedResult(st1)
         st2 == Probe(st1.queue, st1.stopped, "poll")
     IN /\ queue' = IF again THEN st2.queue ELSE st1.queue
        /\ stopped' = IF again THEN st2.stopped ELSE st1.stopped
        /\ lastEof' = [role |-> role, closed |-> fin,
                       eof |-> IsClosedResult(st1) /\ (again => IsClosedResult(st2))]
  /\ UNCHANGED <<rx, fin, rst, open, closedByError, lastCall>>

\* TcpClient::read consumes received data; on a reset it marks the
\* connection closed by error and rethrows.
Read ==
  /\ open /\ ~closedByError
  /\ \/ rst /\ closedByError' = TRUE /\ UNCHANGED rx
     \/ ~rst /\ rx > 0 /\ rx' = rx - 1 /\ UNCHANGED closedByError
  /\ UNCHANGED <<fin, rst, open, queue, stopped, lastCall, lastEof>>

\* TcpClient::write on a reset connection: connection_reset, marked closed.
Write ==
  /\ open /\ ~closedByError /\ rst
  /\ closedByError' = TRUE
  /\ UNCHANGED <<rx, fin, rst, open, queue, stopped, lastCall, lastEof>>

\* TcpClient::close: shutdown and close the socket.
Close ==
  /\ open
  /\ open' = FALSE
  /\ UNCHANGED <<rx, fin, rst, closedByError, queue, stopped, lastCall, lastEof>>

\* The peer sends a segment, closes (FIN) or resets.
PeerSends ==
  /\ ~fin /\ ~rst /\ rx < MaxRx
  /\ rx' = rx + 1
  /\ UNCHANGED <<fin, rst, open, closedByError, queue, stopped, lastCall, lastEof>>

PeerCloses ==
  /\ ~fin /\ ~rst
  /\ fin' = TRUE
  /\ UNCHANGED <<rx, rst, open, closedByError, queue, stopped, lastCall, lastEof>>

PeerResets ==
  /\ ~rst
  /\ rst' = TRUE
  /\ UNCHANGED <<rx, fin, open, closedByError, queue, stopped, lastCall, lastEof>>

\* A connected socket; the reactor task is queued when the socket service
\* is created.
Init ==
  /\ rx = 0 /\ fin = FALSE /\ rst = FALSE
  /\ open = TRUE /\ closedByError = FALSE
  /\ queue = << Task >>
  /\ stopped = FALSE
  /\ lastCall = NoCall
  /\ lastEof = NoEof

Next ==
  \/ \E mode \in Modes : IsClosed(mode)
  \/ \E role \in EofChecks : TcpReceiveEofCheck(role)
  \/ Read \/ Write \/ Close
  \/ PeerSends \/ PeerCloses \/ PeerResets

Spec == Init /\ [][Next]_vars

-----------------------------------------------------------------------------
(***************************************************************************)
(* Properties.                                                             *)
(***************************************************************************)

\* isClosed() (poll) reports the peer's FIN once all data has been read
\* (spec 4.1: is_closed is TRUE on readable with nothing available, and
\* stays TRUE).  Violated: the probe that first drains the io_context stops
\* it, and every later probe returns FALSE.
IsClosedComplete ==
  lastCall.mode = "poll" /\ lastCall.finNoData => lastCall.result

\* tcpReceive returns MBEDTLS_ERR_SSL_CONN_EOF only when the peer has
\* closed the connection.
TcpReceiveEofSound == lastEof.eof => lastEof.closed

====
