--------------------------- MODULE HandshakeOrder ---------------------------
(***************************************************************************)
(* What one endpoint of the TLS Test Tool promises about the handshake     *)
(* messages it transmits, session after session: its own messages go out  *)
(* in protocol order, each at most once, without those the configured     *)
(* skip manipulations remove; a session ends as successful only when all   *)
(* the others went out; and a session may stop (aborted, failed) after any *)
(* message.  A new session starts from nothing.  A session that runs       *)
(* ends: it cannot go on forever without transmitting.                     *)
(*                                                                         *)
(* Messages are named by the handshake state that sends them, so protocol  *)
(* order is the order of the numbers.                                      *)
(***************************************************************************)
EXTENDS Naturals, FiniteSets

CONSTANTS
  Own,      \* the states whose message this role transmits
  Skipped   \* the states whose message a configured manipulation removes

VARIABLES
  sent,     \* messages this session has transmitted
  outcome   \* "running", "successful", "aborted", "failed", or "none" (no peer)

avars == <<sent, outcome>>

\* The messages the session must send to succeed.
Required == Own \ Skipped

\* A message that may go out next: not skipped, and later than all sent.
Sendable == {m \in Required : \A x \in sent : x < m}

Ended == {"successful", "aborted", "failed", "none"}

Init ==
  /\ sent = {}
  /\ outcome \in {"running", "none"}

\* One step of a running session: at most one message goes out, and the
\* session may end with it; it succeeds only with every required message
\* sent.
Step ==
  /\ outcome = "running"
  /\ \E out \in {{}} \cup {{m} : m \in Sendable} :
       /\ sent' = sent \cup out
       /\ outcome' \in {"running", "aborted", "failed"}
                       \cup (IF sent' = Required THEN {"successful"} ELSE {})

\* The next session, on a new connection or after no peer came.
Restart ==
  /\ outcome \in Ended
  /\ sent' = {}
  /\ outcome' \in {"running", "none"}

Next == Step \/ Restart

\* A running session does not run forever: it transmits a message or ends.
\* A new session is not promised (a client, or a server at its last
\* connection, stops).
Fairness == WF_avars(Step)

Spec == Init /\ [][Next]_avars /\ Fairness

=============================================================================
