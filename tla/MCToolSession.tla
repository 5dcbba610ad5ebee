---------------------------- MODULE MCToolSession ----------------------------
(***************************************************************************)
(* The composed session of a client: every client-side manipulation,       *)
(* main's client timeouts, and the peer's records after the handshake.     *)
(***************************************************************************)
EXTENDS ToolSession

\* A manipulation without parameters that matter to the model.
Plain(kind) == [kind |-> kind, skip |-> {}]

\* Every client-side variant, the two skips in the order that works.
MCClientManipulations ==
  << Plain("SkipChangeCipherSpec"), Plain("SkipFinished"),
     Plain("PreMasterSecretVersion"), Plain("PreMasterSecretRandom"),
     Plain("PreMasterSecretRandomByte"), Plain("RsaesPkcs1V15EncryptPadding") >>

\* manipulatePreMasterSecretRandomByte values: both ends and one past.
MCRandomByteIndexInputs == {0, 45, 46}

\* Up to two records after the handshake: data below, at and above the
\* quantum, a close_notify (0, ApplicationData's CloseNotify) or a fatal
\* Alert (-1).
MCSessionInputs == UNION {[1..n -> {500, 1024, 1500, 0, -1}] : n \in 0..2}

\* main passes socketTimeout 1 and closeTimeout 3 to the client's session.
MCClientTimeouts == {[socket |-> 1, close |-> 3]}

=============================================================================
