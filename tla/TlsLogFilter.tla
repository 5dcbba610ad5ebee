---------------------------- MODULE TlsLogFilter ----------------------------
(***************************************************************************)
(* The log filters of the mbedtls backend (TlsLogFilter.cpp): every debug  *)
(* line mbedtls emits passes through translateString, translateRegEx,      *)
(* translateRegExDecToHex, interceptHexDump and interceptBits, in that     *)
(* order.  The last two keep state between lines in function-local statics *)
(* (numLinesToCollect, collectedBytes and the two finalOutput strings):    *)
(* a dump's header line arms them, its hex lines are collected, and the    *)
(* value is logged when the dump is complete (hex dumps) or when the next  *)
(* line that is not a value line arrives (DHM values).  Completed dumps of *)
(* TLS and heartbeat records are parsed and their fields logged.           *)
(*                                                                         *)
(* mbedtls's debug calls are the input: a sequence of calls, each a        *)
(* labelled byte buffer (mbedtls_debug_print_buf), a labelled big number   *)
(* (mbedtls_debug_print_mpi) or a message.  Each call becomes its lines;   *)
(* one step of the model is one line passed through all the filters.       *)
(* Hex text is abstracted to the bytes it encodes: byteArrayToHexString    *)
(* and hexStringToByteArray are inverse, and the regexes accept every line *)
(* mbedtls writes.  Bytes are naturals below 256.                          *)
(*                                                                         *)
(* TlsSession::setLogger calls registerInstances each time it runs, and    *)
(* main's server loop makes a TlsSession per connection and sets the same  *)
(* Logger on it: in the k-th session the logger holds k copies of the five *)
(* filters, which share one set of statics.  Registrations is that k (1    *)
(* for the client).  A session starts with the statics at rest: mbedtls    *)
(* prints every dump whole, so the previous session left them so.          *)
(***************************************************************************)
EXTENDS Naturals, Sequences, SequencesExt

CONSTANTS
  Traces,        \* the sequences of mbedtls debug calls of one session
  Registrations  \* how often registerInstances has run on the logger

VARIABLES
  calls,              \* the debug calls of this session (fixed)
  lines,              \* the debug lines not yet filtered
  numLinesToCollect,  \* interceptHexDump's statics ...
  collectedBytes,
  finalOutput,        \* ... "" when no dump is intercepted
  bitsOutput,         \* interceptBits's finalOutput: NoBits, or the value so far
  out                 \* the lines the filters logged: [c, by, f, v]

vars == <<calls, lines, numLinesToCollect, collectedBytes, finalOutput, bitsOutput, out>>

NoBits == [f |-> "", v |-> << >>, c |-> 0]

-----------------------------------------------------------------------------
(***************************************************************************)
(* Reading a byte buffer d (a record or message as hexStringToByteArray    *)
(* returns it).  Positions are 1-based.  A read past the end of d reads    *)
(* past the std::vector: its result is undefined, so the parse is cut      *)
(* there and an OverRead entry logged in its place.                        *)
(***************************************************************************)

Fits(d, p, w) == p + w - 1 <= Len(d)

\* TlsUint16 / TlsUint24 ::get(): big-endian.
Uint(d, p, w) == FoldLeft(LAMBDA acc, b : acc * 256 + b, 0, SubSeq(d, p, p + w - 1))

Field(f, v) == [f |-> f, v |-> v]
OverRead == Field("overread", << >>)

\* byteArrayToHexString({data, data + n}) at position p, logged as field f.
LogBytes(f, d, p, n) == IF Fits(d, p, n) THEN <<Field(f, SubSeq(d, p, p + n - 1))>> ELSE <<OverRead>>

TlsVersion12 == 3 * 256 + 3
TlsVersionInvalid == 0

\* Mutant: the certificate's length field is not counted.
NextReadNoHeader(read, n) == read + n

\* certificateDataRead += sizeof(TlsUint24) + certificateLength
NextRead(read, n) == read + 3 + n

\* The for loop over certificate_list, from byte p with read bytes read.
RECURSIVE CertificateList(_, _, _, _, _)
CertificateList(d, p, read, listLen, num) ==
  IF read >= listLen
  THEN <<Field("Certificate.certificate_list.size", <<num>>)>>
  ELSE IF ~Fits(d, p, 3) THEN <<OverRead>>
  ELSE LET n == Uint(d, p, 3)
       IN IF ~Fits(d, p + 3, n) THEN <<OverRead>>
          ELSE <<Field("Certificate.certificate_list", SubSeq(d, p + 3, p + 2 + n))>>
               \o CertificateList(d, p + 3 + n, NextRead(read, n), listLen, num + 1)

\* A u8- or u16-length-prefixed field at p: its entries, and the position
\* after it (past the end when the length could not be read).
LengthField(f, d, p, w) ==
  IF ~Fits(d, p, w) THEN [log |-> <<OverRead>>, next |-> Len(d) + 1, ok |-> FALSE]
  ELSE LET n == Uint(d, p, w)
       IN [log |-> LogBytes(f, d, p + w, n), next |-> p + w + n, ok |-> Fits(d, p + w, n)]

\* The CertificateRequest branch: certificate_types, in TLS 1.2
\* supported_signature_algorithms, then certificate_authorities.
CertificateRequest(version, d) ==
  LET types == LengthField("CertificateRequest.certificate_types", d, 5, 1)
      algs == LengthField("CertificateRequest.supported_signature_algorithms", d, types.next, 2)
      caPos == IF version = TlsVersion12 THEN algs.next ELSE types.next
      cas == LengthField("CertificateRequest.certificate_authorities", d, caPos, 2)
  IN IF ~types.ok THEN types.log
     ELSE IF version = TlsVersion12 /\ ~algs.ok THEN types.log \o algs.log
     ELSE types.log \o (IF version = TlsVersion12 THEN algs.log ELSE << >>) \o cas.log

\* logHandshakeMessage: a 4-byte header (msg_type, u24 length); only the
\* header's length is checked against the buffer.
LogHandshakeMessage(version, d) ==
  IF 4 > Len(d) THEN << >>
  ELSE IF d[1] \in {11, 13} /\ 4 + Uint(d, 2, 3) > Len(d) THEN << >>
  ELSE IF d[1] = 11
  THEN IF ~Fits(d, 5, 3) THEN <<OverRead>>
       ELSE CertificateList(d, 8, 0, Uint(d, 5, 3), 0)
  ELSE IF d[1] = 13 THEN CertificateRequest(version, d)
  ELSE << >>

\* The bytes of d after a 5-byte record header.
Fragment(d) == SubSeq(d, 6, Len(d))

\* logTlsRecord: a handshake record's message, with the record's version.
LogTlsRecord(d) ==
  IF 5 > Len(d) \/ d[1] # 22 THEN << >>
  ELSE LogHandshakeMessage(Uint(d, 2, 2), Fragment(d))

\* logHeartbeatMessage: a 3-byte header (type, u16 payload_length); the
\* payload is logged for payload_length bytes.
LogHeartbeatMessage(d) ==
  IF 3 > Len(d) THEN << >>
  ELSE << Field("Heartbeat data size including padding", <<Len(d)>>),
          Field("Heartbeat.type", <<d[1]>>),
          Field("Heartbeat.payload_length", <<Uint(d, 2, 2)>>) >>
       \o LogBytes("Heartbeat.payload_data", d, 4, Uint(d, 2, 2))

LogHeartbeatRecord(d) ==
  IF 5 > Len(d) \/ d[1] # 24 THEN << >>
  ELSE LogHeartbeatMessage(Fragment(d))

\* mpiToHexString of a coordinate read big-endian from b: its bytes from
\* the first non-zero one, "00" for zero, nothing for a coordinate never
\* read (an mbedtls_mpi with no limbs).
MpiBytes(b) ==
  LET nz == {k \in DOMAIN b : b[k] # 0}
  IN IF nz = {} THEN <<0>> ELSE SubSeq(b, CHOOSE k \in nz : \A j \in nz : k <= j, Len(b))

\* The point as logged: "04 " then Qp.X and Qp.Y.  mbedtls_ecp_point_read_binary
\* takes 0x00 alone as the zero point (X = Y = 1) and 0x04 followed by two
\* coordinates of equal length (the curve's length, abstracted here to half
\* of the rest); for anything else the read fails and Qp stays empty.
EcPointLogged(p) ==
  IF p = <<0>> THEN <<4, 1, 1>>
  ELSE IF Len(p) >= 3 /\ Len(p) % 2 = 1 /\ p[1] = 4
  THEN LET h == (Len(p) - 1) \div 2
       IN <<4>> \o MpiBytes(SubSeq(p, 2, 1 + h)) \o MpiBytes(SubSeq(p, 2 + h, Len(p)))
  ELSE <<4>>

\* mbedtls_ecdh_read_params on ServerKeyExchange bytes: ECParameters with
\* curve_type named_curve (3) and a u16 curve id, then the u8-length
\* point.  When the curve is known, the id and the parsed point are logged.
KnownCurves == {23, 24, 25, 29}
LogEcdhParams(d) ==
  IF ~Fits(d, 1, 3) \/ d[1] # 3 \/ Uint(d, 2, 2) \notin KnownCurves THEN << >>
  ELSE << Field("ServerKeyExchange.params.curve_params.namedcurve", <<Uint(d, 2, 2)>>),
          Field("ServerKeyExchange.params.public",
                IF Fits(d, 4, 1) /\ Fits(d, 5, d[4]) THEN EcPointLogged(SubSeq(d, 5, 4 + d[4]))
                ELSE <<4>>) >>

-----------------------------------------------------------------------------
(***************************************************************************)
(* The filters.  A line is [c, k, label, n, b]: c the call it belongs to,  *)
(* k its kind ("dump" header, "hex" line, "bits" header, "value" line,     *)
(* "text" message, "alert" message), label the header's or message's text, *)
(* n the byte or bit count of a header, b the bytes of a hex or value line *)
(* or an alert's level and description.                                    *)
(***************************************************************************)

\* logStringTranslation, for the messages the traces contain.
StringTranslation ==
  ("<= parse certificate" :> "Valid Certificate message received.")
  @@ ("bad certificate message" :> "Bad Certificate message received.")

\* The dumpInterception table.
DumpInterception ==
  ("client hello, version" :> "ClientHello.client_version")
  @@ ("client hello, random bytes" :> "ClientHello.random")
  @@ ("client hello, session id" :> "ClientHello.session_id")
  @@ ("client hello, ciphersuitelist" :> "ClientHello.cipher_suites")
  @@ ("client hello, compression" :> "ClientHello.compression_methods")
  @@ ("client hello extensions" :> "ClientHello.extensions")
  @@ ("server hello, version" :> "ServerHello.server_version")
  @@ ("server hello, random bytes" :> "ServerHello.random")
  @@ ("server hello, session id" :> "ServerHello.session_id")
  @@ ("server hello, extensions" :> "ServerHello.extensions")
  @@ ("server key exchange" :> "ServerKeyExchange")
  @@ ("signature" :> "ServerKeyExchange.signed_params.signature")
  @@ ("md5_hash" :> "ServerKeyExchange.signed_params.md5_hash")
  @@ ("sha_hash" :> "ServerKeyExchange.signed_params.sha_hash")
  @@ ("premaster secret" :> "ClientKeyExchange.exchange_keys.pre_master_secret")
  @@ ("master secret" :> "ClientKeyExchange.exchange_keys.master_secret")
  @@ ("input record from network" :> "TLS Record")
  @@ ("remaining content in record" :> "Handshake Message")
  @@ ("new session ticket, ticket" :> "NewSessionTicket.ticket")
  @@ ("heartbeat input record after decrypt" :> "Heartbeat Record")

\* The bitsInterception table.
BitsInterception ==
  ("DHM: P " :> "ServerKeyExchange.params.dh_p")
  @@ ("DHM: G " :> "ServerKeyExchange.params.dh_g")
  @@ ("DHM: GY" :> "ServerKeyExchange.params.dh_Ys")

\* translateString, translateRegEx and translateRegExDecToHex: a known
\* message is translated; "got an alert message, type: [l:d]" gives
\* "Alert message received." and then its level and description.
Translate(m) ==
  (IF m.k = "text" /\ m.label \in DOMAIN StringTranslation
   THEN <<Field(StringTranslation[m.label], << >>)>> ELSE << >>)
  \o (IF m.k = "alert"
      THEN << Field("Alert message received.", << >>),
              Field("Alert.level", <<m.b[1]>>), Field("Alert.description", <<m.b[2]>>) >>
      ELSE << >>)

\* Mutant: the number of lines is rounded down.
LinesToCollectFloor(numBytes) == numBytes \div 16

\* numLinesToCollect = (numBytes + 15) / 16
LinesToCollect(numBytes) == (numBytes + 15) \div 16

\* Mutant: hex lines are collected whether or not a dump is intercepted.
CollectsUnguarded(nl, m) == m.k = "hex"

\* (0 < numLinesToCollect) && std::regex_match(message, hexDumpRegEx)
Collects(nl, m) == 0 < nl /\ m.k = "hex"

\* The branches on finalOutput once a dump is complete.
Dispatch(fo, bytes) ==
  CASE fo = "ServerKeyExchange" -> LogEcdhParams(bytes)
    [] fo = "TLS Record" -> LogTlsRecord(bytes)
    [] fo = "Handshake Message" -> LogHandshakeMessage(TlsVersionInvalid, bytes)
    [] fo = "Heartbeat Record" -> LogHeartbeatRecord(bytes)
    [] OTHER -> <<Field(fo, bytes)>>

\* The statics of the two intercepting filters, and the lines logged so
\* far for the current debug line.
Statics == [nl |-> numLinesToCollect, cb |-> collectedBytes, fo |-> finalOutput,
            bo |-> bitsOutput, log |-> << >>]

Tag(c, by, es) == [i \in DOMAIN es |-> [c |-> c, by |-> by, f |-> es[i].f, v |-> es[i].v]]

\* interceptHexDump on line m, from statics st.
InterceptHexDump(st, m) ==
  LET armed == m.k = "dump" /\ m.label \in DOMAIN DumpInterception
      nl1 == IF armed THEN LinesToCollect(m.n) ELSE st.nl
      cb1 == IF armed THEN << >> ELSE st.cb
      fo1 == IF armed THEN DumpInterception[m.label] ELSE st.fo
      take == Collects(nl1, m)
      nl2 == IF take THEN nl1 - 1 ELSE nl1
      cb2 == IF take THEN cb1 \o m.b ELSE cb1
      fire == nl2 = 0 /\ fo1 # ""
  IN [st EXCEPT !.nl = nl2, !.cb = IF fire THEN << >> ELSE cb2, !.fo = IF fire THEN "" ELSE fo1,
                !.log = @ \o Tag(m.c, "dump", IF fire THEN Dispatch(fo1, cb2) ELSE << >>)]

BitsEntry(bo) == [c |-> bo.c, by |-> "bits", f |-> bo.f, v |-> bo.v]

\* Mutant: the header is checked before the value lines.
InterceptBitsHeaderFirst(st, m) ==
  LET start == st.bo = NoBits /\ m.k = "bits" /\ m.label \in DOMAIN BitsInterception
      bo0 == IF start THEN [f |-> BitsInterception[m.label], v |-> << >>, c |-> m.c] ELSE st.bo
      extend == bo0 # NoBits /\ m.k = "value"
      flush == bo0 # NoBits /\ m.k # "value"
  IN [st EXCEPT !.bo = IF extend THEN [bo0 EXCEPT !.v = @ \o m.b] ELSE IF flush THEN NoBits ELSE bo0,
                !.log = @ \o (IF flush THEN <<BitsEntry(bo0)>> ELSE << >>)]

\* interceptBits on line m, from statics st: a value line extends the
\* value, any other line logs and clears it; then a known header starts a
\* new one.
InterceptBits(st, m) ==
  LET extend == st.bo # NoBits /\ m.k = "value"
      flush == st.bo # NoBits /\ m.k # "value"
      bo1 == IF extend THEN [st.bo EXCEPT !.v = @ \o m.b]
             ELSE IF flush THEN NoBits ELSE st.bo
      start == bo1 = NoBits /\ m.k = "bits" /\ m.label \in DOMAIN BitsInterception
  IN [st EXCEPT !.bo = IF start THEN [f |-> BitsInterception[m.label], v |-> << >>, c |-> m.c] ELSE bo1,
                !.log = @ \o (IF flush THEN <<BitsEntry(st.bo)>> ELSE << >>)]

\* The five filters registerInstances adds, in order, on line m.
FilterSet(st, m) ==
  InterceptBits(InterceptHexDump([st EXCEPT !.log = @ \o Tag(m.c, "translate", Translate(m))], m), m)

\* The logger's filter list: the five filters once per registerInstances
\* call, all sharing the same statics.
RECURSIVE RunFilters(_, _, _)
RunFilters(k, st, m) == IF k = 0 THEN st ELSE RunFilters(k - 1, FilterSet(st, m), m)

\* Logger::log on the next debug line (writeToLogger): every registered
\* filter, in registration order.
FilterLine ==
  /\ lines # << >>
  /\ LET st == RunFilters(Registrations, Statics, Head(lines))
     IN /\ lines' = Tail(lines)
        /\ numLinesToCollect' = st.nl
        /\ collectedBytes' = st.cb
        /\ finalOutput' = st.fo
        /\ bitsOutput' = st.bo
        /\ out' = out \o st.log
  /\ UNCHANGED calls

\* The debug lines of mbedtls_debug_print_buf and mbedtls_debug_print_mpi:
\* a header, then the bytes 16 to a line.
RECURSIVE Chunks(_)
Chunks(b) ==
  IF Len(b) <= 16 THEN (IF b = << >> THEN << >> ELSE <<b>>)
  ELSE <<SubSeq(b, 1, 16)>> \o Chunks(SubSeq(b, 17, Len(b)))

Line(c, k, label, n, b) == [c |-> c, k |-> k, label |-> label, n |-> n, b |-> b]

\* A call is [k, label, b, certs]: kind "buf", "mpi", "msg" or "alert",
\* its label or message, its bytes, and (for the checks only) {cs} when b
\* is a record built from the certificate list cs, else {}.
CallLines(c, call) ==
  LET body(k) == [i \in DOMAIN Chunks(call.b) |-> Line(c, k, "", 0, Chunks(call.b)[i])]
  IN CASE call.k = "buf" -> <<Line(c, "dump", call.label, Len(call.b), << >>)>> \o body("hex")
       [] call.k = "mpi" -> <<Line(c, "bits", call.label, 8 * Len(call.b), << >>)>> \o body("value")
       [] call.k = "msg" -> <<Line(c, "text", call.label, 0, << >>)>>
       [] call.k = "alert" -> <<Line(c, "alert", "", 0, call.b)>>

LinesOf(cs) == FlattenSeq([c \in DOMAIN cs |-> CallLines(c, cs[c])])

\* A session starts with the statics at their initial values.
Init ==
  /\ calls \in Traces
  /\ lines = LinesOf(calls)
  /\ numLinesToCollect = 0
  /\ collectedBytes = << >>
  /\ finalOutput = ""
  /\ bitsOutput = NoBits
  /\ out = << >>

\* mbedtls has emitted all the session's lines.
Done == lines = << >> /\ UNCHANGED vars

Next == FilterLine \/ Done

Spec == Init /\ [][Next]_vars /\ WF_vars(FilterLine)

-----------------------------------------------------------------------------
(***************************************************************************)
(* Properties.                                                             *)
(***************************************************************************)

Entries == [c : Nat, by : {"translate", "dump", "bits"}, f : STRING, v : Seq(Nat)]

TypeOK ==
  /\ lines \in Seq([c : Nat, k : STRING, label : STRING, n : Nat, b : Seq(Nat)])
  /\ numLinesToCollect \in Nat
  /\ collectedBytes \in Seq(Nat)
  /\ finalOutput \in {""} \cup {DumpInterception[l] : l \in DOMAIN DumpInterception}
  /\ bitsOutput \in {NoBits} \cup [f : {BitsInterception[l] : l \in DOMAIN BitsInterception},
                                   v : Seq(Nat), c : DOMAIN calls]
  /\ out \in Seq(Entries)

\* All lines of call c have been filtered.
Consumed(c) == lines = << >> \/ Head(lines).c > c

\* What the filter named by logged for call c, untagged.
Logged(c, by) ==
  LET es == SelectSeq(out, LAMBDA e : e.c = c /\ e.by = by)
  IN [i \in DOMAIN es |-> Field(es[i].f, es[i].v)]

IsInterceptedDump(c) == calls[c].k = "buf" /\ calls[c].label \in DOMAIN DumpInterception
IsInterceptedMpi(c) == calls[c].k = "mpi" /\ calls[c].label \in DOMAIN BitsInterception

\* Each buffer mbedtls dumps is logged, once its lines are through, exactly
\* as its label's branch renders the whole buffer (interceptHexDump's line
\* count, collection and reset across consecutive and empty dumps); a
\* buffer whose label is not intercepted is not logged.
DumpsLoggedWhole ==
  \A c \in DOMAIN calls :
    (calls[c].k = "buf" /\ Consumed(c)) =>
      Logged(c, "dump") = IF IsInterceptedDump(c)
                          THEN Dispatch(DumpInterception[calls[c].label], calls[c].b)
                          ELSE << >>

\* At the end of the session, every DHM value mbedtls printed was logged
\* once with all its bytes (interceptBits), or, when it was the last line,
\* is still held in finalOutput; no other big number is logged.
DhmValuesLogged ==
  lines = << >> =>
    \A c \in DOMAIN calls :
      calls[c].k = "mpi" =>
        IF ~IsInterceptedMpi(c) THEN Logged(c, "bits") = << >>
        ELSE IF c = Len(calls)
        THEN bitsOutput = [f |-> BitsInterception[calls[c].label], v |-> calls[c].b, c |-> c]
        ELSE Logged(c, "bits") = <<Field(BitsInterception[calls[c].label], calls[c].b)>>

\* A TLS record holding a well-formed Certificate message is logged with
\* one certificate_list entry per certificate, in order, and the count
\* (logHandshakeMessage's loop over the u24 length fields).
CertificatesLogged ==
  \A c \in DOMAIN calls :
    \A cs \in calls[c].certs :
      Consumed(c) =>
        Logged(c, "dump") = [i \in DOMAIN cs |-> Field("Certificate.certificate_list", cs[i])]
                            \o <<Field("Certificate.certificate_list.size", <<Len(cs)>>)>>

\* No filter reads past the bytes of the dump it parses: the lengths in a
\* record from the peer are checked before the bytes are logged.
NoReadPastBuffer == \A i \in DOMAIN out : out[i].f # "overread"

====
