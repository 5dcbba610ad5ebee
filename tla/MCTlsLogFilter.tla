--------------------------- MODULE MCTlsLogFilter ---------------------------
(***************************************************************************)
(* The log filters over every session of up to MaxCalls debug calls drawn *)
(* from a small set: intercepted dumps of 0, 7 and 17 bytes (one, and two  *)
(* lines), a dump not intercepted, TLS records with a Certificate (two     *)
(* certificates) and a TLS 1.2 CertificateRequest, a ServerKeyExchange, a  *)
(* well-formed heartbeat record and one whose payload_length exceeds it, a *)
(* record whose certificate_list length exceeds the certificates in it, a  *)
(* DHM value of 17 bytes, a big number not intercepted, a translated       *)
(* message and an alert.                                                   *)
(***************************************************************************)
EXTENDS TlsLogFilter

MaxCalls == 3

B2(x) == <<x \div 256, x % 256>>
B3(x) == <<x \div 65536, (x \div 256) % 256, x % 256>>

Buf(label, b) == [k |-> "buf", label |-> label, b |-> b, certs |-> {}]
Mpi(label, b) == [k |-> "mpi", label |-> label, b |-> b, certs |-> {}]
Msg(t) == [k |-> "msg", label |-> t, b |-> << >>, certs |-> {}]
Alert(level, description) == [k |-> "alert", label |-> "", b |-> <<level, description>>, certs |-> {}]

\* A handshake record carrying a Certificate message with the list cs,
\* built from RFC 5246's encoding; listExtra is added to the list length.
CertificateRecord(cs, listExtra) ==
  LET body == FlattenSeq([i \in DOMAIN cs |-> B3(Len(cs[i])) \o cs[i]])
      hs == <<11>> \o B3(3 + Len(body)) \o B3(Len(body) + listExtra) \o body
  IN <<22, 3, 3>> \o B2(Len(hs)) \o hs

Certs == << <<7>>, <<8, 9>> >>

MCCalls == {
  Buf("client hello, random bytes", [i \in 1..17 |-> i]),
  Buf("client hello, session id", << >>),
  Buf("server hello, version", <<3, 3, 0, 1, 2, 3, 4>>),
  Buf("output record sent to network", <<1, 2, 3>>),
  [Buf("input record from network", CertificateRecord(Certs, 0)) EXCEPT !.certs = {Certs}],
  Buf("input record from network", CertificateRecord(Certs, 4)),
  Buf("input record from network", <<22, 3, 3, 0, 12, 13, 0, 0, 8, 1, 1, 0, 2, 4, 1, 0, 0>>),
  Buf("server key exchange", <<3, 0, 23, 3, 4, 1, 2>>),
  Buf("heartbeat input record after decrypt", <<24, 3, 3, 0, 6, 1, 0, 2, 5, 6, 0>>),
  Buf("heartbeat input record after decrypt", <<24, 3, 3, 0, 4, 1, 0, 40, 5>>),
  Mpi("DHM: GY", [i \in 1..17 |-> 100 + i]),
  Mpi("DHM: X  ", <<5>>),
  Msg("<= parse certificate"),
  Alert(2, 40)
}

MCTraces == UNION {[1..n -> MCCalls] : n \in 1..MaxCalls}

====
