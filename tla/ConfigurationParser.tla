------------------------- MODULE ConfigurationParser -------------------------
(***************************************************************************)
(* ConfigurationParser::updateConfiguration: the key=value pairs are       *)
(* applied to the Configuration one at a time, in order; the first invalid *)
(* one throws, and after the loop tlsServerSimulation 6 without a          *)
(* tlsServerSimulationDelay is rejected.  One step of the model is one     *)
(* iteration of the loop.                                                  *)
(*                                                                         *)
(* Values are abstract: Num(n) is the decimal text of the integer n        *)
(* (negative ones included, as a user may type them), NumPrefixed(n, t)    *)
(* that text followed by the non-numeric text t, Text(t) any other text.   *)
(* std::stoul and strtoul convert the longest numeric prefix.  Conversions *)
(* keep the widths of the code: std::stoul and strtoul return a 64-bit     *)
(* unsigned long, and the setters take uint16_t or uint32_t.               *)
(***************************************************************************)
EXTENDS Integers, Sequences, SequencesExt

CONSTANTS
  Inputs   \* the key/value sequences given to updateConfiguration

VARIABLES
  input,         \* keyValuePairs
  i,             \* index of the pair the loop handles next
  conf,          \* the Configuration's fields the parser sets
  delaySet,      \* isTlsServerSimulationDelaySet
  delayEnabled,  \* isTlsServerSimulationDelayEnabled
  outcome,       \* "parsing", "ok", "rejected" (std::invalid_argument), or
                 \* "configured" once configureTlsSession has run
  session        \* the settings configureTlsSession gives the mbedtls config

vars == <<input, i, conf, delaySet, delayEnabled, outcome, session>>

Num(n) == [n |-> n]
Text(t) == [t |-> t]
NumPrefixed(n, t) == [n |-> n, t |-> t]
VersionPair(major, minor) == [major |-> major, minor |-> minor]
IsNum(v) == "n" \in DOMAIN v
IsVersionPair(v) == "major" \in DOMAIN v

\* Text with the hex byte pairs "(0xUU,0xLL)" in it, in order: pairs is the
\* sequence of the pairs the regex matches.  Each half has two hex digits,
\* so it is at most 255.
HexPairs(pairs) == [pairs |-> pairs]
IsHexPairs(v) == "pairs" \in DOMAIN v
\* "b1,b2,b3,b4" with each bi "true" or "false".
Bools(bs) == [bools |-> bs]
IsBools(v) == "bools" \in DOMAIN v
\* "0xAA,0xBB,..." : the comma-separated hex bytes.
HexBytes(bs) == [bytes |-> bs]
IsHexBytes(v) == "bytes" \in DOMAIN v

\* The ranges of unsigned long (64 bits), uint32_t and uint16_t.  TLC's
\* integers have 32 bits, so the two wider ranges are scaled down to 2^30
\* and 2^24: every bound the code compares with (6, 46, 1000000) and every
\* in-range input lies below both, and the inputs past a range are written
\* relative to it (UInt32 stands for 4294967296), so each comparison and
\* each wrap gives the result it gives at the real widths.
ULong == 2^30
UInt32 == 2^24
UInt16 == 2^16

\* Keys set through std::stoul into a uint32_t field.
Uint32Keys == {"listenTimeout", "waitBeforeClose", "receiveTimeout"}

\* Keys whose text is stored as it is.
TextKeys == {"host", "certificateFile", "privateKeyFile", "tlsSecretFile"}

\* Keys with the "manipulate" prefix.
ManipulateKeys == {"manipulateSkipChangeCipherSpec", "manipulateSkipFinished",
                   "manipulatePreMasterSecretRandom", "manipulatePreMasterSecretRandomByte",
                   "manipulateRsaesPkcs1V15EncryptPadding", "manipulatePreMasterSecretVersion",
                   "manipulateSkipRsaesPkcs1V15PaddingCheck", "manipulateRenegotiation"}

\* Configuration(): the defaults (tlsServerSimulationDelay has no
\* initialiser; it is read only in mode 6, which needs a delay key).
DefaultConf ==
  [mode |-> "unknown", port |-> 0, listenTimeout |-> 0, waitBeforeClose |-> 10000,
   receiveTimeout |-> 120000, tlsVersion |-> <<0, 0>>, suites |-> << >>, sim |-> 0, delay |-> 0, manipulations |-> << >>]

-----------------------------------------------------------------------------

\* std::stoul: text with no numeric prefix throws; a negative number wraps
\* modulo 2^64 (strtoul semantics); text after the number is ignored.
StoulOk(v) == IsNum(v)

Stoul(v) == v.n % ULong

\* std::strtoul without an error check: text with no numeric prefix gives 0.
Strtoul(v) == IF IsNum(v) THEN v.n % ULong ELSE 0

\* One iteration of the loop on the pair kv: the Configuration after it, or
\* "reject" for a thrown std::invalid_argument (std::stoul's own exceptions
\* derive from it or from std::out_of_range; both end parsing).
Reject == [reject |-> TRUE]

\* Mutant: the id check is off by one.
SetServerSimulationOffByOne(c, v) ==
  IF ~StoulOk(v) \/ Stoul(v) > 7 THEN Reject
  ELSE [c EXCEPT !.sim = Stoul(v) % UInt16]

SetServerSimulation(c, v) ==
  IF ~StoulOk(v) \/ Stoul(v) > 6 THEN Reject
  ELSE [c EXCEPT !.sim = Stoul(v) % UInt16]

\* Mutant: the upper bound on the delay is not checked.
SetServerSimulationDelayUnchecked(c, v) ==
  [c EXCEPT !.delay = Strtoul(v) % UInt32]

SetServerSimulationDelay(c, v) ==
  IF Strtoul(v) > 1000000 THEN Reject
  ELSE [c EXCEPT !.delay = Strtoul(v) % UInt32]

\* tlsVersion "(major,minor)": the regex admits digits only; major must be
\* 3 and minor 1..3.
SetTlsVersion(c, v) ==
  IF IsVersionPair(v) /\ v.major = 3 /\ v.minor \in 1..3
  THEN [c EXCEPT !.tlsVersion = <<v.major, v.minor>>] ELSE Reject

\* matchHexPair: regex_match of the whole value against one pair, then
\* matchByte on each half (never above 255 by the regex).
MatchHexPair(v) == IsHexPairs(v) /\ Len(v.pairs) = 1

\* matchValue against four (true|false) groups, then stob on each.
MatchBoolQuadruple(v) == IsBools(v) /\ Len(v.bools) = 4

\* matchValue against three hex-byte groups, then matchByte on each.
MatchHexTriple(v) == IsHexBytes(v) /\ Len(v.bytes) = 3

\* tlsCipherSuites: every pair the regex finds is added after the list is
\* cleared; text without a pair is rejected.
SetTlsCipherSuites(c, v) ==
  IF IsHexPairs(v) /\ v.pairs # << >>
  THEN [c EXCEPT !.suites = v.pairs] ELSE Reject

\* Mutant: the list is replaced instead of appended to.
AddManipulationReplaces(c, kind) == [c EXCEPT !.manipulations = << kind >>]

\* Configuration::addManipulation: appended, in configuration order.
AddManipulation(c, kind) == [c EXCEPT !.manipulations = Append(@, kind)]

\* ManipulationsParser::parse: the random-byte index goes through
\* std::stoull (a negative one wraps) and must be below 46; the values of
\* the other parameterised keys must match their regex; every exception
\* becomes std::invalid_argument, and an unknown name is rejected.
ParseManipulation(c, k, v) ==
  CASE k = "manipulateSkipChangeCipherSpec" -> AddManipulation(c, "SkipChangeCipherSpec")
    [] k = "manipulateSkipFinished" -> AddManipulation(c, "SkipFinished")
    [] k = "manipulatePreMasterSecretRandom" -> AddManipulation(c, "PreMasterSecretRandom")
    [] k = "manipulatePreMasterSecretRandomByte" ->
         IF StoulOk(v) /\ Stoul(v) < 46
         THEN AddManipulation(c, "PreMasterSecretRandomByte") ELSE Reject
    [] k = "manipulateRsaesPkcs1V15EncryptPadding" ->
         IF MatchHexTriple(v)
         THEN AddManipulation(c, "RsaesPkcs1V15EncryptPadding") ELSE Reject
    [] k = "manipulatePreMasterSecretVersion" ->
         IF MatchHexPair(v)
         THEN AddManipulation(c, "PreMasterSecretVersion") ELSE Reject
    [] k = "manipulateSkipRsaesPkcs1V15PaddingCheck" ->
         IF MatchBoolQuadruple(v)
         THEN AddManipulation(c, "SkipRsaesPkcs1V15PaddingCheck") ELSE Reject
    [] OTHER -> Reject

ApplyPair(c, kv) ==
  LET k == kv.key
      v == kv.value
  IN CASE k = "mode" ->
            IF ~IsNum(v) /\ v.t \in {"client", "server"}
            THEN [c EXCEPT !.mode = v.t] ELSE Reject
       [] k = "port" ->
            IF StoulOk(v) THEN [c EXCEPT !.port = Stoul(v) % UInt16] ELSE Reject
       [] k \in TextKeys -> c
       [] k \in Uint32Keys ->
            IF StoulOk(v) THEN [c EXCEPT ![k] = Stoul(v) % UInt32] ELSE Reject
       [] k = "tlsVersion" -> SetTlsVersion(c, v)
       [] k = "tlsCipherSuites" -> SetTlsCipherSuites(c, v)
       [] k \in ManipulateKeys -> ParseManipulation(c, k, v)
       [] k = "tlsServerSimulation" -> SetServerSimulation(c, v)
       [] k = "tlsServerSimulationDelay" -> SetServerSimulationDelay(c, v)
       [] OTHER -> Reject

\* One iteration of the for loop, the two local flags included.
UpdateOne ==
  /\ outcome = "parsing" /\ i <= Len(input)
  /\ LET kv == input[i]
         c == ApplyPair(conf, kv)
     IN IF c = Reject
        THEN /\ outcome' = "rejected"
             /\ UNCHANGED <<i, conf, delaySet, delayEnabled>>
        ELSE /\ conf' = c
             /\ i' = i + 1
             /\ delayEnabled' = (delayEnabled \/ (kv.key = "tlsServerSimulation" /\ c.sim = 6))
             /\ delaySet' = (delaySet \/ kv.key = "tlsServerSimulationDelay")
             /\ UNCHANGED outcome
  /\ UNCHANGED <<input, session>>

\* Mutant: the check after the loop is left out.
FinishUnchecked ==
  /\ outcome = "parsing" /\ i > Len(input)
  /\ outcome' = "ok"
  /\ UNCHANGED <<input, i, conf, delaySet, delayEnabled, session>>

\* After the loop: mode 6 needs a delay.
Finish ==
  /\ outcome = "parsing" /\ i > Len(input)
  /\ outcome' = IF delayEnabled /\ ~delaySet THEN "rejected" ELSE "ok"
  /\ UNCHANGED <<input, i, conf, delaySet, delayEnabled, session>>

\* The mbedtls config before configureTlsSession: the library's version
\* range and cipher suites ("default"), simulation 0 and no delay
\* (mbedtls_ssl_config_init zeroes the structure).
DefaultSession == [version |-> "default", suites |-> "default", sim |-> 0, delay |-> 0]

\* TlsSession::setCipherSuites: each pair becomes (first << 8) | second,
\* and a 0 terminates the array mbedtls reads.
CipherSuiteIds(pairs) ==
  [j \in 1..(Len(pairs) + 1) |-> IF j <= Len(pairs) THEN pairs[j][1] * 256 + pairs[j][2] ELSE 0]

\* hasTlsVersion, then setVersion: min and max version both set to it.
SessionVersion(c) == IF c.tlsVersion # <<0, 0>> THEN c.tlsVersion ELSE "default"

\* hasTlsCipherSuites, then setCipherSuites.
SessionSuites(c) == IF c.suites # << >> THEN CipherSuiteIds(c.suites) ELSE "default"

\* setServerSimulation: the id goes into the mbedtls config; the name of
\* the simulated server is only logged.
SessionSim(c) == c.sim

\* Mutant: the delay is applied whatever the simulation id.
SessionDelayUnguarded(c) == c.delay

\* setServerSimulationDelay is called only for simulation 6.
SessionDelay(c) == IF c.sim = 6 THEN c.delay ELSE 0

\* configureTlsSession on an accepted configuration: the version only when
\* hasTlsVersion, the cipher suites only when hasTlsCipherSuites, the
\* simulation id, and the delay.  Opening the secret file and loading the
\* certificate are I/O and are not modelled.
ConfigureTlsSession ==
  /\ outcome = "ok"
  /\ session' =
       [version |-> SessionVersion(conf),
        suites |-> SessionSuites(conf),
        sim |-> SessionSim(conf),
        delay |-> SessionDelay(conf)]
  /\ outcome' = "configured"
  /\ UNCHANGED <<input, i, conf, delaySet, delayEnabled>>

Init ==
  /\ input \in Inputs
  /\ session = DefaultSession
  /\ i = 1
  /\ conf = DefaultConf
  /\ delaySet = FALSE
  /\ delayEnabled = FALSE
  /\ outcome = "parsing"

\* updateConfiguration has returned or thrown.
Done == outcome \in {"rejected", "configured"} /\ UNCHANGED vars

Next == UpdateOne \/ Finish \/ ConfigureTlsSession \/ Done

Spec == Init /\ [][Next]_vars /\ WF_vars(UpdateOne \/ Finish \/ ConfigureTlsSession)

-----------------------------------------------------------------------------
(***************************************************************************)
(* Properties, against the option list of the specification (section 6):  *)
(* an accepted configuration holds the values given, in their ranges.      *)
(***************************************************************************)

TypeOK ==
  /\ i \in 1..(Len(input) + 1)
  /\ conf.mode \in {"unknown", "client", "server"}
  /\ conf.port \in 0..(UInt16 - 1)
  /\ \A k \in Uint32Keys : conf[k] \in 0..(UInt32 - 1)
  /\ conf.tlsVersion \in {<<0, 0>>} \cup ({3} \X (1..3))
  /\ conf.sim \in 0..6 /\ conf.delay \in 0..1000000
  /\ conf.suites \in Seq((0..255) \X (0..255))
  /\ conf.manipulations \in Seq({"SkipChangeCipherSpec", "SkipFinished", "PreMasterSecretRandom",
                                  "PreMasterSecretRandomByte", "RsaesPkcs1V15EncryptPadding",
                                  "PreMasterSecretVersion", "SkipRsaesPkcs1V15PaddingCheck"})
  /\ delaySet \in BOOLEAN /\ delayEnabled \in BOOLEAN
  /\ outcome \in {"parsing", "ok", "rejected", "configured"}
  /\ session.sim \in 0..6 /\ session.delay \in 0..1000000

Accepted == outcome \in {"ok", "configured"}

\* The manipulation a "manipulate..." key names: the key without its prefix.
ManipulationName(k) ==
  CHOOSE m \in {"SkipChangeCipherSpec", "SkipFinished", "PreMasterSecretRandom",
                "PreMasterSecretRandomByte", "RsaesPkcs1V15EncryptPadding",
                "PreMasterSecretVersion", "SkipRsaesPkcs1V15PaddingCheck"} : k = "manipulate" \o m

\* The index of the last pair with key k in the input, 0 if none.
LastGiven(k) == SelectLastInSeq(input, LAMBDA kv : kv.key = k)

Given(k) == LastGiven(k) # 0

\* An accepted configuration in server-simulation mode 6 was given a
\* tlsServerSimulationDelay, whatever the order of the two keys.
SimulationSixHasDelay ==
  (Accepted /\ conf.sim = 6) => Given("tlsServerSimulationDelay")

\* An accepted configuration was given only server-simulation ids in 0..6
\* and PreMasterSecret random-byte indices in 0..45.
AcceptedIndicesInRange ==
  Accepted =>
    \A j \in DOMAIN input :
      /\ input[j].key = "tlsServerSimulation" =>
           IsNum(input[j].value) /\ input[j].value.n \in 0..6
      /\ input[j].key = "manipulatePreMasterSecretRandomByte" =>
           IsNum(input[j].value) /\ input[j].value.n \in 0..45

\* The value of the last pair with key k.
LastValue(k) == input[LastGiven(k)].value

\* The session configureTlsSession sets up runs with the server simulation
\* and TLS version last given (the defaults if none), and with the delay
\* last given exactly when that simulation is 6, whatever the order of the
\* keys and however often each was repeated.
SessionAsGiven ==
  outcome = "configured" =>
    LET sim == IF Given("tlsServerSimulation") THEN LastValue("tlsServerSimulation").n ELSE 0
    IN /\ session.sim = sim
       /\ session.delay = IF sim = 6 THEN Strtoul(LastValue("tlsServerSimulationDelay")) ELSE 0
       /\ session.version = IF Given("tlsVersion")
                            THEN <<LastValue("tlsVersion").major, LastValue("tlsVersion").minor>>
                            ELSE "default"

\* The manipulations of an accepted configuration are those given, one per
\* "manipulate..." key and in the order of the keys, the order in which
\* the session's pipeline runs them (it decides whether a skip works).
ManipulationsAsGiven ==
  Accepted =>
    LET given == SelectSeq(input, LAMBDA kv : kv.key \in ManipulateKeys)
    IN conf.manipulations = [j \in DOMAIN given |-> ManipulationName(given[j].key)]

=============================================================================
