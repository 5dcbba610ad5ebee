------------------------ MODULE MCConfigurationParser ------------------------
EXTENDS ConfigurationParser

\* Pairs with the edge values of each conversion: in range, one past the
\* range of the field, negative, and not a number.
MCPairs ==
  { [key |-> "mode", value |-> Text("server")],
    [key |-> "mode", value |-> Text("serve")],
    [key |-> "port", value |-> Num(443)],
    [key |-> "port", value |-> Num(65536)],
    [key |-> "listenTimeout", value |-> Num(-1)],
    [key |-> "receiveTimeout", value |-> Num(UInt32)],
    [key |-> "tlsServerSimulation", value |-> Num(6)],
    [key |-> "tlsServerSimulation", value |-> Num(7)],
    [key |-> "tlsServerSimulation", value |-> Num(3)],
    [key |-> "tlsServerSimulationDelay", value |-> Num(1000000)],
    [key |-> "tlsServerSimulationDelay", value |-> NumPrefixed(1, "ms")],
    [key |-> "tlsServerSimulationDelay", value |-> Num(-1)],
    [key |-> "manipulatePreMasterSecretRandomByte", value |-> Num(46)],
    [key |-> "manipulatePreMasterSecretRandomByte", value |-> Num(45)],
    [key |-> "manipulateSkipFinished", value |-> Text("")],
    [key |-> "manipulateRenegotiation", value |-> Text("")],
    [key |-> "manipulatePreMasterSecretRandom", value |-> Text("")],
    [key |-> "manipulateRsaesPkcs1V15EncryptPadding", value |-> HexBytes(<<0, 2, 0>>)],
    [key |-> "manipulateRsaesPkcs1V15EncryptPadding", value |-> HexBytes(<<0, 2>>)],
    [key |-> "tlsVersion", value |-> VersionPair(3, 4)],
    [key |-> "tlsVersion", value |-> VersionPair(3, 3)],
    [key |-> "host", value |-> Text("localhost")],
    [key |-> "tlsCipherSuites", value |-> HexPairs(<< <<192, 47>>, <<0, 255>> >>)],
    [key |-> "tlsCipherSuites", value |-> Text("TLS_RSA_WITH_NULL_MD5")],
    [key |-> "manipulatePreMasterSecretVersion", value |-> HexPairs(<< <<3, 0>> >>)],
    [key |-> "manipulatePreMasterSecretVersion", value |-> HexPairs(<< <<3, 0>>, <<3, 1>> >>)],
    [key |-> "manipulateSkipRsaesPkcs1V15PaddingCheck", value |-> Bools(<<TRUE, FALSE, FALSE, TRUE>>)],
    [key |-> "manipulateSkipRsaesPkcs1V15PaddingCheck", value |-> Text("yes")],
    [key |-> "tlsVersionMajor", value |-> Num(3)] }

\* Every sequence of up to three pairs.
MCInputs == SeqOf(MCPairs, 3)

=============================================================================
