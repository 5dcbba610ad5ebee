--------------------------- MODULE MCTlsHandshake ---------------------------
(***************************************************************************)
(* Configurations of TlsHandshake for TLC: the manipulation lists of a     *)
(* client and a server run, in configuration order.                        *)
(***************************************************************************)
EXTENDS TlsHandshake

\* A manipulation without parameters that matter to the model.
Plain(kind) == [kind |-> kind, skip |-> {}]

\* Every client-side variant, the two skips in the order that works.
MCClientManipulations ==
  << Plain("SkipChangeCipherSpec"), Plain("SkipFinished"),
     Plain("PreMasterSecretVersion"), Plain("PreMasterSecretRandom"),
     Plain("PreMasterSecretRandomByte"), Plain("RsaesPkcs1V15EncryptPadding") >>

\* The same skips in the other order.
MCClientSkipsReversed ==
  << Plain("SkipFinished"), Plain("SkipChangeCipherSpec") >>

\* Two padding-check relaxations (their flags add up) and a skipped CCS.
MCServerManipulations ==
  << [kind |-> "SkipRsaesPkcs1V15PaddingCheck", skip |-> {"firstByte", "pmsVersion"}],
     [kind |-> "SkipRsaesPkcs1V15PaddingCheck", skip |-> {"blockType"}],
     Plain("SkipChangeCipherSpec") >>

\* Index values given to manipulatePreMasterSecretRandomByte: both ends of
\* the accepted range and the first value past it.
MCRandomByteIndexInputs == {0, 45, 46}

=============================================================================
