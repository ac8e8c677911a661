--------------------------- MODULE MCAttestation ----------------------------
(* Small instances of Attestation.                                         *)
EXTENDS Attestation, TLC

MCPubKey == <<7>>

(* Two spellings of one nonce, another nonce, and a malformed one.         *)
MCQueries == {<<"0", "x", "a", "a">>, <<"A", "A">>, <<"1", "1">>, <<"a">>}

MCInfos == {[hash |-> "", compose |-> "none", rest |-> 1],
            [hash |-> "h", compose |-> "c", rest |-> 2],
            [hash |-> "h", compose |-> "c", rest |-> 3]}

CallSymmetry == Permutations(Calls)

=============================================================================
