----------------------------- MODULE MCSigning ------------------------------
(* A small instance of Signing.  One body has the bytes of a chain id.     *)
EXTENDS Signing, TLC

MCDigest == ("1" :> <<0, 0>> @@ "2" :> <<0, 1>> @@ "{}" :> <<1, 0>>)

MCClocks == -1..5

=============================================================================
