------------------------------ MODULE NodeCall ------------------------------
(***************************************************************************)
(* What a call, to /confidential or to a passthrough route, promises about *)
(* the node, without saying how.  It is taken up, its request is handed to *)
(* the node at most once and only while the call is open, and it ends      *)
(* once, in one of four ways:                                              *)
(*   "refused"    an error that says the node was not called               *)
(*   "relayed"    the node's own answer                                    *)
(*   "uncertain"  an error after which the node may or may not have run it *)
(*   "dropped"    the client left                                          *)
(***************************************************************************)
CONSTANT Calls

VARIABLES
    stage,    \* "new", "open", or how the call ended
    handed    \* how often the call's request was handed to the node

Endings == {"refused", "relayed", "uncertain", "dropped"}

Init ==
    /\ stage = [c \in Calls |-> "new"]
    /\ handed = [c \in Calls |-> 0]

Take(c) ==
    /\ stage[c] = "new"
    /\ stage' = [stage EXCEPT ![c] = "open"]
    /\ UNCHANGED handed

HandOver(c) ==
    /\ stage[c] = "open"
    /\ handed[c] = 0
    /\ handed' = [handed EXCEPT ![c] = 1]
    /\ UNCHANGED stage

End(c, how) ==
    /\ stage[c] = "open" \/ (stage[c] = "new" /\ how = "refused")
    /\ how = "refused" => handed[c] = 0
    /\ how = "relayed" => handed[c] = 1
    /\ stage' = [stage EXCEPT ![c] = how]
    /\ UNCHANGED handed

Next == \E c \in Calls : Take(c) \/ HandOver(c) \/ \E how \in Endings : End(c, how)

Spec == Init /\ [][Next]_<<stage, handed>>

=============================================================================
