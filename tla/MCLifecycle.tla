---------------------------- MODULE MCLifecycle -----------------------------
(***************************************************************************)
(* Lifecycle for model checking: command lines with each value that can be *)
(* refused on either side of its border, keys with each of their faults,   *)
(* and connections that are used repeatedly.                               *)
(***************************************************************************)
EXTENDS Lifecycle

Good == [chain |-> <<"1">>, batch |-> 1, timeout |-> 1, url |-> TRUE, allowEmpty |-> FALSE]

CommandLinesMC ==
    {Good,
     [Good EXCEPT !.chain = <<" ", "1", "0", " ">>], [Good EXCEPT !.chain = <<" ">>],
     [Good EXCEPT !.chain = <<"1", "0", "1">>], [Good EXCEPT !.chain = <<"1", " ">>],
     [Good EXCEPT !.batch = 0], [Good EXCEPT !.batch = BatchLimit],
     [Good EXCEPT !.batch = BatchLimit + 1], [Good EXCEPT !.timeout = 0],
     [Good EXCEPT !.url = FALSE], [Good EXCEPT !.allowEmpty = TRUE]}

KeysMC ==
    [hex : BOOLEAN, chars : 2 * SeedLen - 1 .. 2 * SeedLen + 2, matches : BOOLEAN]

HashesMC == {"", "hash"}

=============================================================================
