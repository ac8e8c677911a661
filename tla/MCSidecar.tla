----------------------------- MODULE MCSidecar ------------------------------
(* The whole process with one call to each kind of route.  No              *)
(* --max-body-bytes: bodies may be as long as usize counts, here one byte. *)
EXTENDS Sidecar, Sequences

MCBase == [scheme |-> TRUE, authority |-> TRUE, prefix |-> 1]

Path == [lead |-> "/", fragment |-> FALSE, len |-> 1, valid |-> TRUE]

ProxyRequestsMC == {[id |-> 1, size |-> 1, path |-> [len |-> 1, valid |-> TRUE], headers |-> {}]}

ProxyResponsesMC ==
    {[status |-> 200, headers |-> {}, text |-> 1, layers |-> 0, length |-> n,
      compressible |-> FALSE] : n \in 1..2}

Inner == [framing |-> "known-length request", parses |-> TRUE,
          headers |-> 0, trailers |-> 0, method |-> "token", path |-> Path,
          fields |-> <<[name |-> "content-type", valid |-> TRUE]>>,
          body |-> [len |-> 1, array |-> FALSE, parses |-> TRUE, elements |-> 0]]

ConfidentialRequestsMC ==
    {[id |-> 1, size |-> 1, hdr |-> TRUE, authentic |-> TRUE, enc |-> 1, inner |-> Inner]}

ConfidentialResponsesMC ==
    {[status |-> 200, identity |-> TRUE, sized |-> FALSE, length |-> 1]}

EncsMC == {1}

ConfigsMC ==
    {[chain |-> <<"1">>, batch |-> 1, timeout |-> 1, url |-> u, allowEmpty |-> FALSE] :
       u \in BOOLEAN}

KeysMC == {[hex |-> TRUE, chars |-> n, matches |-> TRUE] : n \in {2, 4}}

HashesMC == {"", "hash"}

=============================================================================
