--------------------------- MODULE MCPassthrough ----------------------------
(* Small instances of Passthrough.                                         *)
EXTENDS Passthrough

MCBase == [scheme |-> TRUE, authority |-> TRUE, prefix |-> 1]

ForwardedFor == [name |-> "other", value |-> "other"]
Connection == [name |-> "hop-by-hop", value |-> "other"]
ContentRange == [name |-> "content-range", value |-> "other"]

(* Sizes under, at and over the cap; a client with and without gzip; a     *)
(* path the base URL's prefix makes too long.                              *)
Plain == [id |-> 1, size |-> 2, path |-> [len |-> 1, valid |-> TRUE],
          headers |-> {Connection, ForwardedFor, Identity}]
Gzip == [Plain EXCEPT !.id = 2, !.headers = {Connection, OffersGzip}]

MCRequests ==
    {Plain, Gzip, [Gzip EXCEPT !.id = 3, !.size = 0], [Plain EXCEPT !.id = 4, !.size = 3],
     [Plain EXCEPT !.id = 5, !.path.len = 2]}

(* The node codes its body or not, and says so or not; an empty body and   *)
(* one over the cap.                                                       *)
Answered == [status |-> 200, headers |-> {}, text |-> 1, layers |-> 0, length |-> 2,
             compressible |-> TRUE]

MCResponses ==
    {[Answered EXCEPT !.headers = fs, !.layers = g] :
       fs \in {{}, {GzipEncoded, Connection}, {ContentRange}}, g \in 0..1}
    \cup {[Answered EXCEPT !.length = 0, !.compressible = FALSE], [Answered EXCEPT !.length = 3]}

(* --upstream-url localhost:8545: the http crate reads an authority alone. *)
AuthorityBase == [MCBase EXCEPT !.scheme = FALSE, !.prefix = 0]

(* The node is itself a sidecar: it signs with its own key.                *)
SidecarResponses ==
    {[Answered EXCEPT !.headers = {[name |-> "vrpc-pubkey", value |-> "other"]}]}

=============================================================================
