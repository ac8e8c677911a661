--------------------------- MODULE MCConfidential ---------------------------
(* Small instances of Confidential.                                        *)
EXTENDS Confidential

MCBase == [scheme |-> TRUE, authority |-> TRUE, prefix |-> 1]

ContentType == [name |-> "content-type", valid |-> TRUE]

GoodInner == [framing |-> "known-length request", parses |-> TRUE,
              headers |-> 1, trailers |-> 0, method |-> "token",
              path |-> [lead |-> "/", fragment |-> FALSE, len |-> 1, valid |-> TRUE],
              fields |-> <<ContentType>>,
              body |-> [len |-> 1, array |-> TRUE, parses |-> TRUE, elements |-> 2]]

Good == [id |-> 1, size |-> 2, hdr |-> TRUE, authentic |-> TRUE, enc |-> 1, inner |-> GoodInner]

(* One request per reason to refuse, and the request exactly at a limit.   *)
NoMedia == [GoodInner EXCEPT !.fields = << >>]
TwoMedia == [GoodInner EXCEPT !.fields = <<ContentType, ContentType>>]
BatchOver == [GoodInner EXCEPT !.body.elements = 3]
EmptyArray == [GoodInner EXCEPT !.body.elements = 0]
PathOver == [GoodInner EXCEPT !.path.len = 2]
PathFull == [GoodInner EXCEPT !.path.len = 3]
HeadersOver == [GoodInner EXCEPT !.headers = 2]

Inners == {NoMedia, TwoMedia, BatchOver, EmptyArray, PathOver, PathFull, HeadersOver}

MCEncs == {1, 2}

(* Every reason, one call at a time.                                       *)
SoloRequests ==
    {Good}
      \cup {[Good EXCEPT !.id = 2, !.inner = p] : p \in Inners}
      \cup {[Good EXCEPT !.id = 3, !.hdr = FALSE], [Good EXCEPT !.id = 4, !.authentic = FALSE],
            [Good EXCEPT !.id = 5, !.size = 0], [Good EXCEPT !.id = 6, !.size = 3]}

SoloResponses ==
    [status : {199, 200, 204, 600}, identity : BOOLEAN, sized : BOOLEAN, length : 0..3]

(* Two calls: the same bytes posted twice, or a refused batch beside them. *)
PairRequests == {Good, [Good EXCEPT !.id = 2, !.enc = 2, !.inner = BatchOver]}

PairResponses == {[status |-> 200, identity |-> TRUE, sized |-> FALSE, length |-> 1]}

=============================================================================
