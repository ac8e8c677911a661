---------------------------- MODULE Passthrough -----------------------------
(***************************************************************************)
(* The passthrough routes: every request that is not for a route of the    *)
(* sidecar itself is forwarded to the node, and the node's answer is       *)
(* signed and relayed (proxy.rs, behind the CompressionLayer of            *)
(* server.rs).                                                             *)
(*                                                                         *)
(* A handler yields at three awaits: while it collects the request, while  *)
(* it waits for the node's head, and while it collects the node's body.    *)
(* None of them is under a timeout.  A client that disconnects drops the   *)
(* future at one of them.  Everything between two awaits is one action;    *)
(* signing, and the compression of the response, follow the last await     *)
(* directly.                                                               *)
(*                                                                         *)
(* Headers are sets: their order is lost, and so is the repetition of an   *)
(* equal field.  Names and values are classes of them.  A body is the      *)
(* node's text under a number of gzip layers.                              *)
(***************************************************************************)
EXTENDS Origin

CONSTANTS
    Calls,              \* the HTTP calls to the passthrough routes
    Requests,           \* requests clients may make
    Responses,          \* answers the node may give
    MaxBodyBytes,       \* --max-body-bytes, or Unset
    UsizeMax,           \* usize::MAX
    PubKey,             \* the value of the sidecar's vRPC-Pubkey
    NodeHonours,        \* the node uses only codings it was offered
    MaxClock,           \* bound on the clock
    Unset, NoRequest, NoResponse

HeaderNames == {"hop-by-hop", "accept-encoding", "content-encoding", "content-range",
                "vrpc-pubkey", "other"}

OtherValues == {"gzip", "identity", "other"}

Headers == [name : HeaderNames, value : OtherValues \cup {PubKey}]

ClientRequests == [id : Nat, size : Nat, path : [len : Nat, valid : BOOLEAN],
                   headers : SUBSET Headers]

(* layers: gzip layers on the text.  compressible: size and media type     *)
(* pass the CompressionLayer's predicate.                                  *)
NodeResponses == [status : Nat, headers : SUBSET Headers, text : Nat, layers : Nat,
                  length : Nat, compressible : BOOLEAN]

ASSUME PassthroughAssumption ==
    /\ Requests \subseteq ClientRequests
    /\ Responses \subseteq NodeResponses
    /\ UsizeMax \in Nat
    /\ MaxBodyBytes \in 0..UsizeMax \cup {Unset}
    /\ Unset \notin Nat
    /\ PubKey \notin OtherValues
    /\ NodeHonours \in BOOLEAN
    /\ MaxClock \in Nat
    /\ NoRequest \notin Requests /\ NoResponse \notin Responses

-----------------------------------------------------------------------------

Cap == IF MaxBodyBytes = Unset THEN UsizeMax ELSE MaxBodyBytes

(* Mutant of WithinCap: an exclusive cap.                                  *)
CapExclusive(bytes) == bytes < Cap

(* Limited: one more frame keeps a body within the cap.                    *)
WithinCap(bytes) == bytes <= Cap

UpstreamUri(r) == OriginPathAndQuery(r.path) /\ OriginUri

Identity == [name |-> "accept-encoding", value |-> "identity"]

OffersGzip == [name |-> "accept-encoding", value |-> "gzip"]

GzipEncoded == [name |-> "content-encoding", value |-> "gzip"]

IsHopByHop(h) == h.name = "hop-by-hop"

(* Mutant of UpstreamHeaders: identity is offered besides the client's     *)
(* codings.                                                                *)
UpstreamHeadersAppended(r) == {h \in r.headers : ~IsHopByHop(h)} \cup {Identity}

(* What the node is sent: the client's headers, with exactly one offered   *)
(* coding.                                                                 *)
UpstreamHeaders(r) ==
    {h \in r.headers : ~IsHopByHop(h) /\ h.name # "accept-encoding"} \cup {Identity}

(* External: a node that honours Accept-Encoding codes its body only with  *)
(* what it was offered; its Content-Encoding may still be wrong.           *)
NodeMayAnswer(r, h) == NodeHonours /\ h.layers > 0 => OffersGzip \in UpstreamHeaders(r)

(* Mutants of RelayedHeaders: the node's Content-Encoding is relayed; the  *)
(* sidecar's own header has another name.                                  *)
RelayedHeadersEncoded(h) ==
    {f \in h.headers : ~IsHopByHop(f)} \cup {[name |-> "vrpc-pubkey", value |-> PubKey]}

RelayedHeadersRenamed(h) ==
    {f \in h.headers : ~IsHopByHop(f) /\ f.name # "content-encoding"}
      \cup {[name |-> "vrpc-key", value |-> PubKey]}

(* build_signed_response: the node's headers and the sidecar's own.  The   *)
(* signature and the timestamp are fields of the answer instead.           *)
RelayedHeaders(h) ==
    {f \in h.headers : ~IsHopByHop(f) /\ f.name # "content-encoding"}
      \cup {[name |-> "vrpc-pubkey", value |-> PubKey]}

Names(headers) == {f.name : f \in headers}

(* External: CompressionLayer codes a response that is not coded yet, for  *)
(* a client that accepts gzip.                                             *)
Compresses(r, h, headers) ==
    /\ OffersGzip \in r.headers
    /\ Names(headers) \cap {"content-encoding", "content-range"} = {}
    /\ h.compressible

-----------------------------------------------------------------------------

VARIABLES
    pc,         \* where each handler is
    req,        \* the request of each call
    got,        \* how much of its body is collected
    sent,       \* how often the call's request was handed to the node's connection
    delivered,  \* how often it reached the node
    head,       \* the node's answer
    total,      \* how much of its body is collected
    answer,     \* what the client receives
    clock, clockOk,   \* the system clock, and whether now_ms can use it
    cause       \* history: why the call ended

callVars == <<pc, req, got, head, total, answer, cause>>
nodeVars == <<sent, delivered>>
clockVars == <<clock, clockOk>>
vars == <<callVars, nodeVars, clockVars>>

Phases == {"idle", "collecting", "connecting", "waiting", "streaming", "done"}

Awaiting == {"collecting", "connecting", "waiting", "streaming"}

AwaitingNode == {"connecting", "waiting", "streaming"}

Causes == {"none", "request cap", "request broken", "uri", "upstream", "response cap",
           "clock", "relayed", "gone"}

(* A body as the handler holds it: possibly a part of the node's.          *)
Contents == [text : Nat, layers : Nat, length : Nat]

NoAnswer == [kind |-> "none", status |-> 0]

PlainAnswer(status) == [kind |-> "plain", status |-> status]

(* gzip: the CompressionLayer coded the content.  signedRequest is how     *)
(* much of the call's own request body the signature covers.               *)
Answers == {NoAnswer} \cup [kind : {"plain"}, status : Nat]
             \cup [kind : {"signed"}, status : Nat, headers : SUBSET Headers,
                   content : Contents, gzip : BOOLEAN,
                   signedRequest : Nat, signedBody : Contents, timestamp : Nat]

Init ==
    /\ pc = [c \in Calls |-> "idle"]
    /\ req = [c \in Calls |-> NoRequest]
    /\ got = [c \in Calls |-> 0]
    /\ sent = [c \in Calls |-> 0]
    /\ delivered = [c \in Calls |-> 0]
    /\ head = [c \in Calls |-> NoResponse]
    /\ total = [c \in Calls |-> 0]
    /\ answer = [c \in Calls |-> NoAnswer]
    /\ clock = 0
    /\ clockOk \in BOOLEAN
    /\ cause = [c \in Calls |-> "none"]

-----------------------------------------------------------------------------
(* collect_request.                                                        *)

Finish(c, why, a) ==
    /\ pc' = [pc EXCEPT ![c] = "done"]
    /\ answer' = [answer EXCEPT ![c] = a]
    /\ cause' = [cause EXCEPT ![c] = why]

Arrive(c, r) ==
    /\ pc[c] = "idle"
    /\ pc' = [pc EXCEPT ![c] = "collecting"]
    /\ req' = [req EXCEPT ![c] = r]
    /\ UNCHANGED <<got, head, total, answer, cause, nodeVars, clockVars>>

RequestFrame(c, n) == pc[c] = "collecting" /\ n <= req[c].size - got[c]

ReadRequest(c, n) ==
    /\ RequestFrame(c, n)
    /\ WithinCap(got[c] + n)
    /\ got' = [got EXCEPT ![c] = @ + n]
    /\ UNCHANGED <<pc, req, head, total, answer, cause, nodeVars, clockVars>>

RequestTooLarge(c, n) ==
    /\ RequestFrame(c, n)
    /\ ~WithinCap(got[c] + n)
    /\ Finish(c, "request cap", PlainAnswer(413))
    /\ UNCHANGED <<req, got, head, total, nodeVars, clockVars>>

(* The transport fails under the upload: the same 413.                     *)
RequestBroken(c) ==
    /\ pc[c] = "collecting"
    /\ Finish(c, "request broken", PlainAnswer(413))
    /\ UNCHANGED <<req, got, head, total, nodeVars, clockVars>>

-----------------------------------------------------------------------------
(* send_upstream.                                                          *)

Collected(c) == pc[c] = "collecting" /\ got[c] = req[c].size

UriFails(c) ==
    /\ Collected(c)
    /\ ~UpstreamUri(req[c])
    /\ Finish(c, "uri", PlainAnswer(500))
    /\ UNCHANGED <<req, got, head, total, nodeVars, clockVars>>

SendUpstream(c) ==
    /\ Collected(c)
    /\ UpstreamUri(req[c])
    /\ pc' = [pc EXCEPT ![c] = "connecting"]
    /\ UNCHANGED <<req, got, head, total, answer, cause, nodeVars, clockVars>>

(* The pool hands out a connection and the request is written to it.       *)
HandOver(c) ==
    /\ pc[c] = "connecting"
    /\ Sendable
    /\ pc' = [pc EXCEPT ![c] = "waiting"]
    /\ sent' = [sent EXCEPT ![c] = @ + 1]
    /\ UNCHANGED <<req, got, head, total, answer, cause, delivered, clockVars>>

(* Mutant of UpstreamFails: a request whose answer was lost is sent again. *)
UpstreamRetries(c) ==
    /\ pc[c] = "waiting" /\ sent[c] < 2
    /\ pc' = [pc EXCEPT ![c] = "connecting"]
    /\ UNCHANGED <<req, got, head, total, answer, cause, nodeVars, clockVars>>

(* The transport fails: connect, request, head or a frame of the body.     *)
UpstreamFails(c) ==
    /\ pc[c] \in AwaitingNode
    /\ Finish(c, "upstream", PlainAnswer(502))
    /\ UNCHANGED <<req, got, head, total, nodeVars, clockVars>>

Respond(c, h) ==
    /\ pc[c] = "waiting"
    /\ delivered[c] > 0
    /\ NodeMayAnswer(req[c], h)
    /\ pc' = [pc EXCEPT ![c] = "streaming"]
    /\ head' = [head EXCEPT ![c] = h]
    /\ UNCHANGED <<req, got, total, answer, cause, nodeVars, clockVars>>

-----------------------------------------------------------------------------
(* collect_upstream_response.                                              *)

BodyFrame(c, n) == pc[c] = "streaming" /\ n <= head[c].length - total[c]

ReadBody(c, n) ==
    /\ BodyFrame(c, n)
    /\ WithinCap(total[c] + n)
    /\ total' = [total EXCEPT ![c] = @ + n]
    /\ UNCHANGED <<pc, req, got, head, answer, cause, nodeVars, clockVars>>

(* Mutant of BodyTooLarge: the frame is dropped and the handler goes on    *)
(* waiting for the end.                                                    *)
FrameDropped(c, n) ==
    /\ BodyFrame(c, n)
    /\ ~WithinCap(total[c] + n)
    /\ UNCHANGED vars

BodyTooLarge(c, n) ==
    /\ BodyFrame(c, n)
    /\ ~WithinCap(total[c] + n)
    /\ Finish(c, "response cap", PlainAnswer(502))
    /\ UNCHANGED <<req, got, head, total, nodeVars, clockVars>>

BodyEnd(c) == pc[c] = "streaming" /\ total[c] = head[c].length

-----------------------------------------------------------------------------
(* sign_or_500, build_signed_response and the CompressionLayer.            *)

Content(c) == [text |-> head[c].text, layers |-> head[c].layers, length |-> total[c]]

SignedAnswer(c) ==
    LET headers == RelayedHeaders(head[c])
        gzip == Compresses(req[c], head[c], headers)
    IN  [kind |-> "signed", status |-> head[c].status,
         headers |-> headers \cup (IF gzip THEN {GzipEncoded} ELSE {}),
         content |-> Content(c), gzip |-> gzip,
         signedRequest |-> got[c], signedBody |-> Content(c), timestamp |-> clock]

Relay(c) ==
    /\ BodyEnd(c)
    /\ clockOk
    /\ Finish(c, "relayed", SignedAnswer(c))
    /\ UNCHANGED <<req, got, head, total, nodeVars, clockVars>>

SignFails(c) ==
    /\ BodyEnd(c)
    /\ ~clockOk
    /\ Finish(c, "clock", PlainAnswer(500))
    /\ UNCHANGED <<req, got, head, total, nodeVars, clockVars>>

(* The client disconnects: the future is dropped at its await.             *)
ClientGone(c) ==
    /\ pc[c] \in Awaiting
    /\ Finish(c, "gone", NoAnswer)
    /\ UNCHANGED <<req, got, head, total, nodeVars, clockVars>>

-----------------------------------------------------------------------------
(* Environment.                                                            *)

(* Request bytes in flight reach the node at any time, if ever: also after *)
(* the handler gave up on the call.                                        *)
Deliver(c) ==
    /\ delivered[c] < sent[c]
    /\ delivered' = [delivered EXCEPT ![c] = @ + 1]
    /\ UNCHANGED <<callVars, sent, clockVars>>

ClockTick ==
    /\ clock < MaxClock
    /\ clock' = clock + 1
    /\ UNCHANGED <<callVars, nodeVars, clockOk>>

ClockTurns ==
    /\ clockOk' = ~clockOk
    /\ UNCHANGED <<callVars, nodeVars, clock>>

(* The steps a handler takes without waiting for anyone.                   *)
HandlerStep(c) == UriFails(c) \/ SendUpstream(c) \/ Relay(c) \/ SignFails(c)

ClientStep(c) ==
    \/ \E r \in Requests : Arrive(c, r)
    \/ \E n \in 1..(Cap + 1) : ReadRequest(c, n) \/ RequestTooLarge(c, n)
    \/ RequestBroken(c)
    \/ ClientGone(c)

Connect(c) == HandOver(c) \/ (pc[c] = "connecting" /\ UpstreamFails(c))

NodeAnswers(c) ==
    \/ \E h \in Responses : Respond(c, h)
    \/ \E n \in 1..(Cap + 1) : ReadBody(c, n) \/ BodyTooLarge(c, n)

NodeStep(c) == Connect(c) \/ NodeAnswers(c) \/ UpstreamFails(c) \/ Deliver(c)

Next ==
    \/ \E c \in Calls : HandlerStep(c) \/ ClientStep(c) \/ NodeStep(c)
    \/ ClockTick
    \/ ClockTurns

Spec == Init /\ [][Next]_vars

(* A ready handler is polled; a connection attempt ends; a node that got   *)
(* the request answers it to the end.  The last is an assumption about the *)
(* node: nothing in the sidecar bounds the wait for it.                    *)
FairSpec ==
    /\ Spec
    /\ \A c \in Calls : /\ WF_vars(HandlerStep(c)) /\ WF_vars(Connect(c))
                        /\ WF_vars(Deliver(c)) /\ WF_vars(NodeAnswers(c))

-----------------------------------------------------------------------------

(* TypeOK: the state of the handlers keeps its types; in particular the    *)
(* headers that are relayed and the signed content are well formed.        *)
TypeOK ==
    /\ pc \in [Calls -> Phases]
    /\ req \in [Calls -> Requests \cup {NoRequest}]
    /\ got \in [Calls -> Nat]
    /\ sent \in [Calls -> Nat]
    /\ delivered \in [Calls -> Nat]
    /\ head \in [Calls -> Responses \cup {NoResponse}]
    /\ total \in [Calls -> Nat]
    /\ answer \in [Calls -> Answers]
    /\ clock \in Nat
    /\ clockOk \in BOOLEAN
    /\ cause \in [Calls -> Causes]

Done(c) == pc[c] = "done"

Signed(c) == answer[c].kind = "signed"

(* VerifiesAtClient: a client that undoes the Content-Encoding it is told  *)
(* of holds exactly the bytes that were signed; they are the whole body of *)
(* the node's answer, with its status, to the client's whole request,      *)
(* which the node did receive.                                             *)
VerifiesAtClient ==
    \A c \in Calls : Signed(c) =>
        LET a == answer[c]
        IN  /\ "content-encoding" \in Names(a.headers) <=> a.gzip
            /\ a.signedBody = a.content
            /\ a.content.length = head[c].length /\ a.status = head[c].status
            /\ a.signedRequest = req[c].size
            /\ delivered[c] > 0

(* SignedIsPlaintext: the signed bytes are the node's text without any     *)
(* coding, whatever the client accepts: the node is offered identity and   *)
(* nothing else (send_upstream).                                           *)
SignedIsPlaintext ==
    \A c \in Calls : Signed(c) => answer[c].signedBody.layers = 0

(* LimitsExact: a body over the cap is never forwarded or relayed and no   *)
(* more than the cap is ever held of it; a body within the cap is refused  *)
(* for its size by neither Limited.                                        *)
LimitsExact ==
    \A c \in Calls :
        /\ got[c] <= Cap /\ total[c] <= Cap
        /\ sent[c] > 0 => req[c].size <= Cap
        /\ Signed(c) => head[c].length <= Cap
        /\ cause[c] = "request cap" => req[c].size > Cap
        /\ cause[c] = "response cap" => head[c].length > Cap

(* NoSilent500s: what the comment on UpstreamClient::upstream_url says: a  *)
(* URL that cannot serve requests aborts boot and never makes them 500s.   *)
(* Only an unusable clock, or a path that does not fit, gives one.         *)
NoSilent500s ==
    \A c \in Calls : answer[c].kind = "plain" /\ answer[c].status = 500 =>
        cause[c] = "clock" \/ ~OriginPathAndQuery(req[c].path)

(* OnePubkey: what the README says of the pubkey of /attestation: it is    *)
(* the vRPC-Pubkey value of every signed response, whatever headers the    *)
(* node sends.                                                             *)
OnePubkey ==
    \A c \in Calls : Signed(c) =>
        \A f \in answer[c].headers : f.name = "vrpc-pubkey" => f.value = PubKey

(* EndsIfNodeAnswers: once the request has arrived, the call ends, as long *)
(* as the node and the network do their part; a body over the cap, a       *)
(* failing clock or a path that makes no URI do not stall it.              *)
EndsIfNodeAnswers == \A c \in Calls : Collected(c) ~> Done(c)

-----------------------------------------------------------------------------
(* Refinement: what the calls promise about the node (NodeCall).           *)

Ending(why) ==
    IF why \in {"request cap", "request broken", "uri"} THEN "refused"
    ELSE IF why = "relayed" THEN "relayed"
    ELSE IF why = "gone" THEN "dropped"
    ELSE "uncertain"

Stage ==
    [c \in Calls |-> IF pc[c] = "idle" THEN "new"
                     ELSE IF Done(c) THEN Ending(cause[c]) ELSE "open"]

N == INSTANCE NodeCall WITH stage <- Stage, handed <- sent

(* ForwardsOnce: the handlers implement NodeCall: a request is handed to   *)
(* the node at most once and never after the call ended; a 413, and a 500  *)
(* for a URI that cannot be formed, leave the node uncalled; a signed      *)
(* answer is given only to a request that was handed over.                 *)
ForwardsOnce == N!Spec

=============================================================================
