---------------------------- MODULE Confidential ----------------------------
(***************************************************************************)
(* POST /confidential: concurrent encrypted exchanges, each run by one     *)
(* handler future (confidential.rs, confidential/upstream.rs, with         *)
(* envelope.rs and signing.rs as symbolic cryptography).                   *)
(*                                                                         *)
(* A handler yields only at an await: while it collects the outer body and *)
(* while it waits for the node.  A client that disconnects drops the       *)
(* future at such a point and nowhere else, so everything between two      *)
(* awaits is one action, split only where it reads the clock a second      *)
(* time ("sealing").  Calls share the clock, the random generator and the  *)
(* node; nothing else.                                                     *)
(***************************************************************************)
EXTENDS InnerRequest, FiniteSets

CONSTANTS
    Calls,              \* the HTTP calls to the route
    Requests,           \* outer request bodies clients may post
    Responses,          \* answers the node may give
    Encs,               \* encapsulated KEM shares
    Nonces,             \* values of the random generator
    MinEnvelope,        \* HDR_LEN + ENC_LEN + TAG_LEN
    MaxRequestBytes, MaxResponseBytes, MaxBatchSize,   \* ConfidentialConfig
    MaxClock,           \* bound on the clock
    NoRequest, NoResponse, NoNonce

(* hdr: the first seven bytes are the fixed suite header.  authentic: the  *)
(* share decapsulates and the ciphertext opens.  id: the bytes themselves, *)
(* so that two calls with the same record are a replay.                    *)
OuterRequests == [id : Nat, size : Nat, hdr : BOOLEAN, authentic : BOOLEAN,
                  enc : Encs, inner : Plaintexts]

(* sized: the body comes with a length (a Content-Length), which hyper     *)
(* reports as the lower size hint; otherwise the hint is 0.                *)
NodeResponses == [status : 100..999, identity : BOOLEAN, sized : BOOLEAN, length : Nat]

ASSUME ConfidentialAssumption ==
    /\ Requests \subseteq OuterRequests
    /\ Responses \subseteq NodeResponses
    /\ MinEnvelope \in Nat /\ MaxRequestBytes \in Nat /\ MaxResponseBytes \in Nat
    /\ MaxBatchSize \in 1..1000
    /\ MaxClock \in Nat
    /\ NoRequest \notin Requests /\ NoResponse \notin Responses /\ NoNonce \notin Nonces

-----------------------------------------------------------------------------

InnerErrors == {"bad-request", "unsupported-media-type", "batch-too-large",
                "upstream", "upstream-timeout", "internal"}

PlaintextClasses == {"pre-decapsulation", "request-too-large", "request-read-failed",
                     "method-not-allowed", "unsealable"}

OutcomeClasses == InnerErrors \cup PlaintextClasses \cup {"ok", "cancelled"}

InnerStatus(e) ==
    CASE e = "bad-request"            -> 400
      [] e = "unsupported-media-type" -> 415
      [] e = "batch-too-large"        -> 413
      [] e = "upstream"               -> 502
      [] e = "upstream-timeout"       -> 504
      [] OTHER                        -> 500

PlaintextStatus(class) ==
    CASE class = "request-too-large"   -> 413
      [] class = "request-read-failed" -> 400
      [] class = "pre-decapsulation"   -> 400
      [] class = "method-not-allowed"  -> 405
      [] OTHER                         -> 500

OuterStatus(inner) == IF inner \in {204, 205, 304} THEN 200 ELSE inner

(* open_request: one error whatever is wrong.                              *)
OpenRequest(r) ==
    /\ r.size >= MinEnvelope
    /\ r.hdr
    /\ r.authentic

(* Mutants of Verdict: a batch over the limit goes to the node; the two    *)
(* 413s are taken for one another.                                         *)
VerdictUncounted(p) ==
    IF DecodeInner(p) # "ok" THEN DecodeInner(p)
    ELSE IF ~OriginPathAndQuery(p.path) THEN "bad-request"
    ELSE IF ~OriginUri THEN "internal"
    ELSE "ok"

VerdictMisnamed(p) ==
    IF DecodeInner(p) # "ok" THEN DecodeInner(p)
    ELSE IF BatchSize(p.body) > MaxBatchSize THEN "request-too-large"
    ELSE "ok"

(* What run_inner does up to the node call: the error it returns without   *)
(* calling the node, or "ok".                                              *)
Verdict(p) ==
    IF DecodeInner(p) # "ok" THEN DecodeInner(p)
    ELSE IF BatchSize(p.body) > MaxBatchSize THEN "batch-too-large"
    ELSE IF ~OriginPathAndQuery(p.path) THEN "bad-request"
    ELSE IF ~OriginUri THEN "internal"
    ELSE "ok"

(* An error raised before counting is reported with batch size 1.          *)
CountedBatch(p) == IF DecodeInner(p) = "ok" THEN BatchSize(p.body) ELSE 1

SizeHint(h) == IF h.sized THEN h.length ELSE 0

(* The node's response head is accepted for reading.                       *)
AcceptsHead(h) ==
    /\ h.status \in 200..599
    /\ h.identity
    /\ SizeHint(h) <= MaxResponseBytes

(* Mutants of WithinCap: an exclusive cap; a cap checked one byte late.    *)
CapExclusive(bytes, cap) == bytes < cap

CapLate(bytes, cap) == bytes <= cap + 1

(* One more frame keeps a body within its cap; the cap is inclusive.       *)
WithinCap(bytes, cap) == bytes <= cap

-----------------------------------------------------------------------------

VARIABLES
    pc,         \* where each handler is
    outer,      \* the outer body each client posts
    got,        \* how much of it read_outer has collected
    nonce,      \* the response nonce of each call
    batch,      \* batch_size of each call
    sent,       \* how often the call's request was handed to the node's connection
    delivered,  \* how often it reached the node
    head,       \* the node's answer
    total,      \* how much of its body was read
    result,     \* what run_inner returned: "pending", "ok" or an InnerError
    answer,     \* what the client receives
    log,        \* the `confidential call` lines of each call
    clock, clockOk,   \* the system clock, and whether now_ms can use it
    drawn,      \* values the random generator has produced
    sealed,     \* history: every response encryption performed
    resultAt,   \* history: the clock when run_inner returned
    broke       \* history: the upstream transport failed

callVars == <<pc, outer, got, nonce, batch, head, total, result, answer, log>>
nodeVars == <<sent, delivered>>
sharedVars == <<clock, clockOk, drawn, sealed>>
historyVars == <<resultAt, broke>>
vars == <<callVars, nodeVars, sharedVars, historyVars>>

Phases == {"idle", "reading", "connecting", "waiting", "streaming", "sealing", "done"}

(* Awaits of the handler: where the future can be dropped.                 *)
Awaiting == {"reading", "connecting", "waiting", "streaming"}

(* Mutant of AwaitingNode: the timeout ends at the response head.          *)
AwaitingHead == {"connecting", "waiting"}

(* The awaits that run under tokio::time::timeout.                         *)
AwaitingNode == {"connecting", "waiting", "streaming"}

NoAnswer == [kind |-> "none", status |-> 0]

PlainAnswer(status) == [kind |-> "plain", status |-> status]

(* The symbolic ciphertext: the key is derived from the KEM share and the  *)
(* nonce, so the pair names the key.                                       *)
Ciphertexts == [call : Calls, enc : Encs, nonce : Nonces, status : Nat, length : Nat]

Answers == {NoAnswer} \cup [kind : {"plain"}, status : Nat]
             \cup [kind : {"sealed"}, status : Nat, batch : Nat, body : Ciphertexts,
                   signedRequest : Requests, signedBody : Ciphertexts, timestamp : Nat]

LogLines == [class : OutcomeClasses, status : Nat, inner : Nat, batch : Nat]

Init ==
    /\ pc = [c \in Calls |-> "idle"]
    /\ outer = [c \in Calls |-> NoRequest]
    /\ got = [c \in Calls |-> 0]
    /\ nonce = [c \in Calls |-> NoNonce]
    /\ batch = [c \in Calls |-> 0]
    /\ sent = [c \in Calls |-> 0]
    /\ delivered = [c \in Calls |-> 0]
    /\ head = [c \in Calls |-> NoResponse]
    /\ total = [c \in Calls |-> 0]
    /\ result = [c \in Calls |-> "pending"]
    /\ answer = [c \in Calls |-> NoAnswer]
    /\ log = [c \in Calls |-> << >>]
    /\ clock = 0
    /\ clockOk \in BOOLEAN
    /\ drawn = {}
    /\ sealed = {}
    /\ resultAt = [c \in Calls |-> 0]
    /\ broke = [c \in Calls |-> FALSE]

-----------------------------------------------------------------------------
(* Mutant of Finish: the line carries the inner status in place of the     *)
(* response's.                                                             *)
FinishInnerStatus(c, class, inner, n, a) ==
    /\ pc' = [pc EXCEPT ![c] = "done"]
    /\ answer' = [answer EXCEPT ![c] = a]
    /\ log' = [log EXCEPT ![c] = Append(@, [class |-> class, inner |-> inner, batch |-> n,
                  status |-> IF inner = 0 THEN a.status ELSE inner])]

(* The end of a handler: the response leaves, and the dropped OutcomeGuard *)
(* logs the call's line with the response's status.                        *)
Finish(c, class, inner, n, a) ==
    /\ pc' = [pc EXCEPT ![c] = "done"]
    /\ answer' = [answer EXCEPT ![c] = a]
    /\ log' = [log EXCEPT ![c] = Append(@, [class |-> class, status |-> a.status,
                                            inner |-> inner, batch |-> n])]

(* A call that ends before a sealed response exists.                       *)
FinishPlaintext(c, class, n) ==
    Finish(c, class, 0, n, PlainAnswer(PlaintextStatus(class)))

Post(c, r) ==
    /\ pc[c] = "idle"
    /\ pc' = [pc EXCEPT ![c] = "reading"]
    /\ outer' = [outer EXCEPT ![c] = r]
    /\ UNCHANGED <<got, nonce, batch, head, total, result, answer, log,
                   nodeVars, sharedVars, historyVars>>

MethodNotAllowed(c) ==
    /\ pc[c] = "idle"
    /\ FinishPlaintext(c, "method-not-allowed", 0)
    /\ UNCHANGED <<outer, got, nonce, batch, head, total, result,
                   nodeVars, sharedVars, historyVars>>

-----------------------------------------------------------------------------
(* read_outer: frames of the outer body, collected under the request cap.  *)

Frame(c, n) == pc[c] = "reading" /\ n <= outer[c].size - got[c]

ReadFrame(c, n) ==
    /\ Frame(c, n)
    /\ WithinCap(got[c] + n, MaxRequestBytes)
    /\ got' = [got EXCEPT ![c] = @ + n]
    /\ UNCHANGED <<pc, outer, nonce, batch, head, total, result, answer, log,
                   nodeVars, sharedVars, historyVars>>

RequestTooLarge(c, n) ==
    /\ Frame(c, n)
    /\ ~WithinCap(got[c] + n, MaxRequestBytes)
    /\ FinishPlaintext(c, "request-too-large", 0)
    /\ UNCHANGED <<outer, got, nonce, batch, head, total, result,
                   nodeVars, sharedVars, historyVars>>

(* The transport fails under the upload, or in place of its end.           *)
RequestReadFailed(c) ==
    /\ pc[c] = "reading"
    /\ FinishPlaintext(c, "request-read-failed", 0)
    /\ UNCHANGED <<outer, got, nonce, batch, head, total, result,
                   nodeVars, sharedVars, historyVars>>

-----------------------------------------------------------------------------
(* From the end of the outer body to the next await.                       *)

Collected(c) == pc[c] = "reading" /\ got[c] = outer[c].size

PreDecapsulation(c) ==
    /\ Collected(c)
    /\ ~OpenRequest(outer[c])
    /\ FinishPlaintext(c, "pre-decapsulation", 0)
    /\ UNCHANGED <<outer, got, nonce, batch, head, total, result,
                   nodeVars, sharedVars, historyVars>>

(* Without a nonce or a usable clock no answer could be sealed and signed, *)
(* so the node is not called.                                              *)
RefuseUnsealable(c) ==
    /\ Collected(c)
    /\ OpenRequest(outer[c])
    /\ \E nonceFails \in BOOLEAN : nonceFails \/ ~clockOk
    /\ FinishPlaintext(c, "unsealable", 0)
    /\ UNCHANGED <<outer, got, nonce, batch, head, total, result,
                   nodeVars, sharedVars, historyVars>>

(* Mutant of FreshNonces: the nonce buffer is never filled.                *)
UnfilledNonce == {CHOOSE n \in Nonces : TRUE}

(* getrandom: 32 random bytes never repeat a value produced before.        *)
FreshNonces == Nonces \ drawn

Open(c) ==
    /\ Collected(c)
    /\ OpenRequest(outer[c])
    /\ clockOk
    /\ \E n \in FreshNonces :
         /\ nonce' = [nonce EXCEPT ![c] = n]
         /\ drawn' = drawn \cup {n}
    /\ batch' = [batch EXCEPT ![c] = CountedBatch(outer[c].inner)]
    /\ UNCHANGED <<outer, got, head, total, answer, log,
                   nodeVars, clock, clockOk, sealed, broke>>

(* run_inner returns: seal_inner is next.                                  *)
InnerDone(c, r) ==
    /\ pc' = [pc EXCEPT ![c] = "sealing"]
    /\ result' = [result EXCEPT ![c] = r]
    /\ resultAt' = [resultAt EXCEPT ![c] = clock]

RefuseInner(c) ==
    /\ Open(c)
    /\ Verdict(outer[c].inner) # "ok"
    /\ InnerDone(c, Verdict(outer[c].inner))

CallUpstream(c) ==
    /\ Open(c)
    /\ Verdict(outer[c].inner) = "ok"
    /\ pc' = [pc EXCEPT ![c] = "connecting"]
    /\ UNCHANGED <<result, resultAt>>

-----------------------------------------------------------------------------
(* read_upstream, under the timeout of call_upstream.                      *)

(* The pool hands out a connection and the request is written to it.  A    *)
(* pooled connection found closed before that is replaced by the client    *)
(* (hyper) without a visible step.                                         *)
SendRequest(c) ==
    /\ pc[c] = "connecting"
    /\ Sendable
    /\ pc' = [pc EXCEPT ![c] = "waiting"]
    /\ sent' = [sent EXCEPT ![c] = @ + 1]
    /\ UNCHANGED <<outer, got, nonce, batch, head, total, result, answer, log,
                   delivered, sharedVars, historyVars>>

(* Mutant of UpstreamFails: a request whose answer was lost is sent again. *)
UpstreamRetries(c) ==
    /\ pc[c] = "waiting" /\ sent[c] < 2
    /\ pc' = [pc EXCEPT ![c] = "connecting"]
    /\ UNCHANGED <<outer, got, nonce, batch, head, total, result, answer, log,
                   nodeVars, sharedVars, historyVars>>

(* The transport fails: connect, request, response head or a body frame.   *)
UpstreamFails(c) ==
    /\ pc[c] \in AwaitingNode
    /\ InnerDone(c, "upstream")
    /\ broke' = [broke EXCEPT ![c] = TRUE]
    /\ UNCHANGED <<outer, got, nonce, batch, head, total, answer, log,
                   nodeVars, sharedVars>>

Respond(c, h) ==
    /\ pc[c] = "waiting"
    /\ delivered[c] > 0
    /\ head' = [head EXCEPT ![c] = h]
    /\ UNCHANGED <<outer, got, nonce, batch, total, answer, log,
                   nodeVars, sharedVars, broke>>

AcceptHead(c, h) ==
    /\ Respond(c, h)
    /\ AcceptsHead(h)
    /\ pc' = [pc EXCEPT ![c] = "streaming"]
    /\ UNCHANGED <<result, resultAt>>

RejectHead(c, h) ==
    /\ Respond(c, h)
    /\ ~AcceptsHead(h)
    /\ InnerDone(c, "upstream")

BodyFrame(c, n) == pc[c] = "streaming" /\ n <= head[c].length - total[c]

ReadBody(c, n) ==
    /\ BodyFrame(c, n)
    /\ WithinCap(total[c] + n, MaxResponseBytes)
    /\ total' = [total EXCEPT ![c] = @ + n]
    /\ UNCHANGED <<pc, outer, got, nonce, batch, head, result, answer, log,
                   nodeVars, sharedVars, historyVars>>

BodyTooLarge(c, n) ==
    /\ BodyFrame(c, n)
    /\ ~WithinCap(total[c] + n, MaxResponseBytes)
    /\ InnerDone(c, "upstream")
    /\ UNCHANGED <<outer, got, nonce, batch, head, total, answer, log,
                   nodeVars, sharedVars, broke>>

(* Mutant of BodyEnd: a body cut short counts as complete.                 *)
BodyCut(c) ==
    /\ pc[c] = "streaming"
    /\ InnerDone(c, "ok")
    /\ UNCHANGED <<outer, got, nonce, batch, head, total, answer, log,
                   nodeVars, sharedVars, broke>>

BodyEnd(c) ==
    /\ pc[c] = "streaming"
    /\ total[c] = head[c].length
    /\ InnerDone(c, "ok")
    /\ UNCHANGED <<outer, got, nonce, batch, head, total, answer, log,
                   nodeVars, sharedVars, broke>>

UpstreamTimeout(c) ==
    /\ pc[c] \in AwaitingNode
    /\ InnerDone(c, "upstream-timeout")
    /\ UNCHANGED <<outer, got, nonce, batch, head, total, answer, log,
                   nodeVars, sharedVars, broke>>

-----------------------------------------------------------------------------
(* seal_inner, sign and the answer: no await in between.                   *)

(* A response of the node that does not encode becomes an internal error.  *)
SealedClass(c, encodes) ==
    IF result[c] = "ok" /\ ~encodes THEN "internal" ELSE result[c]

SealInner(c, class) ==
    [call |-> c, enc |-> outer[c].enc, nonce |-> nonce[c],
     status |-> IF class = "ok" THEN head[c].status ELSE InnerStatus(class),
     length |-> IF class = "ok" THEN total[c] ELSE 0]

(* Mutant of Sign: the timestamp is the one of the start of the process.   *)
SignAtBoot(c, body) ==
    [kind |-> "sealed", status |-> OuterStatus(body.status), batch |-> batch[c],
     body |-> body, signedRequest |-> outer[c], signedBody |-> body, timestamp |-> 0]

(* The signature's pre-image: both outer bodies and the time of signing.   *)
Sign(c, body) ==
    [kind |-> "sealed", status |-> OuterStatus(body.status), batch |-> batch[c],
     body |-> body, signedRequest |-> outer[c], signedBody |-> body, timestamp |-> clock]

SealAndSign(c) ==
    /\ pc[c] = "sealing"
    /\ clockOk
    /\ \E encodes \in BOOLEAN :
         LET class == SealedClass(c, encodes)
             body == SealInner(c, class)
         IN  /\ sealed' = sealed \cup {body}
             /\ Finish(c, class, body.status, batch[c], Sign(c, body))
    /\ UNCHANGED <<outer, got, nonce, batch, head, total, result,
                   nodeVars, clock, clockOk, drawn, historyVars>>

(* The clock failed since RefuseUnsealable looked: the ciphertext exists   *)
(* but cannot be signed and is dropped.                                    *)
SignFails(c) ==
    /\ pc[c] = "sealing"
    /\ ~clockOk
    /\ \E encodes \in BOOLEAN :
         sealed' = sealed \cup {SealInner(c, SealedClass(c, encodes))}
    /\ FinishPlaintext(c, "unsealable", batch[c])
    /\ UNCHANGED <<outer, got, nonce, batch, head, total, result,
                   nodeVars, clock, clockOk, drawn, historyVars>>

(* The AEAD, or the encoding of an error response, fails.                  *)
SealFails(c) ==
    /\ pc[c] = "sealing"
    /\ FinishPlaintext(c, "unsealable", batch[c])
    /\ UNCHANGED <<outer, got, nonce, batch, head, total, result,
                   nodeVars, sharedVars, historyVars>>

(* The client disconnects: the future is dropped at its await, and the     *)
(* OutcomeGuard logs the call without an outcome.                          *)
ClientGone(c) ==
    /\ pc[c] \in Awaiting
    /\ Finish(c, "cancelled", 0, 0, NoAnswer)
    /\ UNCHANGED <<outer, got, nonce, batch, head, total, result,
                   nodeVars, sharedVars, historyVars>>

-----------------------------------------------------------------------------
(* Environment.                                                            *)

(* Request bytes in flight reach the node, if they ever do, at any time:   *)
(* also after the handler gave up on the call.                             *)
Deliver(c) ==
    /\ delivered[c] < sent[c]
    /\ delivered' = [delivered EXCEPT ![c] = @ + 1]
    /\ UNCHANGED <<callVars, sent, sharedVars, historyVars>>

(* The clock is assumed not to run backwards while now_ms can use it.      *)
ClockTick ==
    /\ clock < MaxClock
    /\ clock' = clock + 1
    /\ UNCHANGED <<callVars, nodeVars, clockOk, drawn, sealed, historyVars>>

(* now_ms starts or stops failing (a clock set before 1970).               *)
ClockTurns ==
    /\ clockOk' = ~clockOk
    /\ UNCHANGED <<callVars, nodeVars, clock, drawn, sealed, historyVars>>

(* The steps a handler takes without waiting for anyone.                   *)
HandlerStep(c) ==
    \/ PreDecapsulation(c)
    \/ RefuseUnsealable(c)
    \/ RefuseInner(c)
    \/ CallUpstream(c)
    \/ SealAndSign(c)
    \/ SignFails(c)
    \/ SealFails(c)

Arrivals(c) ==
    \/ \E r \in Requests : Post(c, r)
    \/ MethodNotAllowed(c)
    \/ \E n \in 1..(MaxRequestBytes + 1) : ReadFrame(c, n) \/ RequestTooLarge(c, n)
    \/ RequestReadFailed(c)
    \/ ClientGone(c)

NodeStep(c) ==
    \/ SendRequest(c)
    \/ UpstreamFails(c)
    \/ \E h \in Responses : AcceptHead(c, h) \/ RejectHead(c, h)
    \/ \E n \in 1..(MaxResponseBytes + 1) : ReadBody(c, n) \/ BodyTooLarge(c, n)
    \/ BodyEnd(c)
    \/ Deliver(c)

Next ==
    \/ \E c \in Calls : HandlerStep(c) \/ Arrivals(c) \/ NodeStep(c) \/ UpstreamTimeout(c)
    \/ ClockTick
    \/ ClockTurns

Spec == Init /\ [][Next]_vars

(* A ready handler is polled and a timer fires.  Nothing is assumed of the *)
(* client, the node or the network.                                        *)
FairSpec ==
    /\ Spec
    /\ \A c \in Calls : WF_vars(HandlerStep(c)) /\ WF_vars(UpstreamTimeout(c))

-----------------------------------------------------------------------------

(* TypeOK: the state of the handlers keeps its types; in particular        *)
(* run_inner returns only errors that InnerError names, a log line has a   *)
(* class of OutcomeClass, and a sealed answer has a signature over a       *)
(* request of this run.                                                    *)
TypeOK ==
    /\ pc \in [Calls -> Phases]
    /\ outer \in [Calls -> Requests \cup {NoRequest}]
    /\ got \in [Calls -> Nat]
    /\ nonce \in [Calls -> Nonces \cup {NoNonce}]
    /\ batch \in [Calls -> Nat]
    /\ sent \in [Calls -> Nat]
    /\ delivered \in [Calls -> Nat]
    /\ head \in [Calls -> Responses \cup {NoResponse}]
    /\ total \in [Calls -> Nat]
    /\ result \in [Calls -> {"pending", "ok"} \cup InnerErrors]
    /\ answer \in [Calls -> Answers]
    /\ log \in [Calls -> Seq(LogLines)]
    /\ clock \in Nat
    /\ clockOk \in BOOLEAN
    /\ drawn \subseteq Nonces
    /\ sealed \subseteq Ciphertexts
    /\ resultAt \in [Calls -> Nat]
    /\ broke \in [Calls -> BOOLEAN]

-----------------------------------------------------------------------------
(* Properties.                                                             *)

Done(c) == pc[c] = "done"

Line(c) == log[c][1]

(* The README's errors with "Upstream called: no": everything before       *)
(* decryption, and the encrypted 400, 415 and 413.                         *)
NotCalledClasses ==
    {"pre-decapsulation", "request-too-large", "request-read-failed", "method-not-allowed",
     "bad-request", "unsupported-media-type", "batch-too-large"}

(* The answer says the node was not called.  A 500 given by the early      *)
(* clock and nonce check has batch size 0, a later one at least 1.         *)
Refused(line) ==
    \/ line.class \in NotCalledClasses
    \/ line.class = "unsealable" /\ line.batch = 0

(* NodeUntouched: a call answered with an error that promises the node was *)
(* not called never reaches the node, neither before the answer nor by     *)
(* bytes still in flight after it; the same holds of a 500 given before    *)
(* the batch was counted (the early clock and nonce check of               *)
(* sealed_exchange), and no batch over the limit is ever handed over.      *)
NodeUntouched ==
    \A c \in Calls :
        /\ Done(c) /\ Refused(Line(c)) => sent[c] = 0 /\ delivered[c] = 0
        /\ delivered[c] > 0 => BatchSize(outer[c].inner.body) <= MaxBatchSize

(* KeyUsedOnce: no two response encryptions use the same key, which the    *)
(* KEM share and the response nonce determine: not for two calls that post *)
(* the same bytes, and not when one call encrypts an error in place of the *)
(* node's answer.                                                          *)
KeyUsedOnce ==
    \A s, t \in sealed : s.enc = t.enc /\ s.nonce = t.nonce => s = t

(* AnswerBindsExchange: an encrypted answer can be opened with this call's *)
(* key only, its signature covers this call's request and the body that    *)
(* is sent, and a relayed answer is the node's status and its whole body,  *)
(* given to this call's own request.                                       *)
AnswerBindsExchange ==
    \A c \in Calls : answer[c].kind = "sealed" =>
        LET a == answer[c]
        IN  /\ a.signedRequest = outer[c]
            /\ a.signedBody = a.body
            /\ a.body.enc = outer[c].enc /\ a.body.nonce = nonce[c]
            /\ Line(c).class = "ok" =>
                 /\ delivered[c] > 0
                 /\ a.body.status = head[c].status
                 /\ a.body.length = head[c].length

(* TimestampFollowsResult: the signed timestamp is read after the node's   *)
(* answer was complete, not at the clock check that precedes the node      *)
(* call.                                                                   *)
TimestampFollowsResult ==
    \A c \in Calls : answer[c].kind = "sealed" =>
        /\ resultAt[c] <= answer[c].timestamp
        /\ answer[c].timestamp <= clock

(* An answer of the node that the README says is relayed.                  *)
Relayable(h) == h.status \in 200..599 /\ h.identity /\ h.length <= MaxResponseBytes

(* VerdictsJustified: each limit refuses exactly what is over it.  A 413   *)
(* before decryption means a body over the request cap and nothing over it *)
(* is opened; a 502 means a transport failure or an answer that may not be *)
(* relayed, and only an answer that may be relayed is; a batch 413 means a *)
(* count over the limit.                                                   *)
VerdictsJustified ==
    \A c \in Calls : Done(c) =>
        LET class == Line(c).class
        IN  /\ class = "request-too-large" => outer[c].size > MaxRequestBytes
            /\ nonce[c] # NoNonce => outer[c].size <= MaxRequestBytes
            /\ class = "upstream" =>
                 broke[c] \/ (head[c] # NoResponse /\ ~Relayable(head[c]))
            /\ class = "ok" => Relayable(head[c])
            /\ class = "batch-too-large" => batch[c] > MaxBatchSize

(* LogTellsOutcome: a call has no line until it ends and exactly one then; *)
(* the line's status is the one the client got (0 and "cancelled" exactly  *)
(* when the client got nothing), its class says whether the answer was     *)
(* encrypted, and its batch size is the one in vRPC-Batch-Size.            *)
LogTellsOutcome ==
    \A c \in Calls :
        IF ~Done(c) THEN log[c] = << >> /\ answer[c] = NoAnswer
        ELSE /\ Len(log[c]) = 1
             /\ Line(c).status = answer[c].status
             /\ Line(c).class = "cancelled" <=> answer[c].kind = "none"
             /\ Line(c).class \in PlaintextClasses <=> answer[c].kind = "plain"
             /\ answer[c].kind = "sealed" => /\ Line(c).batch = answer[c].batch
                                             /\ Line(c).inner = answer[c].body.status

(* BufferedWithinCaps: what a handler holds of either body never exceeds   *)
(* the configured cap, not even for the frame that crosses it.             *)
BufferedWithinCaps ==
    \A c \in Calls : got[c] <= MaxRequestBytes /\ total[c] <= MaxResponseBytes

(* CompletesOnceCollected: once the outer body has arrived, a call ends,   *)
(* with an answer or with the client gone, whatever the node does: the     *)
(* timeout covers connect, head and body.                                  *)
CompletesOnceCollected ==
    \A c \in Calls : Collected(c) ~> Done(c)

-----------------------------------------------------------------------------
(* Refinement: what the calls promise about the node (NodeCall).           *)

Ending(line) ==
    IF Refused(line) THEN "refused"
    ELSE IF line.class = "ok" THEN "relayed"
    ELSE IF line.class = "cancelled" THEN "dropped"
    ELSE "uncertain"

Stage ==
    [c \in Calls |-> IF pc[c] = "idle" THEN "new"
                     ELSE IF Done(c) THEN Ending(Line(c)) ELSE "open"]

N == INSTANCE NodeCall WITH stage <- Stage, handed <- sent

(* ImplementsNodeCall: the handlers implement NodeCall: a call's request   *)
(* is handed to the node at most once, never after the call ended, never   *)
(* when it ends with a refusal, and always when the node's answer is       *)
(* relayed; an ended call stays as it ended.                               *)
ImplementsNodeCall == N!Spec

=============================================================================
