-------------------------- MODULE PassthroughProofs -------------------------
(***************************************************************************)
(* Proofs about Passthrough, for every set of calls, requests and          *)
(* responses, every base URL and every cap, set or not: the safety         *)
(* properties, and that the handlers implement NodeCall.                   *)
(*                                                                         *)
(* Flow, Ended and Bound speak of one call and of variables indexed by it. *)
(***************************************************************************)
EXTENDS Passthrough, TLAPS

(* What a handler has at each of its phases, and what the node was given.  *)
Flow(c) ==
    /\ got[c] <= Cap /\ total[c] <= Cap
    /\ delivered[c] <= sent[c] /\ sent[c] <= 1
    /\ pc[c] = "idle" => got[c] = 0
    /\ pc[c] \in {"idle", "collecting", "connecting"} => sent[c] = 0
    /\ pc[c] \in {"waiting", "streaming"} => sent[c] = 1
    /\ pc[c] \in Awaiting => req[c] \in Requests /\ got[c] <= req[c].size
    /\ pc[c] \in AwaitingNode => got[c] = req[c].size
    /\ pc[c] = "streaming" => /\ head[c] \in Responses /\ delivered[c] = 1
                              /\ NodeMayAnswer(req[c], head[c])
    /\ sent[c] > 0 => req[c].size <= Cap

(* How the call ended, and why.                                            *)
Ended(c) ==
    /\ ~Done(c) => answer[c] = NoAnswer /\ cause[c] = "none"
    /\ Done(c) => /\ cause[c] # "none"
                  /\ answer[c] = NoAnswer <=> cause[c] = "gone"
    /\ cause[c] \in {"request cap", "request broken", "uri"} => sent[c] = 0
    /\ cause[c] = "relayed" => sent[c] = 1
    /\ cause[c] = "request cap" => req[c].size > Cap
    /\ cause[c] = "response cap" => head[c].length > Cap

(* What a signed answer is made of.                                        *)
Bound(c) ==
    Signed(c) =>
        /\ "content-encoding" \in Names(answer[c].headers) <=> answer[c].gzip
        /\ answer[c].signedBody = answer[c].content
        /\ answer[c].content.length = head[c].length
        /\ answer[c].content.layers = head[c].layers
        /\ answer[c].status = head[c].status
        /\ answer[c].signedRequest = req[c].size
        /\ delivered[c] = 1
        /\ head[c].length <= Cap
        /\ NodeMayAnswer(req[c], head[c])

Local(c) == Flow(c) /\ Ended(c) /\ Bound(c)

IInv == TypeOK /\ \A c \in Calls : Local(c)

-----------------------------------------------------------------------------

CallState(c) ==
    <<pc[c], req[c], got[c], sent[c], delivered[c], head[c], total[c], answer[c], cause[c]>>

(* Calls other than c keep their state.                                    *)
Others(c) == \A d \in Calls \ {c} : CallState(d)' = CallState(d)

(* Facts of a call are kept by a step that leaves its variables alone.     *)
LEMMA LocalFrame ==
    ASSUME NEW c \in Calls, Local(c), CallState(c)' = CallState(c)
    PROVE  Local(c)'
  BY ZenonT(30) DEF Local, Flow, Ended, Bound, CallState, Done, Signed

(* Types of the records of the constants.                                  *)
LEMMA DataTypes ==
    /\ Cap \in Nat
    /\ \A r \in Requests : r.size \in Nat /\ r.headers \subseteq Headers
    /\ \A h \in Responses : /\ h.length \in Nat /\ h.status \in Nat /\ h.text \in Nat
                            /\ h.layers \in Nat /\ h.headers \subseteq Headers
                            /\ h.compressible \in BOOLEAN
  <1>1. Cap \in Nat
    BY PassthroughAssumption DEF Cap
  <1>2. \A r \in Requests : r.size \in Nat /\ r.headers \subseteq Headers
    BY PassthroughAssumption DEF ClientRequests
  <1>3. \A h \in Responses : /\ h.length \in Nat /\ h.status \in Nat /\ h.text \in Nat
                             /\ h.layers \in Nat /\ h.headers \subseteq Headers
                             /\ h.compressible \in BOOLEAN
    BY PassthroughAssumption DEF NodeResponses
  <1> QED
    BY <1>1, <1>2, <1>3

(* The types of one call's variables.                                      *)
LEMMA CallTypes ==
    ASSUME TypeOK, NEW c \in Calls
    PROVE  /\ pc[c] \in Phases /\ got[c] \in Nat /\ sent[c] \in Nat /\ delivered[c] \in Nat
           /\ total[c] \in Nat /\ answer[c] \in Answers /\ cause[c] \in Causes
           /\ req[c] \in Requests \cup {NoRequest} /\ head[c] \in Responses \cup {NoResponse}
           /\ clock \in Nat /\ clockOk \in BOOLEAN
  BY Zenon DEF TypeOK

(* A step of one call keeps the invariant if it keeps the call's part.     *)
LEMMA OneCall ==
    ASSUME IInv, NEW c \in Calls, TypeOK', Others(c), Local(c)'
    PROVE  IInv'
  <1>1. ASSUME NEW d \in Calls PROVE Local(d)'
    <2>1. CASE d = c
      BY <2>1, Zenon
    <2>2. CASE d # c
      <3>1. Local(d) /\ CallState(d)' = CallState(d)
        BY <2>2, Zenon DEF IInv, Others
      <3> QED
        BY <3>1, LocalFrame, Zenon
    <2> QED
      BY <2>1, <2>2, Zenon
  <1> QED
    BY <1>1, Zenon DEF IInv

(* The plain errors are answers.                                           *)
LEMMA PlainAnswers ==
    /\ NoAnswer \in Answers /\ NoAnswer.kind = "none"
    /\ \A s \in Nat : PlainAnswer(s) \in Answers /\ PlainAnswer(s).kind = "plain"
  BY DEF Answers, NoAnswer, PlainAnswer

(* A reason for ending call c, now, with an answer that is not signed.     *)
Reason(c, why) ==
    /\ why \in Causes \ {"none", "relayed"}
    /\ why \in {"request cap", "request broken", "uri"} => sent[c] = 0
    /\ why = "request cap" => req[c].size > Cap
    /\ why = "response cap" => head[c].length > Cap

(* What a client gets for it: an error, or nothing if it has left.         *)
Unanswered(why, a) ==
    a \in Answers /\ a.kind # "signed" /\ (a = NoAnswer <=> why = "gone")

(* A call that ends with an answer that is not signed.                     *)
LEMMA Unsigned ==
    ASSUME IInv, NEW c \in Calls, NEW why, NEW a, Reason(c, why), Unanswered(why, a), Finish(c, why, a),
           UNCHANGED <<req, got, head, total, nodeVars, clockVars>>
    PROVE  IInv'
  <1>1. TypeOK /\ Local(c)
    BY Zenon DEF IInv
  <1>2. TypeOK'
    BY <1>1, Zenon DEF TypeOK, Finish, Phases, nodeVars, clockVars, Reason, Unanswered
  <1>3. /\ pc'[c] = "done" /\ answer'[c] = a /\ cause'[c] = why /\ sent' = sent
        /\ req' = req /\ got' = got /\ head' = head /\ total' = total /\ delivered' = delivered
        /\ Others(c)
    BY <1>1 DEF TypeOK, Finish, Others, CallState, nodeVars
  <1>4. Flow(c)'
    BY <1>1, <1>3 DEF Local, Flow, Awaiting, AwaitingNode
  <1>5. Ended(c)'
    BY <1>3, Zenon DEF Ended, Done, Reason, Unanswered
  <1>6. Bound(c)'
    BY <1>3 DEF Bound, Signed, Unanswered
  <1> QED
    BY <1>2, <1>3, <1>4, <1>5, <1>6, OneCall, Zenon DEF Local

(* A call that goes on: its phase or one of its counters changes, and what *)
(* it answers does not.                                                    *)
LEMMA GoesOn ==
    ASSUME IInv, NEW c \in Calls, TypeOK', Others(c), Flow(c)', ~Done(c), ~Done(c)',
           answer' = answer, cause' = cause
    PROVE  IInv'
  <1>1. answer[c] = NoAnswer /\ cause[c] = "none"
    BY Zenon DEF IInv, Local, Ended
  <1>2. Ended(c)'
    BY <1>1 DEF Ended
  <1>3. Bound(c)'
    BY <1>1, PlainAnswers DEF Bound, Signed
  <1> QED
    BY <1>2, <1>3, OneCall, Zenon DEF Local

(* The errors of a handler and a client that leaves.                       *)
LEMMA ErrorSteps ==
    ASSUME IInv, NEW c \in Calls,
           \/ \E n \in 1..(Cap + 1) : RequestTooLarge(c, n) \/ BodyTooLarge(c, n)
           \/ RequestBroken(c) \/ UriFails(c) \/ UpstreamFails(c)
           \/ SignFails(c) \/ ClientGone(c)
    PROVE  IInv'
  <1>0. TypeOK /\ Flow(c)
    BY Zenon DEF IInv, Local
  <1> DEFINE Gives(why, a) == /\ Finish(c, why, a)
                              /\ UNCHANGED <<req, got, head, total, nodeVars, clockVars>>
             TooLarge == PlainAnswer(413)
             ServerError == PlainAnswer(500)
             BadGateway == PlainAnswer(502)
  <1>1. \A why, a : Reason(c, why) /\ Unanswered(why, a) /\ Gives(why, a) => IInv'
    BY Unsigned, Zenon
  <1>2. /\ \A why : why # "gone" => /\ Unanswered(why, TooLarge)
                                    /\ Unanswered(why, ServerError)
                                    /\ Unanswered(why, BadGateway)
        /\ Unanswered("gone", NoAnswer)
    BY PlainAnswers DEF Unanswered
  <1>3. Reason(c, "upstream") /\ Reason(c, "clock") /\ Reason(c, "gone")
    BY DEF Reason, Causes
  <1>4. pc[c] = "collecting" => Reason(c, "request broken") /\ Reason(c, "uri")
    BY <1>0 DEF Reason, Causes, Flow
  <1>5. ASSUME NEW n \in 1..(Cap + 1), RequestTooLarge(c, n) PROVE IInv'
    <2>1. pc[c] = "collecting" /\ n <= req[c].size - got[c] /\ ~(got[c] + n <= Cap)
      BY <1>5, Zenon DEF RequestTooLarge, RequestFrame, WithinCap
    <2>2. req[c].size \in Nat /\ got[c] \in Nat /\ Cap \in Nat /\ n \in Nat
      BY <1>0, <2>1, DataTypes, CallTypes DEF Flow, Awaiting
    <2>3. req[c].size > Cap
      BY <2>1, <2>2
    <2>4. Reason(c, "request cap")
      BY <1>0, <2>1, <2>3 DEF Reason, Causes, Flow
    <2>5. Gives("request cap", TooLarge)
      BY <1>5, Zenon DEF RequestTooLarge
    <2> HIDE DEF Gives, TooLarge
    <2> QED
      BY <1>1, <1>2, <2>4, <2>5, Zenon
  <1>6. ASSUME NEW n \in 1..(Cap + 1), BodyTooLarge(c, n) PROVE IInv'
    <2>1. pc[c] = "streaming" /\ n <= head[c].length - total[c] /\ ~(total[c] + n <= Cap)
      BY <1>6, Zenon DEF BodyTooLarge, BodyFrame, WithinCap
    <2>2. head[c].length \in Nat /\ total[c] \in Nat /\ Cap \in Nat /\ n \in Nat
      BY <1>0, <2>1, DataTypes, CallTypes DEF Flow
    <2>3. head[c].length > Cap
      BY <2>1, <2>2
    <2>4. Reason(c, "response cap")
      BY <2>3 DEF Reason, Causes
    <2>5. Gives("response cap", BadGateway)
      BY <1>6, Zenon DEF BodyTooLarge
    <2> HIDE DEF Gives, BadGateway
    <2> QED
      BY <1>1, <1>2, <2>4, <2>5, Zenon
  <1>7. RequestBroken(c) => pc[c] = "collecting" /\ Gives("request broken", TooLarge)
    BY Zenon DEF RequestBroken
  <1>8. UriFails(c) => pc[c] = "collecting" /\ Gives("uri", ServerError)
    BY DEF UriFails, Collected
  <1>9. UpstreamFails(c) => Gives("upstream", BadGateway)
    BY DEF UpstreamFails
  <1>10. SignFails(c) => Gives("clock", ServerError)
    BY DEF SignFails
  <1>11. ClientGone(c) => Gives("gone", NoAnswer)
    BY DEF ClientGone
  <1> HIDE DEF Gives, TooLarge, ServerError, BadGateway
  <1> QED
    BY <1>1, <1>2, <1>3, <1>4, <1>5, <1>6, <1>7, <1>8, <1>9, <1>10, <1>11, Zenon

(* The steps that take a call forward without ending it.                   *)
LEMMA ForwardSteps ==
    ASSUME IInv, NEW c \in Calls,
           \/ \E r \in Requests : Arrive(c, r)
           \/ \E n \in 1..(Cap + 1) : ReadRequest(c, n) \/ ReadBody(c, n)
           \/ \E h \in Responses : Respond(c, h)
           \/ SendUpstream(c) \/ HandOver(c)
    PROVE  IInv'
  <1> USE DEF nodeVars, clockVars
  <1>0. TypeOK /\ Flow(c)
    BY Zenon DEF IInv, Local
  <1>1. ASSUME NEW r \in Requests, Arrive(c, r) PROVE IInv'
    <2>1. TypeOK'
      BY <1>0, <1>1 DEF TypeOK, Arrive, Phases
    <2>2. /\ pc[c] = "idle" /\ pc'[c] = "collecting" /\ req'[c] = r /\ Others(c)
          /\ UNCHANGED <<got, sent, delivered, head, total, answer, cause>>
      BY <1>0, <1>1 DEF TypeOK, Arrive, Others, CallState
    <2>3. Flow(c)'
      BY <1>0, <2>2, DataTypes, CallTypes DEF Flow, Awaiting, AwaitingNode
    <2> QED
      BY <2>1, <2>2, <2>3, GoesOn DEF Done
  <1>2. ASSUME NEW n \in 1..(Cap + 1), ReadRequest(c, n) PROVE IInv'
    <2>1. /\ pc[c] = "collecting" /\ n <= req[c].size - got[c] /\ got[c] + n <= Cap
          /\ got' = [got EXCEPT ![c] = @ + n]
          /\ UNCHANGED <<pc, req, sent, delivered, head, total, answer, cause, clock, clockOk>>
      BY <1>2, Zenon DEF ReadRequest, RequestFrame, WithinCap
    <2>2. /\ req[c] \in Requests /\ req[c].size \in Nat /\ got[c] \in Nat
          /\ Cap \in Nat /\ n \in Nat
      BY <1>0, <2>1, DataTypes, CallTypes DEF Flow, Awaiting
    <2>3. got[c] + n \in Nat /\ got[c] + n <= req[c].size
      BY <2>1, <2>2
    <2>4. TypeOK'
      BY <1>0, <2>1, <2>3 DEF TypeOK
    <2>5. got'[c] = got[c] + n /\ Others(c)
      BY <1>0, <2>1 DEF TypeOK, Others, CallState
    <2>6. Flow(c)'
      BY <1>0, <2>1, <2>3, <2>5 DEF Flow, AwaitingNode
    <2> QED
      BY <2>1, <2>4, <2>5, <2>6, GoesOn DEF Done
  <1>3. ASSUME NEW n \in 1..(Cap + 1), ReadBody(c, n) PROVE IInv'
    <2>1. /\ pc[c] = "streaming" /\ total[c] + n <= Cap
          /\ total' = [total EXCEPT ![c] = @ + n]
          /\ UNCHANGED <<pc, req, got, sent, delivered, head, answer, cause, clock, clockOk>>
      BY <1>3, Zenon DEF ReadBody, BodyFrame, WithinCap
    <2>2. total[c] \in Nat /\ Cap \in Nat /\ n \in Nat
      BY <1>0, DataTypes, CallTypes
    <2>3. total[c] + n \in Nat
      BY <2>2
    <2>4. TypeOK'
      BY <1>0, <2>1, <2>3 DEF TypeOK
    <2>5. total'[c] = total[c] + n /\ Others(c)
      BY <1>0, <2>1 DEF TypeOK, Others, CallState
    <2>6. Flow(c)'
      BY <1>0, <2>1, <2>5 DEF Flow
    <2> QED
      BY <2>1, <2>4, <2>5, <2>6, GoesOn DEF Done
  <1>4. ASSUME NEW h \in Responses, Respond(c, h) PROVE IInv'
    <2>1. TypeOK'
      BY <1>0, <1>4 DEF TypeOK, Respond, Phases
    <2>2. /\ pc[c] = "waiting" /\ pc'[c] = "streaming" /\ head'[c] = h /\ Others(c)
          /\ delivered[c] > 0 /\ NodeMayAnswer(req[c], h)
          /\ UNCHANGED <<req, got, sent, delivered, total, answer, cause>>
      BY <1>0, <1>4 DEF TypeOK, Respond, Others, CallState
    <2>3. delivered[c] = 1
      BY <1>0, <2>2, CallTypes DEF Flow
    <2>4. Flow(c)'
      BY <1>0, <2>2, <2>3 DEF Flow, Awaiting, AwaitingNode
    <2> QED
      BY <2>1, <2>2, <2>4, GoesOn DEF Done
  <1>5. CASE SendUpstream(c)
    <2>1. TypeOK'
      BY <1>0, <1>5 DEF TypeOK, SendUpstream, Phases
    <2>2. /\ pc[c] = "collecting" /\ got[c] = req[c].size /\ pc'[c] = "connecting" /\ Others(c)
          /\ UNCHANGED <<req, got, sent, delivered, head, total, answer, cause>>
      BY <1>0, <1>5 DEF TypeOK, SendUpstream, Collected, Others, CallState
    <2>3. Flow(c)'
      BY <1>0, <2>2 DEF Flow, Awaiting, AwaitingNode
    <2> QED
      BY <2>1, <2>2, <2>3, GoesOn DEF Done
  <1>6. CASE HandOver(c)
    <2>1. /\ pc[c] = "connecting" /\ pc' = [pc EXCEPT ![c] = "waiting"]
          /\ sent' = [sent EXCEPT ![c] = @ + 1]
          /\ UNCHANGED <<req, got, delivered, head, total, answer, cause, clock, clockOk>>
      BY <1>6, Zenon DEF HandOver
    <2>2. sent[c] = 0 /\ got[c] = req[c].size /\ req[c] \in Requests
      BY <1>0, <2>1 DEF Flow, Awaiting, AwaitingNode
    <2>3. TypeOK'
      BY <1>0, <2>1, <2>2 DEF TypeOK, Phases
    <2>4. pc'[c] = "waiting" /\ sent'[c] = 1 /\ Others(c)
      BY <1>0, <2>1, <2>2 DEF TypeOK, Others, CallState
    <2>5. Flow(c)'
      BY <1>0, <2>1, <2>2, <2>4, CallTypes DEF Flow, Awaiting, AwaitingNode
    <2> QED
      BY <2>1, <2>3, <2>4, <2>5, GoesOn DEF Done
  <1> QED
    BY <1>1, <1>2, <1>3, <1>4, <1>5, <1>6, Zenon

(* Whatever the node said of a coding is gone; only the CompressionLayer   *)
(* says one.                                                               *)
LEMMA RelayedCoding ==
    ASSUME NEW h
    PROVE  /\ "content-encoding" \notin Names(RelayedHeaders(h))
           /\ "content-encoding" \in Names(RelayedHeaders(h) \cup {GzipEncoded})
  <1>1. \A f \in RelayedHeaders(h) : f.name # "content-encoding"
    BY DEF RelayedHeaders
  <1>2. GzipEncoded.name = "content-encoding"
    BY DEF GzipEncoded
  <1> QED
    BY <1>1, <1>2 DEF Names

(* The fields of a signed answer, and their types.                         *)
LEMMA SignedFields ==
    ASSUME TypeOK, NEW c \in Calls, head[c] \in Responses
    PROVE  /\ SignedAnswer(c) \in Answers
           /\ SignedAnswer(c).kind = "signed"
           /\ SignedAnswer(c).signedBody = SignedAnswer(c).content
           /\ SignedAnswer(c).content.length = total[c]
           /\ SignedAnswer(c).content.layers = head[c].layers
           /\ SignedAnswer(c).status = head[c].status
           /\ SignedAnswer(c).signedRequest = got[c]
           /\ "content-encoding" \in Names(SignedAnswer(c).headers) <=> SignedAnswer(c).gzip
  <1> DEFINE headers == RelayedHeaders(head[c])
             gzip == Compresses(req[c], head[c], headers)
             relayed == headers \cup (IF gzip THEN {GzipEncoded} ELSE {})
             body == Content(c)
  <1>1. SignedAnswer(c) = [kind |-> "signed", status |-> head[c].status, headers |-> relayed,
                           content |-> body, gzip |-> gzip, signedRequest |-> got[c],
                           signedBody |-> body, timestamp |-> clock]
    BY DEF SignedAnswer
  <1>2. body \in Contents /\ body.length = total[c] /\ body.layers = head[c].layers
    BY DataTypes, CallTypes DEF Content, Contents
  <1>3. relayed \subseteq Headers
    <2>1. GzipEncoded \in Headers
      BY DEF GzipEncoded, Headers, HeaderNames, OtherValues
    <2>2. [name |-> "vrpc-pubkey", value |-> PubKey] \in Headers
      BY DEF Headers, HeaderNames
    <2>3. headers \subseteq Headers
      BY <2>2, DataTypes DEF RelayedHeaders
    <2> QED
      BY <2>1, <2>3
  <1>4. gzip \in BOOLEAN
    BY DataTypes DEF Compresses
  <1>5. "content-encoding" \in Names(relayed) <=> gzip
    <2>1. CASE gzip
      BY <2>1, RelayedCoding
    <2>2. CASE ~gzip
      <3>1. relayed = headers
        BY <2>2
      <3> QED
        BY <2>2, <3>1, RelayedCoding, Zenon
    <2> QED
      BY <2>1, <2>2
  <1>6. head[c].status \in Nat /\ got[c] \in Nat /\ clock \in Nat
    BY DataTypes, CallTypes
  <1> HIDE DEF relayed, gzip, headers, body
  <1>7. SignedAnswer(c) \in Answers
    BY <1>1, <1>2, <1>3, <1>4, <1>6 DEF Answers
  <1> QED
    BY <1>1, <1>2, <1>5, <1>7

(* The answer that is signed and relayed.                                  *)
LEMMA RelayStep ==
    ASSUME IInv, NEW c \in Calls, Relay(c)
    PROVE  IInv'
  <1>1. TypeOK /\ Flow(c)
    BY Zenon DEF IInv, Local
  <1>2. /\ pc[c] = "streaming" /\ total[c] = head[c].length
        /\ Finish(c, "relayed", SignedAnswer(c))
        /\ UNCHANGED <<req, got, head, total, sent, delivered, clock, clockOk>>
    BY <1>1, Zenon DEF Relay, BodyEnd, nodeVars, clockVars
  <1>3. /\ head[c] \in Responses /\ delivered[c] = 1 /\ sent[c] = 1 /\ got[c] = req[c].size
        /\ NodeMayAnswer(req[c], head[c]) /\ total[c] <= Cap /\ req[c].size <= Cap
    BY <1>1, <1>2 DEF Flow, AwaitingNode
  <1> DEFINE a == SignedAnswer(c)
  <1>4. /\ a \in Answers /\ a.kind = "signed" /\ a.signedBody = a.content
        /\ a.content.length = total[c] /\ a.content.layers = head[c].layers
        /\ a.status = head[c].status /\ a.signedRequest = got[c]
        /\ "content-encoding" \in Names(a.headers) <=> a.gzip
    BY <1>1, <1>3, SignedFields
  <1> HIDE DEF a
  <1>5. /\ pc' = [pc EXCEPT ![c] = "done"] /\ answer' = [answer EXCEPT ![c] = a]
        /\ cause' = [cause EXCEPT ![c] = "relayed"]
    BY <1>2, Zenon DEF Finish, a
  <1>6. TypeOK'
    BY <1>1, <1>2, <1>4, <1>5, Zenon DEF TypeOK, Phases, Causes
  <1>7. pc'[c] = "done" /\ answer'[c] = a /\ cause'[c] = "relayed" /\ Others(c)
    BY <1>1, <1>2, <1>5 DEF TypeOK, Others, CallState
  <1>8. Flow(c)'
    BY <1>1, <1>2, <1>7 DEF Flow, Awaiting, AwaitingNode
  <1>9. Ended(c)'
    BY <1>2, <1>3, <1>4, <1>7, PlainAnswers DEF Ended, Done
  <1>10. Bound(c)'
    BY <1>2, <1>3, <1>4, <1>7 DEF Bound, Signed
  <1> QED
    BY <1>6, <1>7, <1>8, <1>9, <1>10, OneCall, Zenon DEF Local

(* Request bytes that reach the node, also after the call ended.           *)
LEMMA DeliverStep ==
    ASSUME IInv, NEW c \in Calls, Deliver(c)
    PROVE  IInv'
  <1>1. TypeOK /\ Local(c)
    BY Zenon DEF IInv
  <1>2. /\ delivered[c] < sent[c] /\ delivered' = [delivered EXCEPT ![c] = @ + 1]
        /\ UNCHANGED <<pc, req, got, sent, head, total, answer, cause, clock, clockOk>>
    BY Zenon DEF Deliver, callVars, clockVars
  <1>3. delivered[c] = 0 /\ sent[c] = 1
    BY <1>1, <1>2, CallTypes DEF Local, Flow
  <1>4. TypeOK'
    BY <1>1, <1>2, <1>3 DEF TypeOK
  <1>5. delivered'[c] = 1 /\ Others(c)
    BY <1>1, <1>2, <1>3 DEF TypeOK, Others, CallState
  <1>6. Flow(c)'
    BY <1>1, <1>2, <1>3, <1>5 DEF Local, Flow
  <1>7. Ended(c)' /\ Bound(c)'
    BY <1>1, <1>2, <1>3, <1>5, Zenon DEF Local, Ended, Bound, Done, Signed
  <1> QED
    BY <1>4, <1>5, <1>6, <1>7, OneCall, Zenon DEF Local

-----------------------------------------------------------------------------

LEMMA InitIInv == Init => IInv
  <1> SUFFICES ASSUME Init PROVE IInv
    OBVIOUS
  <1>1. TypeOK
    BY PlainAnswers DEF Init, TypeOK, Phases, Causes
  <1>2. ASSUME NEW c \in Calls PROVE Local(c)
    <2>1. /\ pc[c] = "idle" /\ got[c] = 0 /\ sent[c] = 0 /\ delivered[c] = 0 /\ total[c] = 0
          /\ answer[c] = NoAnswer /\ cause[c] = "none"
      BY DEF Init
    <2>2. Flow(c)
      BY <2>1, DataTypes DEF Flow, Awaiting, AwaitingNode
    <2>3. Ended(c) /\ Bound(c)
      BY <2>1, PlainAnswers DEF Ended, Bound, Done, Signed
    <2> QED
      BY <2>2, <2>3 DEF Local
  <1> QED
    BY <1>1, <1>2 DEF IInv

(* Steps that change no variable of a call.                                *)
LEMMA ClockSteps ==
    ASSUME IInv, ClockTick \/ ClockTurns \/ UNCHANGED vars
    PROVE  IInv'
  <1>1. TypeOK'
    <2>1. CASE ClockTick
      BY <2>1 DEF IInv, TypeOK, ClockTick, callVars, nodeVars
    <2>2. CASE ClockTurns
      BY <2>2, Zenon DEF IInv, TypeOK, ClockTurns, callVars, nodeVars
    <2>3. CASE UNCHANGED vars
      BY <2>3, Zenon DEF IInv, TypeOK, vars, callVars, nodeVars, clockVars
    <2> QED
      BY <2>1, <2>2, <2>3
  <1>2. \A c \in Calls : CallState(c)' = CallState(c)
    BY Zenon DEF CallState, ClockTick, ClockTurns, vars, callVars, nodeVars
  <1>3. \A c \in Calls : Local(c)'
    BY <1>2, LocalFrame, Zenon DEF IInv
  <1> QED
    BY <1>1, <1>3 DEF IInv

LEMMA NextIInv == IInv /\ [Next]_vars => IInv'
  <1> SUFFICES ASSUME IInv, [Next]_vars PROVE IInv'
    OBVIOUS
  <1>1. ASSUME NEW c \in Calls, HandlerStep(c) PROVE IInv'
    BY <1>1, ErrorSteps, ForwardSteps, RelayStep, Zenon DEF HandlerStep
  <1>2. ASSUME NEW c \in Calls, ClientStep(c) PROVE IInv'
    BY <1>2, ErrorSteps, ForwardSteps, Zenon DEF ClientStep
  <1>3. ASSUME NEW c \in Calls, NodeStep(c) PROVE IInv'
    BY <1>3, ErrorSteps, ForwardSteps, DeliverStep, Zenon DEF NodeStep, NodeAnswers, Connect
  <1> QED
    BY <1>1, <1>2, <1>3, ClockSteps, Zenon DEF Next

THEOREM Invariance == Spec => []IInv
  BY InitIInv, NextIInv, PTL DEF Spec

(* The state of the passthrough handlers keeps its types.                  *)
THEOREM TypeCorrect == Spec => []TypeOK
  <1>1. IInv => TypeOK
    BY DEF IInv
  <1> QED
    BY <1>1, Invariance, PTL

(* What a client decodes is what was signed: the node's whole body, with   *)
(* its status, for the client's whole request.                             *)
THEOREM Verifies == Spec => []VerifiesAtClient
  <1>1. IInv => VerifiesAtClient
    BY DEF IInv, Local, Bound, VerifiesAtClient
  <1> QED
    BY <1>1, Invariance, PTL

(* Both caps are exact, whatever they are and however bodies are framed.   *)
THEOREM Limits == Spec => []LimitsExact
  <1>1. IInv => LimitsExact
    BY Zenon DEF IInv, Local, Flow, Ended, Bound, LimitsExact
  <1> QED
    BY <1>1, Invariance, PTL

(* send_upstream offers the node no coding but identity.                   *)
LEMMA OffersNothing ==
    ASSUME NEW r
    PROVE  OffersGzip \notin UpstreamHeaders(r)
  <1>1. OffersGzip.name = "accept-encoding" /\ OffersGzip # Identity
    BY DEF OffersGzip, Identity
  <1> QED
    BY <1>1 DEF UpstreamHeaders

(* If the node honours Accept-Encoding, the signed bytes carry no coding,  *)
(* whatever clients accept.                                                *)
THEOREM Plaintext == NodeHonours => (Spec => []SignedIsPlaintext)
  <1> SUFFICES ASSUME NodeHonours PROVE Spec => []SignedIsPlaintext
    OBVIOUS
  <1>1. IInv => SignedIsPlaintext
    <2> SUFFICES ASSUME IInv, NEW c \in Calls, Signed(c)
                 PROVE  answer[c].signedBody.layers = 0
      BY DEF SignedIsPlaintext
    <2>1. /\ answer[c].signedBody.layers = head[c].layers
          /\ NodeMayAnswer(req[c], head[c])
      BY DEF IInv, Local, Bound
    <2>2. ~(head[c].layers > 0)
      BY <2>1, OffersNothing DEF NodeMayAnswer
    <2>3. answer[c].signedBody.layers \in Nat
      BY DEF IInv, TypeOK, Signed, Answers, NoAnswer, Contents
    <2> QED
      BY <2>1, <2>2, <2>3
  <1> QED
    BY <1>1, Invariance, PTL

-----------------------------------------------------------------------------
(* Refinement: the initial states map to NodeCall's initial state, and     *)
(* every step to one of its steps or to none.  IInv says what the argument *)
(* needs: nothing is sent before a refusal, and something is before a      *)
(* relay.                                                                  *)

(* The stage of a call follows from its phase and its cause.               *)
LEMMA StageOf ==
    /\ Stage = [c \in Calls |-> Stage[c]] /\ Stage' = [c \in Calls |-> Stage'[c]]
    /\ \A c \in Calls : /\ pc[c] = "idle" => Stage[c] = "new"
                        /\ pc[c] \in Awaiting => Stage[c] = "open"
                        /\ pc'[c] \in Awaiting => Stage'[c] = "open"
                        /\ Done(c)' => Stage'[c] = Ending(cause'[c])
  BY DEF Stage, Done, Awaiting

(* A step of call c keeps the stages of the others.                        *)
LEMMA OtherStages ==
    ASSUME NEW c \in Calls, Others(c)
    PROVE  \A d \in Calls \ {c} : Stage'[d] = Stage[d]
  BY DEF Others, CallState, Stage, Done

(* A step of an open call that leaves it open is no step of NodeCall, if   *)
(* it hands nothing over.                                                  *)
LEMMA Stutter ==
    ASSUME NEW c \in Calls, Others(c), sent' = sent, pc[c] \in Awaiting, pc'[c] \in Awaiting
    PROVE  UNCHANGED <<Stage, sent>>
  <1>1. \A d \in Calls : Stage'[d] = Stage[d]
    BY StageOf, OtherStages
  <1> QED
    BY <1>1, StageOf

(* The end of an open call.                                                *)
LEMMA Ends ==
    ASSUME IInv', NEW c \in Calls, Others(c), sent' = sent, pc[c] \in Awaiting, Done(c)'
    PROVE  N!Next
  <1> DEFINE how == Ending(cause'[c])
  <1>1. how \in N!Endings
    BY DEF Ending, N!Endings
  <1>2. how = "refused" => sent[c] = 0
    BY Zenon DEF IInv, Local, Ended, Ending
  <1>3. how = "relayed" => sent[c] = 1
    BY Zenon DEF IInv, Local, Ended, Ending
  <1> HIDE DEF how
  <1>4. Stage[c] = "open" /\ Stage'[c] = how
    BY StageOf DEF how
  <1>5. Stage' = [Stage EXCEPT ![c] = how]
    BY <1>4, StageOf, OtherStages
  <1>6. N!End(c, how)
    BY <1>2, <1>3, <1>4, <1>5 DEF N!End
  <1> QED
    BY <1>1, <1>6 DEF N!Next

(* Finish ends its own call and touches no other.                          *)
LEMMA FinishesOne ==
    ASSUME TypeOK, NEW c \in Calls, NEW why, NEW a, Finish(c, why, a),
           UNCHANGED <<req, got, head, total, nodeVars>>
    PROVE  Done(c)' /\ Others(c) /\ sent' = sent
  BY DEF Finish, Others, CallState, Done, TypeOK, nodeVars

(* Every way to end a call is an end in NodeCall.                          *)
LEMMA EndingSteps ==
    ASSUME IInv, IInv', NEW c \in Calls,
           \/ \E n \in 1..(Cap + 1) : RequestTooLarge(c, n) \/ BodyTooLarge(c, n)
           \/ RequestBroken(c) \/ UriFails(c) \/ UpstreamFails(c)
           \/ SignFails(c) \/ ClientGone(c) \/ Relay(c)
    PROVE  N!Next
  <1>1. pc[c] \in Awaiting
    BY Zenon DEF RequestTooLarge, BodyTooLarge, RequestBroken, UriFails, UpstreamFails, SignFails,
                 ClientGone, Relay, RequestFrame, BodyFrame, BodyEnd, Collected,
                 Awaiting, AwaitingNode
  <1>2. \E why, a : /\ Finish(c, why, a)
                    /\ UNCHANGED <<req, got, head, total, nodeVars>>
    BY ZenonT(30) DEF RequestTooLarge, BodyTooLarge, RequestBroken, UriFails, UpstreamFails,
                      SignFails, ClientGone, Relay
  <1>3. Done(c)' /\ Others(c) /\ sent' = sent
    BY <1>2, FinishesOne, Zenon DEF IInv
  <1> QED
    BY <1>1, <1>3, Ends, Zenon

(* A request that arrives is taken up.                                     *)
LEMMA ArriveTakes ==
    ASSUME IInv, NEW c \in Calls, NEW r \in Requests, Arrive(c, r)
    PROVE  N!Next
  <1>1. pc[c] = "idle" /\ pc'[c] = "collecting" /\ sent' = sent /\ Others(c)
    BY DEF Arrive, Others, CallState, IInv, TypeOK, nodeVars
  <1>2. Stage[c] = "new" /\ Stage'[c] = "open"
    BY <1>1, StageOf DEF Awaiting
  <1>3. Stage' = [Stage EXCEPT ![c] = "open"]
    BY <1>1, <1>2, StageOf, OtherStages
  <1> QED
    BY <1>1, <1>2, <1>3, Zenon DEF N!Next, N!Take

(* The one hand-over.                                                      *)
LEMMA HandsOver ==
    ASSUME IInv, NEW c \in Calls, HandOver(c)
    PROVE  N!Next
  <1>1. pc[c] = "connecting" /\ pc'[c] = "waiting" /\ UNCHANGED cause
    BY DEF HandOver, IInv, TypeOK
  <1>2. sent[c] = 0
    BY <1>1 DEF IInv, Local, Flow
  <1>3. sent' = [sent EXCEPT ![c] = 1]
    BY <1>2 DEF HandOver, IInv, TypeOK
  <1>4. \A d \in Calls \ {c} : pc'[d] = pc[d]
    BY DEF HandOver, IInv, TypeOK
  <1>5. Stage[c] = "open" /\ Stage'[c] = "open"
    BY <1>1, StageOf DEF Awaiting
  <1>6. \A d \in Calls : Stage'[d] = Stage[d]
    BY <1>1, <1>4, <1>5 DEF Stage, Done
  <1>7. Stage' = Stage
    BY <1>6, StageOf
  <1> QED
    BY <1>2, <1>3, <1>5, <1>7, Zenon DEF N!Next, N!HandOver

(* The other steps forward are not visible in NodeCall.                    *)
LEMMA HiddenSteps ==
    ASSUME IInv, NEW c \in Calls,
           \/ \E n \in 1..(Cap + 1) : ReadRequest(c, n) \/ ReadBody(c, n)
           \/ \E h \in Responses : Respond(c, h)
           \/ SendUpstream(c)
    PROVE  UNCHANGED <<Stage, sent>>
  <1>1. pc[c] \in Awaiting /\ sent' = sent
    BY Zenon DEF ReadRequest, ReadBody, Respond, SendUpstream, RequestFrame, BodyFrame, Collected,
                 Awaiting, nodeVars
  <1>2. pc'[c] \in Awaiting /\ Others(c)
    <2>1. ASSUME NEW n \in 1..(Cap + 1), ReadRequest(c, n) PROVE pc'[c] \in Awaiting /\ Others(c)
      BY <1>1, <2>1 DEF ReadRequest, Others, CallState, IInv, TypeOK, nodeVars
    <2>2. ASSUME NEW n \in 1..(Cap + 1), ReadBody(c, n) PROVE pc'[c] \in Awaiting /\ Others(c)
      BY <1>1, <2>2 DEF ReadBody, Others, CallState, IInv, TypeOK, nodeVars
    <2>3. ASSUME NEW h \in Responses, Respond(c, h) PROVE pc'[c] \in Awaiting /\ Others(c)
      BY <2>3 DEF Respond, Others, CallState, IInv, TypeOK, nodeVars, Awaiting
    <2>4. CASE SendUpstream(c)
      BY <2>4 DEF SendUpstream, Others, CallState, IInv, TypeOK, nodeVars, Awaiting
    <2> QED
      BY <2>1, <2>2, <2>3, <2>4, Zenon
  <1> QED
    BY <1>1, <1>2, Stutter, Zenon

(* Every step is a step of NodeCall or a stutter.                          *)
LEMMA NextImplements == IInv /\ IInv' /\ [Next]_vars => [N!Next]_<<Stage, sent>>
  <1> SUFFICES ASSUME IInv, IInv', [Next]_vars PROVE [N!Next]_<<Stage, sent>>
    OBVIOUS
  <1>1. CASE ClockTick \/ ClockTurns \/ UNCHANGED vars
    BY <1>1 DEF ClockTick, ClockTurns, vars, callVars, nodeVars, Stage, Done
  <1>2. ASSUME NEW c \in Calls, Deliver(c) PROVE [N!Next]_<<Stage, sent>>
    BY <1>2 DEF Deliver, callVars, Stage, Done
  <1>3. ASSUME NEW c \in Calls, HandlerStep(c) PROVE [N!Next]_<<Stage, sent>>
    BY <1>3, EndingSteps, HiddenSteps, Zenon DEF HandlerStep
  <1>4. ASSUME NEW c \in Calls, ClientStep(c) PROVE [N!Next]_<<Stage, sent>>
    BY <1>4, EndingSteps, HiddenSteps, ArriveTakes, Zenon DEF ClientStep
  <1>5. ASSUME NEW c \in Calls, NodeStep(c) PROVE [N!Next]_<<Stage, sent>>
    BY <1>2, <1>5, EndingSteps, HiddenSteps, HandsOver, Zenon DEF NodeStep, NodeAnswers, Connect
  <1> QED
    BY <1>1, <1>3, <1>4, <1>5, Zenon DEF Next

(* The passthrough handlers implement NodeCall: the node is given a call's *)
(* request at most once, only while the call is open, never when the call  *)
(* ends with a refusal and always when it ends with the node's answer.     *)
THEOREM Refinement == Spec => ForwardsOnce
  <1>1. Init => N!Init
    BY DEF Init, N!Init, Stage
  <1> QED
    BY <1>1, Invariance, NextImplements, PTL DEF Spec, ForwardsOnce, N!Spec

=============================================================================
