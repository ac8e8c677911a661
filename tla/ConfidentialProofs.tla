------------------------- MODULE ConfidentialProofs -------------------------
(***************************************************************************)
(* Proofs about Confidential, for every set of calls, requests, responses  *)
(* and nonces and every configuration.                                     *)
(*                                                                         *)
(* Flow, Logged, NodeSide, Judged and Bound speak of one call and of       *)
(* variables indexed by it; Keys relates calls through the nonces drawn.   *)
(***************************************************************************)
EXTENDS Confidential, TLAPS

Opened == AwaitingNode \cup {"sealing"}

(* What a handler has at each of its phases.                               *)
Flow(c) ==
    /\ pc[c] \in {"reading"} \cup Opened => outer[c] \in Requests
    /\ pc[c] \in Opened => nonce[c] \in Nonces /\ batch[c] >= 1
    /\ pc[c] = "streaming" => head[c] \in Responses
    /\ pc[c] = "sealing" => /\ result[c] # "pending"
                            /\ result[c] = "ok" => head[c] \in Responses
    /\ got[c] <= MaxRequestBytes
    /\ total[c] <= MaxResponseBytes
    /\ pc[c] \in {"idle", "reading"} => nonce[c] = NoNonce
    /\ nonce[c] # NoNonce => outer[c].size <= MaxRequestBytes

(* LogTellsOutcome for one call.                                           *)
Logged(c) ==
    /\ ~Done(c) => log[c] = << >> /\ answer[c] = NoAnswer
    /\ Done(c) =>
         /\ Len(log[c]) = 1
         /\ Line(c).status = answer[c].status
         /\ Line(c).class = "cancelled" <=> answer[c].kind = "none"
         /\ Line(c).class \in PlaintextClasses <=> answer[c].kind = "plain"
         /\ answer[c].kind = "sealed" => /\ Line(c).batch = answer[c].batch
                                         /\ Line(c).inner = answer[c].body.status

(* What the node has been given of the call.                               *)
NodeSide(c) ==
    /\ delivered[c] <= sent[c] /\ sent[c] <= 1
    /\ pc[c] \in {"idle", "reading", "connecting"} => sent[c] = 0
    /\ pc[c] \in {"waiting", "streaming"} => sent[c] = 1
    /\ pc[c] = "streaming" => delivered[c] = 1
    /\ pc[c] \in AwaitingNode \/ sent[c] > 0 =>
         outer[c] \in Requests /\ Verdict(outer[c].inner) = "ok"
    /\ pc[c] = "sealing" =>
         /\ result[c] \in NotCalledClasses => sent[c] = 0
         /\ result[c] = "ok" => delivered[c] = 1
    /\ Done(c) => /\ Refused(Line(c)) => sent[c] = 0
                  /\ Line(c).class = "ok" => delivered[c] = 1

(* Why the call ended as it did.                                           *)
Judged(c) ==
    /\ pc[c] = "streaming" => AcceptsHead(head[c])
    /\ pc[c] = "sealing" =>
         /\ result[c] = "upstream" => broke[c] \/ (head[c] # NoResponse /\ ~Relayable(head[c]))
         /\ result[c] = "ok" => Relayable(head[c]) /\ total[c] = head[c].length
         /\ result[c] = "batch-too-large" => batch[c] > MaxBatchSize
    /\ Done(c) =>
         /\ Line(c).class = "request-too-large" => outer[c].size > MaxRequestBytes
         /\ Line(c).class = "upstream" =>
              broke[c] \/ (head[c] # NoResponse /\ ~Relayable(head[c]))
         /\ Line(c).class = "ok" => Relayable(head[c])
         /\ Line(c).class = "batch-too-large" => batch[c] > MaxBatchSize

(* What an encrypted answer is tied to.                                    *)
Bound(c) ==
    /\ resultAt[c] <= clock
    /\ answer[c].kind = "sealed" =>
         /\ answer[c].signedRequest = outer[c]
         /\ answer[c].signedBody = answer[c].body
         /\ answer[c].body.enc = outer[c].enc /\ answer[c].body.nonce = nonce[c]
         /\ Line(c).class = "ok" => /\ answer[c].body.status = head[c].status
                                    /\ answer[c].body.length = head[c].length
         /\ resultAt[c] <= answer[c].timestamp /\ answer[c].timestamp <= clock

(* Nonces are drawn once, and a call encrypts once, as it ends.            *)
Keys ==
    /\ \A c \in Calls : nonce[c] # NoNonce => nonce[c] \in drawn
    /\ \A c, d \in Calls : nonce[c] # NoNonce /\ nonce[c] = nonce[d] => c = d
    /\ \A s \in sealed : Done(s.call) /\ s.nonce = nonce[s.call]
    /\ \A s, t \in sealed : s.call = t.call => s = t

IInv ==
    /\ TypeOK
    /\ \A c \in Calls : Flow(c) /\ Logged(c) /\ NodeSide(c) /\ Judged(c) /\ Bound(c)
    /\ Keys

-----------------------------------------------------------------------------

Local(c) == Flow(c) /\ Logged(c) /\ NodeSide(c) /\ Judged(c) /\ Bound(c)

CallState(c) ==
    <<pc[c], outer[c], got[c], nonce[c], batch[c], sent[c], delivered[c], head[c],
      total[c], result[c], answer[c], log[c], resultAt[c], broke[c]>>

(* A step that leaves a call's variables alone and does not turn back the  *)
(* clock keeps what is known of the call.                                  *)
LEMMA LocalFrame ==
    ASSUME TypeOK, NEW c \in Calls, Local(c), CallState(c)' = CallState(c),
           clock' \in Nat, clock <= clock'
    PROVE  Local(c)'
  <1>1. resultAt[c] \in Nat /\ clock \in Nat
    BY Zenon DEF TypeOK
  <1>2. answer[c].kind = "sealed" => answer[c].timestamp \in Nat
    <2>1. answer[c] \in Answers
      BY Zenon DEF TypeOK
    <2> QED
      BY <2>1 DEF Answers, NoAnswer
  <1>3. Flow(c)' /\ Logged(c)' /\ NodeSide(c)' /\ Judged(c)'
    BY DEF Local, Flow, Logged, NodeSide, Judged, CallState, Done, Line
  <1>4. Bound(c)'
    BY <1>1, <1>2 DEF Local, Bound, CallState, Line
  <1> QED
    BY <1>3, <1>4, Zenon DEF Local

(* Statuses are numbers.                                                   *)
LEMMA StatusType ==
    /\ \A e : InnerStatus(e) \in Nat
    /\ \A e : PlaintextStatus(e) \in Nat
    /\ \A i \in Nat : OuterStatus(i) \in Nat
  BY DEF InnerStatus, PlaintextStatus, OuterStatus

(* The answer and the line with which a call ends.                         *)
LEMMA FinishEffect ==
    ASSUME TypeOK, NEW c \in Calls, Logged(c), ~Done(c),
           NEW class \in OutcomeClasses, NEW inner \in Nat, NEW n \in Nat,
           NEW a \in Answers, a.status \in Nat, Finish(c, class, inner, n, a)
    PROVE  /\ pc' \in [Calls -> Phases]
           /\ answer' \in [Calls -> Answers]
           /\ log' \in [Calls -> Seq(LogLines)]
           /\ pc'[c] = "done" /\ answer'[c] = a
           /\ Len(log'[c]) = 1
           /\ log'[c][1] = [class |-> class, status |-> a.status, inner |-> inner, batch |-> n]
           /\ \A d \in Calls \ {c} : pc'[d] = pc[d] /\ answer'[d] = answer[d] /\ log'[d] = log[d]
  <1> DEFINE line == [class |-> class, status |-> a.status, inner |-> inner, batch |-> n]
  <1>1. line \in LogLines
    BY Zenon DEF LogLines
  <1>2. log[c] = << >> /\ log'[c] = Append(log[c], line)
    BY Zenon DEF Finish, Logged, TypeOK
  <1>3. Len(log'[c]) = 1 /\ log'[c][1] = line
    BY <1>1, <1>2
  <1>4. log' \in [Calls -> Seq(LogLines)]
    BY <1>1 DEF Finish, TypeOK
  <1>5. pc' \in [Calls -> Phases] /\ answer' \in [Calls -> Answers]
    BY Zenon DEF Finish, TypeOK, Phases
  <1>6. \A d \in Calls \ {c} : pc'[d] = pc[d] /\ answer'[d] = answer[d] /\ log'[d] = log[d]
    BY Zenon DEF Finish, TypeOK
  <1> QED
    BY <1>3, <1>4, <1>5, <1>6, Zenon DEF Finish, TypeOK

(* What every plaintext ending keeps: it applies to the actions that end a *)
(* call with FinishPlaintext and change no other variable of it.           *)
LEMMA PlaintextEnding ==
    ASSUME IInv, NEW c \in Calls, ~Done(c), NEW class \in PlaintextClasses, NEW n \in Nat,
           FinishPlaintext(c, class, n),
           UNCHANGED <<outer, got, nonce, batch, head, total, result,
                       nodeVars, clock, clockOk, drawn, historyVars>>,
           class \in NotCalledClasses \/ n = 0 => sent[c] = 0,
           class = "request-too-large" => outer[c].size > MaxRequestBytes
    PROVE  /\ pc' \in [Calls -> Phases]
           /\ answer' \in [Calls -> Answers]
           /\ log' \in [Calls -> Seq(LogLines)]
           /\ pc'[c] = "done"
           /\ \A d \in Calls : Local(d)'
  <1> DEFINE a == PlainAnswer(PlaintextStatus(class))
  <1>1. a \in Answers /\ a.status \in Nat /\ a.kind = "plain"
    BY StatusType, Zenon DEF PlainAnswer, Answers
  <1>2. class \in OutcomeClasses /\ class # "ok" /\ class # "cancelled" /\ class \notin InnerErrors
    BY Zenon DEF OutcomeClasses, PlaintextClasses, InnerErrors
  <1>3. /\ pc' \in [Calls -> Phases]
        /\ answer' \in [Calls -> Answers]
        /\ log' \in [Calls -> Seq(LogLines)]
        /\ pc'[c] = "done" /\ answer'[c] = a
        /\ Len(log'[c]) = 1
        /\ log'[c][1] = [class |-> class, status |-> a.status, inner |-> 0, batch |-> n]
        /\ \A d \in Calls \ {c} : pc'[d] = pc[d] /\ answer'[d] = answer[d] /\ log'[d] = log[d]
    BY <1>1, <1>2, FinishEffect, Zenon DEF FinishPlaintext, IInv
  <1>4. ASSUME NEW d \in Calls \ {c} PROVE Local(d)'
    <2>1. CallState(d)' = CallState(d)
      BY <1>3, Zenon DEF CallState, nodeVars, historyVars
    <2>2. TypeOK /\ Local(d)
      BY Zenon DEF IInv, Local
    <2>3. clock' \in Nat /\ clock <= clock'
      BY DEF IInv, TypeOK
    <2> QED
      BY <2>1, <2>2, <2>3, LocalFrame, Zenon
  <1>5. Flow(c)' /\ Logged(c)'
    BY <1>1, <1>2, <1>3 DEF IInv, Flow, Logged, Done, Line, Opened, AwaitingNode, PlaintextClasses
  <1>6. NodeSide(c)'
    BY <1>2, <1>3 DEF IInv, NodeSide, Done, Line, Refused, AwaitingNode, nodeVars
  <1>7. Judged(c)' /\ Bound(c)'
    BY <1>1, <1>2, <1>3 DEF IInv, Judged, Bound, Done, Line, historyVars, InnerErrors
  <1> QED
    BY <1>3, <1>4, <1>5, <1>6, <1>7, Zenon DEF Local

-----------------------------------------------------------------------------
(* How Keys survives: a step that draws and encrypts nothing, and the one  *)
(* encryption of a call.                                                   *)

(* A step that encrypts nothing and draws no nonce keeps what is known of  *)
(* the keys.                                                               *)
LEMMA KeysFrame ==
    ASSUME TypeOK, Keys, UNCHANGED <<nonce, drawn, sealed>>,
           \A d \in Calls : Done(d) => Done(d)'
    PROVE  Keys'
  <1>1. \A s \in sealed : s.call \in Calls
    BY Zenon DEF TypeOK, Ciphertexts
  <1> QED
    BY <1>1, Zenon DEF Keys

(* A call that had encrypted nothing may encrypt once with its own nonce.  *)
LEMMA KeysSealed ==
    ASSUME TypeOK, Keys, NEW c \in Calls, NEW s \in Ciphertexts, ~Done(c),
           s.call = c, s.nonce = nonce[c], sealed' = sealed \cup {s},
           UNCHANGED <<nonce, drawn>>,
           \A d \in Calls : Done(d) => Done(d)', Done(c)'
    PROVE  Keys'
  <1>1. \A t \in sealed : t.call \in Calls /\ t.call # c
    BY Zenon DEF TypeOK, Ciphertexts, Keys
  <1>2. \A t \in sealed' : Done(t.call)' /\ t.nonce = nonce'[t.call]
    BY <1>1, Zenon DEF Keys
  <1>3. \A t, u \in sealed' : t.call = u.call => t = u
    BY <1>1, Zenon DEF Keys
  <1> QED
    BY <1>2, <1>3, Zenon DEF Keys

(* The plaintext endings that encrypt nothing.                             *)
LEMMA PlaintextStep ==
    ASSUME IInv, NEW c \in Calls,
           \/ MethodNotAllowed(c)
           \/ \E n \in 1..(MaxRequestBytes + 1) : RequestTooLarge(c, n)
           \/ RequestReadFailed(c)
           \/ PreDecapsulation(c)
           \/ RefuseUnsealable(c)
           \/ SealFails(c)
    PROVE  IInv'
  <1> DEFINE Rest == UNCHANGED <<outer, got, nonce, batch, head, total, result,
                                 nodeVars, sharedVars, historyVars>>
  <1>1. SUFFICES ASSUME NEW class \in PlaintextClasses, NEW n \in Nat,
                        ~Done(c), FinishPlaintext(c, class, n), Rest,
                        class \in NotCalledClasses \/ n = 0 => sent[c] = 0,
                        class = "request-too-large" => outer[c].size > MaxRequestBytes
                 PROVE  IInv'
    <2>1. CASE MethodNotAllowed(c)
      BY <1>1, <2>1, Zenon DEF MethodNotAllowed, PlaintextClasses, IInv, NodeSide, Done
    <2>2. ASSUME NEW n \in 1..(MaxRequestBytes + 1), RequestTooLarge(c, n) PROVE IInv'
      <3>1. pc[c] = "reading" /\ outer[c] \in Requests /\ sent[c] = 0
        BY <2>2, Zenon DEF RequestTooLarge, Frame, IInv, Flow, NodeSide
      <3>2. outer[c].size \in Nat /\ got[c] \in Nat /\ MaxRequestBytes \in Nat /\ n \in Nat
        BY <3>1, ConfidentialAssumption DEF IInv, TypeOK, OuterRequests
      <3>3. outer[c].size > MaxRequestBytes
        BY <2>2, <3>2 DEF RequestTooLarge, Frame, WithinCap
      <3> QED
        BY <1>1, <2>2, <3>1, <3>3 DEF RequestTooLarge, PlaintextClasses, Done
    <2>3. CASE RequestReadFailed(c)
      BY <1>1, <2>3, Zenon DEF RequestReadFailed, PlaintextClasses, IInv, NodeSide, Done
    <2>4. CASE PreDecapsulation(c)
      BY <1>1, <2>4, Zenon DEF PreDecapsulation, Collected, PlaintextClasses, IInv, NodeSide, Done
    <2>5. CASE RefuseUnsealable(c)
      BY <1>1, <2>5, Zenon DEF RefuseUnsealable, Collected, PlaintextClasses, NotCalledClasses,
                        IInv, NodeSide, Done
    <2>6. CASE SealFails(c)
      <3>1. pc[c] = "sealing" /\ batch[c] \in Nat /\ batch[c] >= 1
        BY <2>6, Zenon DEF SealFails, IInv, Flow, TypeOK, Opened
      <3> QED
        BY <1>1, <2>6, <3>1 DEF SealFails, PlaintextClasses, NotCalledClasses, Done
    <2> QED
      BY <2>1, <2>2, <2>3, <2>4, <2>5, <2>6, Zenon
  <1>2. UNCHANGED <<outer, got, nonce, batch, head, total, result,
                    nodeVars, clock, clockOk, drawn, historyVars>>
        /\ sealed' = sealed
    BY <1>1, Zenon DEF sharedVars
  <1>3. /\ pc' \in [Calls -> Phases]
        /\ answer' \in [Calls -> Answers]
        /\ log' \in [Calls -> Seq(LogLines)]
        /\ pc'[c] = "done"
        /\ \A d \in Calls : Local(d)'
    BY <1>1, <1>2, PlaintextEnding, Zenon
  <1>4. TypeOK'
    BY <1>2, <1>3, Zenon DEF IInv, TypeOK, nodeVars, historyVars
  <1>5. \A d \in Calls : Done(d) => Done(d)'
    BY <1>1, Zenon DEF Done, FinishPlaintext, Finish, IInv, TypeOK
  <1>6. Keys'
    BY <1>2, <1>5, KeysFrame, Zenon DEF IInv
  <1> QED
    BY <1>3, <1>4, <1>6, Zenon DEF IInv, Local

-----------------------------------------------------------------------------
(* A step of one call: what is known of the others stays.                  *)
LEMMA OneCall ==
    ASSUME IInv, NEW c \in Calls, TypeOK', Keys', Local(c)', clock <= clock',
           \A d \in Calls \ {c} : CallState(d)' = CallState(d)
    PROVE  IInv'
  <1>1. ASSUME NEW d \in Calls \ {c} PROVE Local(d)'
    <2>1. TypeOK /\ Local(d)
      BY Zenon DEF IInv, Local
    <2>2. clock' \in Nat
      BY Zenon DEF TypeOK
    <2> QED
      BY <2>1, <2>2, LocalFrame, Zenon
  <1> QED
    BY <1>1, Zenon DEF IInv, Local

(* A step that takes a call from one phase to the next without ending it.  *)
LEMMA Progress ==
    ASSUME IInv, NEW c \in Calls, ~Done(c), ~Done(c)',
           UNCHANGED <<answer, log, clock, sealed>>,
           resultAt'[c] \in {resultAt[c], clock},
           \A d \in Calls \ {c} : CallState(d)' = CallState(d),
           TypeOK', Keys', Flow(c)', NodeSide(c)', Judged(c)'
    PROVE  IInv'
  <1>1. answer[c] = NoAnswer /\ log[c] = << >>
    BY Zenon DEF IInv, Logged
  <1>2. Logged(c)'
    BY <1>1, Zenon DEF Logged
  <1>3. clock \in Nat /\ resultAt[c] <= clock /\ clock <= clock'
    BY DEF IInv, TypeOK, Bound
  <1>4. Bound(c)'
    BY <1>1, <1>3 DEF Bound, NoAnswer
  <1> QED
    BY <1>2, <1>3, <1>4, OneCall, Zenon DEF Local

(* The upload.                                                             *)
LEMMA UploadStep ==
    ASSUME IInv, NEW c \in Calls,
           \/ \E r \in Requests : Post(c, r)
           \/ \E n \in 1..(MaxRequestBytes + 1) : ReadFrame(c, n)
    PROVE  IInv'
  <1> USE DEF nodeVars, sharedVars, historyVars
  <1>1. ASSUME NEW r \in Requests, Post(c, r) PROVE IInv'
    <2> USE <1>1 DEF Post
    <2>1. TypeOK'
      BY Zenon DEF IInv, TypeOK, Phases
    <2>2. pc[c] = "idle" /\ pc'[c] = "reading" /\ outer'[c] = r
      BY Zenon DEF IInv, TypeOK
    <2>3. Keys'
      BY KeysFrame, Zenon DEF IInv, Done, TypeOK
    <2>4. Flow(c)' /\ NodeSide(c)' /\ Judged(c)'
      BY <2>2 DEF IInv, Flow, NodeSide, Judged, Done, Opened, AwaitingNode
    <2>5. \A d \in Calls \ {c} : CallState(d)' = CallState(d)
      BY Zenon DEF IInv, TypeOK, CallState
    <2> QED
      BY <2>1, <2>2, <2>3, <2>4, <2>5, Progress, Zenon DEF Done
  <1>2. ASSUME NEW n \in 1..(MaxRequestBytes + 1), ReadFrame(c, n) PROVE IInv'
    <2> USE <1>2 DEF ReadFrame
    <2>1. TypeOK'
      <3>1. n \in Nat
        BY ConfidentialAssumption
      <3> QED
        BY <3>1, SMTT(30) DEF IInv, TypeOK
    <2>2. pc[c] = "reading" /\ got'[c] <= MaxRequestBytes
      BY Zenon DEF IInv, TypeOK, WithinCap, Frame
    <2>3. Keys'
      BY KeysFrame, Zenon DEF IInv, Done, TypeOK
    <2>4. Flow(c)' /\ NodeSide(c)' /\ Judged(c)'
      BY <2>2, Zenon DEF IInv, Flow, NodeSide, Judged, Done
    <2>5. \A d \in Calls \ {c} : CallState(d)' = CallState(d)
      BY Zenon DEF IInv, TypeOK, CallState
    <2> QED
      BY <2>1, <2>2, <2>3, <2>4, <2>5, Progress, Zenon DEF Done
  <1> QED
    BY <1>1, <1>2, Zenon

(* Errors that run_inner returns without calling the node.                 *)
LEMMA VerdictErrors ==
    ASSUME NEW p, Verdict(p) # "ok"
    PROVE  /\ Verdict(p) \in {"bad-request", "unsupported-media-type",
                              "batch-too-large", "internal"}
           /\ Verdict(p) = "batch-too-large" => CountedBatch(p) > MaxBatchSize
  BY Zenon DEF Verdict, DecodeInner, CountedBatch

(* A count is a positive number.                                           *)
LEMMA BatchType ==
    ASSUME NEW r \in Requests
    PROVE  /\ BatchSize(r.inner.body) \in Nat /\ BatchSize(r.inner.body) >= 1
           /\ CountedBatch(r.inner) \in Nat /\ CountedBatch(r.inner) >= 1
  <1>1. r.inner.body \in Bodies
    BY ConfidentialAssumption, ZenonT(30) DEF OuterRequests, Plaintexts
  <1>2. BatchSize(r.inner.body) \in Nat /\ BatchSize(r.inner.body) >= 1
    BY <1>1 DEF Bodies, BatchSize
  <1> QED
    BY <1>2 DEF CountedBatch

(* Opening a request: a nonce no other call has.                           *)
LEMMA OpenEffect ==
    ASSUME IInv, NEW c \in Calls, Open(c)
    PROVE  /\ pc[c] = "reading" /\ outer[c] \in Requests
           /\ outer[c].size <= MaxRequestBytes
           /\ nonce' \in [Calls -> Nonces \cup {NoNonce}] /\ drawn' \subseteq Nonces
           /\ batch' \in [Calls -> Nat]
           /\ nonce'[c] \in Nonces /\ batch'[c] = CountedBatch(outer[c].inner) /\ batch'[c] >= 1
           /\ (\A d \in Calls : Done(d) <=> Done(d)') => Keys'
           /\ \A d \in Calls \ {c} : nonce'[d] = nonce[d] /\ batch'[d] = batch[d]
  <1>1. pc[c] = "reading" /\ outer[c] \in Requests
    BY Zenon DEF Open, Collected, IInv, Flow
  <1>2. outer[c].size <= MaxRequestBytes
    BY Zenon DEF Open, Collected, IInv, Flow
  <1>3. PICK n \in FreshNonces : nonce' = [nonce EXCEPT ![c] = n] /\ drawn' = drawn \cup {n}
    BY Zenon DEF Open
  <1>4. n \in Nonces /\ n \notin drawn /\ n # NoNonce
    BY ConfidentialAssumption, Zenon DEF FreshNonces
  <1>5. nonce' \in [Calls -> Nonces \cup {NoNonce}] /\ drawn' \subseteq Nonces /\ nonce'[c] = n
        /\ \A d \in Calls \ {c} : nonce'[d] = nonce[d]
    BY <1>3, <1>4, Zenon DEF IInv, TypeOK
  <1>6. batch' \in [Calls -> Nat] /\ batch'[c] = CountedBatch(outer[c].inner)
        /\ \A d \in Calls \ {c} : batch'[d] = batch[d]
    BY <1>1, BatchType, Zenon DEF Open, IInv, TypeOK
  <1>7. ASSUME \A d \in Calls : Done(d) <=> Done(d)' PROVE Keys'
    <2>1. sealed' = sealed /\ \A s \in sealed : s.call \in Calls /\ s.call # c
      BY <1>1, Zenon DEF Open, IInv, TypeOK, Ciphertexts, Keys, Done
    <2>2. \A d \in Calls : nonce'[d] # NoNonce => nonce'[d] \in drawn'
      BY <1>3, <1>5, Zenon DEF IInv, Keys
    <2>3. \A d, e \in Calls : nonce'[d] # NoNonce /\ nonce'[d] = nonce'[e] => d = e
      BY <1>4, <1>5 DEF IInv, Keys
    <2>4. \A s \in sealed' : Done(s.call)' /\ s.nonce = nonce'[s.call]
      BY <1>5, <1>7, <2>1, Zenon DEF IInv, Keys
    <2>5. \A s, t \in sealed' : s.call = t.call => s = t
      BY <2>1, Zenon DEF IInv, Keys
    <2> QED
      BY <2>2, <2>3, <2>4, <2>5, Zenon DEF Keys
  <1> QED
    BY <1>1, <1>2, <1>4, <1>5, <1>6, <1>7, BatchType, Zenon

(* RefuseInner and CallUpstream keep the inductive invariant.              *)
LEMMA OpenStep ==
    ASSUME IInv, NEW c \in Calls, RefuseInner(c) \/ CallUpstream(c)
    PROVE  IInv'
  <1> USE DEF nodeVars
  <1>1. Open(c)
    BY Zenon DEF RefuseInner, CallUpstream
  <1>2. /\ pc[c] = "reading" /\ outer[c] \in Requests
        /\ outer[c].size <= MaxRequestBytes
        /\ nonce' \in [Calls -> Nonces \cup {NoNonce}] /\ drawn' \subseteq Nonces
        /\ batch' \in [Calls -> Nat]
        /\ nonce'[c] \in Nonces /\ batch'[c] = CountedBatch(outer[c].inner) /\ batch'[c] >= 1
        /\ (\A d \in Calls : Done(d) <=> Done(d)') => Keys'
        /\ \A d \in Calls \ {c} : nonce'[d] = nonce[d] /\ batch'[d] = batch[d]
    BY <1>1, OpenEffect, Zenon
  <1>3. sent[c] = 0 /\ delivered[c] = 0
    BY <1>2 DEF IInv, TypeOK, NodeSide
  <1>4. CASE RefuseInner(c)
    <2> DEFINE v == Verdict(outer[c].inner)
    <2>1. /\ v \in {"bad-request", "unsupported-media-type", "batch-too-large", "internal"}
          /\ v = "batch-too-large" => CountedBatch(outer[c].inner) > MaxBatchSize
      BY <1>4, VerdictErrors, Zenon DEF RefuseInner
    <2>2. TypeOK'
      BY <1>1, <1>2, <1>4, <2>1, Zenon
      DEF RefuseInner, Open, InnerDone, IInv, TypeOK, Phases, InnerErrors
    <2>3. /\ pc'[c] = "sealing" /\ result'[c] = v /\ resultAt'[c] = clock
          /\ \A d \in Calls \ {c} : CallState(d)' = CallState(d)
      BY <1>1, <1>2, <1>4, Zenon DEF RefuseInner, Open, InnerDone, IInv, TypeOK, CallState
    <2>4. Keys'
      BY <1>2, <2>3, Zenon DEF Done, CallState
    <2>5. Flow(c)' /\ NodeSide(c)' /\ Judged(c)'
      BY <1>1, <1>2, <1>3, <2>1, <2>3, Zenon
      DEF Open, IInv, Flow, NodeSide, Judged, Done, Opened, AwaitingNode
    <2> QED
      BY <1>1, <1>2, <2>2, <2>3, <2>4, <2>5, Progress, Zenon DEF Open, Done
  <1>5. CASE CallUpstream(c)
    <2>1. TypeOK'
      BY <1>1, <1>2, <1>5, Zenon DEF CallUpstream, Open, IInv, TypeOK, Phases
    <2>2. /\ pc'[c] = "connecting" /\ UNCHANGED <<result, resultAt>>
          /\ \A d \in Calls \ {c} : CallState(d)' = CallState(d)
      BY <1>1, <1>2, <1>5, Zenon DEF CallUpstream, Open, IInv, TypeOK, CallState
    <2>3. Keys'
      BY <1>2, <2>2, Zenon DEF Done, CallState
    <2>4. Flow(c)' /\ NodeSide(c)' /\ Judged(c)'
      BY <1>1, <1>2, <1>3, <1>5, <2>2, Zenon
      DEF CallUpstream, Open, IInv, Flow, NodeSide, Judged, Done, Opened, AwaitingNode
    <2> QED
      BY <1>1, <1>2, <2>1, <2>2, <2>3, <2>4, Progress, Zenon DEF Open, Done
  <1> QED
    BY <1>4, <1>5, Zenon

-----------------------------------------------------------------------------
(* Waiting for the node.                                                   *)

(* SendRequest keeps the inductive invariant.                              *)
LEMMA SendStep ==
    ASSUME IInv, NEW c \in Calls, SendRequest(c)
    PROVE  IInv'
  <1> USE DEF SendRequest, sharedVars, historyVars
  <1>1. TypeOK'
    BY SMTT(30) DEF IInv, TypeOK, Phases
  <1>2. pc[c] = "connecting" /\ pc'[c] = "waiting" /\ sent[c] = 0 /\ sent'[c] = 1
        /\ delivered[c] \in Nat /\ delivered[c] <= 0
    BY DEF IInv, TypeOK, NodeSide
  <1>3. Keys'
    BY KeysFrame, Zenon DEF IInv, Done, TypeOK
  <1>4. Flow(c)' /\ NodeSide(c)' /\ Judged(c)'
    BY <1>2 DEF IInv, Flow, NodeSide, Judged, Done, Opened, AwaitingNode
  <1>5. \A d \in Calls \ {c} : CallState(d)' = CallState(d)
    BY Zenon DEF IInv, TypeOK, CallState
  <1> QED
    BY <1>1, <1>2, <1>3, <1>4, <1>5, Progress, Zenon DEF Done

(* run_inner returns with r after a wait for the node; h is the head kept. *)
LEMMA WaitEnds ==
    ASSUME IInv, NEW c \in Calls, pc[c] \in AwaitingNode,
           NEW r \in {"ok", "upstream", "upstream-timeout"}, InnerDone(c, r),
           UNCHANGED <<outer, got, nonce, batch, total, answer, log, nodeVars, sharedVars>>,
           head' \in [Calls -> Responses \cup {NoResponse}], broke' \in [Calls -> BOOLEAN],
           \A d \in Calls \ {c} : head'[d] = head[d] /\ broke'[d] = broke[d],
           r = "ok" => /\ delivered[c] = 1 /\ head'[c] \in Responses
                       /\ Relayable(head'[c]) /\ total[c] = head'[c].length,
           r = "upstream" => broke'[c] \/ (head'[c] # NoResponse /\ ~Relayable(head'[c]))
    PROVE  IInv'
  <1> USE DEF nodeVars, sharedVars
  <1>1. TypeOK'
    BY Zenon DEF InnerDone, IInv, TypeOK, Phases, InnerErrors
  <1>2. /\ pc'[c] = "sealing" /\ result'[c] = r /\ resultAt'[c] = clock
        /\ \A d \in Calls \ {c} : CallState(d)' = CallState(d)
    BY Zenon DEF InnerDone, IInv, TypeOK, CallState
  <1>3. Keys'
    BY KeysFrame, Zenon DEF IInv, Done, TypeOK, InnerDone, AwaitingNode
  <1>4. Flow(c)'
    BY <1>2, Zenon DEF IInv, Flow, Opened
  <1>5. NodeSide(c)'
    BY <1>2, Zenon DEF IInv, NodeSide, NotCalledClasses, AwaitingNode, Done
  <1>6. Judged(c)'
    BY <1>2, Zenon DEF IInv, Judged, Done
  <1>7. ~Done(c) /\ ~Done(c)'
    BY <1>2, Zenon DEF Done, AwaitingNode
  <1> QED
    BY <1>1, <1>2, <1>3, <1>4, <1>5, <1>6, <1>7, Progress, Zenon

(* An answer refused for its head may not be relayed.                      *)
LEMMA HeadVerdict ==
    ASSUME NEW h \in Responses
    PROVE  /\ ~AcceptsHead(h) => ~Relayable(h)
           /\ h.length \in Nat
  BY ConfidentialAssumption DEF NodeResponses, AcceptsHead, Relayable, SizeHint

(* Whatever ends the wait for the node keeps the inductive invariant: a    *)
(* failure, the timeout, a head or a body refused, or the body's end.      *)
LEMMA WaitStep ==
    ASSUME IInv, NEW c \in Calls,
           \/ UpstreamFails(c)
           \/ UpstreamTimeout(c)
           \/ \E h \in Responses : RejectHead(c, h)
           \/ \E n \in 1..(MaxResponseBytes + 1) : BodyTooLarge(c, n)
           \/ BodyEnd(c)
    PROVE  IInv'
  <1> USE DEF sharedVars, nodeVars
  <1>1. CASE UpstreamFails(c)
    <2>1. broke' \in [Calls -> BOOLEAN] /\ broke'[c]
          /\ \A d \in Calls \ {c} : broke'[d] = broke[d]
      BY <1>1, Zenon DEF UpstreamFails, IInv, TypeOK
    <2> QED
      BY <1>1, <2>1, WaitEnds, Zenon DEF UpstreamFails, IInv, TypeOK
  <1>2. CASE UpstreamTimeout(c)
    BY <1>2, WaitEnds, Zenon DEF UpstreamTimeout, IInv, TypeOK
  <1>3. ASSUME NEW h \in Responses, RejectHead(c, h) PROVE IInv'
    <2>1. head' \in [Calls -> Responses \cup {NoResponse}] /\ head'[c] = h
          /\ \A d \in Calls \ {c} : head'[d] = head[d]
      BY <1>3, Zenon DEF RejectHead, Respond, IInv, TypeOK
    <2>2. h # NoResponse /\ ~Relayable(h)
      BY <1>3, HeadVerdict, ConfidentialAssumption, ZenonT(30) DEF RejectHead
    <2> QED
      BY <1>3, <2>1, <2>2, WaitEnds, Zenon DEF RejectHead, Respond, IInv, TypeOK, AwaitingNode
  <1>4. ASSUME NEW n \in 1..(MaxResponseBytes + 1), BodyTooLarge(c, n) PROVE IInv'
    <2>1. pc[c] = "streaming" /\ head[c] \in Responses /\ head[c] # NoResponse
      BY <1>4, ConfidentialAssumption, SMTT(30) DEF BodyTooLarge, BodyFrame, IInv, Flow
    <2>2. head[c].length > MaxResponseBytes
      <3>1. head[c].length \in Nat /\ total[c] \in Nat /\ n \in Nat /\ MaxResponseBytes \in Nat
        BY <2>1, HeadVerdict, ConfidentialAssumption, SMTT(30) DEF IInv, TypeOK
      <3> QED
        BY <1>4, <3>1 DEF BodyTooLarge, BodyFrame, WithinCap
    <2>3. ~Relayable(head[c])
      BY <2>1, <2>2, HeadVerdict, ConfidentialAssumption DEF Relayable
    <2> QED
      BY <1>4, <2>1, <2>3, WaitEnds, Zenon DEF BodyTooLarge, IInv, TypeOK, AwaitingNode
  <1>5. CASE BodyEnd(c)
    <2>1. pc[c] = "streaming" /\ head[c] \in Responses /\ delivered[c] = 1
          /\ AcceptsHead(head[c]) /\ total[c] <= MaxResponseBytes
      BY <1>5, Zenon DEF BodyEnd, IInv, Flow, NodeSide, Judged
    <2>2. Relayable(head[c]) /\ total[c] = head[c].length
      BY <1>5, <2>1, Zenon DEF BodyEnd, Relayable, AcceptsHead
    <2> QED
      BY <1>5, <2>1, <2>2, WaitEnds, Zenon DEF BodyEnd, IInv, TypeOK, AwaitingNode
  <1> QED
    BY <1>1, <1>2, <1>3, <1>4, <1>5, Zenon

(* Accepting a head and reading a frame keep the inductive invariant.      *)
LEMMA StreamStep ==
    ASSUME IInv, NEW c \in Calls,
           \/ \E h \in Responses : AcceptHead(c, h)
           \/ \E n \in 1..(MaxResponseBytes + 1) : ReadBody(c, n)
    PROVE  IInv'
  <1> USE DEF sharedVars, nodeVars, historyVars
  <1>1. ASSUME NEW h \in Responses, AcceptHead(c, h) PROVE IInv'
    <2> USE <1>1 DEF AcceptHead, Respond
    <2>1. TypeOK'
      BY Zenon DEF IInv, TypeOK, Phases
    <2>2. pc[c] = "waiting" /\ pc'[c] = "streaming" /\ head'[c] = h /\ AcceptsHead(h)
      BY Zenon DEF IInv, TypeOK
    <2>3. delivered[c] = 1 /\ sent[c] = 1
      BY <2>2 DEF IInv, TypeOK, NodeSide
    <2>4. Keys'
      BY KeysFrame, Zenon DEF IInv, Done, TypeOK
    <2>5. Flow(c)' /\ NodeSide(c)' /\ Judged(c)'
      BY <2>2, <2>3, Zenon DEF IInv, Flow, NodeSide, Judged, Done, Opened, AwaitingNode
    <2>6. \A d \in Calls \ {c} : CallState(d)' = CallState(d)
      BY Zenon DEF IInv, TypeOK, CallState
    <2> QED
      BY <2>1, <2>2, <2>4, <2>5, <2>6, Progress, Zenon DEF Done
  <1>2. ASSUME NEW n \in 1..(MaxResponseBytes + 1), ReadBody(c, n) PROVE IInv'
    <2> USE <1>2 DEF ReadBody
    <2>1. TypeOK'
      <3>1. n \in Nat
        BY ConfidentialAssumption
      <3> QED
        BY <3>1, SMTT(30) DEF IInv, TypeOK
    <2>2. pc[c] = "streaming" /\ total'[c] <= MaxResponseBytes
      BY Zenon DEF IInv, TypeOK, WithinCap, BodyFrame
    <2>3. Keys'
      BY KeysFrame, Zenon DEF IInv, Done, TypeOK
    <2>4. Flow(c)' /\ NodeSide(c)' /\ Judged(c)'
      BY <2>2, Zenon DEF IInv, Flow, NodeSide, Judged, Done
    <2>5. \A d \in Calls \ {c} : CallState(d)' = CallState(d)
      BY Zenon DEF IInv, TypeOK, CallState
    <2> QED
      BY <2>1, <2>2, <2>3, <2>4, <2>5, Progress, Zenon DEF Done
  <1> QED
    BY <1>1, <1>2, Zenon

(* Request bytes reaching the node, at any time, keep the inductive        *)
(* invariant.                                                              *)
LEMMA DeliverStep ==
    ASSUME IInv, NEW c \in Calls, Deliver(c)
    PROVE  IInv'
  <1> USE DEF Deliver, callVars, sharedVars, historyVars
  <1>1. TypeOK'
    BY DEF IInv, TypeOK
  <1>2. sent[c] = 1 /\ delivered[c] = 0 /\ delivered'[c] = 1
    BY DEF IInv, TypeOK, NodeSide
  <1>3. Keys'
    BY KeysFrame, Zenon DEF IInv, Done, TypeOK
  <1>4. Local(c)'
    <2>1. NodeSide(c)'
      BY <1>2, Zenon DEF IInv, NodeSide, Done, Line
    <2>2. Flow(c)' /\ Logged(c)'
      BY Zenon DEF IInv, Flow, Logged, Done, Line
    <2>3. Judged(c)' /\ Bound(c)'
      BY Zenon DEF IInv, Judged, Bound, Done, Line
    <2> QED
      BY <2>1, <2>2, <2>3, Zenon DEF Local
  <1>5. clock <= clock' /\ \A d \in Calls \ {c} : CallState(d)' = CallState(d)
    BY DEF IInv, TypeOK, CallState
  <1> QED
    BY <1>1, <1>3, <1>4, <1>5, OneCall, Zenon

-----------------------------------------------------------------------------
(* The endings that seal, and the client's.                                *)

(* The ciphertext of a call about to end, and its type.                    *)
LEMMA SealedBody ==
    ASSUME IInv, NEW c \in Calls, pc[c] = "sealing", NEW encodes \in BOOLEAN
    PROVE  LET class == SealedClass(c, encodes)
               body == SealInner(c, class)
           IN  /\ class \in {"ok"} \cup InnerErrors
               /\ class = result[c] \/ class = "internal"
               /\ body \in Ciphertexts
               /\ body.call = c /\ body.enc = outer[c].enc /\ body.nonce = nonce[c]
               /\ class = "ok" => body.status = head[c].status /\ body.length = total[c]
  <1> DEFINE class == SealedClass(c, encodes)
             body == SealInner(c, class)
  <1>1. /\ outer[c] \in Requests /\ nonce[c] \in Nonces /\ result[c] # "pending"
        /\ result[c] = "ok" => head[c] \in Responses
    BY Zenon DEF IInv, Flow, Opened
  <1>2. result[c] \in {"ok"} \cup InnerErrors /\ total[c] \in Nat
    BY <1>1, Zenon DEF IInv, TypeOK
  <1>3. class \in {"ok"} \cup InnerErrors /\ (class = result[c] \/ class = "internal")
    BY <1>2, Zenon DEF SealedClass, InnerErrors
  <1>4. outer[c].enc \in Encs
    <2>1. \A r \in OuterRequests : r.enc \in Encs
      BY DEF OuterRequests
    <2> QED
      BY <1>1, <2>1, ConfidentialAssumption, Zenon
  <1>5. class = "ok" => head[c].status \in Nat
    <2>1. class = "ok" => head[c] \in NodeResponses
      BY <1>1, <1>3, ConfidentialAssumption, Zenon
    <2>2. \A h \in NodeResponses : h.status \in Nat
      BY DEF NodeResponses
    <2> QED
      BY <2>1, <2>2, Zenon
  <1>6. body.status \in Nat /\ body.length \in Nat
    BY <1>2, <1>5, StatusType, Zenon DEF SealInner
  <1>7. body \in Ciphertexts
    BY <1>1, <1>4, <1>6, Zenon DEF SealInner, Ciphertexts
  <1> QED
    BY <1>3, <1>7, Zenon DEF SealInner

(* A ciphertext dropped because the clock failed keeps the inductive       *)
(* invariant.                                                              *)
LEMMA SignFailsStep ==
    ASSUME IInv, NEW c \in Calls, SignFails(c)
    PROVE  IInv'
  <1>1. pc[c] = "sealing" /\ ~Done(c) /\ batch[c] \in Nat /\ batch[c] >= 1
    BY Zenon DEF SignFails, IInv, Flow, TypeOK, Opened, Done
  <1>2. PICK encodes \in BOOLEAN :
           sealed' = sealed \cup {SealInner(c, SealedClass(c, encodes))}
    BY Zenon DEF SignFails
  <1> DEFINE body == SealInner(c, SealedClass(c, encodes))
  <1>3. body \in Ciphertexts /\ body.call = c /\ body.nonce = nonce[c]
    BY <1>1, SealedBody, Zenon
  <1>4. UNCHANGED <<outer, got, nonce, batch, head, total, result,
                    nodeVars, clock, clockOk, drawn, historyVars>>
    BY Zenon DEF SignFails
  <1>5. FinishPlaintext(c, "unsealable", batch[c])
    BY Zenon DEF SignFails
  <1>6. /\ pc' \in [Calls -> Phases]
        /\ answer' \in [Calls -> Answers]
        /\ log' \in [Calls -> Seq(LogLines)]
        /\ pc'[c] = "done"
        /\ \A d \in Calls : Local(d)'
    BY <1>1, <1>4, <1>5, PlaintextEnding DEF PlaintextClasses, NotCalledClasses
  <1>7. TypeOK'
    BY <1>2, <1>3, <1>4, <1>6, Zenon DEF IInv, TypeOK, nodeVars, historyVars
  <1>8. \A d \in Calls : Done(d) => Done(d)'
    BY <1>5, Zenon DEF Done, FinishPlaintext, Finish, IInv, TypeOK
  <1>9. Keys'
    <2> HIDE DEF body
    <2>1. sealed' = sealed \cup {body}
      BY <1>2, Zenon DEF body
    <2> QED
      BY <1>1, <1>3, <1>4, <1>6, <1>8, <2>1, KeysSealed, Zenon DEF IInv, Done
  <1> QED
    BY <1>6, <1>7, <1>9, Zenon DEF IInv, Local

(* An encrypted and signed answer keeps the inductive invariant.           *)
LEMMA SealAndSignStep ==
    ASSUME IInv, NEW c \in Calls, SealAndSign(c)
    PROVE  IInv'
  <1>1. /\ pc[c] = "sealing" /\ ~Done(c) /\ batch[c] \in Nat /\ batch[c] >= 1
        /\ outer[c] \in Requests /\ clock \in Nat /\ resultAt[c] <= clock
    BY Zenon DEF SealAndSign, IInv, Flow, TypeOK, Opened, Done, Bound
  <1>2. PICK encodes \in BOOLEAN :
           LET k == SealedClass(c, encodes)
               b == SealInner(c, k)
           IN  /\ sealed' = sealed \cup {b}
               /\ Finish(c, k, b.status, batch[c], Sign(c, b))
    BY Zenon DEF SealAndSign
  <1> DEFINE class == SealedClass(c, encodes)
             body == SealInner(c, class)
             a == Sign(c, body)
  <1>3. /\ class \in {"ok"} \cup InnerErrors
        /\ class = result[c] \/ class = "internal"
        /\ body \in Ciphertexts
        /\ body.call = c /\ body.enc = outer[c].enc /\ body.nonce = nonce[c]
        /\ class = "ok" => body.status = head[c].status /\ body.length = total[c]
    BY <1>1, SealedBody, Zenon
  <1>4. sealed' = sealed \cup {body} /\ Finish(c, class, body.status, batch[c], a)
    BY <1>2, Zenon
  <1> HIDE DEF class, body
  <1>5. UNCHANGED <<outer, got, nonce, batch, head, total, result,
                    nodeVars, clock, clockOk, drawn, historyVars>>
    BY Zenon DEF SealAndSign
  <1>6. body.status \in Nat
    BY <1>3, Zenon DEF Ciphertexts
  <1>7. a \in Answers /\ a.status \in Nat
    BY <1>1, <1>3, <1>6, StatusType, Zenon DEF Sign, Answers
  <1>8. class \in OutcomeClasses /\ class # "cancelled" /\ class \notin PlaintextClasses
    BY <1>3, Zenon DEF OutcomeClasses, InnerErrors, PlaintextClasses
  <1>9. /\ pc' \in [Calls -> Phases]
        /\ answer' \in [Calls -> Answers]
        /\ log' \in [Calls -> Seq(LogLines)]
        /\ pc'[c] = "done" /\ answer'[c] = a
        /\ Len(log'[c]) = 1
        /\ log'[c][1] = [class |-> class, status |-> a.status,
                         inner |-> body.status, batch |-> batch[c]]
        /\ \A d \in Calls \ {c} : pc'[d] = pc[d] /\ answer'[d] = answer[d] /\ log'[d] = log[d]
    BY <1>1, <1>4, <1>6, <1>7, <1>8, FinishEffect, Zenon DEF IInv
  <1>9a. Line(c)'.class = class
    <2>1. Line(c)' = [class |-> class, status |-> a.status,
                      inner |-> body.status, batch |-> batch[c]]
      BY <1>9, Zenon DEF Line
    <2> QED
      BY <2>1
  <1>10. TypeOK'
    BY <1>3, <1>4, <1>5, <1>9, Zenon DEF IInv, TypeOK, nodeVars, historyVars
  <1>11. Keys'
    BY <1>1, <1>3, <1>4, <1>5, <1>9, KeysSealed, Zenon DEF IInv, Done
  <1>12. Flow(c)'
    BY <1>5, <1>9, Zenon DEF IInv, Flow, Opened, AwaitingNode
  <1>13. Logged(c)'
    BY <1>8, <1>9, SMTT(30) DEF Logged, Done, Line, Sign
  <1>14. NodeSide(c)'
    BY <1>1, <1>3, <1>5, <1>8, <1>9
    DEF IInv, NodeSide, Done, Line, Refused, NotCalledClasses, PlaintextClasses,
        nodeVars, AwaitingNode
  <1>15. Judged(c)'
    BY <1>1, <1>3, <1>5, <1>8, <1>9, <1>9a, Zenon
    DEF IInv, Judged, Done, PlaintextClasses, historyVars
  <1>16. Bound(c)'
    <2>1. /\ a.signedRequest = outer[c] /\ a.body = body /\ a.signedBody = body
          /\ a.timestamp = clock
      BY Zenon DEF Sign
    <2>2. class = "ok" => body.length = head[c].length
      BY <1>1, <1>3, Zenon DEF IInv, Judged
    <2>3. clock <= clock
      BY <1>1
    <2> QED
      BY <1>1, <1>3, <1>5, <1>9, <1>9a, <2>1, <2>2, <2>3, ZenonT(30) DEF Bound, historyVars
  <1>17. clock <= clock' /\ \A d \in Calls \ {c} : CallState(d)' = CallState(d)
    <2>1. clock' = clock /\ clock <= clock
      BY <1>1, <1>5
    <2>2. \A d \in Calls \ {c} : CallState(d)' = CallState(d)
      BY <1>5, <1>9, Zenon DEF CallState, nodeVars, historyVars
    <2> QED
      BY <2>1, <2>2, Zenon
  <1> QED
    BY <1>10, <1>11, <1>12, <1>13, <1>14, <1>15, <1>16, <1>17, OneCall, Zenon DEF Local

(* Dropping a handler at an await keeps the inductive invariant.           *)
LEMMA ClientGoneStep ==
    ASSUME IInv, NEW c \in Calls, ClientGone(c)
    PROVE  IInv'
  <1>1. ~Done(c) /\ Finish(c, "cancelled", 0, 0, NoAnswer)
        /\ UNCHANGED <<outer, got, nonce, batch, head, total, result,
                       nodeVars, sharedVars, historyVars>>
    BY Zenon DEF ClientGone, Awaiting, Done
  <1>2. NoAnswer \in Answers /\ NoAnswer.status = 0 /\ NoAnswer.kind = "none"
    BY Zenon DEF Answers, NoAnswer
  <1>3. /\ pc' \in [Calls -> Phases]
        /\ answer' \in [Calls -> Answers]
        /\ log' \in [Calls -> Seq(LogLines)]
        /\ pc'[c] = "done" /\ answer'[c] = NoAnswer
        /\ Len(log'[c]) = 1
        /\ log'[c][1] = [class |-> "cancelled", status |-> NoAnswer.status,
                         inner |-> 0, batch |-> 0]
        /\ \A d \in Calls \ {c} : pc'[d] = pc[d] /\ answer'[d] = answer[d] /\ log'[d] = log[d]
    <2>1. "cancelled" \in OutcomeClasses /\ 0 \in Nat
      BY DEF OutcomeClasses
    <2>2. TypeOK /\ Logged(c) /\ NoAnswer.status \in Nat
      BY <1>2, <2>1, Zenon DEF IInv
    <2> QED
      BY <1>1, <1>2, <2>1, <2>2, FinishEffect, SMTT(30)
  <1>4. TypeOK'
    BY <1>1, <1>3, Zenon DEF IInv, TypeOK, nodeVars, sharedVars, historyVars
  <1>5. Keys'
    BY <1>1, <1>3, KeysFrame, Zenon DEF IInv, Done, sharedVars
  <1>6. Line(c)'.class = "cancelled" /\ Line(c)'.status = 0
    <2>1. Line(c)' = [class |-> "cancelled", status |-> NoAnswer.status,
                      inner |-> 0, batch |-> 0]
      BY <1>3, Zenon DEF Line
    <2> QED
      BY <1>2, <2>1
  <1>7. Flow(c)'
    BY <1>1, <1>3, Zenon DEF IInv, Flow, Done, Opened, AwaitingNode, sharedVars
  <1>8. Logged(c)'
    BY <1>2, <1>3, <1>6, Zenon DEF Logged, Done, PlaintextClasses
  <1>9. NodeSide(c)'
    BY <1>1, <1>3, <1>6, Zenon
    DEF IInv, NodeSide, Done, Refused, NotCalledClasses, AwaitingNode, nodeVars
  <1>10. Judged(c)'
    BY <1>1, <1>3, <1>6, Zenon DEF Judged, Done
  <1>11. Bound(c)'
    BY <1>1, <1>2, <1>3, Zenon DEF IInv, Bound, historyVars, sharedVars
  <1>12. clock <= clock'
    <2>1. clock \in Nat /\ clock' = clock
      BY <1>1, Zenon DEF IInv, TypeOK, sharedVars
    <2> QED
      BY <2>1
  <1>13. \A d \in Calls \ {c} : CallState(d)' = CallState(d)
    BY <1>1, <1>3, Zenon DEF CallState, nodeVars, historyVars
  <1> QED
    BY <1>4, <1>5, <1>7, <1>8, <1>9, <1>10, <1>11, <1>12, <1>13, OneCall, Zenon DEF Local

-----------------------------------------------------------------------------
(* The clock, and the steps that change nothing.                           *)

(* The clock's own steps keep the inductive invariant.                     *)
LEMMA QuietStep ==
    ASSUME IInv, ClockTick \/ ClockTurns \/ UNCHANGED vars
    PROVE  IInv'
  <1> USE DEF ClockTick, ClockTurns, vars, callVars, nodeVars, sharedVars, historyVars
  <1>1. TypeOK' /\ clock' \in Nat /\ clock <= clock'
    <2>1. clockOk' \in BOOLEAN
      BY Zenon DEF IInv, TypeOK
    <2>2. clock' \in Nat /\ clock <= clock'
      BY DEF IInv, TypeOK
    <2> QED
      BY <2>1, <2>2, Zenon DEF IInv, TypeOK
  <1>2. Keys'
    BY KeysFrame, Zenon DEF IInv, Done
  <1>3. ASSUME NEW d \in Calls PROVE Local(d)'
    <2>1. TypeOK /\ Local(d) /\ CallState(d)' = CallState(d)
      BY Zenon DEF IInv, Local, CallState
    <2> QED
      BY <1>1, <2>1, LocalFrame, Zenon
  <1> QED
    BY <1>1, <1>2, <1>3, Zenon DEF IInv, Local

(* The inductive invariant holds before any call.                          *)
LEMMA InitInvariant == Init => IInv
  <1> SUFFICES ASSUME Init PROVE IInv
    OBVIOUS
  <1>1. TypeOK
    BY DEF Init, TypeOK, Phases, Answers
  <1>2. Keys
    BY Zenon DEF Init, Keys
  <1>3. ASSUME NEW c \in Calls PROVE Flow(c) /\ Logged(c) /\ NodeSide(c) /\ Judged(c) /\ Bound(c)
    <2>1. /\ pc[c] = "idle" /\ nonce[c] = NoNonce /\ answer[c] = NoAnswer /\ log[c] = << >>
          /\ got[c] = 0 /\ total[c] = 0 /\ sent[c] = 0 /\ delivered[c] = 0
          /\ resultAt[c] = 0 /\ clock = 0
      BY Zenon DEF Init
    <2>2. 0 <= MaxRequestBytes /\ 0 <= MaxResponseBytes /\ 0 <= 0 /\ 0 <= 1 /\ ~(0 > 0)
      BY ConfidentialAssumption
    <2>3. NoAnswer.kind # "sealed"
      BY DEF NoAnswer
    <2>4. Flow(c) /\ Logged(c)
      BY <2>1, <2>2, Zenon DEF Flow, Logged, Done, Opened, AwaitingNode
    <2>5. NodeSide(c) /\ Judged(c) /\ Bound(c)
      BY <2>1, <2>2, <2>3, Zenon DEF NodeSide, Judged, Bound, Done, AwaitingNode
    <2> QED
      BY <2>4, <2>5, Zenon
  <1> QED
    BY <1>1, <1>2, <1>3, Zenon DEF IInv

(* Every step keeps the inductive invariant: one case per action.          *)
LEMMA NextInvariant == IInv /\ [Next]_vars => IInv'
  <1> SUFFICES ASSUME IInv, [Next]_vars PROVE IInv'
    OBVIOUS
  <1>1. ASSUME NEW c \in Calls, HandlerStep(c) PROVE IInv'
    BY <1>1, PlaintextStep, OpenStep, SealAndSignStep, SignFailsStep, Zenon DEF HandlerStep
  <1>2. ASSUME NEW c \in Calls, Arrivals(c) PROVE IInv'
    BY <1>2, PlaintextStep, UploadStep, ClientGoneStep, Zenon DEF Arrivals
  <1>3. ASSUME NEW c \in Calls, NodeStep(c) PROVE IInv'
    BY <1>3, SendStep, WaitStep, StreamStep, DeliverStep, Zenon DEF NodeStep
  <1>4. ASSUME NEW c \in Calls, UpstreamTimeout(c) PROVE IInv'
    BY <1>4, WaitStep, Zenon
  <1>5. CASE ClockTick \/ ClockTurns \/ UNCHANGED vars
    BY <1>5, QuietStep, Zenon
  <1> QED
    BY <1>1, <1>2, <1>3, <1>4, <1>5, Zenon DEF Next

(* The inductive invariant holds of every behaviour of the handlers.       *)
THEOREM Invariance == Spec => []IInv
  BY InitInvariant, NextInvariant, PTL DEF Spec

(* Type correctness: every variable keeps its type.                        *)
THEOREM TypeCorrectness == Spec => []TypeOK
  <1>1. IInv => TypeOK
    BY Zenon DEF IInv
  <1> QED
    BY <1>1, Invariance, PTL

(* No response key is used for two encryptions, whatever bytes the calls   *)
(* post and in whatever order the handlers run.                            *)
THEOREM KeysNeverReused == Spec => []KeyUsedOnce
  <1>1. IInv => KeyUsedOnce
    <2> SUFFICES ASSUME IInv, NEW s \in sealed, NEW t \in sealed, s.nonce = t.nonce
                 PROVE  s = t
      BY Zenon DEF KeyUsedOnce
    <2>1. s.call \in Calls /\ t.call \in Calls /\ s.nonce # NoNonce
      <3>1. \A x \in Ciphertexts : x.call \in Calls /\ x.nonce \in Nonces
        BY DEF Ciphertexts
      <3>2. s \in Ciphertexts /\ t \in Ciphertexts
        BY Zenon DEF IInv, TypeOK
      <3>3. NoNonce \notin Nonces
        BY ConfidentialAssumption, Zenon
      <3> QED
        BY <3>1, <3>2, <3>3, Zenon
    <2>2. s.nonce = nonce[s.call] /\ t.nonce = nonce[t.call]
      BY Zenon DEF IInv, Keys
    <2>3. s.call = t.call
      BY <2>1, <2>2, Zenon DEF IInv, Keys
    <2> QED
      BY <2>3, Zenon DEF IInv, Keys
  <1> QED
    BY <1>1, Invariance, PTL

(* An answer that promises the node was not called keeps that promise, and *)
(* the node is never given a batch over the limit.                         *)
THEOREM RefusalsNeverReachTheNode == Spec => []NodeUntouched
  <1>1. IInv => NodeUntouched
    <2> SUFFICES ASSUME IInv, NEW c \in Calls
                 PROVE  /\ Done(c) /\ Refused(Line(c)) => sent[c] = 0 /\ delivered[c] = 0
                        /\ delivered[c] > 0 => BatchSize(outer[c].inner.body) <= MaxBatchSize
      BY Zenon DEF NodeUntouched
    <2>1. sent[c] \in Nat /\ delivered[c] \in Nat /\ delivered[c] <= sent[c]
      BY Zenon DEF IInv, TypeOK, NodeSide
    <2>2. delivered[c] > 0 => outer[c] \in Requests /\ Verdict(outer[c].inner) = "ok"
      <3>1. delivered[c] > 0 => sent[c] > 0
        BY <2>1
      <3> QED
        BY <3>1, Zenon DEF IInv, NodeSide
    <2>3. delivered[c] > 0 => BatchSize(outer[c].inner.body) \in Nat
      BY <2>2, BatchType, Zenon
    <2>4. delivered[c] > 0 => ~(BatchSize(outer[c].inner.body) > MaxBatchSize)
      BY <2>2, Zenon DEF Verdict, DecodeInner
    <2> QED
      BY <2>1, <2>3, <2>4, ConfidentialAssumption DEF IInv, NodeSide
  <1> QED
    BY <1>1, Invariance, PTL

(* The one line of a call says what the client received.                   *)
THEOREM LogIsTruthful == Spec => []LogTellsOutcome
  <1>1. IInv => LogTellsOutcome
    BY Zenon DEF IInv, Logged, LogTellsOutcome
  <1> QED
    BY <1>1, Invariance, PTL

(* An encrypted answer is bound to its own request, and a relayed one is   *)
(* the node's whole answer.                                                *)
THEOREM AnswersAreBound == Spec => []AnswerBindsExchange
  <1>1. IInv => AnswerBindsExchange
    <2> SUFFICES ASSUME IInv, NEW c \in Calls, answer[c].kind = "sealed"
                 PROVE  /\ answer[c].signedRequest = outer[c]
                        /\ answer[c].signedBody = answer[c].body
                        /\ answer[c].body.enc = outer[c].enc
                        /\ answer[c].body.nonce = nonce[c]
                        /\ Line(c).class = "ok" =>
                             /\ delivered[c] > 0
                             /\ answer[c].body.status = head[c].status
                             /\ answer[c].body.length = head[c].length
      BY Zenon DEF AnswerBindsExchange
    <2>1. Done(c)
      <3>1. NoAnswer.kind # "sealed"
        BY SMTT(30) DEF NoAnswer
      <3> QED
        BY <3>1, Zenon DEF IInv, Logged
    <2>2. Line(c).class = "ok" => delivered[c] > 0
      BY <2>1 DEF IInv, NodeSide
    <2> QED
      BY <2>2, Zenon DEF IInv, Bound
  <1> QED
    BY <1>1, Invariance, PTL

(* A signed timestamp is no older than the result it is signed with.       *)
THEOREM TimestampsAreFresh == Spec => []TimestampFollowsResult
  <1>1. IInv => TimestampFollowsResult
    BY Zenon DEF IInv, Bound, TimestampFollowsResult
  <1> QED
    BY <1>1, Invariance, PTL

(* The limits refuse what is over them and nothing else.                   *)
THEOREM LimitsAreExact == Spec => []VerdictsJustified
  <1>1. IInv => VerdictsJustified
    BY Zenon DEF IInv, Judged, Flow, VerdictsJustified
  <1> QED
    BY <1>1, Invariance, PTL

(* No handler buffers more than the configured caps.                       *)
THEOREM BuffersAreBounded == Spec => []BufferedWithinCaps
  <1>1. IInv => BufferedWithinCaps
    BY Zenon DEF IInv, Flow, BufferedWithinCaps
  <1> QED
    BY <1>1, Invariance, PTL

-----------------------------------------------------------------------------
(* Refinement: the initial states map to NodeCall's initial state, and     *)
(* every step to one of its steps or to none.  IInv says what the argument *)
(* needs: nothing is sent before a refusal, and something is before a      *)
(* relay.                                                                  *)

OpenPhases == {"reading"} \cup Opened

(* Calls other than c keep their stage.                                    *)
Others(c) == \A d \in Calls \ {c} : pc'[d] = pc[d] /\ log'[d] = log[d]

(* A step of an open call that leaves it open.                             *)
LEMMA Stutter ==
    ASSUME NEW c \in Calls, Others(c), sent' = sent,
           pc[c] \in OpenPhases, pc'[c] \in OpenPhases
    PROVE  UNCHANGED <<Stage, sent>>
  BY DEF Others, OpenPhases, Opened, AwaitingNode, Stage, Done, Line

(* The end of a call.                                                      *)
LEMMA Ends ==
    ASSUME IInv', NEW c \in Calls, Others(c), sent' = sent, ~Done(c), Done(c)',
           pc[c] = "idle" => Refused(Line(c))'
    PROVE  N!Next
  <1> DEFINE how == Ending(Line(c))'
  <1>1. how \in N!Endings
    BY DEF Ending, N!Endings
  <1>2. Stage[c] = IF pc[c] = "idle" THEN "new" ELSE "open"
    BY DEF Stage
  <1>3. how = "refused" <=> Refused(Line(c))'
    BY DEF Ending
  <1>4. how = "relayed" => Line(c)'.class = "ok"
    BY DEF Ending
  <1>5. sent'[c] \in Nat /\ delivered'[c] \in Nat /\ delivered'[c] <= sent'[c] /\ sent'[c] <= 1
        /\ (Refused(Line(c))' => sent'[c] = 0)
        /\ (Line(c)'.class = "ok" => delivered'[c] = 1)
    BY DEF IInv, TypeOK, NodeSide
  <1>6. Stage' = [Stage EXCEPT ![c] = how]
    <2>1. Stage'[c] = how
      BY DEF Stage, Done
    <2>2. \A d \in Calls \ {c} : Stage'[d] = Stage[d]
      BY DEF Stage, Others, Done, Line
    <2>3. Stage' = [d \in Calls |-> Stage'[d]] /\ Stage = [d \in Calls |-> Stage[d]]
      BY DEF Stage
    <2> HIDE DEF how
    <2> QED
      BY <2>1, <2>2, <2>3
  <1> HIDE DEF how
  <1>7. N!End(c, how)
    BY <1>2, <1>3, <1>4, <1>5, <1>6 DEF N!End
  <1> QED
    BY <1>1, <1>7 DEF N!Next

(* Finish ends its own call and touches no other.                          *)
LEMMA FinishesOne ==
    ASSUME TypeOK, NEW c \in Calls, NEW class, NEW inner, NEW n, NEW a,
           Finish(c, class, inner, n, a)
    PROVE  pc'[c] = "done" /\ Others(c)
  BY DEF Finish, Others, TypeOK

(* A handler's own step, or its timeout, ends the call in NodeCall or      *)
(* leaves it open.                                                         *)
LEMMA HandlerImplements ==
    ASSUME IInv, IInv', NEW c \in Calls, HandlerStep(c)
    PROVE  [N!Next]_<<Stage, sent>>
  <1> USE DEF nodeVars
  <1>1. ASSUME RefuseInner(c) \/ CallUpstream(c) PROVE UNCHANGED <<Stage, sent>>
    <2>1. /\ pc[c] \in OpenPhases /\ pc'[c] \in OpenPhases /\ sent' = sent /\ Others(c)
      BY <1>1, SMTT(30) DEF RefuseInner, CallUpstream, Open, Collected, InnerDone, OpenPhases,
                  Opened, AwaitingNode, Others, IInv, TypeOK
    <2> QED
      BY <2>1, Stutter, Zenon
  <1>2. ASSUME \/ PreDecapsulation(c) \/ RefuseUnsealable(c)
               \/ SealAndSign(c) \/ SignFails(c) \/ SealFails(c)
        PROVE  N!Next
    <2>1. /\ pc[c] \in {"reading", "sealing"} /\ pc'[c] = "done"
          /\ sent' = sent /\ Others(c)
      <3>1. pc[c] \in {"reading", "sealing"} /\ sent' = sent
        BY <1>2, Zenon DEF PreDecapsulation, RefuseUnsealable, SealAndSign, SignFails,
                           SealFails, Collected
      <3>2. \E class, inner, n, a : Finish(c, class, inner, n, a)
        BY <1>2, Zenon DEF PreDecapsulation, RefuseUnsealable, SealAndSign, SignFails,
                           SealFails, FinishPlaintext
      <3> QED
        BY <3>1, <3>2, FinishesOne, Zenon DEF IInv
    <2>2. pc[c] # "idle" /\ ~Done(c) /\ Done(c)'
      BY <2>1 DEF Done
    <2> QED
      BY <2>1, <2>2, Ends, Zenon
  <1> QED
    BY <1>1, <1>2, Zenon DEF HandlerStep

(* What the client does takes a call up, ends it, or is invisible in       *)
(* NodeCall.                                                               *)
LEMMA ArrivalsImplement ==
    ASSUME IInv, IInv', NEW c \in Calls, Arrivals(c)
    PROVE  [N!Next]_<<Stage, sent>>
  <1> USE DEF nodeVars
  <1>1. ASSUME NEW r \in Requests, Post(c, r) PROVE N!Next
    <2>1. pc[c] = "idle" /\ pc'[c] = "reading" /\ sent' = sent /\ Others(c)
      <3>1. pc \in [Calls -> Phases]
        BY Zenon DEF IInv, TypeOK
      <3> QED
        BY <1>1, <3>1 DEF Post, Others
    <2>2. Stage[c] = "new" /\ Stage'[c] = "open"
      BY <2>1 DEF Stage, Done
    <2>3. \A d \in Calls \ {c} : Stage'[d] = Stage[d]
      BY <2>1 DEF Stage, Others, Done, Line
    <2>4. Stage' = [d \in Calls |-> Stage'[d]] /\ Stage = [d \in Calls |-> Stage[d]]
      BY DEF Stage
    <2>5. Stage' = [Stage EXCEPT ![c] = "open"]
      BY <2>2, <2>3, <2>4
    <2> QED
      BY <2>1, <2>2, <2>5, Zenon DEF N!Next, N!Take
  <1>2. CASE MethodNotAllowed(c)
    <2>1. ~Done(c) /\ Done(c)' /\ sent' = sent /\ Others(c)
      <3>1. pc[c] = "idle" /\ sent' = sent
        BY <1>2, Zenon DEF MethodNotAllowed
      <3>2. \E class, inner, n, a : Finish(c, class, inner, n, a)
        BY <1>2, Zenon DEF MethodNotAllowed, FinishPlaintext
      <3> QED
        BY <3>1, <3>2, FinishesOne DEF IInv, Done
    <2>2. log[c] = << >> /\ log \in [Calls -> Seq(LogLines)]
      BY <2>1, Zenon DEF IInv, TypeOK, Logged
    <2>3. \E line : /\ line.class = "method-not-allowed"
                    /\ log' = [log EXCEPT ![c] = Append(@, line)]
      BY <1>2, Zenon DEF MethodNotAllowed, FinishPlaintext, Finish
    <2>4. Refused(Line(c))'
      BY <2>2, <2>3 DEF Line, Refused, NotCalledClasses
    <2> QED
      BY <2>1, <2>4, Ends, Zenon
  <1>3. ASSUME NEW n \in 1..(MaxRequestBytes + 1), ReadFrame(c, n)
        PROVE  UNCHANGED <<Stage, sent>>
    <2>1. pc[c] \in OpenPhases /\ pc'[c] \in OpenPhases /\ sent' = sent /\ Others(c)
      BY <1>3 DEF ReadFrame, Frame, OpenPhases, Others
    <2> QED
      BY <2>1, Stutter, Zenon
  <1>4. ASSUME \/ \E n \in 1..(MaxRequestBytes + 1) : RequestTooLarge(c, n)
               \/ RequestReadFailed(c)
               \/ ClientGone(c)
        PROVE  N!Next
    <2>1. pc[c] \in Awaiting /\ pc'[c] = "done" /\ sent' = sent /\ Others(c)
      <3>1. pc[c] \in Awaiting /\ sent' = sent
        BY <1>4, Zenon DEF RequestTooLarge, RequestReadFailed, ClientGone, Frame, Awaiting
      <3>2. \E class, inner, n, a : Finish(c, class, inner, n, a)
        BY <1>4, Zenon DEF RequestTooLarge, RequestReadFailed, ClientGone, FinishPlaintext
      <3> QED
        BY <3>1, <3>2, FinishesOne, Zenon DEF IInv
    <2>2. pc[c] # "idle" /\ ~Done(c) /\ Done(c)'
      BY <2>1 DEF Done, Awaiting
    <2> QED
      BY <2>1, <2>2, Ends, Zenon
  <1> QED
    BY <1>1, <1>2, <1>3, <1>4, Zenon DEF Arrivals

(* Of the steps at the node's side only SendRequest is visible in          *)
(* NodeCall: it hands the request over, once.                              *)
LEMMA NodeStepsImplement ==
    ASSUME IInv, IInv', NEW c \in Calls, NodeStep(c) \/ UpstreamTimeout(c)
    PROVE  [N!Next]_<<Stage, sent>>
  <1> USE DEF nodeVars, callVars
  <1>1. CASE SendRequest(c)
    <2>1. /\ pc[c] = "connecting" /\ pc'[c] = "waiting" /\ sent[c] = 0
          /\ sent' = [sent EXCEPT ![c] = 1] /\ log' = log
          /\ \A d \in Calls \ {c} : pc'[d] = pc[d]
      <3>1. /\ pc \in [Calls -> Phases] /\ sent \in [Calls -> Nat]
            /\ pc[c] = "connecting" => sent[c] = 0
        BY Zenon DEF IInv, TypeOK, NodeSide
      <3>2. /\ pc[c] = "connecting" /\ pc' = [pc EXCEPT ![c] = "waiting"]
            /\ sent' = [sent EXCEPT ![c] = @ + 1] /\ log' = log
        BY <1>1, Zenon DEF SendRequest
      <3> QED
        BY <3>1, <3>2
    <2>2. Stage[c] = "open" /\ Stage' = Stage
      BY <2>1 DEF Stage, Done, Line
    <2>3. N!HandOver(c)
      BY <2>1, <2>2 DEF N!HandOver
    <2> QED
      BY <2>3 DEF N!Next
  <1>2. ASSUME \/ UpstreamFails(c)
               \/ UpstreamTimeout(c)
               \/ \E h \in Responses : AcceptHead(c, h) \/ RejectHead(c, h)
               \/ \E n \in 1..(MaxResponseBytes + 1) : ReadBody(c, n) \/ BodyTooLarge(c, n)
               \/ BodyEnd(c)
        PROVE  UNCHANGED <<Stage, sent>>
    <2>1. pc[c] \in OpenPhases /\ pc'[c] \in OpenPhases /\ sent' = sent /\ Others(c)
      BY <1>2, Zenon DEF UpstreamFails, UpstreamTimeout, AcceptHead, RejectHead, Respond, ReadBody,
                  BodyTooLarge, BodyEnd, BodyFrame, InnerDone, OpenPhases, Opened,
                  AwaitingNode, Others, IInv, TypeOK
    <2> QED
      BY <2>1, Stutter, Zenon
  <1>3. CASE Deliver(c)
    BY <1>3 DEF Deliver, Stage, Done, Line
  <1> QED
    BY <1>1, <1>2, <1>3 DEF NodeStep

(* Every step is a step of NodeCall or a stutter.                          *)
LEMMA NextImplements == IInv /\ IInv' /\ [Next]_vars => [N!Next]_<<Stage, sent>>
  <1> SUFFICES ASSUME IInv, IInv', [Next]_vars PROVE [N!Next]_<<Stage, sent>>
    OBVIOUS
  <1>1. CASE ClockTick \/ ClockTurns \/ UNCHANGED vars
    BY <1>1 DEF ClockTick, ClockTurns, vars, callVars, nodeVars, Stage, Done, Line
  <1>2. ASSUME NEW c \in Calls,
               HandlerStep(c) \/ Arrivals(c) \/ NodeStep(c) \/ UpstreamTimeout(c)
        PROVE  [N!Next]_<<Stage, sent>>
    BY <1>2, HandlerImplements, ArrivalsImplement, NodeStepsImplement
  <1> QED
    BY <1>1, <1>2 DEF Next

(* The handlers implement NodeCall: the node is given a call's request at  *)
(* most once, only while the call is open, never when the call ends with a *)
(* refusal and always when it ends with the node's answer.                 *)
THEOREM Refinement == Spec => ImplementsNodeCall
  <1>1. Init => N!Init
    BY DEF Init, N!Init, Stage
  <1> QED
    BY <1>1, Invariance, NextImplements, PTL DEF Spec, ImplementsNodeCall, N!Spec

=============================================================================
