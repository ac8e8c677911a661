-------------------------- MODULE AttestationProofs -------------------------
(***************************************************************************)
(* Proofs about Attestation, for every set of calls, every nonce length    *)
(* and every order in which dstack answers.                                *)
(***************************************************************************)
EXTENDS Attestation, TLAPS

(* Boot comes before every call, and fixes what is cached.                 *)
Booted ==
    /\ boot = "ready" => cached \in Infos /\ ResolveComposeHash(cached.hash)
    /\ \A c \in Calls : pc[c] # "idle" => boot = "ready"

(* What a call has asked dstack for, and what dstack produced for it.      *)
Asked(c) ==
    /\ pc[c] = "idle" => report[c] = << >> /\ quote[c] = NoQuote /\ answer[c] = NoAnswer
    /\ report[c] # << >> => /\ asked[c] \in ByteStrings
                            /\ report[c] = BuildReportData(PubKey, asked[c])
    /\ askedAt[c] <= produced
    /\ quote[c] # NoQuote => /\ quote[c] \in Quotes /\ report[c] # << >>
                             /\ quote[c].report = report[c]
                             /\ quote[c].serial > askedAt[c]
                             /\ quote[c].serial <= produced

(* No two calls are given one quote.                                       *)
Distinct ==
    \A c, d \in Calls :
        /\ quote[c] # NoQuote /\ quote[d] # NoQuote
        /\ quote[c].serial = quote[d].serial
        => c = d

(* What an answer is made of.                                              *)
Answered(c) ==
    /\ Attested(c) => /\ pc[c] = "done" /\ quote[c] # NoQuote
                      /\ answer[c].quote = quote[c] /\ answer[c].pubkey = PubKey
                      /\ answer[c].composeHash = cached.hash
                      /\ answer[c].appCompose = cached.compose
    /\ answer[c].kind = "info" => pc[c] = "done" /\ answer[c].body = cached

IInv ==
    /\ TypeOK /\ Booted /\ Distinct
    /\ \A c \in Calls : Asked(c) /\ Answered(c)

-----------------------------------------------------------------------------

(* A nonce that is accepted has its full length.                           *)
LEMMA NonceType ==
    ASSUME NEW q, ExtractNonce(q).ok
    PROVE  ExtractNonce(q).value \in ByteStrings
  <1>1. Rejected.ok = FALSE
    BY DEF Rejected
  <1>2. ExtractNonce(q) = ParseUserNonce(q)
    BY <1>1 DEF ExtractNonce
  <1> DEFINE trimmed == TrimStartMatches(TrimStartMatches(Trim(q), <<"0", "x">>), <<"0", "X">>)
  <1>3. ParseUserNonce(q) = IF IsHex(trimmed) /\ Len(trimmed) = 2 * NonceBytes
                            THEN Accepted(HexDecode(trimmed)) ELSE Rejected
    BY DEF ParseUserNonce
  <1> HIDE DEF trimmed
  <1>4. Len(trimmed) = 2 * NonceBytes /\ ExtractNonce(q).value = HexDecode(trimmed)
    BY <1>1, <1>2, <1>3 DEF Accepted
  <1>5. \A d : Nibble(d) \in Nat
    BY DEF Nibble
  <1>6. HexDecode(trimmed) \in ByteStrings
    BY <1>4, <1>5, InputsAssumption DEF HexDecode, ByteStrings
  <1> QED
    BY <1>4, <1>6

(* REPORTDATA has its full length, and the key and the nonce in its slots. *)
LEMMA ReportData ==
    ASSUME NEW nonce \in ByteStrings
    PROVE  /\ BuildReportData(PubKey, nonce) \in [1..ReportDataLen -> Nat]
           /\ \A i \in 1..NonceBytes :
                /\ BuildReportData(PubKey, nonce)[i] = PubKey[i]
                /\ BuildReportData(PubKey, nonce)[NonceBytes + i] = nonce[i]
  <1>1. NonceBytes \in Nat /\ PubKey \in [1..NonceBytes -> Nat] /\ nonce \in [1..NonceBytes -> Nat]
    BY InputsAssumption, AttestationAssumption DEF ByteStrings
  <1>2. BuildReportData(PubKey, nonce) \in [1..ReportDataLen -> Nat]
    BY <1>1 DEF BuildReportData, ReportDataLen
  <1>3. ASSUME NEW i \in 1..NonceBytes
        PROVE  /\ BuildReportData(PubKey, nonce)[i] = PubKey[i]
               /\ BuildReportData(PubKey, nonce)[NonceBytes + i] = nonce[i]
    BY <1>1 DEF BuildReportData, ReportDataLen
  <1> QED
    BY <1>2, <1>3

(* The answers of the handlers are well formed.                            *)
LEMMA AnswerTypes ==
    /\ NoAnswer \in Answers /\ NoAnswer.kind = "none"
    /\ Error(400) \in Answers /\ Error(502) \in Answers
    /\ Error(400).kind = "error" /\ Error(502).kind = "error"
    /\ \A i \in Infos : [kind |-> "info", body |-> i] \in Answers
    /\ cached \in Infos => \A q \in Quotes : QuoteAnswer(q) \in Answers
  <1>1. NoAnswer \in Answers /\ NoAnswer.kind = "none"
    BY DEF Answers, NoAnswer
  <1>2. Error(400) \in Answers /\ Error(502) \in Answers
    BY DEF Answers, Error
  <1>3. Error(400).kind = "error" /\ Error(502).kind = "error"
    BY DEF Error
  <1>4. \A i \in Infos : [kind |-> "info", body |-> i] \in Answers
    BY DEF Answers
  <1>5. ASSUME cached \in Infos, NEW q \in Quotes PROVE QuoteAnswer(q) \in Answers
    <2>1. cached.hash \in STRING /\ cached.compose \in STRING
      BY <1>5, AttestationAssumption DEF DstackInfos
    <2> QED
      BY <2>1, AttestationAssumption DEF QuoteAnswer, Answers
  <1> QED
    BY <1>1, <1>2, <1>3, <1>4, <1>5

(* dstack's quotes are not the absence of one.                             *)
LEMMA QuoteIsThere == \A q \in Quotes : q # NoQuote
  BY DEF Quotes, NoQuote

-----------------------------------------------------------------------------

callVars == <<report, quote, produced, asked, askedAt>>

(* Boot, and what dstack would answer, change while no call has started or *)
(* change nothing a call has.                                              *)
LEMMA BootSteps ==
    ASSUME IInv, Bootstrap \/ BootstrapFails \/ InfoChanges
    PROVE  IInv'
  <1>1. TypeOK /\ Booted
    BY Zenon DEF IInv
  <1>2. UNCHANGED <<pc, answer, callVars>>
    BY Zenon DEF Bootstrap, BootstrapFails, InfoChanges, callVars
  <1>3. TypeOK'
    BY <1>1 DEF TypeOK, Bootstrap, BootstrapFails, InfoChanges
  <1>4. cached' = cached \/ \A c \in Calls : pc[c] = "idle"
    BY <1>1 DEF Booted, Bootstrap, BootstrapFails, InfoChanges
  <1>5. Booted'
    BY <1>1, <1>2 DEF Booted, TypeOK, Bootstrap, BootstrapFails, InfoChanges
  <1>6. Distinct'
    BY <1>2, Zenon DEF IInv, Distinct, callVars
  <1>7. ASSUME NEW c \in Calls PROVE Asked(c)' /\ Answered(c)'
    <2>1. Asked(c) /\ Answered(c)
      BY Zenon DEF IInv
    <2>2. Asked(c)'
      BY <1>2, <2>1, Zenon DEF Asked, callVars
    <2>3. Answered(c)'
      <3>1. CASE cached' = cached
        BY <1>2, <2>1, <3>1, Zenon DEF Answered, Attested, callVars
      <3>2. CASE pc[c] = "idle"
        BY <1>2, <2>1, <3>2, AnswerTypes DEF Asked, Answered, Attested
      <3> QED
        BY <1>4, <3>1, <3>2
    <2> QED
      BY <2>2, <2>3
  <1> QED
    BY <1>3, <1>5, <1>6, <1>7, Zenon DEF IInv

(* The end of a call, with an answer that says what it should.             *)
LEMMA FinishStep ==
    ASSUME IInv, NEW c \in Calls, NEW a \in Answers, Finish(c, a),
           UNCHANGED <<boot, info, cached, callVars>>, boot = "ready",
           a.kind = "quote" => quote[c] # NoQuote /\ a = QuoteAnswer(quote[c]),
           a.kind = "info" => a.body = cached
    PROVE  IInv'
  <1>1. TypeOK /\ Booted
    BY Zenon DEF IInv
  <1>2. /\ pc' = [pc EXCEPT ![c] = "done"] /\ answer' = [answer EXCEPT ![c] = a]
        /\ UNCHANGED <<boot, info, cached, report, quote, produced, asked, askedAt>>
    BY Zenon DEF Finish, callVars
  <1>3. TypeOK'
    BY <1>1, <1>2 DEF TypeOK
  <1>4. pc'[c] = "done" /\ answer'[c] = a
    BY <1>1, <1>2 DEF TypeOK
  <1>5. \A d \in Calls \ {c} : pc'[d] = pc[d] /\ answer'[d] = answer[d]
    BY <1>1, <1>2 DEF TypeOK
  <1>6. Booted'
    BY <1>1, <1>2, Zenon DEF Booted
  <1>7. Distinct'
    BY <1>2, Zenon DEF IInv, Distinct
  <1>8. ASSUME NEW d \in Calls PROVE Asked(d)' /\ Answered(d)'
    <2>1. Asked(d) /\ Answered(d)
      BY Zenon DEF IInv
    <2>2. CASE d = c
      <3>1. Asked(d)'
        BY <1>2, <1>4, <2>1, <2>2 DEF Asked
      <3>2. a.kind = "quote" => /\ a.quote = quote[c] /\ a.pubkey = PubKey
                                /\ a.composeHash = cached.hash /\ a.appCompose = cached.compose
        BY DEF QuoteAnswer
      <3>3. Answered(d)'
        BY <1>2, <1>4, <2>2, <3>2 DEF Answered, Attested
      <3> QED
        BY <3>1, <3>3
    <2>3. CASE d # c
      BY <1>2, <1>5, <2>1, <2>3 DEF Asked, Answered, Attested
    <2> QED
      BY <2>2, <2>3
  <1> QED
    BY <1>3, <1>6, <1>7, <1>8, Zenon DEF IInv

(* Every answer of a handler, and a client that leaves.                    *)
LEMMA AnswerSteps ==
    ASSUME IInv, NEW c \in Calls,
           \/ \E q \in Queries \cup {Missing} : BadNonce(c, q)
           \/ RelayQuote(c) \/ QuoteFails(c) \/ ClientGone(c) \/ GetInfo(c)
    PROVE  IInv'
  <1>1. TypeOK /\ Booted /\ Asked(c)
    BY Zenon DEF IInv
  <1>2. boot = "ready" /\ UNCHANGED <<boot, info, cached, callVars>>
    BY <1>1 DEF Booted, BadNonce, RelayQuote, QuoteFails, ClientGone, GetInfo, callVars
  <1>3. cached \in Infos
    BY <1>1, <1>2 DEF Booted
  <1> DEFINE bad == Error(400)
             failed == Error(502)
             described == [kind |-> "info", body |-> cached]
             attested == QuoteAnswer(quote[c])
  <1>4. /\ bad \in Answers /\ bad.kind = "error" /\ failed \in Answers /\ failed.kind = "error"
        /\ NoAnswer \in Answers /\ NoAnswer.kind = "none"
    BY AnswerTypes
  <1>5. described \in Answers /\ described.kind = "info" /\ described.body = cached
    BY <1>3, AnswerTypes
  <1>6. /\ attested.kind = "quote"
        /\ quote[c] # NoQuote => attested \in Answers
    BY <1>1, <1>3, AnswerTypes DEF QuoteAnswer, Asked
  <1>7. \/ Finish(c, bad) \/ Finish(c, failed) \/ Finish(c, NoAnswer) \/ Finish(c, described)
        \/ quote[c] # NoQuote /\ Finish(c, attested)
    BY DEF BadNonce, RelayQuote, QuoteFails, ClientGone, GetInfo
  <1> HIDE DEF bad, failed, described, attested
  <1>8. CASE Finish(c, bad)
    BY <1>2, <1>4, <1>8, FinishStep
  <1>9. CASE Finish(c, failed)
    BY <1>2, <1>4, <1>9, FinishStep
  <1>10. CASE Finish(c, NoAnswer)
    BY <1>2, <1>4, <1>10, FinishStep
  <1>11. CASE Finish(c, described)
    BY <1>2, <1>5, <1>11, FinishStep
  <1>12. CASE quote[c] # NoQuote /\ Finish(c, attested)
    BY <1>2, <1>6, <1>12, FinishStep DEF attested
  <1> QED
    BY <1>7, <1>8, <1>9, <1>10, <1>11, <1>12

(* A call asks dstack for a quote over its own nonce.                      *)
LEMMA GetQuoteStep ==
    ASSUME IInv, NEW c \in Calls, NEW q \in Queries \cup {Missing}, GetQuote(c, q)
    PROVE  IInv'
  <1> DEFINE nonce == ExtractNonce(q).value
             data == BuildReportData(PubKey, nonce)
  <1>1. TypeOK /\ Booted
    BY Zenon DEF IInv
  <1>2. nonce \in ByteStrings /\ data \in [1..ReportDataLen -> Nat]
    BY NonceType, ReportData DEF GetQuote
  <1>3. /\ boot = "ready" /\ pc[c] = "idle" /\ pc' = [pc EXCEPT ![c] = "quoting"]
        /\ report' = [report EXCEPT ![c] = data] /\ asked' = [asked EXCEPT ![c] = nonce]
        /\ askedAt' = [askedAt EXCEPT ![c] = produced]
        /\ UNCHANGED <<boot, info, cached, quote, answer, produced>>
    BY Zenon DEF GetQuote
  <1>4. \A d \in Calls : Asked(d) /\ Answered(d)
    BY Zenon DEF IInv
  <1>5. data = BuildReportData(PubKey, nonce)
    OBVIOUS
  <1> HIDE DEF nonce, data
  <1>6. TypeOK'
    BY <1>1, <1>2, <1>3 DEF TypeOK
  <1>7. /\ pc'[c] = "quoting" /\ report'[c] = data /\ asked'[c] = nonce /\ askedAt'[c] = produced
        /\ quote[c] = NoQuote /\ answer[c] = NoAnswer
    BY <1>1, <1>3, <1>4 DEF TypeOK, Asked
  <1>8. \A d \in Calls \ {c} : /\ pc'[d] = pc[d] /\ report'[d] = report[d]
                               /\ asked'[d] = asked[d] /\ askedAt'[d] = askedAt[d]
    BY <1>1, <1>3 DEF TypeOK
  <1>9. Booted'
    BY <1>1, <1>3, Zenon DEF Booted
  <1>10. Distinct'
    BY <1>3, Zenon DEF IInv, Distinct
  <1>11. ASSUME NEW d \in Calls PROVE Asked(d)' /\ Answered(d)'
    <2>1. CASE d = c
      <3>1. Asked(d)'
        <4>1. produced \in Nat
          BY <1>1 DEF TypeOK
        <4> QED
          BY <1>2, <1>3, <1>5, <1>7, <2>1, <4>1 DEF Asked
      <3>2. Answered(d)'
        BY <1>3, <1>7, <2>1, AnswerTypes DEF Answered, Attested
      <3> QED
        BY <3>1, <3>2
    <2>2. CASE d # c
      BY <1>3, <1>4, <1>8, <2>2 DEF Asked, Answered, Attested
    <2> QED
      BY <2>1, <2>2
  <1> QED
    BY <1>6, <1>9, <1>10, <1>11, Zenon DEF IInv

(* dstack produces a quote: a new one, over what the call asked for.       *)
LEMMA ProduceStep ==
    ASSUME IInv, NEW c \in Calls, ProduceQuote(c)
    PROVE  IInv'
  <1> DEFINE new == [serial |-> produced + 1, report |-> report[c]]
  <1>1. TypeOK /\ Booted /\ Distinct
    BY Zenon DEF IInv
  <1>2. \A d \in Calls : Asked(d) /\ Answered(d)
    BY Zenon DEF IInv
  <1>3. /\ report[c] # << >> /\ quote[c] = NoQuote
        /\ quote' = [quote EXCEPT ![c] = new] /\ produced' = produced + 1
        /\ UNCHANGED <<boot, info, cached, pc, report, answer, asked, askedAt>>
    BY Zenon DEF ProduceQuote
  <1>4. /\ produced \in Nat /\ \A d \in Calls : askedAt[d] \in Nat
        /\ \A d \in Calls : quote[d] # NoQuote => quote[d].serial \in Nat
    BY <1>1 DEF TypeOK, Quotes
  <1>5. new \in Quotes /\ new.serial = produced + 1 /\ new.report = report[c] /\ new # NoQuote
    BY <1>1, <1>3, <1>4, QuoteIsThere DEF TypeOK, Quotes
  <1> HIDE DEF new
  <1>6. TypeOK'
    BY <1>1, <1>3, <1>4, <1>5 DEF TypeOK
  <1>7. quote'[c] = new /\ \A d \in Calls \ {c} : quote'[d] = quote[d]
    BY <1>1, <1>3 DEF TypeOK
  <1>8. Booted'
    BY <1>1, <1>3, Zenon DEF Booted
  <1>9. \A d \in Calls \ {c} : quote[d] # NoQuote => quote[d].serial # new.serial
    BY <1>2, <1>4, <1>5 DEF Asked
  <1>10. Distinct'
    BY <1>1, <1>7, <1>9 DEF Distinct
  <1>11. ASSUME NEW d \in Calls PROVE Asked(d)' /\ Answered(d)'
    <2>1. Asked(d) /\ Answered(d)
      BY <1>2
    <2>2. askedAt[d] \in Nat /\ (quote[d] # NoQuote => quote[d].serial \in Nat)
      BY <1>4
    <2>3. CASE d = c
      <3>1. pc[c] # "idle" /\ ~Attested(c)
        BY <1>2, <1>3 DEF Asked, Answered
      <3>2. askedAt[c] <= produced + 1 /\ new.serial > askedAt[c] /\ new.serial <= produced + 1
        BY <1>2, <1>4, <1>5 DEF Asked
      <3>3. Asked(d)'
        BY <1>3, <1>5, <1>7, <2>1, <2>3, <3>1, <3>2 DEF Asked
      <3>4. Answered(d)'
        BY <1>3, <2>1, <2>3, <3>1 DEF Answered, Attested
      <3> QED
        BY <3>3, <3>4
    <2>4. CASE d # c
      <3>1. quote'[d] = quote[d]
        BY <1>7, <2>4
      <3>2. Asked(d)'
        BY <1>3, <1>4, <2>1, <2>2, <3>1 DEF Asked
      <3>3. Answered(d)'
        BY <1>3, <2>1, <3>1 DEF Answered, Attested
      <3> QED
        BY <3>2, <3>3
    <2> QED
      BY <2>3, <2>4
  <1> QED
    BY <1>6, <1>8, <1>10, <1>11, Zenon DEF IInv

-----------------------------------------------------------------------------

LEMMA InitIInv == Init => IInv
  <1> SUFFICES ASSUME Init PROVE IInv
    OBVIOUS
  <1>1. TypeOK
    BY AnswerTypes DEF Init, TypeOK
  <1>2. Booted /\ Distinct
    BY DEF Init, Booted, Distinct
  <1>3. ASSUME NEW c \in Calls PROVE Asked(c) /\ Answered(c)
    BY AnswerTypes DEF Init, Asked, Answered, Attested
  <1> QED
    BY <1>1, <1>2, <1>3 DEF IInv

LEMMA NextIInv == IInv /\ [Next]_vars => IInv'
  <1> SUFFICES ASSUME IInv, [Next]_vars PROVE IInv'
    OBVIOUS
  <1>1. CASE UNCHANGED vars
    BY <1>1, ZenonT(30) DEF IInv, TypeOK, Booted, Distinct, Asked, Answered, Attested, vars
  <1>2. CASE Next
    BY <1>2, BootSteps, AnswerSteps, GetQuoteStep, ProduceStep, Zenon DEF Next
  <1> QED
    BY <1>1, <1>2

THEOREM Invariance == Spec => []IInv
  BY InitIInv, NextIInv, PTL DEF Spec

(* The state keeps its types: REPORTDATA is never short.                   *)
THEOREM TypeCorrect == Spec => []TypeOK
  <1>1. IInv => TypeOK
    BY DEF IInv
  <1> QED
    BY <1>1, Invariance, PTL

(* A caller's quote is over the key and the caller's own nonce, fresh, and *)
(* nobody else's.                                                          *)
THEOREM OwnQuote == Spec => []QuoteIsOwn
  <1>1. IInv => QuoteIsOwn
    <2> SUFFICES ASSUME IInv, NEW c \in Calls, Attested(c)
                 PROVE  LET a == answer[c]
                        IN  /\ \A i \in 1..NonceBytes : a.quote.report[i] = a.pubkey[i]
                            /\ \A i \in 1..NonceBytes :
                                 a.quote.report[NonceBytes + i] = asked[c][i]
                            /\ a.quote.serial > askedAt[c]
                            /\ \A d \in Calls :
                                 Attested(d) /\ a.quote.serial = answer[d].quote.serial => c = d
      BY DEF QuoteIsOwn
    <2>1. /\ answer[c].quote = quote[c] /\ answer[c].pubkey = PubKey /\ quote[c] # NoQuote
      BY DEF IInv, Answered
    <2>2. /\ quote[c].report = report[c] /\ quote[c].serial > askedAt[c]
          /\ asked[c] \in ByteStrings /\ report[c] = BuildReportData(PubKey, asked[c])
      BY <2>1 DEF IInv, Asked
    <2>3. \A i \in 1..NonceBytes : /\ report[c][i] = PubKey[i]
                                  /\ report[c][NonceBytes + i] = asked[c][i]
      BY <2>2, ReportData
    <2>4. \A d \in Calls : Attested(d) => quote[d] # NoQuote /\ answer[d].quote = quote[d]
      BY DEF IInv, Answered
    <2>5. \A d \in Calls : Attested(d) /\ quote[c].serial = quote[d].serial => c = d
      BY <2>1, <2>4 DEF IInv, Distinct
    <2> QED
      BY <2>1, <2>2, <2>3, <2>4, <2>5
  <1> QED
    BY <1>1, Invariance, PTL

(* /info and /attestation describe the deployment of boot.                 *)
THEOREM Consistent == Spec => []ComposeConsistent
  <1>1. IInv => ComposeConsistent
    BY Zenon DEF IInv, Booted, Answered, ComposeConsistent, ResolveComposeHash
  <1> QED
    BY <1>1, Invariance, PTL

=============================================================================
