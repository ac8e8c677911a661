---------------------------- MODULE Attestation -----------------------------
(***************************************************************************)
(* GET /attestation and GET /info: quotes produced on demand by dstack,    *)
(* bound to the caller's nonce, beside information cached at boot          *)
(* (attestation.rs).                                                       *)
(*                                                                         *)
(* The only await of a handler is the get_quote call, without a timeout.   *)
(* dstack is external: it answers outstanding calls in any order, late, or *)
(* not at all.  A quote is what it is over, and its place in the order in  *)
(* which dstack produced quotes.                                           *)
(***************************************************************************)
EXTENDS Inputs

CONSTANTS
    Calls,         \* HTTP calls to the two routes
    Queries,       \* values of ?nonce= callers may send
    Missing,       \* no ?nonce=, or a query the extractor rejects
    PubKey,        \* the signing key's public part, NonceBytes long like a nonce
    Infos,         \* answers of dstack info
    AllowEmpty,    \* --allow-empty-compose-hash
    NoInfo

DstackInfos == [hash : STRING, compose : STRING, rest : Nat]

ByteStrings == [1..NonceBytes -> Nat]

ASSUME AttestationAssumption ==
    /\ Queries \subseteq Seq(Characters)
    /\ Missing \notin Queries
    /\ PubKey \in ByteStrings
    /\ Infos \subseteq DstackInfos
    /\ AllowEmpty \in BOOLEAN
    /\ NoInfo \notin Infos

-----------------------------------------------------------------------------

ResolveComposeHash(hash) == hash # "" \/ AllowEmpty

ExtractNonce(q) == IF q = Missing THEN Rejected ELSE ParseUserNonce(q)

ReportDataLen == 2 * NonceBytes

(* The key at REPORT_DATA_PUBKEY_OFFSET, the nonce at its own offset.      *)
BuildReportData(pubkey, nonce) ==
    [i \in 1..ReportDataLen |-> IF i <= NonceBytes THEN pubkey[i] ELSE nonce[i - NonceBytes]]

-----------------------------------------------------------------------------

VARIABLES
    boot,      \* "booting", "ready" or "failed"
    info,      \* what dstack info would answer now
    cached,    \* AttestationInner: the info of boot
    pc,        \* where each handler is
    report,    \* REPORTDATA each call has asked a quote for; << >>: none
    quote,     \* the quote dstack produced for each call
    answer,    \* what the client receives
    produced,  \* history: how many quotes dstack has produced
    asked,     \* history: the nonce of each call
    askedAt    \* history: produced, when the call asked

vars == <<boot, info, cached, pc, report, quote, answer, produced, asked, askedAt>>

NoQuote == [serial |-> 0]

NoAnswer == [kind |-> "none"]

Error(status) == [kind |-> "error", status |-> status]

Quotes == [serial : Nat \ {0}, report : [1..ReportDataLen -> Nat]]

Answers == {NoAnswer} \cup [kind : {"error"}, status : {400, 502}]
             \cup [kind : {"info"}, body : Infos]
             \cup [kind : {"quote"}, quote : Quotes, pubkey : ByteStrings,
                   composeHash : STRING, appCompose : STRING]

Init ==
    /\ boot = "booting"
    /\ info \in Infos
    /\ cached = NoInfo
    /\ pc = [c \in Calls |-> "idle"]
    /\ report = [c \in Calls |-> << >>]
    /\ quote = [c \in Calls |-> NoQuote]
    /\ answer = [c \in Calls |-> NoAnswer]
    /\ produced = 0
    /\ asked = [c \in Calls |-> << >>]
    /\ askedAt = [c \in Calls |-> 0]

(* AttestationState::bootstrap.                                            *)
Bootstrap ==
    /\ boot = "booting"
    /\ IF ResolveComposeHash(info.hash)
       THEN boot' = "ready" /\ cached' = info
       ELSE boot' = "failed" /\ UNCHANGED cached
    /\ UNCHANGED <<info, pc, report, quote, answer, produced, asked, askedAt>>

(* dstack does not answer info, or its answer cannot be serialised.        *)
BootstrapFails ==
    /\ boot = "booting"
    /\ boot' = "failed"
    /\ UNCHANGED <<info, cached, pc, report, quote, answer, produced, asked, askedAt>>

(* External: dstack would answer info differently from now on.             *)
InfoChanges ==
    /\ info' \in Infos \ {info}
    /\ UNCHANGED <<boot, cached, pc, report, quote, answer, produced, asked, askedAt>>

-----------------------------------------------------------------------------

Finish(c, a) ==
    /\ pc' = [pc EXCEPT ![c] = "done"]
    /\ answer' = [answer EXCEPT ![c] = a]

BadNonce(c, q) ==
    /\ boot = "ready" /\ pc[c] = "idle"
    /\ ~ExtractNonce(q).ok
    /\ Finish(c, Error(400))
    /\ UNCHANGED <<boot, info, cached, report, quote, produced, asked, askedAt>>

(* attestation_handler up to its await.                                    *)
GetQuote(c, q) ==
    /\ boot = "ready" /\ pc[c] = "idle"
    /\ ExtractNonce(q).ok
    /\ LET nonce == ExtractNonce(q).value
       IN  /\ report' = [report EXCEPT ![c] = BuildReportData(PubKey, nonce)]
           /\ asked' = [asked EXCEPT ![c] = nonce]
    /\ pc' = [pc EXCEPT ![c] = "quoting"]
    /\ askedAt' = [askedAt EXCEPT ![c] = produced]
    /\ UNCHANGED <<boot, info, cached, quote, answer, produced>>

(* External: dstack produces a quote, also for a call that has ended.      *)
ProduceQuote(c) ==
    /\ report[c] # << >> /\ quote[c] = NoQuote
    /\ quote' = [quote EXCEPT ![c] = [serial |-> produced + 1, report |-> report[c]]]
    /\ produced' = produced + 1
    /\ UNCHANGED <<boot, info, cached, pc, report, answer, asked, askedAt>>

QuoteAnswer(q) ==
    [kind |-> "quote", quote |-> q, pubkey |-> PubKey,
     composeHash |-> cached.hash, appCompose |-> cached.compose]

(* Mutant of RelayQuote: a quote for the same REPORTDATA is reused.        *)
RelayCached(c) ==
    /\ pc[c] = "quoting"
    /\ \E d \in Calls : /\ quote[d] # NoQuote /\ report[d] = report[c]
                        /\ Finish(c, QuoteAnswer(quote[d]))
    /\ UNCHANGED <<boot, info, cached, report, quote, produced, asked, askedAt>>

RelayQuote(c) ==
    /\ pc[c] = "quoting" /\ quote[c] # NoQuote
    /\ Finish(c, QuoteAnswer(quote[c]))
    /\ UNCHANGED <<boot, info, cached, report, quote, produced, asked, askedAt>>

QuoteFails(c) ==
    /\ pc[c] = "quoting"
    /\ Finish(c, Error(502))
    /\ UNCHANGED <<boot, info, cached, report, quote, produced, asked, askedAt>>

(* The client disconnects: the future is dropped at its await.             *)
ClientGone(c) ==
    /\ pc[c] = "quoting"
    /\ Finish(c, NoAnswer)
    /\ UNCHANGED <<boot, info, cached, report, quote, produced, asked, askedAt>>

(* Mutants of GetInfo: an answer before boot is over; dstack's present     *)
(* answer in place of the cached one.                                      *)
GetInfoEarly(c) ==
    /\ pc[c] = "idle"
    /\ Finish(c, [kind |-> "info", body |-> cached])
    /\ UNCHANGED <<boot, info, cached, report, quote, produced, asked, askedAt>>

GetInfoLive(c) ==
    /\ boot = "ready" /\ pc[c] = "idle"
    /\ Finish(c, [kind |-> "info", body |-> info])
    /\ UNCHANGED <<boot, info, cached, report, quote, produced, asked, askedAt>>

GetInfo(c) ==
    /\ boot = "ready" /\ pc[c] = "idle"
    /\ Finish(c, [kind |-> "info", body |-> cached])
    /\ UNCHANGED <<boot, info, cached, report, quote, produced, asked, askedAt>>

Next ==
    \/ Bootstrap
    \/ BootstrapFails
    \/ InfoChanges
    \/ \E c \in Calls :
         \/ \E q \in Queries \cup {Missing} : BadNonce(c, q) \/ GetQuote(c, q)
         \/ ProduceQuote(c)
         \/ RelayQuote(c)
         \/ QuoteFails(c)
         \/ ClientGone(c)
         \/ GetInfo(c)

Spec == Init /\ [][Next]_vars

-----------------------------------------------------------------------------

(* TypeOK: the state keeps its types; in particular REPORTDATA always has  *)
(* its full length and an answer is served from an info of dstack.         *)
TypeOK ==
    /\ boot \in {"booting", "ready", "failed"}
    /\ info \in Infos
    /\ cached \in Infos \cup {NoInfo}
    /\ pc \in [Calls -> {"idle", "quoting", "done"}]
    /\ report \in [Calls -> [1..ReportDataLen -> Nat] \cup {<< >>}]
    /\ quote \in [Calls -> Quotes \cup {NoQuote}]
    /\ answer \in [Calls -> Answers]
    /\ produced \in Nat
    /\ asked \in [Calls -> ByteStrings \cup {<< >>}]
    /\ askedAt \in [Calls -> Nat]

Attested(c) == answer[c].kind = "quote"

(* QuoteIsOwn: the quote in an answer is over the key in the answer and    *)
(* the caller's own nonce, was produced after the caller asked, and is not *)
(* in any other answer, also when two callers send the same nonce: every   *)
(* call hits dstack (AttestationState::get).                               *)
QuoteIsOwn ==
    \A c \in Calls : Attested(c) =>
        LET a == answer[c]
        IN  /\ \A i \in 1..NonceBytes : a.quote.report[i] = a.pubkey[i]
            /\ \A i \in 1..NonceBytes : a.quote.report[NonceBytes + i] = asked[c][i]
            /\ a.quote.serial > askedAt[c]
            /\ \A d \in Calls : Attested(d) /\ a.quote.serial = answer[d].quote.serial => c = d

(* ComposeConsistent: /info and /attestation describe one and the same     *)
(* deployment, the one that was there at boot, whatever dstack would say   *)
(* now; its compose hash is empty only if the operator allowed that.       *)
ComposeConsistent ==
    \A c \in Calls :
        /\ Attested(c) => /\ answer[c].composeHash = cached.hash
                          /\ answer[c].appCompose = cached.compose
                          /\ answer[c].composeHash = "" => AllowEmpty
        /\ answer[c].kind = "info" => answer[c].body = cached

=============================================================================
