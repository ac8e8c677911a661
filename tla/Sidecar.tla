------------------------------- MODULE Sidecar ------------------------------
(***************************************************************************)
(* The process (Lifecycle) with the handlers of its two kinds of routes    *)
(* (Passthrough and Confidential) running in it: a handler starts with a   *)
(* request on a connection the server accepted, runs only while the        *)
(* process serves, and its end is the connection's reply; a client that    *)
(* leaves ends both.  Connections here carry one call each; Lifecycle lets *)
(* them carry many.                                                        *)
(*                                                                         *)
(* The handlers share the clock and the process.  The variables of         *)
(* Passthrough have a p in front; the others keep their names.             *)
(***************************************************************************)
EXTENDS Naturals

CONSTANTS
    Base, MaxPathAndQuery, MaxFieldSection, MaxClock,
    NoRequest, NoResponse, NoNonce,
    ProxyCalls, ProxyRequests, ProxyResponses, MaxBodyBytes, UsizeMax, PubKey,
    NodeHonours, Unset,
    ConfidentialCalls, ConfidentialRequests, ConfidentialResponses, Encs, Nonces,
    MinEnvelope, MaxRequestBytes, MaxResponseBytes, MaxBatchSize,
    Configs, Keys, Hashes, SeedLen, BatchLimit, NonceBytes, ChainIdMaxLen

VARIABLES
    phase, config, key, hash, signals, conns, exit,
    pPc, pReq, pGot, pSent, pDelivered, pHead, pTotal, pAnswer, pCause,
    pc, outer, got, nonce, batch, sent, delivered, head, total, result, answer, log,
    drawn, sealed, resultAt, broke,
    clock, clockOk

AllCalls == ProxyCalls \cup ConfidentialCalls

L == INSTANCE Lifecycle WITH Connections <- AllCalls

P == INSTANCE Passthrough WITH
       Calls <- ProxyCalls, Requests <- ProxyRequests, Responses <- ProxyResponses,
       pc <- pPc, req <- pReq, got <- pGot, sent <- pSent, delivered <- pDelivered,
       head <- pHead, total <- pTotal, answer <- pAnswer, cause <- pCause

C == INSTANCE Confidential WITH
       Calls <- ConfidentialCalls, Requests <- ConfidentialRequests,
       Responses <- ConfidentialResponses

(* A call is made to one kind of route; the rest is what the components    *)
(* assume of their constants.                                              *)
ASSUME SidecarAssumption ==
    /\ ProxyCalls \cap ConfidentialCalls = {}
    /\ L!LifecycleAssumption /\ L!InputsAssumption
    /\ P!PassthroughAssumption /\ P!OriginAssumption
    /\ C!ConfidentialAssumption /\ C!InnerAssumption /\ C!OriginAssumption

lifeVars == <<phase, config, key, hash, signals, conns, exit>>
proxyVars == <<pPc, pReq, pGot, pSent, pDelivered, pHead, pTotal, pAnswer, pCause>>
confVars == <<pc, outer, got, nonce, batch, sent, delivered, head, total, result, answer,
              log, drawn, sealed, resultAt, broke>>
clockVars == <<clock, clockOk>>
vars == <<lifeVars, proxyVars, confVars, clockVars>>

Init == L!Init /\ P!Init /\ C!Init

-----------------------------------------------------------------------------

Running(place) == place \notin {"idle", "done"}

(* The connection of a call follows its handler, which goes from place b   *)
(* to place a.                                                             *)
Follow(c, b, a, left) ==
    IF ~Running(b) /\ Running(a) THEN L!Request(c)
    ELSE IF Running(b) /\ ~Running(a) THEN IF left THEN L!ClientCloses(c) ELSE L!Reply(c)
    ELSE UNCHANGED lifeVars

(* The connection is there and the process has not ended.                  *)
Attached(c) == L!Serves /\ conns[c] \notin {"none", "closed"}

Proxied(c, Step) ==
    /\ Attached(c)
    /\ Step
    /\ Follow(c, pPc[c], pPc'[c], pCause'[c] = "gone")
    /\ UNCHANGED confVars

Sealed(c, Step) ==
    /\ Attached(c)
    /\ Step
    /\ Follow(c, pc[c], pc'[c], \E i \in DOMAIN log'[c] : log'[c][i].class = "cancelled")
    /\ UNCHANGED proxyVars

ProxyHandler(c) == Proxied(c, P!HandlerStep(c))

ProxyConnect(c) == Proxied(c, P!Connect(c))

ProxyAnswers(c) == Proxied(c, P!NodeAnswers(c))

ProxyStep(c) ==
    \/ ProxyHandler(c) \/ ProxyConnect(c) \/ ProxyAnswers(c)
    \/ Proxied(c, P!ClientStep(c))
    \/ Proxied(c, P!UpstreamFails(c))

ConfidentialHandler(c) == Sealed(c, C!HandlerStep(c))

ConfidentialTimeout(c) == Sealed(c, C!UpstreamTimeout(c))

ConfidentialStep(c) ==
    \/ ConfidentialHandler(c) \/ ConfidentialTimeout(c)
    \/ Sealed(c, C!Arrivals(c))
    \/ Sealed(c, C!NodeStep(c))

(* What is on its way to the node arrives whatever became of the process.  *)
Deliver ==
    /\ UNCHANGED lifeVars
    /\ \/ UNCHANGED confVars /\ \E c \in ProxyCalls : P!Deliver(c)
       \/ UNCHANGED proxyVars /\ \E c \in ConfidentialCalls : C!Deliver(c)

ProxyDeliver(c) == P!Deliver(c) /\ UNCHANGED <<lifeVars, confVars>>

ClockStep ==
    /\ UNCHANGED <<lifeVars, proxyVars>>
    /\ C!ClockTick \/ C!ClockTurns

(* The steps of main, of the signals and of connections without a call.    *)
Process ==
    /\ UNCHANGED <<proxyVars, confVars, clockVars>>
    /\ \/ L!Boot \/ L!Dstack
       \/ L!InstallHandlers \/ L!Killed \/ L!ShutdownSignal \/ L!StopAccepting \/ L!Drained
       \/ \E c \in AllCalls : \/ L!Accept(c) \/ L!CloseGracefully(c)
                              \/ conns[c] = "idle" /\ L!ClientCloses(c)

Next ==
    \/ Process
    \/ \E c \in ProxyCalls : ProxyStep(c)
    \/ \E c \in ConfidentialCalls : ConfidentialStep(c)
    \/ Deliver
    \/ ClockStep

Spec == Init /\ [][Next]_vars

MainStep(A) == A /\ UNCHANGED <<proxyVars, confVars, clockVars>>

(* Tasks that are ready are polled and timers fire; the node answers the   *)
(* passthrough route.  Nothing is assumed of the node behind /confidential *)
(* or of any client.                                                       *)
FairSpec ==
    /\ Spec
    /\ WF_vars(MainStep(L!StopAccepting)) /\ WF_vars(MainStep(L!Drained))
    /\ \A c \in AllCalls : WF_vars(MainStep(L!CloseGracefully(c)))
    /\ \A c \in ProxyCalls : /\ WF_vars(ProxyHandler(c)) /\ WF_vars(ProxyConnect(c))
                             /\ WF_vars(ProxyDeliver(c)) /\ WF_vars(ProxyAnswers(c))
    /\ \A c \in ConfidentialCalls : WF_vars(ConfidentialHandler(c)) /\ WF_vars(ConfidentialTimeout(c))

-----------------------------------------------------------------------------

(* Uploaded: the handler of c waits for no more of its client.             *)
Uploaded(c) ==
    IF c \in ProxyCalls THEN pPc[c] # "collecting" \/ P!Collected(c)
    ELSE pc[c] # "reading" \/ C!Collected(c)

(* NothingLost: when the process reports a clean shutdown every handler    *)
(* has run to its end, so every call that was taken up, also those taken   *)
(* up after the signal on kept connections, has its answer or a client     *)
(* that left.                                                              *)
NothingLost ==
    exit = "0" =>
        /\ \A c \in ProxyCalls :
             /\ ~Running(pPc[c])
             /\ P!Done(c) => pAnswer[c] # P!NoAnswer \/ pCause[c] = "gone"
        /\ \A c \in ConfidentialCalls :
             /\ ~Running(pc[c])
             /\ C!Done(c) => answer[c] # C!NoAnswer \/ C!Line(c).class = "cancelled"

(* DrainEnds: a drain that waits for no client's upload ends the process:  *)
(* /confidential bounds its wait for the node itself, the passthrough      *)
(* route leaves it to the node.                                            *)
DrainEnds ==
    phase = "draining" /\ (\A c \in AllCalls : conns[c] # "idle" /\ Uploaded(c)) ~> exit = "0"

=============================================================================
