---------------------------- MODULE SidecarProofs ---------------------------
(***************************************************************************)
(* Proofs about Sidecar, for every set of calls and every value of the     *)
(* other constants: the process with the handlers in it behaves, seen from *)
(* each component, as that component alone, so what is proved of a         *)
(* component holds in the process; and a clean shutdown loses no call.     *)
(***************************************************************************)
EXTENDS Sidecar, TLAPS

-----------------------------------------------------------------------------
(* The composition implements each of its components.                      *)

(* The steps of a passthrough call, but for the delivery.                  *)
PSteps(c) ==
    P!HandlerStep(c) \/ P!Connect(c) \/ P!NodeAnswers(c) \/ P!ClientStep(c) \/ P!UpstreamFails(c)

CSteps(c) ==
    C!HandlerStep(c) \/ C!UpstreamTimeout(c) \/ C!Arrivals(c) \/ C!NodeStep(c)

(* The handlers read the clock and never set it; a call moves no other     *)
(* call.                                                                   *)
LEMMA ProxyOwn ==
    ASSUME NEW c \in ProxyCalls, PSteps(c) \/ P!Deliver(c)
    PROVE  /\ UNCHANGED clockVars
           /\ pPc' = pPc \/ \E p : pPc' = [pPc EXCEPT ![c] = p]
  BY Zenon
  DEF PSteps, clockVars, P!clockVars, P!callVars, P!nodeVars, P!Deliver, P!HandlerStep,
      P!Connect, P!NodeAnswers, P!ClientStep, P!UpstreamFails, P!UriFails, P!SendUpstream,
      P!Relay, P!SignFails, P!HandOver, P!Respond, P!ReadBody, P!BodyTooLarge, P!Arrive,
      P!ReadRequest, P!RequestTooLarge, P!RequestBroken, P!ClientGone, P!Finish

LEMMA ConfidentialOwn ==
    ASSUME NEW c \in ConfidentialCalls, CSteps(c)
    PROVE  /\ UNCHANGED clockVars
           /\ pc' = pc \/ \E p : pc' = [pc EXCEPT ![c] = p]
  BY Zenon
  DEF CSteps, clockVars, C!callVars, C!nodeVars, C!sharedVars, C!Deliver, C!HandlerStep,
      C!UpstreamTimeout, C!Arrivals, C!NodeStep, C!PreDecapsulation, C!RefuseUnsealable,
      C!RefuseInner, C!CallUpstream, C!Open, C!SealAndSign, C!SignFails, C!SealFails, C!Post,
      C!MethodNotAllowed, C!ReadFrame, C!RequestTooLarge, C!RequestReadFailed, C!ClientGone,
      C!SendRequest, C!UpstreamFails, C!AcceptHead, C!RejectHead, C!Respond, C!ReadBody,
      C!BodyTooLarge, C!BodyEnd, C!InnerDone, C!FinishPlaintext, C!Finish

(* The connection of a call moves with its handler, or stays.              *)
LEMMA FollowSteps ==
    ASSUME NEW c \in AllCalls, NEW b, NEW a, NEW left, Follow(c, b, a, left)
    PROVE  [L!Next]_(L!vars)
  BY Zenon DEF Follow, lifeVars, L!vars, L!Next, L!Client, L!Serve

(* A step of the process is one of each component, or leaves it alone.     *)
LEMMA ComponentSteps ==
    [Next]_vars => [L!Next]_(L!vars) /\ [P!Next]_(P!vars) /\ [C!Next]_(C!vars)
  <1> SUFFICES ASSUME [Next]_vars
               PROVE  [L!Next]_(L!vars) /\ [P!Next]_(P!vars) /\ [C!Next]_(C!vars)
    OBVIOUS
  <1>1. UNCHANGED lifeVars => UNCHANGED L!vars
    BY DEF lifeVars, L!vars
  <1>2. UNCHANGED <<proxyVars, clockVars>> => UNCHANGED P!vars
    BY DEF proxyVars, clockVars, P!vars, P!callVars, P!nodeVars, P!clockVars
  <1>3. UNCHANGED <<confVars, clockVars>> => UNCHANGED C!vars
    BY DEF confVars, clockVars, C!vars, C!callVars, C!nodeVars, C!sharedVars, C!historyVars
  <1>4. CASE UNCHANGED vars
    BY <1>1, <1>2, <1>3, <1>4 DEF vars
  <1>5. CASE Process
    <2>1. L!Next
      BY <1>5, Zenon DEF Process, L!Next, L!Client, L!Serve
    <2> QED
      BY <1>2, <1>3, <1>5, <2>1 DEF Process
  <1>6. ASSUME NEW c \in ProxyCalls, ProxyStep(c)
        PROVE  [L!Next]_(L!vars) /\ [P!Next]_(P!vars) /\ [C!Next]_(C!vars)
    <2>1. /\ PSteps(c) /\ UNCHANGED confVars
          /\ Follow(c, pPc[c], pPc'[c], pCause'[c] = "gone")
      BY <1>6, Zenon DEF ProxyStep, ProxyHandler, ProxyConnect, ProxyAnswers, Proxied, PSteps
    <2>2. P!Next
      BY <2>1, Zenon DEF PSteps, P!Next, P!NodeStep
    <2>3. [L!Next]_(L!vars)
      BY <2>1, FollowSteps, Zenon DEF AllCalls
    <2> QED
      BY <1>3, <2>1, <2>2, <2>3, ProxyOwn, Zenon
  <1>7. ASSUME NEW c \in ConfidentialCalls, ConfidentialStep(c)
        PROVE  [L!Next]_(L!vars) /\ [P!Next]_(P!vars) /\ [C!Next]_(C!vars)
    <2>1. /\ CSteps(c) /\ UNCHANGED proxyVars
          /\ \E left : Follow(c, pc[c], pc'[c], left)
      BY <1>7, Zenon DEF ConfidentialStep, ConfidentialHandler, ConfidentialTimeout, Sealed, CSteps
    <2>2. C!Next
      BY <2>1, Zenon DEF CSteps, C!Next
    <2>3. [L!Next]_(L!vars)
      BY <2>1, FollowSteps, Zenon DEF AllCalls
    <2> QED
      BY <1>2, <2>1, <2>2, <2>3, ConfidentialOwn, Zenon
  <1>8. CASE Deliver
    <2>1. ASSUME NEW c \in ProxyCalls, P!Deliver(c), UNCHANGED confVars
          PROVE  P!Next /\ UNCHANGED C!vars
      BY <1>3, <2>1, ProxyOwn, Zenon DEF P!Next, P!NodeStep
    <2>2. ASSUME NEW c \in ConfidentialCalls, C!Deliver(c), UNCHANGED proxyVars
          PROVE  C!Next /\ UNCHANGED P!vars
      BY <1>2, <2>2, ConfidentialOwn, Zenon DEF C!Next, C!NodeStep, CSteps
    <2> QED
      BY <1>1, <1>8, <2>1, <2>2, Zenon DEF Deliver
  <1>9. CASE ClockStep
    <2>1. C!Next
      BY <1>9, Zenon DEF ClockStep, C!Next
    <2>2. P!ClockTick \/ P!ClockTurns
      BY <1>9, Zenon DEF ClockStep, proxyVars, C!ClockTick, C!ClockTurns, P!ClockTick,
                         P!ClockTurns, P!callVars, P!nodeVars
    <2> QED
      BY <1>1, <1>9, <2>1, <2>2, Zenon DEF ClockStep, P!Next
  <1> QED
    BY <1>4, <1>5, <1>6, <1>7, <1>8, <1>9 DEF Next

(* The process with the handlers in it is a behaviour of the process alone *)
(* (main, axum::serve), of the passthrough route and of /confidential: the *)
(* components restrict one another and never add a behaviour.              *)
THEOREM Composition == Spec => L!Spec /\ P!Spec /\ C!Spec
  <1>1. Init => L!Init /\ P!Init /\ C!Init
    BY DEF Init
  <1> QED
    BY <1>1, ComponentSteps, PTL DEF Spec, L!Spec, P!Spec, C!Spec

-----------------------------------------------------------------------------
(* Handlers and connections.                                               *)

Occupied == {"busy", "last"}

(* A handler runs exactly while its connection has a call on it.           *)
Linked ==
    /\ \A c \in ProxyCalls : Running(pPc[c]) <=> conns[c] \in Occupied
    /\ \A c \in ConfidentialCalls : Running(pc[c]) <=> conns[c] \in Occupied

(* The variables of Linked are functions of the calls.                     *)
Places ==
    /\ pPc \in [ProxyCalls -> P!Phases] /\ pc \in [ConfidentialCalls -> C!Phases]
    /\ conns \in [AllCalls -> {"none", "idle", "busy", "last", "closed"}]

(* Follow keeps a call and its connection together and moves no other      *)
(* connection.                                                             *)
LEMMA FollowLinks ==
    ASSUME Places, NEW c \in AllCalls, NEW b, NEW a, NEW left, Follow(c, b, a, left),
           Running(b) <=> conns[c] \in Occupied
    PROVE  /\ Running(a) <=> conns'[c] \in Occupied
           /\ \A d \in AllCalls \ {c} : conns'[d] = conns[d]
  <1>1. CASE UNCHANGED lifeVars /\ (Running(a) <=> Running(b))
    BY <1>1 DEF lifeVars
  <1>2. ASSUME NEW s \in {"idle", "busy", "closed"}, L!SetConn(c, s), Running(a) <=> s = "busy"
        PROVE  /\ Running(a) <=> conns'[c] \in Occupied
               /\ \A d \in AllCalls \ {c} : conns'[d] = conns[d]
    BY <1>2 DEF L!SetConn, Places, Occupied
  <1>3. \/ UNCHANGED lifeVars /\ (Running(a) <=> Running(b))
        \/ \E s \in {"idle", "busy", "closed"} : L!SetConn(c, s) /\ (Running(a) <=> s = "busy")
    BY DEF Follow, L!Request, L!Reply, L!ClientCloses
  <1> QED
    BY <1>1, <1>2, <1>3

LEMMA LinkedSteps ==
    ASSUME Places, Linked, [Next]_vars
    PROVE  Linked'
  <1>1. CASE UNCHANGED vars \/ Deliver \/ ClockStep
    <2>1. UNCHANGED <<pPc, pc, conns>>
      BY <1>1, Zenon DEF vars, Deliver, ClockStep, lifeVars, proxyVars, confVars, P!Deliver,
                         P!callVars, C!Deliver, C!callVars, C!ClockTick, C!ClockTurns
    <2> QED
      BY <2>1 DEF Linked
  <1>2. CASE Process
    <2>1. UNCHANGED <<pPc, pc>>
      BY <1>2, Zenon DEF Process, proxyVars, confVars
    <2>2. CASE conns' = conns
      BY <2>1, <2>2 DEF Linked
    <2>3. ASSUME NEW c \in AllCalls, NEW s, conns' = [conns EXCEPT ![c] = s],
                 conns[c] \in Occupied <=> s \in Occupied
          PROVE  Linked'
      BY <2>1, <2>3 DEF Linked, Places, AllCalls
    <2>4. \/ conns' = conns
          \/ \E c \in AllCalls, s \in {"idle", "last", "closed"} :
               conns' = [conns EXCEPT ![c] = s] /\ (conns[c] \in Occupied <=> s \in Occupied)
      <3>1. ASSUME NEW c \in AllCalls,
                   L!Accept(c) \/ L!CloseGracefully(c) \/ (conns[c] = "idle" /\ L!ClientCloses(c))
            PROVE  \E s \in {"idle", "last", "closed"} :
                     conns' = [conns EXCEPT ![c] = s] /\ (conns[c] \in Occupied <=> s \in Occupied)
        BY <3>1 DEF L!Accept, L!CloseGracefully, L!ClientCloses, L!SetConn, Occupied
      <3>2. L!Boot \/ L!Dstack => conns' = conns
        BY Zenon DEF L!Boot, L!Dstack, L!UsageError, L!Parse, L!GetKey, L!GetInfo, L!DstackFails,
                     L!NewUpstream, L!Abort, L!Bind, L!BindFails, L!MoveTo, L!ExitWith
      <3>3. \/ L!InstallHandlers \/ L!Killed \/ L!ShutdownSignal \/ L!StopAccepting
            \/ L!Drained
            => conns' = conns
        BY Zenon DEF L!InstallHandlers, L!Killed, L!ShutdownSignal, L!StopAccepting, L!Drained,
                     L!MoveTo, L!ExitWith
      <3> QED
        BY <1>2, <3>1, <3>2, <3>3, Zenon DEF Process
    <2> QED
      BY <2>2, <2>3, <2>4
  <1>3. ASSUME NEW c \in ProxyCalls, ProxyStep(c) PROVE Linked'
    <2>1. /\ PSteps(c) /\ UNCHANGED confVars
          /\ Follow(c, pPc[c], pPc'[c], pCause'[c] = "gone")
      BY <1>3, Zenon DEF ProxyStep, ProxyHandler, ProxyConnect, ProxyAnswers, Proxied, PSteps
    <2>2. pc' = pc /\ \A d \in ProxyCalls \ {c} : pPc'[d] = pPc[d]
      BY <2>1, ProxyOwn DEF Places, confVars
    <2>3. /\ Running(pPc'[c]) <=> conns'[c] \in Occupied
          /\ \A d \in AllCalls \ {c} : conns'[d] = conns[d]
      BY <2>1, FollowLinks, Zenon DEF Linked, AllCalls
    <2>4. c \notin ConfidentialCalls
      BY SidecarAssumption, Zenon
    <2> QED
      BY <2>2, <2>3, <2>4 DEF Linked, AllCalls
  <1>4. ASSUME NEW c \in ConfidentialCalls, ConfidentialStep(c) PROVE Linked'
    <2>1. /\ CSteps(c) /\ UNCHANGED proxyVars
          /\ \E left : Follow(c, pc[c], pc'[c], left)
      BY <1>4, Zenon DEF ConfidentialStep, ConfidentialHandler, ConfidentialTimeout, Sealed, CSteps
    <2>2. pPc' = pPc /\ \A d \in ConfidentialCalls \ {c} : pc'[d] = pc[d]
      BY <2>1, ConfidentialOwn DEF Places, proxyVars
    <2>3. /\ Running(pc'[c]) <=> conns'[c] \in Occupied
          /\ \A d \in AllCalls \ {c} : conns'[d] = conns[d]
      BY <2>1, FollowLinks, Zenon DEF Linked, AllCalls
    <2>4. c \notin ProxyCalls
      BY SidecarAssumption, Zenon
    <2> QED
      BY <2>2, <2>3, <2>4 DEF Linked, AllCalls
  <1> QED
    BY <1>1, <1>2, <1>3, <1>4 DEF Next

-----------------------------------------------------------------------------
(* The components with their proofs: LP is L, PP is P and CP is C, the     *)
(* same definitions under other names.                                     *)

LP == INSTANCE LifecycleProofs WITH Connections <- AllCalls

LEMMA ProcessAssumptions == LP!LifecycleAssumption /\ LP!InputsAssumption
  BY SidecarAssumption, Zenon
  DEF L!CommandLines, LP!CommandLines, L!DstackKeys, LP!DstackKeys, L!Characters,
      LP!Characters, L!Graphic, LP!Graphic, L!White, LP!White, L!Wide, LP!Wide, L!HexDigits,
      LP!HexDigits

LEMMA SameParses == \A cfg : L!ConfigParses(cfg) <=> LP!ConfigParses(cfg)
  <1>1. \A s : L!Trim(s) = LP!Trim(s)
    BY Zenon DEF L!Trim, LP!Trim, L!White, LP!White, L!Min, L!Max, LP!Min, LP!Max
  <1>2. \A S : L!Cardinality(S) = LP!Cardinality(S)
    BY Zenon DEF L!Cardinality, LP!Cardinality
  <1>3. \A s : L!ByteLen(s) = LP!ByteLen(s)
    BY <1>2, Zenon DEF L!ByteLen, LP!ByteLen, L!Wide, LP!Wide
  <1>4. \A s : L!ValidateChainId(s) = LP!ValidateChainId(s)
    BY <1>1, <1>3, Zenon
    DEF L!ValidateChainId, LP!ValidateChainId, L!Graphic, LP!Graphic, L!HexDigits,
        LP!HexDigits, L!Accepted, LP!Accepted, L!Rejected, LP!Rejected
  <1> QED
    BY <1>4, Zenon DEF L!ConfigParses, LP!ConfigParses

LEMMA SameProcess ==
    (L!Init <=> LP!Init) /\ ([L!Next]_(L!vars) => [LP!Next]_(LP!vars))
  <1>1. L!Init <=> LP!Init
    BY Zenon DEF L!Init, LP!Init, L!NoKey, LP!NoKey
  <1>2. L!Next <=> LP!Next
    BY SameParses, Zenon
    DEF L!Next, LP!Next, L!vars, LP!vars, L!Boot, LP!Boot, L!Dstack, LP!Dstack, L!InstallHandlers,
        LP!InstallHandlers, L!Killed, LP!Killed, L!ShutdownSignal, LP!ShutdownSignal,
        L!StopAccepting, LP!StopAccepting, L!Drained, LP!Drained, L!Client, LP!Client, L!Serve,
        LP!Serve, L!UsageError, LP!UsageError, L!Parse, LP!Parse, L!GetKey, LP!GetKey,
        L!GetInfo, LP!GetInfo, L!DstackFails, LP!DstackFails, L!NewUpstream, LP!NewUpstream,
        L!Abort, LP!Abort, L!Bind, LP!Bind, L!BindFails, LP!BindFails, L!bootVars, LP!bootVars,
        L!ExitWith, LP!ExitWith, L!Serves, LP!Serves, L!MoveTo, LP!MoveTo, L!Ended, LP!Ended,
        L!Accept, LP!Accept, L!Request, LP!Request, L!ClientCloses, LP!ClientCloses,
        L!CloseGracefully, LP!CloseGracefully, L!Reply, LP!Reply, L!KeyAccepted,
        LP!KeyAccepted, L!HashAccepted, LP!HashAccepted, L!SetConn, LP!SetConn
  <1>3. UNCHANGED L!vars => UNCHANGED LP!vars
    BY DEF L!vars, LP!vars
  <1> QED
    BY <1>1, <1>2, <1>3, Zenon

PP == INSTANCE PassthroughProofs WITH
        Calls <- ProxyCalls, Requests <- ProxyRequests, Responses <- ProxyResponses,
        pc <- pPc, req <- pReq, got <- pGot, sent <- pSent, delivered <- pDelivered,
        head <- pHead, total <- pTotal, answer <- pAnswer, cause <- pCause

LEMMA PassthroughAssumptions == PP!PassthroughAssumption /\ PP!OriginAssumption
  BY SidecarAssumption, Zenon
  DEF P!BaseUrls, PP!BaseUrls, P!ClientRequests, PP!ClientRequests, P!NodeResponses,
      PP!NodeResponses, P!OtherValues, PP!OtherValues, P!Headers, PP!Headers, P!HeaderNames,
      PP!HeaderNames

LEMMA SamePassthrough ==
    (P!Init <=> PP!Init) /\ ([P!Next]_(P!vars) => [PP!Next]_(PP!vars))
  <1>1. P!Init <=> PP!Init
    BY Zenon DEF P!Init, PP!Init, P!NoAnswer, PP!NoAnswer
  <1>2. P!Next <=> PP!Next
    BY Zenon
    DEF P!Next, PP!Next, P!vars, PP!vars, P!HandlerStep, PP!HandlerStep, P!ClientStep,
        PP!ClientStep, P!NodeStep, PP!NodeStep, P!ClockTick, PP!ClockTick, P!ClockTurns,
        PP!ClockTurns, P!callVars, PP!callVars, P!nodeVars, PP!nodeVars, P!clockVars,
        PP!clockVars, P!UriFails, PP!UriFails, P!SendUpstream, PP!SendUpstream, P!Relay,
        PP!Relay, P!SignFails, PP!SignFails, P!Arrive, PP!Arrive, P!Cap, PP!Cap, P!ReadRequest,
        PP!ReadRequest, P!RequestTooLarge, PP!RequestTooLarge, P!RequestBroken,
        PP!RequestBroken, P!ClientGone, PP!ClientGone, P!Connect, PP!Connect, P!NodeAnswers,
        PP!NodeAnswers, P!UpstreamFails, PP!UpstreamFails, P!Deliver, PP!Deliver, P!Collected,
        PP!Collected, P!UpstreamUri, PP!UpstreamUri, P!Finish, PP!Finish, P!PlainAnswer,
        PP!PlainAnswer, P!BodyEnd, PP!BodyEnd, P!SignedAnswer, PP!SignedAnswer, P!RequestFrame,
        PP!RequestFrame, P!WithinCap, PP!WithinCap, P!Awaiting, PP!Awaiting, P!NoAnswer,
        PP!NoAnswer, P!HandOver, PP!HandOver, P!Respond, PP!Respond, P!ReadBody, PP!ReadBody,
        P!BodyTooLarge, PP!BodyTooLarge, P!AwaitingNode, PP!AwaitingNode, P!OriginPathAndQuery,
        PP!OriginPathAndQuery, P!OriginUri, PP!OriginUri, P!RelayedHeaders, PP!RelayedHeaders,
        P!Compresses, PP!Compresses, P!GzipEncoded, PP!GzipEncoded, P!Content, PP!Content,
        P!Sendable, PP!Sendable, P!NodeMayAnswer, PP!NodeMayAnswer, P!BodyFrame, PP!BodyFrame,
        P!IsHopByHop, PP!IsHopByHop, P!OffersGzip, PP!OffersGzip, P!Names, PP!Names,
        P!UpstreamHeaders, PP!UpstreamHeaders, P!Identity, PP!Identity
  <1>3. UNCHANGED P!vars => UNCHANGED PP!vars
    BY DEF P!vars, P!callVars, P!nodeVars, P!clockVars,
           PP!vars, PP!callVars, PP!nodeVars, PP!clockVars
  <1> QED
    BY <1>1, <1>2, <1>3, Zenon

CP == INSTANCE ConfidentialProofs WITH
        Calls <- ConfidentialCalls, Requests <- ConfidentialRequests,
        Responses <- ConfidentialResponses

LEMMA ConfidentialAssumptions ==
    CP!ConfidentialAssumption /\ CP!InnerAssumption /\ CP!OriginAssumption
  BY SidecarAssumption, Zenon
  DEF C!BaseUrls, CP!BaseUrls, C!OuterRequests, CP!OuterRequests, C!NodeResponses,
      CP!NodeResponses, C!Plaintexts, CP!Plaintexts, C!Paths, CP!Paths, C!Fields, CP!Fields,
      C!Bodies, CP!Bodies

LEMMA SameConfidential ==
    (C!Init <=> CP!Init) /\ ([C!Next]_(C!vars) => [CP!Next]_(CP!vars))
  <1>1. C!Init <=> CP!Init
    BY Zenon DEF C!Init, CP!Init, C!NoAnswer, CP!NoAnswer
  <1>2. C!Next <=> CP!Next
    BY Zenon
    DEF C!Next, CP!Next, C!vars, CP!vars, C!HandlerStep, CP!HandlerStep, C!Arrivals,
        CP!Arrivals, C!NodeStep, CP!NodeStep, C!UpstreamTimeout, CP!UpstreamTimeout,
        C!ClockTick, CP!ClockTick, C!ClockTurns, CP!ClockTurns, C!callVars, CP!callVars,
        C!nodeVars, CP!nodeVars, C!sharedVars, CP!sharedVars, C!historyVars, CP!historyVars,
        C!PreDecapsulation, CP!PreDecapsulation, C!RefuseUnsealable, CP!RefuseUnsealable,
        C!RefuseInner, CP!RefuseInner, C!CallUpstream, CP!CallUpstream, C!SealAndSign,
        CP!SealAndSign, C!SignFails, CP!SignFails, C!SealFails, CP!SealFails, C!Post, CP!Post,
        C!MethodNotAllowed, CP!MethodNotAllowed, C!ReadFrame, CP!ReadFrame, C!RequestTooLarge,
        CP!RequestTooLarge, C!RequestReadFailed, CP!RequestReadFailed, C!ClientGone,
        CP!ClientGone, C!SendRequest, CP!SendRequest, C!UpstreamFails, CP!UpstreamFails,
        C!AcceptHead, CP!AcceptHead, C!RejectHead, CP!RejectHead, C!ReadBody, CP!ReadBody,
        C!BodyTooLarge, CP!BodyTooLarge, C!BodyEnd, CP!BodyEnd, C!Deliver, CP!Deliver,
        C!AwaitingNode, CP!AwaitingNode, C!InnerDone, CP!InnerDone, C!Collected, CP!Collected,
        C!OpenRequest, CP!OpenRequest, C!FinishPlaintext, CP!FinishPlaintext, C!Open, CP!Open,
        C!Verdict, CP!Verdict, C!SealedClass, CP!SealedClass, C!SealInner, CP!SealInner,
        C!Finish, CP!Finish, C!Sign, CP!Sign, C!Frame, CP!Frame, C!WithinCap, CP!WithinCap,
        C!Awaiting, CP!Awaiting, C!NoAnswer, CP!NoAnswer, C!Sendable, CP!Sendable, C!Respond,
        CP!Respond, C!AcceptsHead, CP!AcceptsHead, C!BodyFrame, CP!BodyFrame, C!PlainAnswer,
        CP!PlainAnswer, C!PlaintextStatus, CP!PlaintextStatus, C!FreshNonces, CP!FreshNonces,
        C!CountedBatch, CP!CountedBatch, C!DecodeInner, CP!DecodeInner, C!BatchSize,
        CP!BatchSize, C!OriginPathAndQuery, CP!OriginPathAndQuery, C!OriginUri, CP!OriginUri,
        C!InnerStatus, CP!InnerStatus, C!OuterStatus, CP!OuterStatus, C!SizeHint, CP!SizeHint,
        C!WellFormed, CP!WellFormed, C!Named, CP!Named, C!CheckFieldSections,
        CP!CheckFieldSections, C!InnerMethod, CP!InnerMethod, C!InnerPath, CP!InnerPath,
        C!InnerFields, CP!InnerFields
  <1>3. UNCHANGED C!vars => UNCHANGED CP!vars
    BY DEF C!vars, C!callVars, C!nodeVars, C!sharedVars, C!historyVars,
           CP!vars, CP!callVars, CP!nodeVars, CP!sharedVars, CP!historyVars
  <1> QED
    BY <1>1, <1>2, <1>3, Zenon

-----------------------------------------------------------------------------
(* What is proved of the components, in the process.                       *)

LEMMA Components == Spec => LP!Spec /\ PP!Spec /\ CP!Spec
  <1>1. Init => LP!Init /\ PP!Init /\ CP!Init
    BY SameProcess, SamePassthrough, SameConfidential, Zenon DEF Init
  <1>2. [Next]_vars => [LP!Next]_(LP!vars) /\ [PP!Next]_(PP!vars) /\ [CP!Next]_(CP!vars)
    BY ComponentSteps, SameProcess, SamePassthrough, SameConfidential, Zenon
  <1> QED
    BY <1>1, <1>2, PTL DEF Spec, LP!Spec, PP!Spec, CP!Spec

LEMMA ComponentInvariants == Spec => [](LP!IInv /\ PP!IInv /\ CP!IInv)
  <1>1. LP!Spec => []LP!IInv
    BY ProcessAssumptions, LP!Invariance, PTL
  <1>2. PP!Spec => []PP!IInv
    BY PassthroughAssumptions, PP!Invariance, PTL
  <1>3. CP!Spec => []CP!IInv
    BY ConfidentialAssumptions, CP!Invariance, PTL
  <1> QED
    BY <1>1, <1>2, <1>3, Components, PTL

(* The passthrough route keeps its promises in the process: what verifies  *)
(* at the client, the caps, and the node called at most once.              *)
THEOREM PassthroughHolds ==
    Spec => []PP!VerifiesAtClient /\ []PP!LimitsExact /\ PP!ForwardsOnce
  <1>1. PP!Spec => []PP!VerifiesAtClient /\ []PP!LimitsExact /\ PP!ForwardsOnce
    BY PassthroughAssumptions, PP!Verifies, PP!Limits, PP!Refinement, PTL
  <1> QED
    BY <1>1, Components, PTL

(* So does /confidential: the node left alone by a refusal, no key used    *)
(* twice, the answer bound to its exchange, the limits, the log, and the   *)
(* node called at most once.                                               *)
THEOREM ConfidentialHolds ==
    Spec => /\ []CP!NodeUntouched /\ []CP!KeyUsedOnce /\ []CP!AnswerBindsExchange
            /\ []CP!VerdictsJustified /\ []CP!LogTellsOutcome /\ CP!ImplementsNodeCall
  <1>1. CP!Spec => /\ []CP!NodeUntouched /\ []CP!KeyUsedOnce /\ []CP!AnswerBindsExchange
                   /\ []CP!VerdictsJustified /\ []CP!LogTellsOutcome /\ CP!ImplementsNodeCall
    BY ConfidentialAssumptions, CP!RefusalsNeverReachTheNode, CP!KeysNeverReused,
       CP!AnswersAreBound, CP!LimitsAreExact, CP!LogIsTruthful, CP!Refinement, PTL
  <1> QED
    BY <1>1, Components, PTL

(* No handler runs before main has its identity: the process accepts the   *)
(* connections the handlers run on.                                        *)
THEOREM LifecycleHolds == Spec => []LP!ServesWithIdentity /\ []LP!GracefulExit
  <1>1. LP!Spec => []LP!ServesWithIdentity /\ []LP!GracefulExit
    BY ProcessAssumptions, LP!ServesOnlyWithIdentity, LP!ExitsGracefully, PTL
  <1> QED
    BY <1>1, Components, PTL

-----------------------------------------------------------------------------
(* A clean shutdown.                                                       *)

LEMMA PlacesTyped == LP!IInv /\ PP!IInv /\ CP!IInv => Places
  BY Zenon DEF LP!IInv, LP!TypeOK, PP!IInv, PP!TypeOK, PP!Phases, CP!IInv, CP!TypeOK, CP!Phases,
               Places, P!Phases, C!Phases

LEMMA LinkedInvariant == Spec => []Linked
  <1>1. Init => Linked
    <2>1. Init => /\ pPc = [c \in ProxyCalls |-> "idle"]
                  /\ pc = [c \in ConfidentialCalls |-> "idle"]
                  /\ conns = [c \in AllCalls |-> "none"]
      BY Zenon DEF Init, L!Init, P!Init, C!Init
    <2> QED
      BY <2>1 DEF Linked, Running, Occupied, AllCalls
  <1>2. Places /\ Linked /\ [Next]_vars => Linked'
    BY LinkedSteps
  <1>3. Spec => []Places
    BY PlacesTyped, ComponentInvariants, PTL
  <1> QED
    BY <1>1, <1>2, <1>3, PTL DEF Spec

(* A process that reports a clean shutdown has let every handler run to    *)
(* its end: no call that was taken up is without an answer unless its      *)
(* client left.  The drain waits for connections (axum::serve); that it    *)
(* waits for handlers is Linked, and that an ended handler has answered is *)
(* the components' invariants.                                             *)
THEOREM ShutdownLosesNothing == Spec => []NothingLost
  <1>1. LP!IInv /\ PP!IInv /\ CP!IInv /\ Linked => NothingLost
    <2> SUFFICES ASSUME LP!IInv, PP!IInv, CP!IInv, Linked, exit = "0"
                 PROVE  /\ \A c \in ProxyCalls :
                             /\ ~Running(pPc[c])
                             /\ P!Done(c) => pAnswer[c] # P!NoAnswer \/ pCause[c] = "gone"
                        /\ \A c \in ConfidentialCalls :
                             /\ ~Running(pc[c])
                             /\ C!Done(c) => \/ answer[c] # C!NoAnswer
                                             \/ C!Line(c).class = "cancelled"
      BY Zenon DEF NothingLost
    <2>1. \A c \in AllCalls : conns[c] \notin Occupied
      BY DEF LP!IInv, LP!Drains, LP!Ended, Occupied
    <2>2. ASSUME NEW c \in ProxyCalls
          PROVE  /\ ~Running(pPc[c])
                 /\ P!Done(c) => pAnswer[c] # P!NoAnswer \/ pCause[c] = "gone"
      <3>1. ~Running(pPc[c])
        BY <2>1 DEF Linked, AllCalls
      <3>2. PP!Done(c) => (pAnswer[c] = PP!NoAnswer <=> pCause[c] = "gone")
        BY Zenon DEF PP!IInv, PP!Local, PP!Ended
      <3> QED
        BY <3>1, <3>2, Zenon DEF P!Done, PP!Done, P!NoAnswer, PP!NoAnswer
    <2>3. ASSUME NEW c \in ConfidentialCalls
          PROVE  /\ ~Running(pc[c])
                 /\ C!Done(c) => answer[c] # C!NoAnswer \/ C!Line(c).class = "cancelled"
      <3>1. ~Running(pc[c])
        BY <2>1 DEF Linked, AllCalls
      <3>2. CP!Done(c) => (CP!Line(c).class = "cancelled" <=> answer[c].kind = "none")
        BY Zenon DEF CP!IInv, CP!Logged
      <3>3. C!NoAnswer.kind = "none"
        BY DEF C!NoAnswer
      <3> QED
        BY <3>1, <3>2, <3>3, Zenon DEF C!Done, CP!Done, C!Line, CP!Line
    <2> QED
      BY <2>2, <2>3
  <1> QED
    BY <1>1, ComponentInvariants, LinkedInvariant, PTL

=============================================================================
