--------------------------- MODULE LifecycleProofs --------------------------
(***************************************************************************)
(* Proofs about Lifecycle, for every set of connections, command lines,    *)
(* keys and compose hashes: main checks everything before it accepts, and  *)
(* status 0 is the end of a drain.                                         *)
(***************************************************************************)
EXTENDS Lifecycle, TLAPS

Up == {"serving", "draining"}

(* Everything main checks, checked.                                        *)
Identity == ConfigParses(config) /\ KeyAccepted(key) /\ HashAccepted(config, hash) /\ config.url

(* What main has checked at each phase of boot; a connection outlives the  *)
(* phases, and the checks stay true of what it was accepted with.          *)
Checked ==
    /\ phase \in {"keying", "attesting", "upstream", "binding"} => ConfigParses(config)
    /\ phase \in {"attesting", "upstream", "binding"} => KeyAccepted(key)
    /\ phase \in {"upstream", "binding"} => HashAccepted(config, hash)
    /\ phase = "binding" => config.url
    /\ phase \in Up => Identity
    /\ \A k \in Connections : conns[k] # "none" => Identity /\ phase \in Up \cup {"exited"}

(* A drain follows a signal, and nothing follows an exit.                  *)
Drains ==
    /\ phase = "draining" => signals = "received"
    /\ exit = "running" <=> phase # "exited"
    /\ exit = "0" => signals = "received" /\ \A k \in Connections : Ended(k)

IInv == TypeOK /\ Checked /\ Drains

-----------------------------------------------------------------------------

(* A chain id that is accepted is not empty and has no white space.        *)
LEMMA ChainIdGraphic ==
    ASSUME NEW text, ValidateChainId(text).ok
    PROVE  LET id == ValidateChainId(text)
           IN  id.value # << >> /\ \A i \in DOMAIN id.value : id.value[i] \in Graphic
  <1> DEFINE s == Trim(text)
  <1>1. ValidateChainId(text) =
          IF s # << >> /\ ByteLen(s) <= ChainIdMaxLen /\ \A i \in DOMAIN s : s[i] \in Graphic
          THEN Accepted(s) ELSE Rejected
    BY DEF ValidateChainId
  <1> HIDE DEF s
  <1>2. Rejected.ok = FALSE /\ Accepted(s).value = s
    BY DEF Rejected, Accepted
  <1>3. s # << >> /\ (\A i \in DOMAIN s : s[i] \in Graphic) /\ ValidateChainId(text) = Accepted(s)
    BY <1>1, <1>2
  <1> QED
    BY <1>2, <1>3

LEMMA InitIInv == Init => IInv
  BY Zenon DEF Init, IInv, TypeOK, Checked, Drains, Phases, Up

(* The steps of boot.                                                      *)
LEMMA BootSteps ==
    ASSUME IInv, Boot \/ Dstack
    PROVE  IInv'
  <1> USE DEF bootVars, MoveTo, ExitWith
  <1>1. \A k \in Connections : conns[k] = "none"
    BY DEF Boot, Dstack, UsageError, Parse, GetKey, GetInfo, DstackFails, NewUpstream, Abort,
           Bind, BindFails, IInv, Checked, Up
  <1>2. UNCHANGED <<signals, conns, config>>
    BY Zenon DEF Boot, Dstack, UsageError, Parse, GetKey, GetInfo, DstackFails, NewUpstream,
                 Abort, Bind, BindFails
  <1>3. TypeOK'
    BY Zenon DEF Boot, Dstack, UsageError, Parse, GetKey, GetInfo, DstackFails, NewUpstream, Abort,
           Bind, BindFails, IInv, TypeOK, Phases
  <1>4. Checked'
    BY <1>1, <1>2 DEF Boot, Dstack, UsageError, Parse, GetKey, GetInfo, DstackFails, NewUpstream, Abort,
           Bind, BindFails, IInv, Checked, Up, Identity
  <1>5. Drains'
    BY <1>1, <1>2 DEF Boot, Dstack, UsageError, Parse, GetKey, GetInfo, DstackFails, NewUpstream, Abort,
           Bind, BindFails, IInv, Drains
  <1> QED
    BY <1>3, <1>4, <1>5 DEF IInv

(* Signals, the accept loop, and the ways to exit.                         *)
LEMMA ProcessSteps ==
    ASSUME IInv, InstallHandlers \/ Killed \/ ShutdownSignal \/ StopAccepting \/ Drained
    PROVE  IInv'
  <1> USE DEF bootVars, MoveTo, ExitWith
  <1>1. UNCHANGED <<conns, config, key, hash>>
    BY Zenon DEF InstallHandlers, Killed, ShutdownSignal, StopAccepting, Drained
  <1>2. TypeOK'
    BY Zenon DEF InstallHandlers, Killed, ShutdownSignal, StopAccepting, Drained, IInv, TypeOK,
                 Phases
  <1>3. Identity' = Identity
    BY <1>1 DEF Identity
  <1>4. Checked'
    BY <1>1, <1>3 DEF InstallHandlers, Killed, ShutdownSignal, StopAccepting, Drained, IInv,
                      Checked, Up, Serves
  <1>5. Drains'
    BY <1>1 DEF InstallHandlers, Killed, ShutdownSignal, StopAccepting, Drained, IInv, Drains,
                Ended, Serves
  <1> QED
    BY <1>2, <1>4, <1>5 DEF IInv

(* A connection changes its state while main serves.                       *)
LEMMA ConnectionSteps ==
    ASSUME IInv, NEW k \in Connections, Client(k) \/ Serve(k)
    PROVE  IInv'
  <1>1. PICK s \in {"idle", "busy", "last", "closed"} : SetConn(k, s)
    BY DEF Client, Serve, Accept, Request, ClientCloses, CloseGracefully, Reply
  <1>2. /\ phase \in Up /\ conns' = [conns EXCEPT ![k] = s]
        /\ UNCHANGED <<phase, config, key, hash, signals, exit>>
    BY <1>1 DEF SetConn, Serves, Up, bootVars
  <1>3. TypeOK'
    BY <1>2, Zenon DEF IInv, TypeOK
  <1>4. Identity /\ Identity' = Identity
    BY <1>2 DEF IInv, Checked, Identity
  <1>5. Checked'
    BY <1>2, <1>4 DEF IInv, Checked, Up
  <1>6. Drains'
    BY <1>2 DEF IInv, Drains, Up
  <1> QED
    BY <1>3, <1>5, <1>6 DEF IInv

LEMMA NextIInv == IInv /\ [Next]_vars => IInv'
  <1> SUFFICES ASSUME IInv, [Next]_vars PROVE IInv'
    OBVIOUS
  <1>1. CASE UNCHANGED vars
    BY <1>1, Zenon DEF IInv, TypeOK, Checked, Drains, Identity, Ended, vars
  <1>2. CASE Next
    BY <1>2, BootSteps, ProcessSteps, ConnectionSteps, Zenon DEF Next
  <1> QED
    BY <1>1, <1>2

THEOREM Invariance == Spec => []IInv
  BY InitIInv, NextIInv, PTL DEF Spec

(* main, the signals and the connections only reach the listed states.     *)
THEOREM TypeCorrect == Spec => []TypeOK
  <1>1. IInv => TypeOK
    BY DEF IInv
  <1> QED
    BY <1>1, Invariance, PTL

(* No call is served before main has checked its identity and its          *)
(* configuration.                                                          *)
THEOREM ServesOnlyWithIdentity == Spec => []ServesWithIdentity
  <1>1. IInv => ServesWithIdentity
    <2> SUFFICES ASSUME IInv, NEW k \in Connections, conns[k] # "none"
                 PROVE  /\ key.hex /\ key.matches /\ key.chars = 2 * SeedLen
                        /\ hash = "" => config.allowEmpty
                        /\ config.url
                        /\ config.batch > 0 /\ config.timeout > 0
                        /\ LET id == ValidateChainId(config.chain)
                           IN  /\ id.ok /\ id.value # << >>
                               /\ \A i \in DOMAIN id.value : id.value[i] \in Graphic
      BY Zenon DEF ServesWithIdentity
    <2>1. Identity
      BY DEF IInv, Checked
    <2>2. key.hex /\ key.matches /\ key.chars % 2 = 0 /\ key.chars \div 2 = SeedLen
      BY <2>1 DEF Identity, KeyAccepted
    <2>3. key.chars \in Nat /\ SeedLen \in Nat
      <3>1. key \in Keys \/ key = NoKey
        BY Zenon DEF IInv, TypeOK
      <3>2. \A k1 \in Keys : k1.chars \in Nat
        BY LifecycleAssumption DEF DstackKeys
      <3>3. NoKey.chars \in Nat
        BY DEF NoKey
      <3> QED
        BY <3>1, <3>2, <3>3, LifecycleAssumption
    <2>4. key.chars = 2 * SeedLen
      BY <2>2, <2>3
    <2>5. hash = "" => config.allowEmpty
      BY <2>1, Zenon DEF Identity, HashAccepted
    <2>6. config.batch > 0 /\ config.timeout > 0
      <3>1. config.batch \in Int /\ config.timeout \in Int /\ BatchLimit \in Nat
        BY LifecycleAssumption, Zenon DEF IInv, TypeOK, CommandLines
      <3> QED
        BY <2>1, <3>1 DEF Identity, ConfigParses
    <2>7. ValidateChainId(config.chain).ok
      BY <2>1 DEF Identity, ConfigParses
    <2> QED
      BY <2>1, <2>2, <2>4, <2>5, <2>6, <2>7, ChainIdGraphic, Zenon DEF Identity
  <1> QED
    BY <1>1, Invariance, PTL

(* Status 0 means that a signal was received and no connection was cut.    *)
THEOREM ExitsGracefully == Spec => []GracefulExit
  <1>1. IInv => GracefulExit
    BY DEF IInv, Drains, GracefulExit
  <1> QED
    BY <1>1, Invariance, PTL

=============================================================================
