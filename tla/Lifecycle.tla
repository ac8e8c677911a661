----------------------------- MODULE Lifecycle ------------------------------
(***************************************************************************)
(* The process: command line, boot, serving, graceful shutdown, exit       *)
(* (main.rs, config.rs, the key construction of signing.rs).               *)
(*                                                                         *)
(* main is one task.  It awaits dstack twice, the bind, and then           *)
(* axum::serve, which accepts calls until the shutdown future has resolved *)
(* and returns once every connection has ended.  A connection takes calls  *)
(* one after the other, also from the signal on, until its task has seen   *)
(* the shutdown.  SIGINT and SIGTERM kill the process until the shutdown   *)
(* future is polled for the first time; after that the first one starts    *)
(* the drain and later ones are ignored.                                   *)
(***************************************************************************)
EXTENDS Inputs

CONSTANTS
    Connections,   \* connections the server may accept
    Configs,       \* command lines
    Keys,          \* answers of dstack get_key
    Hashes,        \* compose hashes dstack info may report
    SeedLen,       \* SECRET_KEY_LENGTH
    BatchLimit     \* upper end of --confidential-max-batch-size

(* url: what the http crate makes of --upstream-url.                       *)
CommandLines == [chain : Seq(Characters), batch : Int, timeout : Int,
                 url : BOOLEAN, allowEmpty : BOOLEAN]

(* The key as text: whether it is hex, and its length in characters;       *)
(* matches: the derived X25519 key is the signing key's Montgomery form.   *)
DstackKeys == [hex : BOOLEAN, chars : Nat, matches : BOOLEAN]

ASSUME LifecycleAssumption ==
    /\ Configs \subseteq CommandLines
    /\ Keys \subseteq DstackKeys
    /\ Hashes \subseteq STRING
    /\ SeedLen \in Nat /\ BatchLimit \in Nat

-----------------------------------------------------------------------------

(* Config::parse succeeds.                                                 *)
ConfigParses(cfg) ==
    /\ ValidateChainId(cfg.chain).ok
    /\ cfg.batch \in 1..BatchLimit
    /\ cfg.timeout >= 1

(* Mutant of KeyAccepted: a longer key is cut to its first bytes.          *)
KeyTruncated(key) == key.hex /\ key.chars % 2 = 0 /\ key.chars \div 2 >= SeedLen /\ key.matches

(* hex::decode_to_slice, from_dstack_bytes and check_kem_key succeed.      *)
KeyAccepted(key) == key.hex /\ key.chars % 2 = 0 /\ key.chars \div 2 = SeedLen /\ key.matches

HashAccepted(cfg, hash) == hash # "" \/ cfg.allowEmpty

-----------------------------------------------------------------------------

VARIABLES
    phase,      \* where main is
    config,     \* the command line
    key,        \* what get_key answered
    hash,       \* the compose hash info answered
    signals,    \* what a signal does: default action, armed, received
    conns,      \* the connections; last: busy, and to be closed after it
    exit        \* the exit status; "running" before

bootVars == <<config, key, hash>>
vars == <<phase, config, key, hash, signals, conns, exit>>

Phases == {"start", "keying", "attesting", "upstream", "binding", "serving", "draining",
           "aborting", "exited"}

NoKey == [hex |-> FALSE, chars |-> 0, matches |-> FALSE]

Serves == phase \in {"serving", "draining"}

Init ==
    /\ phase = "start"
    /\ config \in Configs
    /\ key = NoKey
    /\ hash = ""
    /\ signals = "default"
    /\ conns = [k \in Connections |-> "none"]
    /\ exit = "running"

MoveTo(p) ==
    /\ phase' = p
    /\ UNCHANGED <<bootVars, signals, conns, exit>>

ExitWith(status) ==
    /\ phase' = "exited"
    /\ exit' = status
    /\ UNCHANGED <<bootVars, signals, conns>>

-----------------------------------------------------------------------------
(* Boot.                                                                   *)

(* clap refuses the command line: status 2, at once.                       *)
UsageError == phase = "start" /\ ~ConfigParses(config) /\ ExitWith("2")

Parse == phase = "start" /\ ConfigParses(config) /\ MoveTo("keying")

(* bootstrap_tdx_identity: get_key answers, ...                            *)
GetKey(k) ==
    /\ phase = "keying"
    /\ key' = k
    /\ phase' = IF KeyAccepted(k) THEN "attesting" ELSE "aborting"
    /\ UNCHANGED <<config, hash, signals, conns, exit>>

(* ... then info does (AttestationState::bootstrap), ...                   *)
GetInfo(h) ==
    /\ phase = "attesting"
    /\ hash' = h
    /\ phase' = IF HashAccepted(config, h) THEN "upstream" ELSE "aborting"
    /\ UNCHANGED <<config, key, signals, conns, exit>>

(* ... or one of them fails.                                               *)
DstackFails == phase \in {"keying", "attesting"} /\ MoveTo("aborting")

(* UpstreamClient::new and build_router.                                   *)
NewUpstream == phase = "upstream" /\ MoveTo(IF config.url THEN "binding" ELSE "aborting")

(* Mutants of Abort: only a failed bootstrap exits; a panic exits.         *)
AbortLate == phase = "aborting" /\ config.url /\ ExitWith("2")

AbortPanics == phase = "aborting" /\ ExitWith("101")

(* FAIL_FAST_DEADLINE has passed.                                          *)
Abort == phase = "aborting" /\ ExitWith("2")

Bind == phase = "binding" /\ MoveTo("serving")

BindFails == phase = "binding" /\ ExitWith("1")

-----------------------------------------------------------------------------
(* shutdown_signal.                                                        *)

(* The spawned shutdown future is polled: both handlers are installed.     *)
InstallHandlers ==
    /\ phase = "serving" /\ signals = "default"
    /\ signals' = "armed"
    /\ UNCHANGED <<phase, bootVars, conns, exit>>

Killed == phase # "exited" /\ signals = "default" /\ ExitWith("signal")

(* The first signal resolves the future; later ones find the handlers      *)
(* still installed and nobody waiting, and change nothing.                 *)
ShutdownSignal ==
    /\ Serves /\ signals # "default"
    /\ signals' = "received"
    /\ UNCHANGED <<phase, bootVars, conns, exit>>

-----------------------------------------------------------------------------
(* axum::serve with graceful shutdown: external, as main.rs uses it.       *)

SetConn(k, s) ==
    /\ Serves
    /\ conns' = [conns EXCEPT ![k] = s]
    /\ UNCHANGED <<phase, bootVars, signals, exit>>

(* The accept loop may win one more select against the signal.             *)
Accept(k) == phase = "serving" /\ conns[k] = "none" /\ SetConn(k, "idle")

StopAccepting == phase = "serving" /\ signals = "received" /\ MoveTo("draining")

Request(k) == conns[k] = "idle" /\ SetConn(k, "busy")

Reply(k) ==
    \/ conns[k] = "busy" /\ SetConn(k, "idle")
    \/ conns[k] = "last" /\ SetConn(k, "closed")

(* Mutant of CloseGracefully: the signal is only noticed between calls.    *)
CloseIdleOnly(k) == signals = "received" /\ conns[k] = "idle" /\ SetConn(k, "closed")

(* The connection's task sees the signal: an idle connection is closed, a  *)
(* busy one after its call.                                                *)
CloseGracefully(k) ==
    /\ signals = "received" /\ conns[k] \in {"idle", "busy"}
    /\ SetConn(k, IF conns[k] = "idle" THEN "closed" ELSE "last")

ClientCloses(k) == conns[k] \in {"idle", "busy", "last"} /\ SetConn(k, "closed")

Ended(k) == conns[k] \in {"none", "closed"}

(* Mutant of Drained: main returns as soon as nothing is accepted.         *)
DrainedAtOnce == phase = "draining" /\ ExitWith("0")

(* serve returns, and so does main.                                        *)
Drained == phase = "draining" /\ (\A k \in Connections : Ended(k)) /\ ExitWith("0")

-----------------------------------------------------------------------------

(* The steps of boot that are main's own, ...                              *)
Boot == UsageError \/ Parse \/ NewUpstream \/ Abort \/ Bind \/ BindFails

(* ... and those for which it awaits dstack, without a timeout.            *)
Dstack ==
    \/ \E k \in Keys : GetKey(k)
    \/ \E h \in Hashes : GetInfo(h)
    \/ DstackFails

Serve(k) == CloseGracefully(k) \/ Reply(k)

Client(k) == Accept(k) \/ Request(k) \/ ClientCloses(k)

Next ==
    \/ Boot \/ Dstack
    \/ InstallHandlers \/ Killed \/ ShutdownSignal \/ StopAccepting \/ Drained
    \/ \E k \in Connections : Client(k) \/ Serve(k)

Spec == Init /\ [][Next]_vars

(* main, the accept loop and the connections' tasks are polled when they   *)
(* are ready; a call ends.  Nothing is assumed of dstack.                  *)
FairSpec ==
    /\ Spec
    /\ WF_vars(Boot) /\ WF_vars(StopAccepting) /\ WF_vars(Drained)
    /\ \A k \in Connections : WF_vars(CloseGracefully(k)) /\ WF_vars(Reply(k))

-----------------------------------------------------------------------------

(* TypeOK: the phases, exit statuses and connections are the listed ones.  *)
TypeOK ==
    /\ phase \in Phases
    /\ config \in Configs
    /\ key \in Keys \cup {NoKey}
    /\ hash \in Hashes \cup {""}
    /\ signals \in {"default", "armed", "received"}
    /\ conns \in [Connections -> {"none", "idle", "busy", "last", "closed"}]
    /\ exit \in {"running", "0", "1", "2", "signal"}

(* ServesWithIdentity: no connection exists before main has a signing key  *)
(* of exactly SECRET_KEY_LENGTH bytes whose X25519 form matches, a compose *)
(* hash (or the leave to do without), a node URL that parses, a chain id   *)
(* without white space, and a batch limit and a timeout that let some call *)
(* through.                                                                *)
ServesWithIdentity ==
    (\E k \in Connections : conns[k] # "none") =>
        /\ key.hex /\ key.matches /\ key.chars = 2 * SeedLen
        /\ hash = "" => config.allowEmpty
        /\ config.url
        /\ config.batch > 0 /\ config.timeout > 0
        /\ LET id == ValidateChainId(config.chain)
           IN  id.ok /\ id.value # << >> /\ \A i \in DOMAIN id.value : id.value[i] \in Graphic

(* GracefulExit: status 0 is the end of a drain: a signal was received,    *)
(* every connection that was accepted has ended, with its last call, and   *)
(* no failed boot reports it.                                              *)
GracefulExit ==
    exit = "0" => signals = "received" /\ \A k \in Connections : Ended(k)

(* main is not left waiting for dstack for ever.                           *)
DstackAnswers == []<>(phase \notin {"keying", "attesting"})

(* BootEnds: provided that dstack answers or fails, which no timeout of    *)
(* the code ensures, boot ends, serving or with an exit status: every      *)
(* error of main gets past its five seconds.                               *)
BootEnds == DstackAnswers => (phase = "start" ~> Serves \/ phase = "exited")

(* DrainEnds: a signal that was received ends the process, however often   *)
(* a kept-alive connection had been used, if every call ends.              *)
DrainEnds == signals = "received" ~> exit = "0"

=============================================================================
