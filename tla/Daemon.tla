------------------------------- MODULE Daemon -------------------------------
(***************************************************************************)
(* The client side's processes: `remote-control daemon` (a launcher) that  *)
(* forks a daemon and waits for its report on a pipe, the daemon (Daemon)  *)
(* that listens on a socket file and serves one connection at a time, and  *)
(* `remote-control <command>` processes that connect to it.                *)
(*                                                                         *)
(* A daemon is named by the launcher that forked it.  An RPC to the server *)
(* is one step here (Sessions, Player and InfoStream have the inside); the *)
(* waiting times of the code (5 s for the channel, 1 s for arguments, the  *)
(* launcher's retries) become choices or counts.                           *)
(*                                                                         *)
(* External: socket files.  A file stays when the process that bound it    *)
(* dies; connecting to it then fails, and so does binding its name.        *)
(***************************************************************************)
EXTENDS Naturals, SequencesExt

CONSTANTS
    Launchers,   \* `remote-control daemon` processes
    Commands,    \* other `remote-control` processes
    Seeks,       \* those whose command is "seek"
    NoOne,
    DaemonTimeout, \* DAEMON_TIMEOUT
    MaxCrashes,  \* bound: daemons that die without cleaning up
    MaxFaults    \* bound: failing accepts

Clients == Launchers \cup Commands

ASSUME DaemonAssumption ==
    /\ Launchers \cap Commands = {} /\ NoOne \notin Clients
    /\ Seeks \subseteq Commands
    /\ {DaemonTimeout, MaxCrashes, MaxFaults} \subseteq Nat

VARIABLES
    path,      \* whose socket the file socket_path is, or NoOne
    listening, \* a daemon's acceptor is open
    accepting, \* an async_accept is pending
    backlog,   \* connections a daemon has not accepted
    handling,  \* the connection in connection_handler
    result,    \* the handler's exit status, or "none"
    dpc,       \* where a daemon is
    dstate,    \* state_
    cause,     \* why a daemon ends
    report,    \* what the launcher can read from the pipe
    lpc, tries, \* where a launcher is; its count
    cpc,       \* where a command is, and in the end its exit status
    server,    \* the daemon a client is connected to
    sent,      \* a client has sent its arguments
    lost,      \* a client's connection was closed without an answer
    reply,     \* the answer to a command, or "none"
    executed,  \* history: commands the server carried out
    crashes, faults

socketVars  == <<path, listening, accepting, backlog>>
handlerVars == <<handling, result, executed>>
daemonVars  == <<dpc, dstate, cause, report>>
launchVars  == <<lpc, tries>>
clientVars  == <<cpc, server, sent, lost, reply>>
counters    == <<crashes, faults>>
vars == <<socketVars, handlerVars, daemonVars, launchVars, clientVars, counters>>

DaemonPcs == {"none", "start", "construct", "init", "report", "run", "accept",
              "serve", "remove", "close", "fail", "ended"}
DaemonStates == {"UNINITIALIZED", "CONFIG_INITIALIZED", "GRPC_CLIENT_INITIALIZED",
                 "AUTHENTICATED"}
Causes == {"none", "start", "config", "grpc", "auth", "signal", "crash"}
LauncherPcs == {"idle", "fork", "await", "connect", "started", "already", "failed"}
CommandPcs  == {"idle", "connected", "waiting", "exit 0", "exit 1", "killed"}

SocketTypeOK ==
    /\ path \in Launchers \cup {NoOne}
    /\ listening \in [Launchers -> BOOLEAN] /\ accepting \in [Launchers -> BOOLEAN]
    /\ backlog \in [Launchers -> Seq(Clients)]
HandlerTypeOK ==
    /\ handling \in [Launchers -> Clients \cup {NoOne}]
    /\ result \in [Launchers -> {"none", "exit 0", "exit 1"}]
    /\ executed \subseteq Commands
ProcessTypeOK ==
    /\ dpc \in [Launchers -> DaemonPcs]
    /\ dstate \in [Launchers -> DaemonStates]
    /\ cause \in [Launchers -> Causes]
    /\ report \in [Launchers -> {"none", "ok", "failed", "broken"}]
    /\ lpc \in [Launchers -> LauncherPcs]
    /\ tries \in [Launchers -> 0..(DaemonTimeout + 1)]
    /\ crashes \in 0..MaxCrashes /\ faults \in 0..MaxFaults
ClientTypeOK ==
    /\ cpc \in [Commands -> CommandPcs]
    /\ server \in [Clients -> Launchers \cup {NoOne}]
    /\ sent \in [Clients -> BOOLEAN] /\ lost \in [Clients -> BOOLEAN]
    /\ reply \in [Clients -> {"none", "exit 0", "exit 1"}]
TypeOK == SocketTypeOK /\ HandlerTypeOK /\ ProcessTypeOK /\ ClientTypeOK

Init ==
    /\ path = NoOne
    /\ listening = [d \in Launchers |-> FALSE]
    /\ accepting = [d \in Launchers |-> FALSE]
    /\ backlog = [d \in Launchers |-> <<>>]
    /\ handling = [d \in Launchers |-> NoOne]
    /\ result = [d \in Launchers |-> "none"]
    /\ dpc = [d \in Launchers |-> "none"]
    /\ dstate = [d \in Launchers |-> "UNINITIALIZED"]
    /\ cause = [d \in Launchers |-> "none"]
    /\ report = [d \in Launchers |-> "none"]
    /\ lpc = [l \in Launchers |-> "idle"] /\ tries = [l \in Launchers |-> 0]
    /\ cpc = [c \in Commands |-> "idle"]
    /\ server = [c \in Clients |-> NoOne]
    /\ sent = [c \in Clients |-> FALSE] /\ lost = [c \in Clients |-> FALSE]
    /\ reply = [c \in Clients |-> "none"]
    /\ executed = {}
    /\ crashes = 0 /\ faults = 0

-----------------------------------------------------------------------------
(***************************************************************************)
(* Connecting to socket_path (asio's connect).                             *)
(***************************************************************************)
NoFile    == path = NoOne
Reachable == path # NoOne /\ listening[path]
Refused   == path # NoOne /\ ~listening[path]

Connected(c) ==
    /\ Reachable
    /\ server' = [server EXCEPT ![c] = path]
    /\ backlog' = [backlog EXCEPT ![path] = Append(@, c)]

NotConnected == UNCHANGED <<server, backlog>>

DaemonGoto(d, next) == dpc' = [dpc EXCEPT ![d] = next]
LauncherGoto(l, next) == lpc' = [lpc EXCEPT ![l] = next]
CommandGoto(c, next) == cpc' = [cpc EXCEPT ![c] = next]

-----------------------------------------------------------------------------
(***************************************************************************)
(* The launcher: main and start_daemon in remote-control.cpp.              *)
(***************************************************************************)
LauncherConnects(l) ==
    /\ lpc[l] = "idle"
    /\ \/ Connected(l) /\ LauncherGoto(l, "already")
       \/ NoFile /\ NotConnected /\ LauncherGoto(l, "fork")
       \/ Refused /\ NotConnected /\ LauncherGoto(l, "failed")
    /\ UNCHANGED <<path, listening, accepting, handlerVars, daemonVars, tries, cpc,
                   sent, lost, reply, counters>>

Fork(l) ==
    /\ lpc[l] = "fork"
    /\ LauncherGoto(l, "await") /\ DaemonGoto(l, "start")
    /\ UNCHANGED <<socketVars, handlerVars, dstate, cause, report, tries, clientVars,
                   counters>>

\* Mutated: the exit code is not looked at.
ReportIgnored(l) ==
    /\ lpc[l] = "await" /\ report[l] # "none"
    /\ LauncherGoto(l, "connect")
    /\ UNCHANGED <<socketVars, handlerVars, daemonVars, tries, clientVars, counters>>

\* If the daemon died without a report, an uninitialised buffer is parsed.
ReadReport(l) ==
    /\ lpc[l] = "await"
    /\ \/ report[l] \in {"ok", "broken"} /\ LauncherGoto(l, "connect")
       \/ report[l] \in {"failed", "broken"} /\ LauncherGoto(l, "failed")
    /\ UNCHANGED <<socketVars, handlerVars, daemonVars, tries, clientVars, counters>>

\* DAEMON_TIMEOUT: connecting is tried again, at most DaemonTimeout + 2 times.
LauncherRetries(l) ==
    /\ lpc[l] = "connect"
    /\ \/ Connected(l) /\ LauncherGoto(l, "started") /\ UNCHANGED tries
       \/ /\ ~Reachable /\ NotConnected
          /\ IF tries[l] > DaemonTimeout
               THEN LauncherGoto(l, "failed") /\ UNCHANGED tries
               ELSE tries' = [tries EXCEPT ![l] = @ + 1] /\ UNCHANGED lpc
    /\ UNCHANGED <<path, listening, accepting, handlerVars, daemonVars, cpc, sent,
                   lost, reply, counters>>

-----------------------------------------------------------------------------
(***************************************************************************)
(* The daemon: from the fork to its last report.                           *)
(***************************************************************************)

\* An exception: ~Daemon runs first, if there is a Daemon.
Throw(d, why) ==
    /\ cause' = [cause EXCEPT ![d] = why]
    /\ DaemonGoto(d, IF why = "start" THEN "fail" ELSE "remove")

\* setsid, log_init
StartUp(d) ==
    /\ dpc[d] = "start"
    /\ \/ DaemonGoto(d, "construct") /\ UNCHANGED cause
       \/ Throw(d, "start")
    /\ UNCHANGED <<socketVars, handlerVars, dstate, report, launchVars, clientVars,
                   counters>>

\* The constructor binds the socket file; if it cannot, that is only logged.
Construct(d) ==
    /\ dpc[d] = "construct"
    /\ IF NoFile THEN path' = d /\ listening' = [listening EXCEPT ![d] = TRUE]
                 ELSE UNCHANGED <<path, listening>>
    /\ DaemonGoto(d, "init")
    /\ UNCHANGED <<accepting, backlog, handlerVars, dstate, cause, report, launchVars,
                   clientVars, counters>>

(***************************************************************************)
(* Initialize, called by start_daemon ("init") and again by Run ("run"):   *)
(* a call in UNINITIALIZED goes on to the gRPC client, one in              *)
(* GRPC_CLIENT_INITIALIZED authenticates.                                  *)
(***************************************************************************)
InInitialize(d) == dpc[d] \in {"init", "run"}
InitializeReturns(d) == DaemonGoto(d, IF dpc[d] = "init" THEN "report" ELSE "accept")

InitializeConfig(d) ==
    /\ InInitialize(d) /\ dstate[d] = "UNINITIALIZED"
    /\ \/ /\ dstate' = [dstate EXCEPT ![d] = "CONFIG_INITIALIZED"]
          /\ UNCHANGED <<dpc, cause>>
       \/ Throw(d, "config") /\ UNCHANGED dstate
    /\ UNCHANGED <<socketVars, handlerVars, report, launchVars, clientVars, counters>>

InitializeGrpcClient(d) ==
    /\ InInitialize(d) /\ dstate[d] = "CONFIG_INITIALIZED"
    /\ \/ /\ dstate' = [dstate EXCEPT ![d] = "GRPC_CLIENT_INITIALIZED"]
          /\ InitializeReturns(d) /\ UNCHANGED cause
       \/ Throw(d, "grpc") /\ UNCHANGED dstate
    /\ UNCHANGED <<socketVars, handlerVars, report, launchVars, clientVars, counters>>

Authenticate(d) ==
    /\ InInitialize(d) /\ dstate[d] = "GRPC_CLIENT_INITIALIZED"
    /\ \/ /\ dstate' = [dstate EXCEPT ![d] = "AUTHENTICATED"]
          /\ InitializeReturns(d) /\ UNCHANGED cause
       \/ Throw(d, "auth") /\ UNCHANGED dstate
    /\ UNCHANGED <<socketVars, handlerVars, report, launchVars, clientVars, counters>>

\* Mutated: Run does not call Initialize again.
RunUninitialised(d) ==
    /\ dpc[d] = "report"
    /\ report' = [report EXCEPT ![d] = "ok"]
    /\ DaemonGoto(d, "accept")
    /\ UNCHANGED <<socketVars, handlerVars, dstate, cause, launchVars, clientVars,
                   counters>>

\* "0" goes to the launcher; then Run.
ReportSuccess(d) ==
    /\ dpc[d] = "report"
    /\ report' = [report EXCEPT ![d] = "ok"]
    /\ DaemonGoto(d, "run")
    /\ UNCHANGED <<socketVars, handlerVars, dstate, cause, launchVars, clientVars,
                   counters>>

-----------------------------------------------------------------------------
(***************************************************************************)
(* The daemon serves: one thread, one connection at a time.                *)
(***************************************************************************)

\* An acceptor that is not open fails at once: no accept is ever pending.
StartAccept(d) ==
    /\ dpc[d] = "accept"
    /\ accepting' = [accepting EXCEPT ![d] = listening[d]]
    /\ DaemonGoto(d, "serve")
    /\ UNCHANGED <<path, listening, backlog, handlerVars, dstate, cause, report,
                   launchVars, clientVars, counters>>

Idle(d) == dpc[d] = "serve" /\ handling[d] = NoOne

\* An error is logged, and start_accept is not called again.
AcceptFails(d) ==
    /\ Idle(d) /\ accepting[d] /\ faults < MaxFaults
    /\ accepting' = [accepting EXCEPT ![d] = FALSE]
    /\ faults' = faults + 1
    /\ UNCHANGED <<path, listening, backlog, handlerVars, daemonVars, launchVars,
                   clientVars, crashes>>

Accept(d) ==
    /\ Idle(d) /\ accepting[d] /\ backlog[d] # <<>>
    /\ handling' = [handling EXCEPT ![d] = Head(backlog[d])]
    /\ backlog' = [backlog EXCEPT ![d] = Tail(@)]
    /\ UNCHANGED <<path, listening, accepting, result, executed, daemonVars,
                   launchVars, clientVars, counters>>

\* The connection leaves connection_handler.
HandlerReturns(d) ==
    /\ handling' = [handling EXCEPT ![d] = NoOne]
    /\ result' = [result EXCEPT ![d] = "none"]

\* Mutated: the handler waits for arguments as long as it takes.
NeverDropped(d) == d \notin Launchers /\ UNCHANGED vars

\* No arguments within a second.
Drop(d) ==
    /\ handling[d] # NoOne /\ ~sent[handling[d]]
    /\ lost' = [lost EXCEPT ![handling[d]] = TRUE]
    /\ HandlerReturns(d)
    /\ UNCHANGED <<socketVars, executed, daemonVars, launchVars, cpc, server, sent,
                   reply, counters>>

\* Mutated: a failed call leaves the default exit status.
FailureIsSilent(d) ==
    /\ handling[d] # NoOne /\ sent[handling[d]] /\ result[d] = "none"
    /\ result' = [result EXCEPT ![d] = "exit 0"]
    /\ \/ executed' = executed \cup {handling[d]}
       \/ UNCHANGED executed
    /\ UNCHANGED <<socketVars, handling, daemonVars, launchVars, clientVars, counters>>

\* The call to the server, or an answer without one.  Seek returns ok() = 1.
Execute(d) ==
    /\ handling[d] # NoOne /\ sent[handling[d]] /\ result[d] = "none"
    /\ \/ /\ dstate[d] = "AUTHENTICATED"
          /\ executed' = executed \cup {handling[d]}
          /\ result' = [result EXCEPT ![d] =
                          IF handling[d] \in Seeks THEN "exit 1" ELSE "exit 0"]
       \/ /\ result' = [result EXCEPT ![d] = "exit 1"]
          /\ UNCHANGED executed
    /\ UNCHANGED <<socketVars, handling, daemonVars, launchVars, clientVars, counters>>

\* Mutated: the connection stays open after the answer.
RespondKeepsSocket(d) ==
    /\ handling[d] # NoOne /\ result[d] # "none"
    /\ reply' = [reply EXCEPT ![handling[d]] = result[d]]
    /\ UNCHANGED <<socketVars, handlerVars, daemonVars, launchVars, cpc, server, sent,
                   lost, counters>>

\* The answer, and the end of the connection.
Respond(d) ==
    /\ handling[d] # NoOne /\ result[d] # "none"
    /\ reply' = [reply EXCEPT ![handling[d]] = result[d]]
    /\ HandlerReturns(d)
    /\ UNCHANGED <<socketVars, executed, daemonVars, launchVars, cpc, server, sent,
                   lost, counters>>

-----------------------------------------------------------------------------
(***************************************************************************)
(* The daemon ends.                                                        *)
(***************************************************************************)

\* SIGINT or SIGTERM: Run returns once no handler runs.
Signal(d) ==
    /\ Idle(d)
    /\ cause' = [cause EXCEPT ![d] = "signal"]
    /\ DaemonGoto(d, "remove")
    /\ UNCHANGED <<socketVars, handlerVars, dstate, report, launchVars, clientVars,
                   counters>>

\* ~Daemon removes the file, whoever bound it.
RemoveSocket(d) ==
    /\ dpc[d] = "remove"
    /\ path' = NoOne
    /\ DaemonGoto(d, "close")
    /\ UNCHANGED <<listening, accepting, backlog, handlerVars, dstate, cause, report,
                   launchVars, clientVars, counters>>

\* Every connection the daemon holds is closed.
Waiting(d) == ToSet(backlog[d])
ConnectionsOf(d) == Waiting(d) \cup ({handling[d]} \ {NoOne})

Disconnect(d) ==
    /\ lost' = [c \in Clients |-> lost[c] \/ c \in ConnectionsOf(d)]
    /\ listening' = [listening EXCEPT ![d] = FALSE]
    /\ accepting' = [accepting EXCEPT ![d] = FALSE]
    /\ backlog' = [backlog EXCEPT ![d] = <<>>]
    /\ HandlerReturns(d)

\* Mutated: the pending connections are not closed.
CloseAcceptorOnly(d) ==
    /\ dpc[d] = "close"
    /\ listening' = [listening EXCEPT ![d] = FALSE]
    /\ accepting' = [accepting EXCEPT ![d] = FALSE]
    /\ DaemonGoto(d, IF cause[d] = "signal" THEN "ended" ELSE "fail")
    /\ UNCHANGED <<path, backlog, handlerVars, dstate, cause, report, launchVars,
                   clientVars, counters>>

\* The members of Daemon are destroyed.
Close(d) ==
    /\ dpc[d] = "close"
    /\ Disconnect(d)
    /\ DaemonGoto(d, IF cause[d] = "signal" THEN "ended" ELSE "fail")
    /\ UNCHANGED <<path, executed, dstate, cause, report, launchVars, cpc, server,
                   sent, reply, counters>>

\* Mutated: the process ends, but the pipe stays open somewhere.
EndSilently(d) ==
    /\ dpc[d] = "fail"
    /\ DaemonGoto(d, "ended")
    /\ UNCHANGED <<socketVars, handlerVars, dstate, cause, report, launchVars,
                   clientVars, counters>>

\* The failure goes into the pipe, if the launcher has not read "0" before.
ReportFailure(d) ==
    /\ dpc[d] = "fail"
    /\ report' = [report EXCEPT ![d] = IF @ = "none" THEN "failed" ELSE @]
    /\ DaemonGoto(d, "ended")
    /\ UNCHANGED <<socketVars, handlerVars, dstate, cause, launchVars, clientVars,
                   counters>>

\* Killed: the file stays.
Crash(d) ==
    /\ dpc[d] \notin {"none", "ended"} /\ crashes < MaxCrashes
    /\ crashes' = crashes + 1
    /\ cause' = [cause EXCEPT ![d] = "crash"]
    /\ DaemonGoto(d, "ended")
    /\ report' = [report EXCEPT ![d] = IF @ = "none" THEN "broken" ELSE @]
    /\ Disconnect(d)
    /\ UNCHANGED <<path, executed, dstate, launchVars, cpc, server, sent, reply,
                   faults>>

-----------------------------------------------------------------------------
(***************************************************************************)
(* A command: main of remote-control.cpp.                                  *)
(***************************************************************************)
CommandConnects(c) ==
    /\ cpc[c] = "idle"
    /\ \/ Connected(c) /\ CommandGoto(c, "connected")
       \/ ~Reachable /\ NotConnected /\ CommandGoto(c, "exit 1")
    /\ UNCHANGED <<path, listening, accepting, handlerVars, daemonVars, launchVars,
                   sent, lost, reply, counters>>

\* Writing to a connection the daemon has closed raises SIGPIPE.
Send(c) ==
    /\ cpc[c] = "connected"
    /\ IF lost[c] THEN CommandGoto(c, "killed") /\ UNCHANGED sent
                  ELSE CommandGoto(c, "waiting") /\ sent' = [sent EXCEPT ![c] = TRUE]
    /\ UNCHANGED <<socketVars, handlerVars, daemonVars, launchVars, server, lost,
                   reply, counters>>

\* Without an answer the message keeps its default, exit_status 0.
ReceiveAnswer(c) ==
    /\ cpc[c] = "waiting"
    /\ \/ reply[c] # "none" /\ CommandGoto(c, reply[c])
       \/ reply[c] = "none" /\ lost[c] /\ CommandGoto(c, "exit 0")
    /\ UNCHANGED <<socketVars, handlerVars, daemonVars, launchVars, server, sent,
                   lost, reply, counters>>

-----------------------------------------------------------------------------
Launcher(l) == \/ LauncherConnects(l) \/ Fork(l) \/ ReadReport(l) \/ LauncherRetries(l)

StartingUp(d) ==
    \/ StartUp(d) \/ Construct(d) \/ InitializeConfig(d) \/ InitializeGrpcClient(d)
    \/ Authenticate(d) \/ ReportSuccess(d) \/ StartAccept(d)

Serving(d) == Accept(d) \/ Drop(d) \/ Execute(d) \/ Respond(d)

Ending(d) == RemoveSocket(d) \/ Close(d) \/ ReportFailure(d)

Command(c) == CommandConnects(c) \/ Send(c) \/ ReceiveAnswer(c)

Next ==
    \/ \E d \in Launchers : \/ Launcher(d) \/ StartingUp(d) \/ Serving(d) \/ Ending(d)
                            \/ AcceptFails(d) \/ Signal(d) \/ Crash(d)
    \/ \E c \in Commands : Command(c)

Spec == Init /\ [][Next]_vars

\* Every process goes on with what it has begun.  Nobody has to start one.
Fairness ==
    /\ \A d \in Launchers :
         /\ WF_vars(lpc[d] # "idle" /\ Launcher(d)) /\ WF_vars(StartingUp(d))
         /\ WF_vars(Serving(d)) /\ WF_vars(Ending(d))
    /\ \A c \in Commands : WF_vars(cpc[c] # "idle" /\ Command(c))

FairSpec == Spec /\ Fairness

-----------------------------------------------------------------------------
(***************************************************************************)
(* Properties.                                                             *)
(***************************************************************************)

\* A daemon serves only with a session key, although the first Initialize
\* stops before authenticating (Daemon.cpp:105-123).
ServingIsAuthenticated ==
    \A d \in Launchers : dpc[d] \in {"accept", "serve"} => dstate[d] = "AUTHENTICATED"

\* An exit status that came from the daemon is true: 0 if the server answered
\* with OK and mpv's success, 1 if not - but for seek (Daemon.cpp:296-328, PlayerClient.cpp:290).
StatusIsTrue ==
    \A c \in Commands :
        reply[c] # "none" => (reply[c] = "exit 0" <=> c \in executed \ Seeks)

\* No command waits for a daemon that has forgotten it: the connection is in the
\* backlog or in the handler of a living daemon, or it was answered or closed.
NobodyForgotten ==
    \A c \in Commands :
        cpc[c] \in {"connected", "waiting"} /\ ~lost[c] /\ reply[c] = "none"
            => \E d \in Launchers :
                 /\ server[c] = d /\ c \in ConnectionsOf(d)
                 /\ dpc[d] \notin {"none", "start", "construct", "fail", "ended"}

\* What keeps the two above true of the next step: a connection has one daemon and
\* one place there, which it leaves when it is answered, and a call is made for the
\* connection in the handler alone.
Deaf == {"none", "start", "construct", "fail", "ended"}
Queued(d) == IsInjective(backlog[d])

SocketInv ==
    /\ \A d \in Launchers : listening[d] => dpc[d] \notin Deaf
    /\ \A l \in Launchers : lpc[l] \in {"idle", "fork"} => dpc[l] = "none"
NewcomerInv ==
    /\ \A c \in Commands : cpc[c] = "idle" => server[c] = NoOne
    /\ \A l \in Launchers :
         lpc[l] \in {"idle", "fork", "await", "connect"} => server[l] = NoOne
    /\ \A c \in Clients : server[c] = NoOne => reply[c] = "none"
PlaceInv ==
    \A d \in Launchers :
      /\ \A c \in ConnectionsOf(d) : server[c] = d /\ reply[c] = "none"
      /\ handling[d] \notin Waiting(d) /\ Queued(d)
CallInv ==
    /\ \A c \in Clients : sent[c] => c \in Commands
    /\ \A c \in executed : server[c] # NoOne
    /\ \A d \in Launchers :
         /\ \A c \in Waiting(d) : c \notin executed
         /\ handling[d] \in executed => result[d] # "none"
         /\ result[d] # "none" =>
              /\ handling[d] \in Commands
              /\ result[d] = "exit 0" <=> handling[d] \in executed \ Seeks
\* And how far a daemon has come.
StageInv ==
    \A d \in Launchers :
      /\ dpc[d] \in {"none", "start", "construct"} => dstate[d] = "UNINITIALIZED"
      /\ dpc[d] = "init" => dstate[d] \in {"UNINITIALIZED", "CONFIG_INITIALIZED"}
      /\ dpc[d] \in {"report", "run"} => dstate[d] = "GRPC_CLIENT_INITIALIZED"
      /\ dpc[d] \in {"accept", "serve"} => dstate[d] = "AUTHENTICATED"
      /\ report[d] = "ok" => dstate[d] \in {"GRPC_CLIENT_INITIALIZED", "AUTHENTICATED"}
      /\ lpc[d] \in {"connect", "started"} => report[d] \in {"ok", "broken"}

\* The invariant the proofs rest on: who holds which connection, and how far each
\* process is.
DaemonInv ==
    /\ TypeOK
    /\ SocketInv /\ NewcomerInv /\ PlaceInv /\ CallInv /\ StageInv
    /\ StatusIsTrue /\ NobodyForgotten

\* A launcher says "Daemon started" only after its own daemon has reached the
\* server, or if that daemon died without a word (remote-control.cpp:219-235).
StartedHasReached ==
    \A l \in Launchers :
        lpc[l] = "started" => \/ report[l] = "broken"
                              \/ dstate[l] \in {"GRPC_CLIENT_INITIALIZED", "AUTHENTICATED"}

\* Every command that connects ends, while accepting does not fail: the daemon
\* drops those who send nothing (Daemon.cpp:279-283) and answers the rest.
CommandEnds ==
    \A c \in Commands : cpc[c] = "connected" ~> cpc[c] \in {"exit 0", "exit 1", "killed"}

\* Every launcher ends, whatever becomes of its daemon (remote-control.cpp:216-285).
LaunchEnds ==
    \A l \in Launchers : lpc[l] = "fork" ~> lpc[l] \in {"started", "failed"}

\* "Daemon is not running." (remote-control.cpp:253): what a missing socket file
\* is taken for.
MissingFileMeansNoDaemon ==
    [][\A c \in Commands :
         CommandConnects(c) /\ NoFile => \A d \in Launchers : dpc[d] # "serve"]_vars
=============================================================================
