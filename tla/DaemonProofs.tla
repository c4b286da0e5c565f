---------------------------- MODULE DaemonProofs ----------------------------
(***************************************************************************)
(* Theorems about Daemon, for any number of launchers, commands, crashes   *)
(* and faults.                                                             *)
(***************************************************************************)
EXTENDS Daemon, TLAPS

\* What the assumption says, taken apart.
LEMMA Constants ==
    /\ Launchers \subseteq Clients /\ Commands \subseteq Clients /\ NoOne \notin Clients
    /\ \A l \in Launchers : l \notin Commands
    /\ DaemonTimeout \in Nat /\ MaxCrashes \in Nat /\ MaxFaults \in Nat
    /\ Seeks \subseteq Commands
BY DaemonAssumption DEF Clients

(***************************************************************************)
(* A queue that grows at its end, and one that loses its head.             *)
(***************************************************************************)
LEMMA AppendFacts ==
    ASSUME NEW S, NEW s \in Seq(S), NEW c \in S
    PROVE  /\ Append(s, c) \in Seq(S)
           /\ ToSet(Append(s, c)) = ToSet(s) \cup {c}
           /\ IsInjective(s) /\ c \notin ToSet(s) => IsInjective(Append(s, c))
<1>1. /\ Append(s, c) \in Seq(S) /\ Len(s) \in Nat
      /\ DOMAIN s = 1..Len(s) /\ DOMAIN Append(s, c) = 1..(Len(s) + 1)
      /\ Append(s, c)[Len(s) + 1] = c
      /\ \A i \in 1..Len(s) : Append(s, c)[i] = s[i]
  OBVIOUS
<1>2. ToSet(Append(s, c)) = ToSet(s) \cup {c}
  BY <1>1 DEF ToSet
<1>3. IsInjective(s) /\ c \notin ToSet(s) => IsInjective(Append(s, c))
  BY <1>1 DEF ToSet, IsInjective
<1> QED
  BY <1>1, <1>2, <1>3

LEMMA TailFacts ==
    ASSUME NEW S, NEW s \in Seq(S), s # <<>>
    PROVE  /\ Head(s) \in S /\ Tail(s) \in Seq(S)
           /\ ToSet(s) = {Head(s)} \cup ToSet(Tail(s))
           /\ IsInjective(s) => IsInjective(Tail(s)) /\ Head(s) \notin ToSet(Tail(s))
<1>1. /\ Head(s) \in S /\ Tail(s) \in Seq(S) /\ Len(s) \in Nat \ {0} /\ Head(s) = s[1]
      /\ DOMAIN s = 1..Len(s) /\ DOMAIN Tail(s) = 1..(Len(s) - 1)
      /\ \A i \in 1..(Len(s) - 1) : Tail(s)[i] = s[i + 1]
  OBVIOUS
<1>2. \A i \in 2..Len(s) : i - 1 \in 1..(Len(s) - 1) /\ Tail(s)[i - 1] = s[i]
  BY <1>1
<1>3. ToSet(s) = {Head(s)} \cup ToSet(Tail(s))
  <2>1. ToSet(Tail(s)) \subseteq ToSet(s) /\ Head(s) \in ToSet(s)
    BY <1>1 DEF ToSet
  <2>2. ASSUME NEW x \in ToSet(s), x # Head(s) PROVE x \in ToSet(Tail(s))
    <3>1. PICK i \in 1..Len(s) : s[i] = x
      BY <1>1 DEF ToSet
    <3>2. i \in 2..Len(s)
      BY <1>1, <2>2, <3>1
    <3> QED
      BY <1>1, <1>2, <3>1, <3>2 DEF ToSet
  <2> QED
    BY <2>1, <2>2
<1>4. IsInjective(s) => IsInjective(Tail(s)) /\ Head(s) \notin ToSet(Tail(s))
  BY <1>1 DEF ToSet, IsInjective
<1> QED
  BY <1>1, <1>3, <1>4

\* An empty queue.
LEMMA EmptyFacts == ToSet(<<>>) = {} /\ IsInjective(<<>>)
BY DEF ToSet, IsInjective

(***************************************************************************)
(* Before anything was started.                                            *)
(***************************************************************************)
LEMMA DaemonInit == Init => TypeOK /\ DaemonInv
<1> SUFFICES ASSUME Init PROVE TypeOK /\ DaemonInv
  OBVIOUS
<1> USE Constants DEF Init
<1>1. SocketTypeOK /\ HandlerTypeOK
  BY DEF SocketTypeOK, HandlerTypeOK
<1>2. ProcessTypeOK /\ ClientTypeOK
  BY DEF ProcessTypeOK, ClientTypeOK, DaemonPcs, DaemonStates, Causes, LauncherPcs,
         CommandPcs
<1>3. SocketInv /\ NewcomerInv
  BY DEF SocketInv, NewcomerInv
<1>4. PlaceInv /\ CallInv
  BY EmptyFacts DEF PlaceInv, CallInv, ConnectionsOf, Waiting, Queued
<1>5. StatusIsTrue /\ NobodyForgotten /\ StageInv
  BY DEF StatusIsTrue, NobodyForgotten, StageInv
<1>6. TypeOK
  BY <1>1, <1>2 DEF TypeOK
<1> QED
  BY <1>3, <1>4, <1>5, <1>6 DEF DaemonInv

(***************************************************************************)
(* How the backlogs change.                                                *)
(***************************************************************************)
LEMMA BacklogGrows ==
    ASSUME TypeOK, NEW c \in Clients, Connected(c)
    PROVE  /\ backlog' \in [Launchers -> Seq(Clients)]
           /\ server' \in [Clients -> Launchers \cup {NoOne}]
           /\ server' = [server EXCEPT ![c] = path]
           /\ path \in Launchers /\ listening[path]
           /\ \A d \in Launchers :
                /\ ToSet(backlog'[d]) =
                     IF d = path THEN ToSet(backlog[d]) \cup {c} ELSE ToSet(backlog[d])
                /\ IsInjective(backlog[d]) /\ c \notin ToSet(backlog[d])
                     => IsInjective(backlog'[d])
<1>1. /\ path \in Launchers /\ listening[path] /\ backlog[path] \in Seq(Clients)
      /\ backlog \in [Launchers -> Seq(Clients)]
      /\ server \in [Clients -> Launchers \cup {NoOne}]
      /\ backlog' = [backlog EXCEPT ![path] = Append(backlog[path], c)]
      /\ server' = [server EXCEPT ![c] = path]
  BY DEF Connected, Reachable, TypeOK, SocketTypeOK, ClientTypeOK
<1>2. Append(backlog[path], c) \in Seq(Clients)
  BY <1>1, AppendFacts
<1>3. \A d \in Launchers :
        backlog'[d] = IF d = path THEN Append(backlog[path], c) ELSE backlog[d]
  BY <1>1
<1>4. backlog' \in [Launchers -> Seq(Clients)]
  BY <1>1, <1>2
<1>5. server' \in [Clients -> Launchers \cup {NoOne}]
  BY <1>1
<1>6. /\ ToSet(backlog'[path]) = ToSet(backlog[path]) \cup {c}
      /\ IsInjective(backlog[path]) /\ c \notin ToSet(backlog[path])
           => IsInjective(backlog'[path])
  BY <1>1, <1>3, AppendFacts
<1>7. \A d \in Launchers : d # path => backlog'[d] = backlog[d]
  BY <1>3
<1> QED
  BY <1>1, <1>4, <1>5, <1>6, <1>7

LEMMA BacklogShrinks ==
    ASSUME TypeOK, NEW d \in Launchers, Accept(d)
    PROVE  /\ backlog' \in [Launchers -> Seq(Clients)]
           /\ handling' = [handling EXCEPT ![d] = Head(backlog[d])]
           /\ Head(backlog[d]) \in Clients
           /\ ToSet(backlog[d]) = {Head(backlog[d])} \cup ToSet(backlog'[d])
           /\ IsInjective(backlog[d]) => /\ IsInjective(backlog'[d])
                                         /\ Head(backlog[d]) \notin ToSet(backlog'[d])
           /\ \A e \in Launchers \ {d} : backlog'[e] = backlog[e]
<1>1. /\ backlog[d] \in Seq(Clients) /\ backlog[d] # <<>>
      /\ backlog \in [Launchers -> Seq(Clients)]
      /\ backlog' = [backlog EXCEPT ![d] = Tail(backlog[d])]
      /\ handling' = [handling EXCEPT ![d] = Head(backlog[d])]
  BY DEF Accept, TypeOK, SocketTypeOK
<1>2. /\ backlog'[d] = Tail(backlog[d])
      /\ \A e \in Launchers \ {d} : backlog'[e] = backlog[e]
  BY <1>1
<1>3. backlog' \in [Launchers -> Seq(Clients)]
  BY <1>1, TailFacts
<1> QED
  BY <1>1, <1>2, <1>3, TailFacts

LEMMA BacklogEmptied ==
    ASSUME TypeOK, NEW d \in Launchers, Disconnect(d)
    PROVE  /\ backlog' \in [Launchers -> Seq(Clients)]
           /\ ToSet(backlog'[d]) = {} /\ IsInjective(backlog'[d])
           /\ \A e \in Launchers \ {d} : backlog'[e] = backlog[e]
<1>1. backlog'[d] = <<>> /\ \A e \in Launchers \ {d} : backlog'[e] = backlog[e]
  BY DEF Disconnect, TypeOK, SocketTypeOK
<1>2. backlog' \in [Launchers -> Seq(Clients)]
  BY DEF Disconnect, TypeOK, SocketTypeOK
<1> QED
  BY <1>1, <1>2, EmptyFacts

(***************************************************************************)
(* The steps that leave the connections alone.  None of them silences a    *)
(* daemon that listens.                                                    *)
(***************************************************************************)
Unattached == {"idle", "fork", "await", "connect"}

Quiet ==
    /\ UNCHANGED <<backlog, handling, result, executed, cpc, server, sent, lost, reply>>
    /\ \A d \in Launchers : dpc[d] \notin Deaf => dpc'[d] \notin Deaf
    /\ \A l \in Launchers : lpc'[l] \in Unattached => lpc[l] \in Unattached

\* The others.
Noisy ==
    \/ \E d \in Launchers :
         \/ LauncherConnects(d) \/ LauncherRetries(d) \/ Accept(d) \/ Drop(d)
         \/ Execute(d) \/ Respond(d) \/ Close(d) \/ Crash(d)
    \/ \E c \in Commands : CommandConnects(c) \/ Send(c) \/ ReceiveAnswer(c)

(***************************************************************************)
(* Every step keeps the types.                                             *)
(***************************************************************************)
LEMMA SocketTypes ==
    ASSUME TypeOK, DaemonInv, [Next]_vars PROVE SocketTypeOK'
<1> USE Constants DEF TypeOK, SocketTypeOK,
      socketVars, handlerVars, daemonVars, launchVars,
      clientVars, counters
<1>1. ASSUME NEW d \in Launchers, Fork(d) PROVE SocketTypeOK'
  BY <1>1 DEF Fork, LauncherGoto, DaemonGoto
<1>2. ASSUME NEW d \in Launchers, ReadReport(d) PROVE SocketTypeOK'
  BY <1>2 DEF ReadReport, LauncherGoto
<1>3. ASSUME NEW d \in Launchers, StartUp(d) PROVE SocketTypeOK'
  BY <1>3 DEF StartUp, DaemonGoto, Throw
<1>4. ASSUME NEW d \in Launchers, Construct(d) PROVE SocketTypeOK'
  BY <1>4 DEF Construct, DaemonGoto, NoFile
<1>5. ASSUME NEW d \in Launchers, InitializeConfig(d) PROVE SocketTypeOK'
  BY <1>5 DEF InitializeConfig, Throw, DaemonGoto, InInitialize
<1>6. ASSUME NEW d \in Launchers, InitializeGrpcClient(d) PROVE SocketTypeOK'
  BY <1>6 DEF InitializeGrpcClient, Throw, DaemonGoto, InInitialize, InitializeReturns
<1>7. ASSUME NEW d \in Launchers, Authenticate(d) PROVE SocketTypeOK'
  BY <1>7 DEF Authenticate, Throw, DaemonGoto, InInitialize, InitializeReturns
<1>8. ASSUME NEW d \in Launchers, ReportSuccess(d) PROVE SocketTypeOK'
  BY <1>8 DEF ReportSuccess, DaemonGoto
<1>9. ASSUME NEW d \in Launchers, StartAccept(d) PROVE SocketTypeOK'
  BY <1>9 DEF StartAccept, DaemonGoto
<1>10. ASSUME NEW d \in Launchers, AcceptFails(d) PROVE SocketTypeOK'
  BY <1>10 DEF AcceptFails, Idle
<1>11. ASSUME NEW d \in Launchers, Signal(d) PROVE SocketTypeOK'
  BY <1>11 DEF Signal, Idle, DaemonGoto
<1>12. ASSUME NEW d \in Launchers, RemoveSocket(d) PROVE SocketTypeOK'
  BY <1>12 DEF RemoveSocket, DaemonGoto
<1>13. ASSUME NEW d \in Launchers, ReportFailure(d) PROVE SocketTypeOK'
  BY <1>13 DEF ReportFailure, DaemonGoto
<1>14. ASSUME NEW d \in Launchers, LauncherConnects(d) PROVE SocketTypeOK'
  BY <1>14, BacklogGrows
     DEF LauncherConnects, Connected, NotConnected, Reachable, NoFile, Refused,
         LauncherGoto
<1>15. ASSUME NEW d \in Launchers, LauncherRetries(d) PROVE SocketTypeOK'
  BY <1>15, BacklogGrows
     DEF LauncherRetries, Connected, NotConnected, Reachable, LauncherGoto
<1>16. ASSUME NEW d \in Launchers, Accept(d) PROVE SocketTypeOK'
  BY <1>16, BacklogShrinks DEF Accept, Idle
<1>17. ASSUME NEW d \in Launchers, Drop(d) PROVE SocketTypeOK'
  BY <1>17 DEF Drop, HandlerReturns
<1>18. ASSUME NEW d \in Launchers, Execute(d) PROVE SocketTypeOK'
  BY <1>18 DEF Execute
<1>19. ASSUME NEW d \in Launchers, Respond(d) PROVE SocketTypeOK'
  BY <1>19 DEF Respond, HandlerReturns
<1>20. ASSUME NEW d \in Launchers, Close(d) PROVE SocketTypeOK'
  BY <1>20, BacklogEmptied DEF Close, Disconnect, HandlerReturns, DaemonGoto
<1>21. ASSUME NEW d \in Launchers, Crash(d) PROVE SocketTypeOK'
  BY <1>21, BacklogEmptied DEF Crash, Disconnect, HandlerReturns, DaemonGoto
<1>22. ASSUME NEW c \in Commands, CommandConnects(c) PROVE SocketTypeOK'
  BY <1>22, BacklogGrows
     DEF CommandConnects, Connected, NotConnected, Reachable, CommandGoto
<1>23. ASSUME NEW c \in Commands, Send(c) PROVE SocketTypeOK'
  BY <1>23 DEF Send, CommandGoto
<1>24. ASSUME NEW c \in Commands, ReceiveAnswer(c) PROVE SocketTypeOK'
  BY <1>24 DEF ReceiveAnswer, CommandGoto
<1>25. CASE UNCHANGED vars
  BY <1>25 DEF vars
<1> QED
  BY <1>1, <1>2, <1>3, <1>4, <1>5, <1>6, <1>7, <1>8, <1>9, <1>10, <1>11, <1>12, <1>13,
     <1>14, <1>15, <1>16, <1>17, <1>18, <1>19, <1>20, <1>21, <1>22, <1>23, <1>24, <1>25
     DEF Next, Launcher, StartingUp, Serving, Ending, Command

(***************************************************************************)
(* Every step keeps the types.                                             *)
(***************************************************************************)
LEMMA HandlerTypes ==
    ASSUME TypeOK, DaemonInv, [Next]_vars PROVE HandlerTypeOK'
<1> USE Constants DEF TypeOK, HandlerTypeOK, DaemonInv, CallInv,
      socketVars, handlerVars, daemonVars, launchVars,
      clientVars, counters
<1>1. ASSUME NEW d \in Launchers, Fork(d) PROVE HandlerTypeOK'
  BY <1>1 DEF Fork, LauncherGoto, DaemonGoto
<1>2. ASSUME NEW d \in Launchers, ReadReport(d) PROVE HandlerTypeOK'
  BY <1>2 DEF ReadReport, LauncherGoto
<1>3. ASSUME NEW d \in Launchers, StartUp(d) PROVE HandlerTypeOK'
  BY <1>3 DEF StartUp, DaemonGoto, Throw
<1>4. ASSUME NEW d \in Launchers, Construct(d) PROVE HandlerTypeOK'
  BY <1>4 DEF Construct, DaemonGoto, NoFile
<1>5. ASSUME NEW d \in Launchers, InitializeConfig(d) PROVE HandlerTypeOK'
  BY <1>5 DEF InitializeConfig, Throw, DaemonGoto, InInitialize
<1>6. ASSUME NEW d \in Launchers, InitializeGrpcClient(d) PROVE HandlerTypeOK'
  BY <1>6 DEF InitializeGrpcClient, Throw, DaemonGoto, InInitialize, InitializeReturns
<1>7. ASSUME NEW d \in Launchers, Authenticate(d) PROVE HandlerTypeOK'
  BY <1>7 DEF Authenticate, Throw, DaemonGoto, InInitialize, InitializeReturns
<1>8. ASSUME NEW d \in Launchers, ReportSuccess(d) PROVE HandlerTypeOK'
  BY <1>8 DEF ReportSuccess, DaemonGoto
<1>9. ASSUME NEW d \in Launchers, StartAccept(d) PROVE HandlerTypeOK'
  BY <1>9 DEF StartAccept, DaemonGoto
<1>10. ASSUME NEW d \in Launchers, AcceptFails(d) PROVE HandlerTypeOK'
  BY <1>10 DEF AcceptFails, Idle
<1>11. ASSUME NEW d \in Launchers, Signal(d) PROVE HandlerTypeOK'
  BY <1>11 DEF Signal, Idle, DaemonGoto
<1>12. ASSUME NEW d \in Launchers, RemoveSocket(d) PROVE HandlerTypeOK'
  BY <1>12 DEF RemoveSocket, DaemonGoto
<1>13. ASSUME NEW d \in Launchers, ReportFailure(d) PROVE HandlerTypeOK'
  BY <1>13 DEF ReportFailure, DaemonGoto
<1>14. ASSUME NEW d \in Launchers, LauncherConnects(d) PROVE HandlerTypeOK'
  BY <1>14
     DEF LauncherConnects, Connected, NotConnected, Reachable, NoFile, Refused,
         LauncherGoto
<1>15. ASSUME NEW d \in Launchers, LauncherRetries(d) PROVE HandlerTypeOK'
  BY <1>15 DEF LauncherRetries, Connected, NotConnected, Reachable, LauncherGoto
<1>16. ASSUME NEW d \in Launchers, Accept(d) PROVE HandlerTypeOK'
  BY <1>16, BacklogShrinks DEF Accept, Idle
<1>17. ASSUME NEW d \in Launchers, Drop(d) PROVE HandlerTypeOK'
  BY <1>17 DEF Drop, HandlerReturns
<1>18. ASSUME NEW d \in Launchers, Execute(d) PROVE HandlerTypeOK'
  <2>1. handling[d] \in Commands
    BY <1>18 DEF Execute
  <2>2. result' \in [Launchers -> {"none", "exit 0", "exit 1"}]
    BY <1>18 DEF Execute
  <2>3. executed' \subseteq Commands
    BY <1>18, <2>1 DEF Execute
  <2> QED
    BY <1>18, <2>2, <2>3 DEF Execute
<1>19. ASSUME NEW d \in Launchers, Respond(d) PROVE HandlerTypeOK'
  BY <1>19 DEF Respond, HandlerReturns
<1>20. ASSUME NEW d \in Launchers, Close(d) PROVE HandlerTypeOK'
  BY <1>20 DEF Close, Disconnect, HandlerReturns, DaemonGoto
<1>21. ASSUME NEW d \in Launchers, Crash(d) PROVE HandlerTypeOK'
  BY <1>21 DEF Crash, Disconnect, HandlerReturns, DaemonGoto
<1>22. ASSUME NEW c \in Commands, CommandConnects(c) PROVE HandlerTypeOK'
  BY <1>22 DEF CommandConnects, Connected, NotConnected, Reachable, CommandGoto
<1>23. ASSUME NEW c \in Commands, Send(c) PROVE HandlerTypeOK'
  BY <1>23 DEF Send, CommandGoto
<1>24. ASSUME NEW c \in Commands, ReceiveAnswer(c) PROVE HandlerTypeOK'
  BY <1>24 DEF ReceiveAnswer, CommandGoto
<1>25. CASE UNCHANGED vars
  BY <1>25 DEF vars
<1> QED
  BY <1>1, <1>2, <1>3, <1>4, <1>5, <1>6, <1>7, <1>8, <1>9, <1>10, <1>11, <1>12, <1>13,
     <1>14, <1>15, <1>16, <1>17, <1>18, <1>19, <1>20, <1>21, <1>22, <1>23, <1>24, <1>25
     DEF Next, Launcher, StartingUp, Serving, Ending, Command

(***************************************************************************)
(* Every step keeps the types.                                             *)
(***************************************************************************)
LEMMA ProcessTypes ==
    ASSUME TypeOK, DaemonInv, [Next]_vars PROVE ProcessTypeOK'
<1> USE Constants DEF TypeOK, ProcessTypeOK, DaemonPcs, DaemonStates, Causes,
      LauncherPcs, socketVars, handlerVars, daemonVars, launchVars,
      clientVars, counters
<1>1. ASSUME NEW d \in Launchers, Fork(d) PROVE ProcessTypeOK'
  BY <1>1 DEF Fork, LauncherGoto, DaemonGoto
<1>2. ASSUME NEW d \in Launchers, ReadReport(d) PROVE ProcessTypeOK'
  BY <1>2 DEF ReadReport, LauncherGoto
<1>3. ASSUME NEW d \in Launchers, StartUp(d) PROVE ProcessTypeOK'
  BY <1>3 DEF StartUp, DaemonGoto, Throw
<1>4. ASSUME NEW d \in Launchers, Construct(d) PROVE ProcessTypeOK'
  BY <1>4 DEF Construct, DaemonGoto, NoFile
<1>5. ASSUME NEW d \in Launchers, InitializeConfig(d) PROVE ProcessTypeOK'
  BY <1>5 DEF InitializeConfig, Throw, DaemonGoto, InInitialize
<1>6. ASSUME NEW d \in Launchers, InitializeGrpcClient(d) PROVE ProcessTypeOK'
  BY <1>6 DEF InitializeGrpcClient, Throw, DaemonGoto, InInitialize, InitializeReturns
<1>7. ASSUME NEW d \in Launchers, Authenticate(d) PROVE ProcessTypeOK'
  BY <1>7 DEF Authenticate, Throw, DaemonGoto, InInitialize, InitializeReturns
<1>8. ASSUME NEW d \in Launchers, ReportSuccess(d) PROVE ProcessTypeOK'
  BY <1>8 DEF ReportSuccess, DaemonGoto
<1>9. ASSUME NEW d \in Launchers, StartAccept(d) PROVE ProcessTypeOK'
  BY <1>9 DEF StartAccept, DaemonGoto
<1>10. ASSUME NEW d \in Launchers, AcceptFails(d) PROVE ProcessTypeOK'
  BY <1>10 DEF AcceptFails, Idle
<1>11. ASSUME NEW d \in Launchers, Signal(d) PROVE ProcessTypeOK'
  BY <1>11 DEF Signal, Idle, DaemonGoto
<1>12. ASSUME NEW d \in Launchers, RemoveSocket(d) PROVE ProcessTypeOK'
  BY <1>12 DEF RemoveSocket, DaemonGoto
<1>13. ASSUME NEW d \in Launchers, ReportFailure(d) PROVE ProcessTypeOK'
  BY <1>13 DEF ReportFailure, DaemonGoto
<1>14. ASSUME NEW d \in Launchers, LauncherConnects(d) PROVE ProcessTypeOK'
  BY <1>14
     DEF LauncherConnects, Connected, NotConnected, Reachable, NoFile, Refused,
         LauncherGoto
<1>15. ASSUME NEW d \in Launchers, LauncherRetries(d) PROVE ProcessTypeOK'
  <2>1. tries' \in [Launchers -> 0..(DaemonTimeout + 1)]
    <3>1. CASE tries' = tries
      BY <3>1
    <3>2. CASE tries[d] <= DaemonTimeout /\ tries' = [tries EXCEPT ![d] = @ + 1]
      <4>1. tries[d] + 1 \in 0..(DaemonTimeout + 1)
        BY <3>2
      <4> QED
        BY <3>2, <4>1
    <3> QED
      BY <1>15, <3>1, <3>2 DEF LauncherRetries
  <2>2. lpc' \in [Launchers -> LauncherPcs]
    BY <1>15 DEF LauncherRetries, LauncherGoto
  <2> QED
    BY <1>15, <2>1, <2>2 DEF LauncherRetries
<1>16. ASSUME NEW d \in Launchers, Accept(d) PROVE ProcessTypeOK'
  BY <1>16 DEF Accept, Idle
<1>17. ASSUME NEW d \in Launchers, Drop(d) PROVE ProcessTypeOK'
  BY <1>17 DEF Drop, HandlerReturns
<1>18. ASSUME NEW d \in Launchers, Execute(d) PROVE ProcessTypeOK'
  BY <1>18 DEF Execute
<1>19. ASSUME NEW d \in Launchers, Respond(d) PROVE ProcessTypeOK'
  BY <1>19 DEF Respond, HandlerReturns
<1>20. ASSUME NEW d \in Launchers, Close(d) PROVE ProcessTypeOK'
  BY <1>20 DEF Close, Disconnect, HandlerReturns, DaemonGoto
<1>21. ASSUME NEW d \in Launchers, Crash(d) PROVE ProcessTypeOK'
  BY <1>21 DEF Crash, Disconnect, HandlerReturns, DaemonGoto
<1>22. ASSUME NEW c \in Commands, CommandConnects(c) PROVE ProcessTypeOK'
  BY <1>22 DEF CommandConnects, Connected, NotConnected, Reachable, CommandGoto
<1>23. ASSUME NEW c \in Commands, Send(c) PROVE ProcessTypeOK'
  BY <1>23 DEF Send, CommandGoto
<1>24. ASSUME NEW c \in Commands, ReceiveAnswer(c) PROVE ProcessTypeOK'
  BY <1>24 DEF ReceiveAnswer, CommandGoto
<1>25. CASE UNCHANGED vars
  BY <1>25 DEF vars
<1> QED
  BY <1>1, <1>2, <1>3, <1>4, <1>5, <1>6, <1>7, <1>8, <1>9, <1>10, <1>11, <1>12, <1>13,
     <1>14, <1>15, <1>16, <1>17, <1>18, <1>19, <1>20, <1>21, <1>22, <1>23, <1>24, <1>25
     DEF Next, Launcher, StartingUp, Serving, Ending, Command

(***************************************************************************)
(* Every step keeps the types.                                             *)
(***************************************************************************)
LEMMA ClientTypes ==
    ASSUME TypeOK, DaemonInv, [Next]_vars PROVE ClientTypeOK'
<1> USE Constants DEF TypeOK, ClientTypeOK, HandlerTypeOK, CommandPcs,
      socketVars, handlerVars, daemonVars, launchVars,
      clientVars, counters
<1>1. ASSUME NEW d \in Launchers, Fork(d) PROVE ClientTypeOK'
  BY <1>1 DEF Fork, LauncherGoto, DaemonGoto
<1>2. ASSUME NEW d \in Launchers, ReadReport(d) PROVE ClientTypeOK'
  BY <1>2 DEF ReadReport, LauncherGoto
<1>3. ASSUME NEW d \in Launchers, StartUp(d) PROVE ClientTypeOK'
  BY <1>3 DEF StartUp, DaemonGoto, Throw
<1>4. ASSUME NEW d \in Launchers, Construct(d) PROVE ClientTypeOK'
  BY <1>4 DEF Construct, DaemonGoto, NoFile
<1>5. ASSUME NEW d \in Launchers, InitializeConfig(d) PROVE ClientTypeOK'
  BY <1>5 DEF InitializeConfig, Throw, DaemonGoto, InInitialize
<1>6. ASSUME NEW d \in Launchers, InitializeGrpcClient(d) PROVE ClientTypeOK'
  BY <1>6 DEF InitializeGrpcClient, Throw, DaemonGoto, InInitialize, InitializeReturns
<1>7. ASSUME NEW d \in Launchers, Authenticate(d) PROVE ClientTypeOK'
  BY <1>7 DEF Authenticate, Throw, DaemonGoto, InInitialize, InitializeReturns
<1>8. ASSUME NEW d \in Launchers, ReportSuccess(d) PROVE ClientTypeOK'
  BY <1>8 DEF ReportSuccess, DaemonGoto
<1>9. ASSUME NEW d \in Launchers, StartAccept(d) PROVE ClientTypeOK'
  BY <1>9 DEF StartAccept, DaemonGoto
<1>10. ASSUME NEW d \in Launchers, AcceptFails(d) PROVE ClientTypeOK'
  BY <1>10 DEF AcceptFails, Idle
<1>11. ASSUME NEW d \in Launchers, Signal(d) PROVE ClientTypeOK'
  BY <1>11 DEF Signal, Idle, DaemonGoto
<1>12. ASSUME NEW d \in Launchers, RemoveSocket(d) PROVE ClientTypeOK'
  BY <1>12 DEF RemoveSocket, DaemonGoto
<1>13. ASSUME NEW d \in Launchers, ReportFailure(d) PROVE ClientTypeOK'
  BY <1>13 DEF ReportFailure, DaemonGoto
<1>14. ASSUME NEW d \in Launchers, LauncherConnects(d) PROVE ClientTypeOK'
  BY <1>14, BacklogGrows
     DEF LauncherConnects, Connected, NotConnected, Reachable, NoFile, Refused,
         LauncherGoto
<1>15. ASSUME NEW d \in Launchers, LauncherRetries(d) PROVE ClientTypeOK'
  BY <1>15, BacklogGrows
     DEF LauncherRetries, Connected, NotConnected, Reachable, LauncherGoto
<1>16. ASSUME NEW d \in Launchers, Accept(d) PROVE ClientTypeOK'
  BY <1>16 DEF Accept, Idle
<1>17. ASSUME NEW d \in Launchers, Drop(d) PROVE ClientTypeOK'
  BY <1>17 DEF Drop, HandlerReturns
<1>18. ASSUME NEW d \in Launchers, Execute(d) PROVE ClientTypeOK'
  BY <1>18 DEF Execute
<1>19. ASSUME NEW d \in Launchers, Respond(d) PROVE ClientTypeOK'
  BY <1>19 DEF Respond, HandlerReturns
<1>20. ASSUME NEW d \in Launchers, Close(d) PROVE ClientTypeOK'
  BY <1>20 DEF Close, Disconnect, HandlerReturns, DaemonGoto
<1>21. ASSUME NEW d \in Launchers, Crash(d) PROVE ClientTypeOK'
  BY <1>21 DEF Crash, Disconnect, HandlerReturns, DaemonGoto
<1>22. ASSUME NEW c \in Commands, CommandConnects(c) PROVE ClientTypeOK'
  BY <1>22, BacklogGrows
     DEF CommandConnects, Connected, NotConnected, Reachable, CommandGoto
<1>23. ASSUME NEW c \in Commands, Send(c) PROVE ClientTypeOK'
  BY <1>23 DEF Send, CommandGoto
<1>24. ASSUME NEW c \in Commands, ReceiveAnswer(c) PROVE ClientTypeOK'
  <2>1. UNCHANGED <<server, sent, lost, reply>>
    BY <1>24 DEF ReceiveAnswer
  <2>2. reply[c] \in {"none", "exit 0", "exit 1"}
    OBVIOUS
  <2>3. CASE reply[c] # "none" /\ CommandGoto(c, reply[c])
    BY <2>1, <2>2, <2>3 DEF CommandGoto
  <2>4. CASE CommandGoto(c, "exit 0")
    BY <2>1, <2>4 DEF CommandGoto
  <2> QED
    BY <1>24, <2>3, <2>4 DEF ReceiveAnswer
<1>25. CASE UNCHANGED vars
  BY <1>25 DEF vars
<1> QED
  BY <1>1, <1>2, <1>3, <1>4, <1>5, <1>6, <1>7, <1>8, <1>9, <1>10, <1>11, <1>12, <1>13,
     <1>14, <1>15, <1>16, <1>17, <1>18, <1>19, <1>20, <1>21, <1>22, <1>23, <1>24, <1>25
     DEF Next, Launcher, StartingUp, Serving, Ending, Command

(***************************************************************************)
(* Only a daemon that will clean up listens.                               *)
(***************************************************************************)
LEMMA SocketStep ==
    ASSUME TypeOK, DaemonInv, [Next]_vars PROVE SocketInv'
<1> USE Constants DEF SocketInv, DaemonInv, TypeOK, SocketTypeOK, HandlerTypeOK, ProcessTypeOK, ClientTypeOK,
      Deaf, DaemonPcs, socketVars, handlerVars, daemonVars, launchVars,
      clientVars, counters
<1>1. ASSUME NEW d \in Launchers, Fork(d) PROVE SocketInv'
  BY <1>1 DEF Fork, LauncherGoto, DaemonGoto
<1>2. ASSUME NEW d \in Launchers, ReadReport(d) PROVE SocketInv'
  BY <1>2 DEF ReadReport, LauncherGoto
<1>3. ASSUME NEW d \in Launchers, StartUp(d) PROVE SocketInv'
  BY <1>3 DEF StartUp, DaemonGoto, Throw
<1>4. ASSUME NEW d \in Launchers, Construct(d) PROVE SocketInv'
  BY <1>4 DEF Construct, DaemonGoto, NoFile
<1>5. ASSUME NEW d \in Launchers, InitializeConfig(d) PROVE SocketInv'
  BY <1>5 DEF InitializeConfig, Throw, DaemonGoto, InInitialize
<1>6. ASSUME NEW d \in Launchers, InitializeGrpcClient(d) PROVE SocketInv'
  BY <1>6 DEF InitializeGrpcClient, Throw, DaemonGoto, InInitialize, InitializeReturns
<1>7. ASSUME NEW d \in Launchers, Authenticate(d) PROVE SocketInv'
  BY <1>7 DEF Authenticate, Throw, DaemonGoto, InInitialize, InitializeReturns
<1>8. ASSUME NEW d \in Launchers, ReportSuccess(d) PROVE SocketInv'
  BY <1>8 DEF ReportSuccess, DaemonGoto
<1>9. ASSUME NEW d \in Launchers, StartAccept(d) PROVE SocketInv'
  BY <1>9 DEF StartAccept, DaemonGoto
<1>10. ASSUME NEW d \in Launchers, AcceptFails(d) PROVE SocketInv'
  BY <1>10 DEF AcceptFails, Idle
<1>11. ASSUME NEW d \in Launchers, Signal(d) PROVE SocketInv'
  BY <1>11 DEF Signal, Idle, DaemonGoto
<1>12. ASSUME NEW d \in Launchers, RemoveSocket(d) PROVE SocketInv'
  BY <1>12 DEF RemoveSocket, DaemonGoto
<1>13. ASSUME NEW d \in Launchers, ReportFailure(d) PROVE SocketInv'
  BY <1>13 DEF ReportFailure, DaemonGoto
<1>14. ASSUME NEW d \in Launchers, LauncherConnects(d) PROVE SocketInv'
  BY <1>14
     DEF LauncherConnects, Connected, NotConnected, Reachable, NoFile, Refused,
         LauncherGoto
<1>15. ASSUME NEW d \in Launchers, LauncherRetries(d) PROVE SocketInv'
  BY <1>15 DEF LauncherRetries, Connected, NotConnected, Reachable, LauncherGoto
<1>16. ASSUME NEW d \in Launchers, Accept(d) PROVE SocketInv'
  BY <1>16 DEF Accept, Idle
<1>17. ASSUME NEW d \in Launchers, Drop(d) PROVE SocketInv'
  BY <1>17 DEF Drop, HandlerReturns
<1>18. ASSUME NEW d \in Launchers, Execute(d) PROVE SocketInv'
  BY <1>18 DEF Execute
<1>19. ASSUME NEW d \in Launchers, Respond(d) PROVE SocketInv'
  BY <1>19 DEF Respond, HandlerReturns
<1>20. ASSUME NEW d \in Launchers, Close(d) PROVE SocketInv'
  BY <1>20 DEF Close, Disconnect, HandlerReturns, DaemonGoto
<1>21. ASSUME NEW d \in Launchers, Crash(d) PROVE SocketInv'
  BY <1>21 DEF Crash, Disconnect, HandlerReturns, DaemonGoto
<1>22. ASSUME NEW c \in Commands, CommandConnects(c) PROVE SocketInv'
  BY <1>22 DEF CommandConnects, Connected, NotConnected, Reachable, CommandGoto
<1>23. ASSUME NEW c \in Commands, Send(c) PROVE SocketInv'
  BY <1>23 DEF Send, CommandGoto
<1>24. ASSUME NEW c \in Commands, ReceiveAnswer(c) PROVE SocketInv'
  BY <1>24 DEF ReceiveAnswer, CommandGoto
<1>25. CASE UNCHANGED vars
  BY <1>25 DEF vars
<1> QED
  BY <1>1, <1>2, <1>3, <1>4, <1>5, <1>6, <1>7, <1>8, <1>9, <1>10, <1>11, <1>12, <1>13,
     <1>14, <1>15, <1>16, <1>17, <1>18, <1>19, <1>20, <1>21, <1>22, <1>23, <1>24, <1>25
     DEF Next, Launcher, StartingUp, Serving, Ending, Command

(***************************************************************************)
(* Every step keeps the order of the stages.                               *)
(***************************************************************************)
LEMMA StageStep ==
    ASSUME TypeOK, DaemonInv, [Next]_vars PROVE StageInv'
<1> USE Constants DEF StageInv, DaemonInv, SocketInv, TypeOK, ProcessTypeOK, LauncherPcs,
      DaemonPcs, socketVars, handlerVars, daemonVars, launchVars,
      clientVars, counters
<1>1. ASSUME NEW d \in Launchers, Fork(d) PROVE StageInv'
  BY <1>1 DEF Fork, LauncherGoto, DaemonGoto
<1>2. ASSUME NEW d \in Launchers, ReadReport(d) PROVE StageInv'
  BY <1>2 DEF ReadReport, LauncherGoto
<1>3. ASSUME NEW d \in Launchers, StartUp(d) PROVE StageInv'
  BY <1>3 DEF StartUp, DaemonGoto, Throw
<1>4. ASSUME NEW d \in Launchers, Construct(d) PROVE StageInv'
  BY <1>4 DEF Construct, DaemonGoto, NoFile
<1>5. ASSUME NEW d \in Launchers, InitializeConfig(d) PROVE StageInv'
  BY <1>5 DEF InitializeConfig, Throw, DaemonGoto, InInitialize
<1>6. ASSUME NEW d \in Launchers, InitializeGrpcClient(d) PROVE StageInv'
  BY <1>6 DEF InitializeGrpcClient, Throw, DaemonGoto, InInitialize, InitializeReturns
<1>7. ASSUME NEW d \in Launchers, Authenticate(d) PROVE StageInv'
  BY <1>7 DEF Authenticate, Throw, DaemonGoto, InInitialize, InitializeReturns
<1>8. ASSUME NEW d \in Launchers, ReportSuccess(d) PROVE StageInv'
  BY <1>8 DEF ReportSuccess, DaemonGoto
<1>9. ASSUME NEW d \in Launchers, StartAccept(d) PROVE StageInv'
  BY <1>9 DEF StartAccept, DaemonGoto
<1>10. ASSUME NEW d \in Launchers, AcceptFails(d) PROVE StageInv'
  BY <1>10 DEF AcceptFails, Idle
<1>11. ASSUME NEW d \in Launchers, Signal(d) PROVE StageInv'
  BY <1>11 DEF Signal, Idle, DaemonGoto
<1>12. ASSUME NEW d \in Launchers, RemoveSocket(d) PROVE StageInv'
  BY <1>12 DEF RemoveSocket, DaemonGoto
<1>13. ASSUME NEW d \in Launchers, ReportFailure(d) PROVE StageInv'
  BY <1>13 DEF ReportFailure, DaemonGoto
<1>14. ASSUME NEW d \in Launchers, LauncherConnects(d) PROVE StageInv'
  BY <1>14
     DEF LauncherConnects, Connected, NotConnected, Reachable, NoFile, Refused,
         LauncherGoto
<1>15. ASSUME NEW d \in Launchers, LauncherRetries(d) PROVE StageInv'
  BY <1>15 DEF LauncherRetries, Connected, NotConnected, Reachable, LauncherGoto
<1>16. ASSUME NEW d \in Launchers, Accept(d) PROVE StageInv'
  BY <1>16 DEF Accept, Idle
<1>17. ASSUME NEW d \in Launchers, Drop(d) PROVE StageInv'
  BY <1>17 DEF Drop, HandlerReturns
<1>18. ASSUME NEW d \in Launchers, Execute(d) PROVE StageInv'
  BY <1>18 DEF Execute
<1>19. ASSUME NEW d \in Launchers, Respond(d) PROVE StageInv'
  BY <1>19 DEF Respond, HandlerReturns
<1>20. ASSUME NEW d \in Launchers, Close(d) PROVE StageInv'
  BY <1>20 DEF Close, Disconnect, HandlerReturns, DaemonGoto
<1>21. ASSUME NEW d \in Launchers, Crash(d) PROVE StageInv'
  BY <1>21 DEF Crash, Disconnect, HandlerReturns, DaemonGoto
<1>22. ASSUME NEW c \in Commands, CommandConnects(c) PROVE StageInv'
  BY <1>22 DEF CommandConnects, Connected, NotConnected, Reachable, CommandGoto
<1>23. ASSUME NEW c \in Commands, Send(c) PROVE StageInv'
  BY <1>23 DEF Send, CommandGoto
<1>24. ASSUME NEW c \in Commands, ReceiveAnswer(c) PROVE StageInv'
  BY <1>24 DEF ReceiveAnswer, CommandGoto
<1>25. CASE UNCHANGED vars
  BY <1>25 DEF vars
<1> QED
  BY <1>1, <1>2, <1>3, <1>4, <1>5, <1>6, <1>7, <1>8, <1>9, <1>10, <1>11, <1>12, <1>13,
     <1>14, <1>15, <1>16, <1>17, <1>18, <1>19, <1>20, <1>21, <1>22, <1>23, <1>24, <1>25
     DEF Next, Launcher, StartingUp, Serving, Ending, Command

(***************************************************************************)
(* Every step is one of the two kinds.                                     *)
(***************************************************************************)
LEMMA StepKinds ==
    ASSUME TypeOK, DaemonInv, [Next]_vars PROVE Quiet \/ Noisy
<1> USE Constants DEF Quiet, Unattached, Deaf, TypeOK, ProcessTypeOK, DaemonPcs,
      DaemonInv, SocketInv, socketVars, handlerVars, daemonVars, launchVars,
      clientVars, counters
<1>1. ASSUME NEW d \in Launchers, Fork(d) PROVE Quiet \/ Noisy
  BY <1>1 DEF Fork, LauncherGoto, DaemonGoto
<1>2. ASSUME NEW d \in Launchers, ReadReport(d) PROVE Quiet \/ Noisy
  BY <1>2 DEF ReadReport, LauncherGoto
<1>3. ASSUME NEW d \in Launchers, StartUp(d) PROVE Quiet \/ Noisy
  BY <1>3 DEF StartUp, DaemonGoto, Throw
<1>4. ASSUME NEW d \in Launchers, Construct(d) PROVE Quiet \/ Noisy
  BY <1>4 DEF Construct, DaemonGoto, NoFile
<1>5. ASSUME NEW d \in Launchers, InitializeConfig(d) PROVE Quiet \/ Noisy
  BY <1>5 DEF InitializeConfig, Throw, DaemonGoto, InInitialize
<1>6. ASSUME NEW d \in Launchers, InitializeGrpcClient(d) PROVE Quiet \/ Noisy
  BY <1>6 DEF InitializeGrpcClient, Throw, DaemonGoto, InInitialize, InitializeReturns
<1>7. ASSUME NEW d \in Launchers, Authenticate(d) PROVE Quiet \/ Noisy
  BY <1>7 DEF Authenticate, Throw, DaemonGoto, InInitialize, InitializeReturns
<1>8. ASSUME NEW d \in Launchers, ReportSuccess(d) PROVE Quiet \/ Noisy
  BY <1>8 DEF ReportSuccess, DaemonGoto
<1>9. ASSUME NEW d \in Launchers, StartAccept(d) PROVE Quiet \/ Noisy
  BY <1>9 DEF StartAccept, DaemonGoto
<1>10. ASSUME NEW d \in Launchers, AcceptFails(d) PROVE Quiet \/ Noisy
  BY <1>10 DEF AcceptFails, Idle
<1>11. ASSUME NEW d \in Launchers, Signal(d) PROVE Quiet \/ Noisy
  BY <1>11 DEF Signal, Idle, DaemonGoto
<1>12. ASSUME NEW d \in Launchers, RemoveSocket(d) PROVE Quiet \/ Noisy
  BY <1>12 DEF RemoveSocket, DaemonGoto
<1>13. ASSUME NEW d \in Launchers, ReportFailure(d) PROVE Quiet \/ Noisy
  BY <1>13 DEF ReportFailure, DaemonGoto
<1>14. CASE UNCHANGED vars
  BY <1>14 DEF vars
<1> QED
  BY <1>1, <1>2, <1>3, <1>4, <1>5, <1>6, <1>7, <1>8, <1>9, <1>10, <1>11, <1>12, <1>13,
     <1>14
     DEF Next, Launcher, StartingUp, Serving, Ending, Command, Noisy

(***************************************************************************)
(* Who has not connected has no daemon.                                    *)
(***************************************************************************)
LEMMA NewcomerStep ==
    ASSUME TypeOK, DaemonInv, [Next]_vars PROVE NewcomerInv'
<1> USE DEF socketVars, handlerVars, daemonVars, launchVars, clientVars, counters
<1>1. /\ \A c \in Commands : cpc[c] = "idle" => server[c] = NoOne
      /\ \A l \in Launchers : lpc[l] \in Unattached => server[l] = NoOne
      /\ \A c \in Clients : server[c] = NoOne => reply[c] = "none"
  BY DEF DaemonInv, NewcomerInv, Unattached
<1>2. ASSUME server' = server, reply' = reply,
             \A c \in Commands : cpc'[c] = "idle" => cpc[c] = "idle",
             \A l \in Launchers : lpc'[l] \in Unattached => lpc[l] \in Unattached
      PROVE  NewcomerInv'
  BY <1>1, <1>2 DEF NewcomerInv, Unattached
<1>3. ASSUME NEW c \in Clients, Connected(c), reply' = reply,
             c \in Commands => cpc'[c] # "idle", c \in Launchers => lpc'[c] \notin Unattached,
             \A x \in Commands : x # c => cpc'[x] = cpc[x],
             \A l \in Launchers : l # c => lpc'[l] = lpc[l]
      PROVE  NewcomerInv'
  <2>1. path \in Launchers /\ server' = [server EXCEPT ![c] = path]
    BY <1>3, BacklogGrows
  <2>2. \A x \in Clients : x # c => server'[x] = server[x]
    BY <2>1 DEF TypeOK, ClientTypeOK
  <2>3. server'[c] # NoOne
    BY <2>1, Constants DEF TypeOK, ClientTypeOK
  <2>4. \A x \in Commands : cpc'[x] = "idle" => server'[x] = NoOne
    BY <1>1, <1>3, <2>2, Constants
  <2>5. \A l \in Launchers : lpc'[l] \in Unattached => server'[l] = NoOne
    BY <1>1, <1>3, <2>2, Constants
  <2>6. \A x \in Clients : server'[x] = NoOne => reply'[x] = "none"
    BY <1>1, <1>3, <2>2, <2>3
  <2> QED
    BY <2>4, <2>5, <2>6 DEF NewcomerInv, Unattached
<1>4. CASE Quiet
  BY <1>2, <1>4 DEF Quiet
<1>5. ASSUME NEW d \in Launchers, LauncherConnects(d) PROVE NewcomerInv'
  <2>1. /\ cpc' = cpc /\ reply' = reply
        /\ \A l \in Launchers : l # d => lpc'[l] = lpc[l]
        /\ \/ Connected(d) /\ lpc'[d] \notin Unattached
           \/ server' = server
    BY <1>5 DEF LauncherConnects, LauncherGoto, NotConnected, Unattached, TypeOK, ProcessTypeOK
  <2>2. d \notin Commands /\ d \in Clients
    BY Constants
  <2>3. lpc[d] \in Unattached
    BY <1>5 DEF LauncherConnects, Unattached
  <2> QED
    BY <1>2, <1>3, <2>1, <2>2, <2>3
<1>6. ASSUME NEW d \in Launchers, LauncherRetries(d) PROVE NewcomerInv'
  <2>1. /\ cpc' = cpc /\ reply' = reply
        /\ \A l \in Launchers : l # d => lpc'[l] = lpc[l]
        /\ \/ Connected(d) /\ lpc'[d] \notin Unattached
           \/ server' = server
    BY <1>6 DEF LauncherRetries, LauncherGoto, NotConnected, Unattached, TypeOK, ProcessTypeOK
  <2>2. d \notin Commands /\ d \in Clients
    BY Constants
  <2>3. lpc[d] \in Unattached
    BY <1>6 DEF LauncherRetries, Unattached
  <2> QED
    BY <1>2, <1>3, <2>1, <2>2, <2>3
<1>7. ASSUME NEW c \in Commands, CommandConnects(c) PROVE NewcomerInv'
  <2>1. /\ cpc'[c] # "idle" /\ lpc' = lpc /\ reply' = reply
        /\ \A x \in Commands : x # c => cpc'[x] = cpc[x]
        /\ Connected(c) \/ server' = server
    BY <1>7 DEF CommandConnects, CommandGoto, NotConnected, TypeOK, ClientTypeOK
  <2>2. c \notin Launchers /\ c \in Clients
    BY Constants
  <2> QED
    BY <1>2, <1>3, <2>1, <2>2
<1>8. ASSUME NEW c \in Commands, Send(c) \/ ReceiveAnswer(c) PROVE NewcomerInv'
  <2>1. \A x \in Commands : cpc'[x] = "idle" => cpc[x] = "idle"
    BY <1>8, Constants DEF Send, ReceiveAnswer, CommandGoto, TypeOK, ClientTypeOK
  <2>2. server' = server /\ reply' = reply /\ lpc' = lpc
    BY <1>8 DEF Send, ReceiveAnswer
  <2> QED
    BY <1>2, <2>1, <2>2
<1>9. ASSUME NEW d \in Launchers, Respond(d) PROVE NewcomerInv'
  <2>1. /\ server' = server /\ lpc' = lpc /\ cpc' = cpc /\ handling[d] # NoOne
        /\ reply' = [reply EXCEPT ![handling[d]] = result[d]]
    BY <1>9 DEF Respond
  <2>2. server[handling[d]] = d
    BY <2>1 DEF DaemonInv, PlaceInv, ConnectionsOf
  <2>3. \A x \in Clients : server[x] = NoOne => reply'[x] = reply[x]
    BY <2>1, <2>2, Constants DEF TypeOK, ClientTypeOK
  <2> QED
    BY <1>1, <2>1, <2>3 DEF NewcomerInv, Unattached
<1>10. ASSUME NEW d \in Launchers,
              Accept(d) \/ Drop(d) \/ Execute(d) \/ Close(d) \/ Crash(d)
       PROVE  NewcomerInv'
  <2>1. server' = server /\ reply' = reply /\ lpc' = lpc /\ cpc' = cpc
    BY <1>10 DEF Accept, Drop, Execute, Close, Crash
  <2> QED
    BY <1>2, <2>1
<1> QED
  BY StepKinds, <1>4, <1>5, <1>6, <1>7, <1>8, <1>9, <1>10 DEF Noisy

(***************************************************************************)
(* The connections of a daemon are clients'.                               *)
(***************************************************************************)
LEMMA ConnectedClients ==
    ASSUME TypeOK PROVE \A d \in Launchers : ConnectionsOf(d) \subseteq Clients
<1>1. \A d \in Launchers : backlog[d] \in Seq(Clients) /\ handling[d] \in Clients \cup {NoOne}
  BY DEF TypeOK, SocketTypeOK, HandlerTypeOK
<1>2. ASSUME NEW s \in Seq(Clients) PROVE ToSet(s) \subseteq Clients
  BY DEF ToSet
<1> QED
  BY <1>1, <1>2 DEF ConnectionsOf, Waiting

(***************************************************************************)
(* A client connects.                                                      *)
(***************************************************************************)
LEMMA Connecting ==
    ASSUME TypeOK, DaemonInv, NEW c \in Clients, server[c] = NoOne, Connected(c),
           UNCHANGED <<handling, result, executed, dpc, sent, lost, reply>>,
           \A x \in Commands : x # c => cpc'[x] = cpc[x]
    PROVE  PlaceInv' /\ CallInv' /\ NobodyForgotten'
<1>1. /\ path \in Launchers /\ listening[path]
      /\ \A x \in Clients : server'[x] = IF x = c THEN path ELSE server[x]
      /\ \A d \in Launchers : Waiting(d)' = IF d = path THEN Waiting(d) \cup {c} ELSE Waiting(d)
      /\ \A d \in Launchers : Queued(d) /\ c \notin Waiting(d) => Queued(d)'
  BY BacklogGrows DEF Waiting, Queued, TypeOK, ClientTypeOK
<1>2. /\ c \notin executed /\ reply[c] = "none"
      /\ \A d \in Launchers : c \notin ConnectionsOf(d)
  <2>1. c \notin executed /\ reply[c] = "none"
    BY DEF DaemonInv, CallInv, NewcomerInv
  <2>2. ASSUME NEW d \in Launchers, c \in ConnectionsOf(d) PROVE FALSE
    BY <2>2, Constants DEF DaemonInv, PlaceInv
  <2> QED
    BY <2>1, <2>2
<1>3. /\ handling' = handling /\ result' = result /\ executed' = executed
      /\ sent' = sent /\ lost' = lost /\ reply' = reply /\ dpc' = dpc
  OBVIOUS
<1>4. \A d \in Launchers :
        ConnectionsOf(d)' = IF d = path THEN ConnectionsOf(d) \cup {c} ELSE ConnectionsOf(d)
  BY <1>1, <1>3 DEF ConnectionsOf
<1>5. \A d \in Launchers : ConnectionsOf(d) \subseteq Clients
  BY ConnectedClients
<1>6. PlaceInv'
  <2> SUFFICES ASSUME NEW d \in Launchers
               PROVE  /\ \A x \in ConnectionsOf(d)' : server'[x] = d /\ reply'[x] = "none"
                      /\ handling'[d] \notin Waiting(d)' /\ Queued(d)'
    BY DEF PlaceInv
  <2>1. /\ \A x \in ConnectionsOf(d) : server[x] = d /\ reply[x] = "none"
        /\ handling[d] \notin Waiting(d) /\ Queued(d)
    BY DEF DaemonInv, PlaceInv
  <2>2. c \notin Waiting(d) /\ c # handling[d]
    BY <1>2, Constants DEF ConnectionsOf
  <2>3. \A x \in ConnectionsOf(d)' : server'[x] = d /\ reply'[x] = "none"
    BY <1>1, <1>2, <1>3, <1>4, <1>5, <2>1
  <2>4. handling'[d] \notin Waiting(d)' /\ Queued(d)'
    BY <1>1, <1>3, <2>1, <2>2
  <2> QED
    BY <2>3, <2>4
<1>7. CallInv'
  <2>1. \A x \in executed : server'[x] # NoOne
    BY <1>1, Constants DEF DaemonInv, CallInv, TypeOK, HandlerTypeOK
  <2>2. \A d \in Launchers : \A x \in Waiting(d)' : x \notin executed
    <3>1. \A d \in Launchers : \A x \in Waiting(d)' : x \in Waiting(d) \/ x = c
      BY <1>1
    <3>2. \A d \in Launchers : \A x \in Waiting(d) : x \notin executed
      BY DEF DaemonInv, CallInv
    <3> QED
      BY <1>2, <3>1, <3>2
  <2> QED
    BY <1>3, <2>1, <2>2 DEF DaemonInv, CallInv
<1>8. NobodyForgotten'
  <2> SUFFICES ASSUME NEW x \in Commands, cpc'[x] \in {"connected", "waiting"},
                      ~lost[x], reply[x] = "none"
               PROVE  \E d \in Launchers :
                        /\ server'[x] = d /\ x \in ConnectionsOf(d)'
                        /\ dpc'[d] \notin Deaf
    BY <1>3 DEF NobodyForgotten, Deaf
  <2>1. CASE x = c
    BY <1>1, <1>3, <1>4, <2>1 DEF DaemonInv, SocketInv
  <2>2. CASE x # c
    BY <1>1, <1>3, <1>4, <2>2, Constants DEF DaemonInv, NobodyForgotten, Deaf
  <2> QED
    BY <2>1, <2>2
<1> QED
  BY <1>6, <1>7, <1>8

(***************************************************************************)
(* The daemon takes a connection from its backlog.                         *)
(***************************************************************************)
LEMMA Accepting ==
    ASSUME TypeOK, DaemonInv, NEW d \in Launchers, Accept(d)
    PROVE  PlaceInv' /\ CallInv' /\ NobodyForgotten'
<1> DEFINE h == Head(backlog[d])
<1>1. /\ h \in Clients
      /\ \A e \in Launchers : handling'[e] = IF e = d THEN h ELSE handling[e]
      /\ Waiting(d) = {h} \cup Waiting(d)'
      /\ \A e \in Launchers \ {d} : Waiting(e)' = Waiting(e)
      /\ Queued(d) => Queued(d)' /\ h \notin Waiting(d)'
      /\ \A e \in Launchers \ {d} : Queued(e) => Queued(e)'
  BY BacklogShrinks DEF Waiting, Queued, TypeOK, HandlerTypeOK
<1>2. /\ handling[d] = NoOne /\ result' = result /\ executed' = executed /\ cpc' = cpc
      /\ server' = server /\ sent' = sent /\ lost' = lost /\ reply' = reply /\ dpc' = dpc
  BY DEF Accept, Idle, daemonVars, clientVars
<1>3. \A e \in Launchers : ConnectionsOf(e)' = ConnectionsOf(e)
  BY <1>1, <1>2, Constants DEF ConnectionsOf
<1>4. PlaceInv'
  <2>1. \A e \in Launchers : handling'[e] \notin Waiting(e)' /\ Queued(e)'
    BY <1>1 DEF DaemonInv, PlaceInv
  <2> QED
    BY <1>2, <1>3, <2>1 DEF DaemonInv, PlaceInv
<1>5. CallInv'
  <2>1. result[d] = "none"
    BY <1>2, Constants DEF DaemonInv, CallInv
  <2>2. \A e \in Launchers : \A x \in Waiting(e)' : x \notin executed
    BY <1>1 DEF DaemonInv, CallInv
  <2>3. h \notin executed
    BY <1>1 DEF DaemonInv, CallInv
  <2>4. ASSUME NEW e \in Launchers
        PROVE  /\ handling'[e] \in executed => result[e] # "none"
               /\ result[e] # "none" =>
                    /\ handling'[e] \in Commands
                    /\ result[e] = "exit 0" <=> handling'[e] \in executed \ Seeks
    BY <1>1, <2>1, <2>3 DEF DaemonInv, CallInv
  <2> QED
    BY <1>2, <2>2, <2>4 DEF DaemonInv, CallInv
<1>6. NobodyForgotten'
  BY <1>2, <1>3 DEF DaemonInv, NobodyForgotten
<1> QED
  BY <1>4, <1>5, <1>6

(***************************************************************************)
(* The handler is done with its connection.                                *)
(***************************************************************************)
LEMMA Returning ==
    ASSUME TypeOK, DaemonInv, NEW d \in Launchers, HandlerReturns(d), handling[d] # NoOne,
           UNCHANGED <<backlog, executed, cpc, server, sent, dpc>>,
           \A x \in Clients : x # handling[d] => lost'[x] = lost[x] /\ reply'[x] = reply[x],
           lost'[handling[d]] \/ reply'[handling[d]] # "none"
    PROVE  PlaceInv' /\ CallInv' /\ NobodyForgotten'
<1> DEFINE h == handling[d]
<1>1. /\ \A e \in Launchers : handling'[e] = IF e = d THEN NoOne ELSE handling[e]
      /\ \A e \in Launchers : result'[e] = IF e = d THEN "none" ELSE result[e]
  BY DEF HandlerReturns, TypeOK, HandlerTypeOK
<1>2. \A e \in Launchers : Waiting(e)' = Waiting(e) /\ Queued(e)' = Queued(e)
  BY DEF Waiting, Queued
<1>3. executed' = executed /\ cpc' = cpc /\ server' = server /\ sent' = sent /\ dpc' = dpc
  OBVIOUS
<1>4. \A e \in Launchers : ConnectionsOf(e) \subseteq Clients
  BY ConnectedClients
<1>5. \A e \in Launchers : ConnectionsOf(e)' = ConnectionsOf(e) \ {h}
  <2>1. h \in ConnectionsOf(d) /\ server[h] = d /\ h \notin Waiting(d)
    BY DEF ConnectionsOf, DaemonInv, PlaceInv
  <2>2. \A e \in Launchers \ {d} : h \notin ConnectionsOf(e)
    BY <2>1 DEF DaemonInv, PlaceInv
  <2>3. ConnectionsOf(d)' = ConnectionsOf(d) \ {h}
    BY <1>1, <1>2, <2>1 DEF ConnectionsOf
  <2>4. \A e \in Launchers \ {d} : ConnectionsOf(e)' = ConnectionsOf(e)
    BY <1>1, <1>2 DEF ConnectionsOf
  <2> QED
    BY <2>2, <2>3, <2>4
<1>6. PlaceInv'
  <2>1. \A e \in Launchers : handling'[e] \notin Waiting(e)' /\ Queued(e)'
    <3>1. NoOne \notin Waiting(d)
      BY <1>4, Constants DEF ConnectionsOf
    <3> QED
      BY <1>1, <1>2, <3>1 DEF DaemonInv, PlaceInv
  <2>2. \A e \in Launchers : \A x \in Clients : x \in ConnectionsOf(e)' => server[x] = e /\ reply'[x] = "none"
    BY <1>5 DEF DaemonInv, PlaceInv
  <2> QED
    BY <1>3, <1>4, <1>5, <2>1, <2>2 DEF PlaceInv
<1>7. CallInv'
  <2>1. ASSUME NEW e \in Launchers
        PROVE  /\ \A x \in Waiting(e)' : x \notin executed
               /\ handling'[e] \in executed => result'[e] # "none"
               /\ result'[e] # "none" =>
                    /\ handling'[e] \in Commands
                    /\ result'[e] = "exit 0" <=> handling'[e] \in executed \ Seeks
    <3>1. NoOne \notin executed
      BY Constants DEF TypeOK, HandlerTypeOK
    <3> QED
      BY <1>1, <1>2, <3>1 DEF DaemonInv, CallInv
  <2> QED
    BY <1>3, <2>1 DEF DaemonInv, CallInv
<1>8. NobodyForgotten'
  <2> SUFFICES ASSUME NEW x \in Commands, cpc[x] \in {"connected", "waiting"},
                      ~lost'[x], reply'[x] = "none"
               PROVE  \E e \in Launchers :
                        /\ server[x] = e /\ x \in ConnectionsOf(e)'
                        /\ dpc[e] \notin Deaf
    BY <1>3 DEF NobodyForgotten, Deaf
  <2>1. x # h
    OBVIOUS
  <2>2. ~lost[x] /\ reply[x] = "none"
    BY <2>1, Constants
  <2> QED
    BY <1>5, <2>1, <2>2 DEF DaemonInv, NobodyForgotten, Deaf
<1> QED
  BY <1>6, <1>7, <1>8

(***************************************************************************)
(* A daemon ends: everybody it holds notices.                              *)
(***************************************************************************)
LEMMA Disconnecting ==
    ASSUME TypeOK, DaemonInv, NEW d \in Launchers, Disconnect(d),
           UNCHANGED <<executed, cpc, server, sent, reply>>,
           \A e \in Launchers \ {d} : dpc'[e] = dpc[e]
    PROVE  PlaceInv' /\ CallInv' /\ NobodyForgotten'
<1>1. /\ \A e \in Launchers : handling'[e] = IF e = d THEN NoOne ELSE handling[e]
      /\ \A e \in Launchers : result'[e] = IF e = d THEN "none" ELSE result[e]
      /\ \A x \in Clients : lost'[x] = (lost[x] \/ x \in ConnectionsOf(d))
  BY DEF Disconnect, HandlerReturns, TypeOK, HandlerTypeOK
<1>2. /\ \A e \in Launchers : Waiting(e)' = IF e = d THEN {} ELSE Waiting(e)
      /\ \A e \in Launchers : Queued(e) => Queued(e)'
  BY BacklogEmptied DEF Waiting, Queued
<1>3. executed' = executed /\ cpc' = cpc /\ server' = server /\ sent' = sent /\ reply' = reply
  OBVIOUS
<1>4. \A e \in Launchers : ConnectionsOf(e)' = IF e = d THEN {} ELSE ConnectionsOf(e)
  BY <1>1, <1>2 DEF ConnectionsOf
<1>5. PlaceInv'
  <2>1. \A e \in Launchers : handling'[e] \notin Waiting(e)' /\ Queued(e)'
    BY <1>1, <1>2 DEF DaemonInv, PlaceInv
  <2> QED
    BY <1>3, <1>4, <2>1 DEF DaemonInv, PlaceInv
<1>6. CallInv'
  <2>1. ASSUME NEW e \in Launchers
        PROVE  /\ \A x \in Waiting(e)' : x \notin executed
               /\ handling'[e] \in executed => result'[e] # "none"
               /\ result'[e] # "none" =>
                    /\ handling'[e] \in Commands
                    /\ result'[e] = "exit 0" <=> handling'[e] \in executed \ Seeks
    <3>1. NoOne \notin executed
      BY Constants DEF TypeOK, HandlerTypeOK
    <3> QED
      BY <1>1, <1>2, <3>1 DEF DaemonInv, CallInv
  <2> QED
    BY <1>3, <2>1 DEF DaemonInv, CallInv
<1>7. NobodyForgotten'
  <2> SUFFICES ASSUME NEW x \in Commands, cpc[x] \in {"connected", "waiting"},
                      ~lost'[x], reply[x] = "none"
               PROVE  \E e \in Launchers :
                        /\ server[x] = e /\ x \in ConnectionsOf(e)'
                        /\ dpc'[e] \notin Deaf
    BY <1>3 DEF NobodyForgotten, Deaf
  <2>1. ~lost[x] /\ x \notin ConnectionsOf(d)
    BY <1>1, Constants
  <2> QED
    BY <1>4, <2>1 DEF DaemonInv, NobodyForgotten, Deaf
<1> QED
  BY <1>5, <1>6, <1>7

(***************************************************************************)
(* A call to the server.                                                   *)
(***************************************************************************)
LEMMA Executing ==
    ASSUME TypeOK, DaemonInv, NEW d \in Launchers, Execute(d)
    PROVE  PlaceInv' /\ CallInv' /\ NobodyForgotten' /\ StatusIsTrue'
<1> DEFINE h == handling[d]
<1>1. /\ h # NoOne /\ sent[h] /\ result[d] = "none" /\ handling' = handling
      /\ backlog' = backlog /\ cpc' = cpc /\ server' = server /\ sent' = sent
      /\ lost' = lost /\ reply' = reply /\ dpc' = dpc
  BY DEF Execute, socketVars, daemonVars, clientVars
<1>2. \A e \in Launchers : /\ Waiting(e)' = Waiting(e) /\ Queued(e)' = Queued(e)
                           /\ ConnectionsOf(e)' = ConnectionsOf(e)
  BY <1>1 DEF Waiting, Queued, ConnectionsOf
<1>3. h \in Clients /\ h \in Commands
  BY <1>1 DEF TypeOK, HandlerTypeOK, DaemonInv, CallInv
<1>4. /\ h \in ConnectionsOf(d) /\ server[h] = d /\ reply[h] = "none" /\ h \notin Waiting(d)
      /\ h \notin executed
  BY <1>1 DEF ConnectionsOf, DaemonInv, PlaceInv, CallInv
<1>5. \A e \in Launchers \ {d} : h \notin ConnectionsOf(e)
  BY <1>4 DEF DaemonInv, PlaceInv
<1>6. \A e \in Launchers \ {d} : h \notin Waiting(e) /\ handling[e] # h /\ result'[e] = result[e]
  BY <1>1, <1>5 DEF ConnectionsOf, Execute, TypeOK, HandlerTypeOK
<1>7. /\ executed' \in {executed, executed \cup {h}} /\ result'[d] # "none"
      /\ result'[d] = "exit 0" <=> h \in executed' \ Seeks
  <2>1. CASE executed' = executed
    BY <1>4, <2>1 DEF Execute, TypeOK, HandlerTypeOK
  <2>2. CASE executed' # executed
    BY <1>4, <2>2 DEF Execute, TypeOK, HandlerTypeOK
  <2> QED
    BY <2>1, <2>2
<1>8. PlaceInv'
  BY <1>1, <1>2 DEF DaemonInv, PlaceInv
<1>9. CallInv'
  <2>1. \A x \in executed' : server[x] # NoOne
    BY <1>4, <1>7, Constants DEF DaemonInv, CallInv
  <2>2. \A e \in Launchers : \A x \in Waiting(e) : x \notin executed'
    <3>1. \A x \in executed' : x \in executed \/ x = h
      BY <1>7
    <3>2. \A e \in Launchers : \A x \in Waiting(e) : x \notin executed /\ x # h
      BY <1>4, <1>6 DEF DaemonInv, CallInv
    <3> QED
      BY <3>1, <3>2
  <2>3. ASSUME NEW e \in Launchers
        PROVE  /\ handling[e] \in executed' => result'[e] # "none"
               /\ result'[e] # "none" =>
                    /\ handling[e] \in Commands
                    /\ result'[e] = "exit 0" <=> handling[e] \in executed' \ Seeks
    <3>1. CASE e = d
      BY <1>3, <1>7, <3>1
    <3>2. CASE e # d
      BY <1>6, <1>7, <3>2 DEF DaemonInv, CallInv
    <3> QED
      BY <3>1, <3>2
  <2> QED
    BY <1>1, <1>2, <2>1, <2>2, <2>3 DEF DaemonInv, CallInv
<1>10. NobodyForgotten'
  BY <1>1, <1>2 DEF DaemonInv, NobodyForgotten
<1>11. StatusIsTrue'
  BY <1>1, <1>4, <1>7 DEF DaemonInv, StatusIsTrue
<1> QED
  BY <1>8, <1>9, <1>10, <1>11

(***************************************************************************)
(* A command sends, or reads what there is.                                *)
(***************************************************************************)
LEMMA Talking ==
    ASSUME TypeOK, DaemonInv, NEW c \in Commands, Send(c) \/ ReceiveAnswer(c)
    PROVE  PlaceInv' /\ CallInv' /\ NobodyForgotten'
<1>1. /\ handling' = handling /\ backlog' = backlog /\ result' = result
      /\ executed' = executed /\ server' = server /\ lost' = lost /\ reply' = reply
      /\ dpc' = dpc
  BY DEF Send, ReceiveAnswer, socketVars, handlerVars, daemonVars
<1>2. \A e \in Launchers : /\ Waiting(e)' = Waiting(e) /\ Queued(e)' = Queued(e)
                           /\ ConnectionsOf(e)' = ConnectionsOf(e)
  BY <1>1 DEF Waiting, Queued, ConnectionsOf
<1>3. PlaceInv'
  BY <1>1, <1>2 DEF DaemonInv, PlaceInv
<1>4. \A x \in Clients : sent'[x] => x \in Commands
  BY Constants DEF Send, ReceiveAnswer, TypeOK, ClientTypeOK, DaemonInv, CallInv
<1>5. CallInv'
  BY <1>1, <1>2, <1>4 DEF DaemonInv, CallInv
<1>6. \A x \in Commands : cpc'[x] \in {"connected", "waiting"}
                            => cpc[x] \in {"connected", "waiting"}
  BY DEF Send, ReceiveAnswer, CommandGoto, TypeOK, ClientTypeOK, CommandPcs
<1>7. NobodyForgotten'
  BY <1>1, <1>2, <1>6 DEF DaemonInv, NobodyForgotten
<1> QED
  BY <1>3, <1>5, <1>7

(***************************************************************************)
(* Every step keeps the invariants about connections.                      *)
(***************************************************************************)
LEMMA ConnectionStep ==
    ASSUME TypeOK, DaemonInv, [Next]_vars
    PROVE  PlaceInv' /\ CallInv' /\ NobodyForgotten'
<1> DEFINE Goal == PlaceInv' /\ CallInv' /\ NobodyForgotten'
<1> USE DEF socketVars, handlerVars, daemonVars, launchVars, clientVars, counters
<1>1. ASSUME UNCHANGED <<backlog, handling, result, executed, cpc, server, sent, lost, reply>>,
             \A d \in Launchers : dpc[d] \notin Deaf => dpc'[d] \notin Deaf
      PROVE  Goal
  <2>1. \A d \in Launchers : /\ Waiting(d)' = Waiting(d) /\ Queued(d)' = Queued(d)
                             /\ ConnectionsOf(d)' = ConnectionsOf(d)
    BY <1>1 DEF Waiting, Queued, ConnectionsOf
  <2>2. PlaceInv'
    BY <1>1, <2>1 DEF DaemonInv, PlaceInv
  <2>3. CallInv'
    BY <1>1, <2>1 DEF DaemonInv, CallInv
  <2>4. NobodyForgotten'
    BY <1>1, <2>1 DEF DaemonInv, NobodyForgotten, Deaf
  <2> QED
    BY <2>2, <2>3, <2>4
<1>2. CASE Quiet
  BY <1>1, <1>2 DEF Quiet
<1>3. ASSUME NEW d \in Launchers, LauncherConnects(d) PROVE Goal
  <2>1. CASE Connected(d)
    <3>1. server[d] = NoOne
      BY <1>3 DEF LauncherConnects, DaemonInv, NewcomerInv
    <3>2. \A x \in Commands : x # d => cpc'[x] = cpc[x]
      BY <1>3 DEF LauncherConnects
    <3> QED
      BY <1>3, <2>1, <3>1, <3>2, Connecting, Constants DEF LauncherConnects
  <2>2. CASE ~Connected(d)
    BY <1>1, <1>3, <2>2 DEF LauncherConnects, NotConnected
  <2> QED
    BY <2>1, <2>2
<1>4. ASSUME NEW d \in Launchers, LauncherRetries(d) PROVE Goal
  <2>1. CASE Connected(d)
    <3>1. server[d] = NoOne
      BY <1>4 DEF LauncherRetries, DaemonInv, NewcomerInv
    <3>2. \A x \in Commands : x # d => cpc'[x] = cpc[x]
      BY <1>4 DEF LauncherRetries
    <3> QED
      BY <1>4, <2>1, <3>1, <3>2, Connecting, Constants DEF LauncherRetries
  <2>2. CASE ~Connected(d)
    BY <1>1, <1>4, <2>2 DEF LauncherRetries, NotConnected
  <2> QED
    BY <2>1, <2>2
<1>5. ASSUME NEW c \in Commands, CommandConnects(c) PROVE Goal
  <2>1. CASE Connected(c)
    <3>1. server[c] = NoOne
      BY <1>5 DEF CommandConnects, DaemonInv, NewcomerInv
    <3>2. \A x \in Commands : x # c => cpc'[x] = cpc[x]
      BY <1>5 DEF CommandConnects, CommandGoto, TypeOK, ClientTypeOK
    <3> QED
      BY <1>5, <2>1, <3>1, <3>2, Connecting, Constants DEF CommandConnects
  <2>2. CASE ~Connected(c)
    <3>1. /\ cpc' = [cpc EXCEPT ![c] = "exit 1"]
          /\ UNCHANGED <<backlog, handling, result, executed, dpc, server, sent, lost, reply>>
      BY <1>5, <2>2 DEF CommandConnects, NotConnected, CommandGoto
    <3>2. \A d \in Launchers : /\ Waiting(d)' = Waiting(d) /\ Queued(d)' = Queued(d)
                               /\ ConnectionsOf(d)' = ConnectionsOf(d)
      BY <3>1 DEF Waiting, Queued, ConnectionsOf
    <3>3. PlaceInv'
      BY <3>1, <3>2 DEF DaemonInv, PlaceInv
    <3>4. CallInv'
      BY <3>1, <3>2 DEF DaemonInv, CallInv
    <3>5. \A x \in Commands : cpc'[x] \in {"connected", "waiting"} => cpc[x] = cpc'[x]
      BY <3>1 DEF TypeOK, ClientTypeOK
    <3>6. NobodyForgotten'
      BY <3>1, <3>2, <3>5 DEF DaemonInv, NobodyForgotten
    <3> QED
      BY <3>3, <3>4, <3>6
  <2> QED
    BY <2>1, <2>2
<1>6. ASSUME NEW d \in Launchers, Drop(d) PROVE Goal
  <2>1. handling[d] \in Clients
    BY <1>6 DEF Drop, TypeOK, HandlerTypeOK
  <2>2. /\ lost'[handling[d]] /\ reply' = reply
        /\ \A x \in Clients : x # handling[d] => lost'[x] = lost[x]
    BY <1>6, <2>1 DEF Drop, TypeOK, ClientTypeOK
  <2> QED
    BY <1>6, <2>2, Returning DEF Drop
<1>7. ASSUME NEW d \in Launchers, Respond(d) PROVE Goal
  <2>1. handling[d] \in Clients
    BY <1>7 DEF Respond, TypeOK, HandlerTypeOK
  <2>2. /\ reply'[handling[d]] # "none" /\ lost' = lost
        /\ \A x \in Clients : x # handling[d] => reply'[x] = reply[x]
    BY <1>7, <2>1 DEF Respond, TypeOK, ClientTypeOK
  <2> QED
    BY <1>7, <2>2, Returning DEF Respond
<1>8. ASSUME NEW d \in Launchers, Close(d) PROVE Goal
  <2>1. \A e \in Launchers \ {d} : dpc'[e] = dpc[e]
    BY <1>8 DEF Close, DaemonGoto, TypeOK, ProcessTypeOK
  <2> QED
    BY <1>8, <2>1, Disconnecting DEF Close
<1>9. ASSUME NEW d \in Launchers, Crash(d) PROVE Goal
  <2>1. \A e \in Launchers \ {d} : dpc'[e] = dpc[e]
    BY <1>9 DEF Crash, DaemonGoto, TypeOK, ProcessTypeOK
  <2> QED
    BY <1>9, <2>1, Disconnecting DEF Crash
<1> QED
  BY StepKinds, Accepting, Executing, Talking, <1>2, <1>3, <1>4, <1>5, <1>6, <1>7, <1>8,
     <1>9
     DEF Noisy

(***************************************************************************)
(* Only Execute and Respond touch what StatusIsTrue is about.              *)
(***************************************************************************)
LEMMA StatusStep ==
    ASSUME TypeOK, DaemonInv, [Next]_vars PROVE StatusIsTrue'
<1> USE DEF socketVars, handlerVars, daemonVars, launchVars, clientVars, counters
<1>1. CASE executed' = executed /\ reply' = reply
  BY <1>1 DEF DaemonInv, StatusIsTrue
<1>2. ASSUME NEW d \in Launchers, Respond(d) PROVE StatusIsTrue'
  <2>1. /\ result[d] # "none" /\ executed' = executed
        /\ reply' = [reply EXCEPT ![handling[d]] = result[d]]
    BY <1>2 DEF Respond
  <2>2. /\ handling[d] \in Commands
        /\ result[d] = "exit 0" <=> handling[d] \in executed \ Seeks
    BY <2>1 DEF DaemonInv, CallInv
  <2>3. \A x \in Commands :
          reply'[x] = IF x = handling[d] THEN result[d] ELSE reply[x]
    BY <2>1, Constants DEF TypeOK, ClientTypeOK
  <2> QED
    BY <2>1, <2>2, <2>3 DEF DaemonInv, StatusIsTrue
<1>3. CASE Quiet
  BY <1>1, <1>3 DEF Quiet
<1>4. ASSUME NEW d \in Launchers,
             \/ LauncherConnects(d) \/ LauncherRetries(d) \/ Accept(d)
             \/ Drop(d) \/ Close(d) \/ Crash(d)
      PROVE  StatusIsTrue'
  <2>1. executed' = executed /\ reply' = reply
    BY <1>4 DEF LauncherConnects, LauncherRetries, Accept, Drop, Close, Crash
  <2> QED
    BY <1>1, <2>1
<1>5. ASSUME NEW c \in Commands, CommandConnects(c) \/ Send(c) \/ ReceiveAnswer(c)
      PROVE  StatusIsTrue'
  <2>1. executed' = executed /\ reply' = reply
    BY <1>5 DEF CommandConnects, Send, ReceiveAnswer
  <2> QED
    BY <1>1, <2>1
<1> QED
  BY StepKinds, Executing, <1>2, <1>3, <1>4, <1>5 DEF Noisy

(***************************************************************************)
(* The inductive invariant holds in every reachable state.                 *)
(***************************************************************************)
THEOREM DaemonInvariant == Spec => [](TypeOK /\ DaemonInv)
<1>1. TypeOK /\ DaemonInv /\ [Next]_vars => (TypeOK /\ DaemonInv)'
  <2> SUFFICES ASSUME TypeOK, DaemonInv, [Next]_vars PROVE (TypeOK /\ DaemonInv)'
    OBVIOUS
  <2>1. TypeOK'
    BY SocketTypes, HandlerTypes, ProcessTypes, ClientTypes DEF TypeOK
  <2>2. DaemonInv'
    BY <2>1, SocketStep, StageStep, NewcomerStep, ConnectionStep, StatusStep DEF DaemonInv
  <2> QED
    BY <2>1, <2>2
<1> QED
  BY DaemonInit, <1>1, PTL DEF Spec

(***************************************************************************)
(* Every variable of the client side's processes keeps its type.           *)
(***************************************************************************)
THEOREM DaemonTypeCorrect == Spec => []TypeOK
BY DaemonInvariant, PTL

(***************************************************************************)
(* The exit status a daemon sends is 0 exactly if the server answered the  *)
(* command's call with OK - seek excepted (Daemon::connection_handler).    *)
(***************************************************************************)
THEOREM StatusesAreTrue == Spec => []StatusIsTrue
<1>1. DaemonInv => StatusIsTrue
  BY DEF DaemonInv
<1> QED
  BY <1>1, DaemonInvariant, PTL

(***************************************************************************)
(* A command never waits for a daemon that no longer holds its connection  *)
(* (Daemon::start_accept, connection_handler, ~Daemon; remote-control's    *)
(* main).                                                                  *)
(***************************************************************************)
THEOREM NobodyIsForgotten == Spec => []NobodyForgotten
<1>1. DaemonInv => NobodyForgotten
  BY DEF DaemonInv
<1> QED
  BY <1>1, DaemonInvariant, PTL

(***************************************************************************)
(* Only an authenticated daemon serves (Daemon::Initialize, called twice). *)
(***************************************************************************)
THEOREM OnlyAuthenticatedServe == Spec => []ServingIsAuthenticated
<1>1. DaemonInv => ServingIsAuthenticated
  BY DEF DaemonInv, StageInv, ServingIsAuthenticated
<1> QED
  BY <1>1, DaemonInvariant, PTL

(***************************************************************************)
(* Whoever is told "Daemon started" has a daemon that reached the server,  *)
(* or one that died without a word (start_daemon in remote-control.cpp).   *)
(***************************************************************************)
THEOREM StartedHaveReached == Spec => []StartedHasReached
<1>1. DaemonInv => StartedHasReached
  BY DEF DaemonInv, StageInv, StartedHasReached
<1> QED
  BY <1>1, DaemonInvariant, PTL
=============================================================================
