---------------------------- MODULE PlayerProofs ----------------------------
(***************************************************************************)
(* Theorems about Player, for every set of callers and every bound.        *)
(***************************************************************************)
EXTENDS Player, TLAPS

LEMMA PlayerInit == Init => PlayerInv
<1> SUFFICES ASSUME Init PROVE PlayerInv
  OBVIOUS
<1> USE PlayerAssumption DEF Init, Pipes
<1>1. PlaybackTypeOK /\ events \in Seq(Queued) /\ told \in PauseNews \cup {"never"}
  BY DEF PlaybackTypeOK, States, STOPPED, Idle, PauseNews
<1>2. /\ reader \in [Pipes -> BOOLEAN] /\ writer \in [Pipes -> BOOLEAN]
      /\ data \in [Pipes -> 0..PipeSize] /\ pc \in [Callers -> RpcPcs]
      /\ wasPaused \in [Callers -> BOOLEAN]
  BY DEF RpcPcs
<1>3. /\ plays \in 0..MaxPlays /\ calls \in 0..MaxCalls /\ faults \in 0..MaxFaults
      /\ ahead \in 0..ReadAhead
  OBVIOUS
<1>4. TypeOK
  BY <1>1, <1>2, <1>3 DEF TypeOK
<1>5. PipesOK
  BY <1>3 DEF PipesOK, Streaming, BeforeData
<1>6. InputOK /\ ReportsOK
  BY DEF InputOK, ReportsOK, Ready, Asked, Ends
<1> QED
  BY <1>4, <1>5, <1>6 DEF PlayerInv, QueueOK, STOPPED, PLAYING, PAUSED, PauseNews

(***************************************************************************)
(* What happens to mpv's queue and the pipes when the current file ends.   *)
(***************************************************************************)
LEMMA EndFileType ==
    ASSUME TypeOK, NEW reason \in Queued, EndFile(reason)
    PROVE  /\ events' \in Seq(Queued)
           /\ reader' \in [Pipes -> BOOLEAN]
           /\ file = NoPipe => events' = events
           /\ file # NoPipe => events' # <<>> /\ events'[Len(events')] = reason
<1>1. events \in Seq(Queued) /\ reader \in [Pipes -> BOOLEAN]
  BY DEF TypeOK
<1> QED
  BY <1>1 DEF EndFile

(***************************************************************************)
(* A piece of data fits into a pipe that is not full.                      *)
(***************************************************************************)
LEMMA DataType ==
    ASSUME PipeSize \in Nat, NEW f \in [Pipes -> 0..PipeSize], NEW p \in Pipes \cup {NoPipe}
    PROVE  /\ f[p] < PipeSize => [f EXCEPT ![p] = @ + 1] \in [Pipes -> 0..PipeSize]
           /\ f[p] > 0 => [f EXCEPT ![p] = @ - 1] \in [Pipes -> 0..PipeSize]
<1>1. \A q \in Pipes : f[q] \in Nat /\ f[q] <= PipeSize
  OBVIOUS
<1>2. ASSUME f[p] < PipeSize PROVE [f EXCEPT ![p] = @ + 1] \in [Pipes -> 0..PipeSize]
  <2>1. \A q \in Pipes : (IF q = p THEN f[p] + 1 ELSE f[q]) \in 0..PipeSize
    BY <1>1, <1>2
  <2> QED
    BY <2>1
<1>3. ASSUME f[p] > 0 PROVE [f EXCEPT ![p] = @ - 1] \in [Pipes -> 0..PipeSize]
  <2>1. \A q \in Pipes : (IF q = p THEN f[p] - 1 ELSE f[q]) \in 0..PipeSize
    BY <1>1, <1>3
  <2> QED
    BY <2>1
<1> QED
  BY <1>2, <1>3

(***************************************************************************)
(* What is left when an event is taken from the queue.                     *)
(***************************************************************************)
LEMMA TailFacts ==
    ASSUME NEW s \in Seq(Queued), s # <<>>
    PROVE  /\ Head(s) = s[1] /\ Head(s) \in Queued
           /\ Tail(s) = <<>> => s[Len(s)] = Head(s)
           /\ Tail(s) # <<>> => Tail(s)[Len(Tail(s))] = s[Len(s)]
OBVIOUS

(***************************************************************************)
(* The event loop only hands over states of a player.                      *)
(***************************************************************************)
LEMMA NewStatesType ==
    ASSUME PlayerInv, event # "none", NEW new \in NewStates(event)
    PROVE  /\ new \in {PLAYING, PAUSED, STOPPED}
           /\ new \in States
           /\ Stored(state, new) = new
BY DEF PlayerInv, QueueOK, NewStates, Stored, States, PLAYING, PAUSED, STOPPED, FINISHED,
       FINISHED_ERROR, UNDEFINED, TypeOK, Queued, PauseNews

(***************************************************************************)
(* Every step keeps the types.                                             *)
(***************************************************************************)
LEMMA PlayerTypeStep == PlayerInv /\ [Next]_vars => TypeOK'
<1> SUFFICES ASSUME PlayerInv, [Next]_vars PROVE TypeOK'
  OBVIOUS
<1> USE PlayerAssumption DEF PlayerInv, TypeOK, PlaybackTypeOK, Queued, PauseNews,
      RpcPcs, Pipes, mpvVars, loopVars, pipeVars, rpcVars, counters, history,
      playbackVars, Idle
<1>1. CASE MpvOpens
  <2>1. CASE reader[file] /\ data[file] > 0
    <3>1. events' = Append(events, "loaded") /\ loaded' = TRUE
      BY <1>1, <2>1 DEF MpvOpens
    <3>2. events' \in Seq(Queued)
      BY <3>1
    <3>3. UNCHANGED <<file, reader>>
      BY <1>1, <2>1 DEF MpvOpens
    <3> QED
      BY <1>1, <3>1, <3>2, <3>3 DEF MpvOpens
  <2>2. CASE ~(reader[file] /\ data[file] > 0)
    <3>1. EndFile("error") /\ file' = NoPipe /\ UNCHANGED loaded
      BY <1>1, <2>2 DEF MpvOpens
    <3>2. events' \in Seq(Queued) /\ reader' \in [Pipes -> BOOLEAN]
      BY <3>1, EndFileType
    <3> QED
      BY <1>1, <3>1, <3>2 DEF MpvOpens
  <2> QED
    BY <2>1, <2>2
<1>2. CASE MpvReads
  <2>1. data' \in [Pipes -> 0..PipeSize]
    BY <1>2, DataType DEF MpvReads
  <2>2. ahead' \in 0..ReadAhead
    BY <1>2 DEF MpvReads
  <2> QED
    BY <1>2, <2>1, <2>2 DEF MpvReads
<1>3. CASE MpvReachesEnd
  BY <1>3, EndFileType DEF MpvReachesEnd
<1>4. CASE LoopTakesEvent
  <2>1. event' \in Queued /\ events' \in Seq(Queued)
    BY <1>4 DEF LoopTakesEvent
  <2> QED
    BY <1>4, <2>1 DEF LoopTakesEvent
<1>5. CASE LoopTakesPause
  BY <1>5 DEF LoopTakesPause, PauseValue
<1>6. CASE LoopHandles
  BY <1>6, NewStatesType DEF LoopHandles, SetStateStore
<1>7. CASE LoopGoesOn
  BY <1>7 DEF LoopGoesOn, SetStateReturn
<1>8. ASSUME NEW c \in Callers, MakePipe(c) PROVE TypeOK'
  BY <1>8 DEF MakePipe, Goto
<1>9. ASSUME NEW c \in Callers, Stop(c) PROVE TypeOK'
  <2>1. events' \in Seq(Queued) /\ reader' \in [Pipes -> BOOLEAN]
    BY <1>9, EndFileType DEF Stop
  <2>2. calls' \in 0..MaxCalls
    BY <1>9 DEF Stop, Called
  <2>3. ahead' \in 0..ReadAhead
    BY <1>9 DEF Stop
  <2> QED
    BY <1>9, <2>1, <2>2, <2>3 DEF Stop
<1>10. ASSUME NEW c \in Callers, TogglePause(c) PROVE TypeOK'
  <2>1. pc' \in [Callers -> RpcPcs]
    BY <1>10 DEF TogglePause, Goto
  <2>2. calls' \in 0..MaxCalls
    BY <1>10 DEF TogglePause, Called
  <2>3. UNCHANGED <<mpvVars, loopVars, input, pipeVars, pipe, wasPaused, faults, history>>
    BY <1>10 DEF TogglePause
  <2> QED
    BY <2>1, <2>2, <2>3
<1>11. ASSUME NEW c \in Callers, Input(c) PROVE TypeOK'
  <2>1. pc' \in [Callers -> RpcPcs]
    BY <1>11 DEF Input, Goto
  <2>2. input' \in Pipes \cup {NoPipe}
    BY <1>11 DEF Input
  <2>3. UNCHANGED <<mpvVars, loopVars, pipeVars, pipe, wasPaused, counters, history>>
    BY <1>11 DEF Input
  <2> QED
    BY <2>1, <2>2, <2>3
<1>12. ASSUME NEW c \in Callers, LoadFile(c) PROVE TypeOK'
  <2>1. events' \in Seq(Queued) /\ reader' \in [Pipes -> BOOLEAN]
    BY <1>12, EndFileType DEF LoadFile
  <2>2. lost' \subseteq Pipes \cup {NoPipe}
    BY <1>12 DEF LoadFile
  <2>3. pc' \in [Callers -> RpcPcs] /\ ahead' \in 0..ReadAhead
    BY <1>12 DEF LoadFile, Goto
  <2> QED
    BY <1>12, <2>1, <2>2, <2>3 DEF LoadFile
<1>13. ASSUME NEW c \in Callers, PlayFails(c) PROVE TypeOK'
  <2>1. lost' \subseteq Pipes \cup {NoPipe}
    BY <1>13 DEF PlayFails
  <2> QED
    BY <1>13, <2>1 DEF PlayFails, Goto
<1>14. ASSUME NEW c \in Callers, AskPause(c) PROVE TypeOK'
  <2>1. pc' \in [Callers -> RpcPcs]
    BY <1>14 DEF AskPause, Goto
  <2>2. UNCHANGED <<mpvVars, loopVars, input, pipeVars, pipe, wasPaused, counters, history>>
    BY <1>14 DEF AskPause
  <2> QED
    BY <2>1, <2>2
<1>15. ASSUME NEW c \in Callers, ReadData(c) PROVE TypeOK'
  <2>1. pc' \in [Callers -> RpcPcs]
    BY <1>15 DEF ReadData, Goto
  <2>2. UNCHANGED <<mpvVars, loopVars, input, pipeVars, pipe, wasPaused, counters, history>>
    BY <1>15 DEF ReadData
  <2> QED
    BY <2>1, <2>2
<1>16. ASSUME NEW c \in Callers, Write(c) PROVE TypeOK'
  <2>1. data' \in [Pipes -> 0..PipeSize]
    BY <1>16, DataType DEF Write
  <2>2. pc' \in [Callers -> RpcPcs]
    BY <1>16 DEF Write, Goto
  <2>3. UNCHANGED <<mpvVars, loopVars, input, plays, reader, writer, pipe, wasPaused,
                  counters, history>>
    BY <1>16 DEF Write
  <2> QED
    BY <2>1, <2>2, <2>3
<1>17. ASSUME NEW c \in Callers, EndOfData(c) PROVE TypeOK'
  <2>1. writer' \in [Pipes -> BOOLEAN]
    BY <1>17 DEF EndOfData, CloseWriter
  <2>2. pc' \in [Callers -> RpcPcs]
    BY <1>17 DEF EndOfData, CloseWriter, Goto
  <2>3. UNCHANGED <<mpvVars, loopVars, input, plays, reader, data, pipe, wasPaused,
                  counters, history>>
    BY <1>17 DEF EndOfData, CloseWriter
  <2> QED
    BY <2>1, <2>2, <2>3
<1>18. ASSUME NEW c \in Callers, BrokenPipe(c) PROVE TypeOK'
  <2>1. writer' \in [Pipes -> BOOLEAN]
    BY <1>18 DEF BrokenPipe, CloseWriter
  <2>2. pc' \in [Callers -> RpcPcs]
    BY <1>18 DEF BrokenPipe, CloseWriter, Goto
  <2>3. UNCHANGED <<mpvVars, loopVars, input, plays, reader, data, pipe, wasPaused,
                  counters, history>>
    BY <1>18 DEF BrokenPipe, CloseWriter
  <2> QED
    BY <2>1, <2>2, <2>3
<1>19. ASSUME NEW c \in Callers, GetPause(c) PROVE TypeOK'
  <2>1. pc' \in [Callers -> RpcPcs]
    BY <1>19 DEF GetPause, Goto
  <2>2. wasPaused' \in [Callers -> BOOLEAN]
    BY <1>19 DEF GetPause
  <2>3. UNCHANGED <<mpvVars, loopVars, input, pipeVars, pipe, counters, history>>
    BY <1>19 DEF GetPause
  <2> QED
    BY <2>1, <2>2, <2>3
<1>20. ASSUME NEW c \in Callers, SetPause(c) PROVE TypeOK'
  <2>1. pc' \in [Callers -> RpcPcs]
    BY <1>20 DEF SetPause, Goto
  <2>2. pause' \in BOOLEAN /\ overtaken' \in BOOLEAN
    BY <1>20 DEF SetPause
  <2>3. UNCHANGED <<file, loaded, ahead, events, loopVars, input, pipeVars, pipe, wasPaused,
                  counters, lost>>
    BY <1>20 DEF SetPause
  <2> QED
    BY <2>1, <2>2, <2>3
<1>21. CASE MpvPlays
  <2>1. ahead' \in 0..ReadAhead
    BY <1>21 DEF MpvPlays
  <2> QED
    BY <1>21, <2>1 DEF MpvPlays
<1>22. CASE UNCHANGED vars
  BY <1>22 DEF vars, history
<1> QED
  BY <1>1, <1>2, <1>3, <1>4, <1>5, <1>6, <1>7, <1>8, <1>9, <1>10, <1>11, <1>12,
     <1>13, <1>14, <1>15, <1>16, <1>17, <1>18, <1>19, <1>20, <1>21, <1>22
     DEF Next, MpvStep, LoopStep, Begin, Work

(***************************************************************************)
(* Every step keeps the rest of the invariant.                             *)
(***************************************************************************)
LEMMA PlayerQueueStep == PlayerInv /\ [Next]_vars => QueueOK'
<1> SUFFICES ASSUME PlayerInv, [Next]_vars PROVE QueueOK'
  OBVIOUS
<1> USE PlayerAssumption DEF PlayerInv, QueueOK, mpvVars, loopVars, pipeVars, rpcVars,
      counters, playbackVars, history, Ends, PLAYING, PAUSED, STOPPED
<1>1. CASE MpvOpens
  <2>1. CASE reader[file] /\ data[file] > 0
    BY <1>1, <2>1 DEF MpvOpens
  <2>2. CASE ~(reader[file] /\ data[file] > 0)
    <3>1. EndFile("error") /\ file' = NoPipe /\ UNCHANGED loaded
      BY <1>1, <2>2 DEF MpvOpens
    <3>2. events' # <<>> /\ events'[Len(events')] = "error"
      BY <1>1, <3>1, EndFileType DEF MpvOpens, TypeOK, Queued
    <3> QED
      BY <1>1, <3>1, <3>2 DEF MpvOpens, TypeOK
  <2> QED
    BY <2>1, <2>2
<1>2. CASE MpvReads
  BY <1>2 DEF MpvReads
<1>3. CASE MpvReachesEnd
  <2>1. events' # <<>> /\ events'[Len(events')] = "eof"
    BY <1>3, EndFileType DEF MpvReachesEnd, Queued
  <2> QED
    BY <1>3, <2>1 DEF MpvReachesEnd
<1>4. CASE LoopTakesEvent
  <2>1. /\ Head(events) = events[1] /\ Head(events) \in Queued
        /\ Tail(events) = <<>> => events[Len(events)] = Head(events)
        /\ Tail(events) # <<>> =>
             Tail(events)[Len(Tail(events))] = events[Len(events)]
    BY <1>4, TailFacts DEF LoopTakesEvent, TypeOK
  <2>2. Head(events) \notin PauseNews
    BY <2>1 DEF Queued, PauseNews
  <2> QED
    BY <1>4, <2>1, <2>2 DEF LoopTakesEvent, PauseNews
<1>5. CASE LoopTakesPause
  BY <1>5 DEF LoopTakesPause, PauseValue
<1>6. CASE LoopHandles
  <2>1. CASE NewStates(event) = {}
    <3>1. event = "loaded" /\ UNCHANGED state
      BY <1>6, <2>1 DEF LoopHandles, NewStates, TypeOK, Queued, PauseNews
    <3> QED
      BY <1>6, <3>1 DEF LoopHandles, PauseNews
  <2>2. CASE NewStates(event) # {}
    <3>1. PICK new \in NewStates(event) : state' = Stored(state, new)
      BY <1>6, <2>2 DEF LoopHandles, SetStateStore
    <3>2. state' = new /\ state' \in {PLAYING, PAUSED, STOPPED}
      BY <1>6, <3>1, NewStatesType DEF LoopHandles
    <3>3. event' = "none" /\ UNCHANGED <<mpvVars, told>>
      BY <1>6 DEF LoopHandles
    <3>4. file = NoPipe /\ events = <<>> => new # PLAYING
      BY <1>6, <3>1 DEF LoopHandles, NewStates, TypeOK, Queued, PauseNews
    <3>5. new = PAUSED => event = "paused"
      BY <1>6, <3>1 DEF LoopHandles, NewStates, TypeOK, Queued, PauseNews
    <3> QED
      BY <3>2, <3>3, <3>4, <3>5 DEF PauseNews
  <2> QED
    BY <2>1, <2>2
<1>7. CASE LoopGoesOn
  BY <1>7 DEF LoopGoesOn, SetStateReturn
<1>8. ASSUME NEW c \in Callers, MakePipe(c) PROVE QueueOK'
  BY <1>8 DEF MakePipe, Goto
<1>9. ASSUME NEW c \in Callers, Stop(c) PROVE QueueOK'
  <2>1. /\ file = NoPipe => events' = events
        /\ file # NoPipe => events' # <<>> /\ events'[Len(events')] = "stop"
    BY <1>9, EndFileType DEF Stop, Queued
  <2> QED
    BY <1>9, <2>1 DEF Stop
<1>10. ASSUME NEW c \in Callers, TogglePause(c) PROVE QueueOK'
  BY <1>10 DEF TogglePause, Goto, Called
<1>11. ASSUME NEW c \in Callers, Input(c) PROVE QueueOK'
  BY <1>11 DEF Input, Goto
<1>12. ASSUME NEW c \in Callers, LoadFile(c) PROVE QueueOK'
  <2>1. /\ file = NoPipe => events' = events
        /\ file # NoPipe => events' # <<>> /\ events'[Len(events')] = "stop"
    BY <1>12, EndFileType DEF LoadFile, Queued
  <2> QED
    BY <1>12, <2>1 DEF LoadFile
<1>13. ASSUME NEW c \in Callers, PlayFails(c) PROVE QueueOK'
  BY <1>13 DEF PlayFails, Goto
<1>14. ASSUME NEW c \in Callers, AskPause(c) PROVE QueueOK'
  BY <1>14 DEF AskPause, Goto
<1>15. ASSUME NEW c \in Callers, ReadData(c) PROVE QueueOK'
  BY <1>15 DEF ReadData, Goto
<1>16. ASSUME NEW c \in Callers, Write(c) PROVE QueueOK'
  BY <1>16 DEF Write, Goto
<1>17. ASSUME NEW c \in Callers, EndOfData(c) PROVE QueueOK'
  BY <1>17 DEF EndOfData, CloseWriter, Goto
<1>18. ASSUME NEW c \in Callers, BrokenPipe(c) PROVE QueueOK'
  BY <1>18 DEF BrokenPipe, CloseWriter, Goto
<1>19. ASSUME NEW c \in Callers, GetPause(c) PROVE QueueOK'
  BY <1>19 DEF GetPause, Goto
<1>20. ASSUME NEW c \in Callers, SetPause(c) PROVE QueueOK'
  BY <1>20 DEF SetPause, Goto
<1>21. CASE MpvPlays
  BY <1>21 DEF MpvPlays
<1>22. CASE UNCHANGED vars
  BY <1>22 DEF vars, history
<1> QED
  BY <1>1, <1>2, <1>3, <1>4, <1>5, <1>6, <1>7, <1>8, <1>9, <1>10, <1>11, <1>12,
     <1>13, <1>14, <1>15, <1>16, <1>17, <1>18, <1>19, <1>20, <1>21, <1>22
     DEF Next, MpvStep, LoopStep, Begin, Work

(***************************************************************************)
(* When the current file ends, its read end and no other is closed.        *)
(***************************************************************************)
LEMMA EndFileCloses ==
    ASSUME NEW reason, EndFile(reason), NEW p \in Pipes
    PROVE  reader'[p] <=> reader[p] /\ p # file
BY DEF EndFile

(***************************************************************************)
(* A caller that goes on from one line of its RPC to the next leaves the   *)
(* pipes in order.                                                         *)
(***************************************************************************)
LEMMA PipesStay ==
    ASSUME PipesOK, NEW c \in Callers,
           UNCHANGED <<file, input, plays, reader, writer, data, pipe, lost>>,
           \A d \in Callers \ {c} : pc'[d] = pc[d],
           pc'[c] \in Streaming <=> pc[c] \in Streaming,
           pc'[c] \in BeforeData => pc[c] \in BeforeData,
           pc'[c] \in {"input", "load"} <=> pc[c] \in {"input", "load"}
    PROVE  PipesOK'
<1>1. \A d \in Callers : /\ pc'[d] \in Streaming <=> pc[d] \in Streaming
                         /\ pc'[d] \in BeforeData => pc[d] \in BeforeData
                         /\ pc'[d] \in {"input", "load"} <=> pc[d] \in {"input", "load"}
  OBVIOUS
<1> QED
  BY <1>1 DEF PipesOK

(***************************************************************************)
(* Every step keeps the pipes in order.                                    *)
(***************************************************************************)
LEMMA PlayerPipesStep == PlayerInv /\ [Next]_vars => PipesOK'
<1> SUFFICES ASSUME PlayerInv, [Next]_vars PROVE PipesOK'
  OBVIOUS
<1>a. /\ plays \in Nat /\ MaxPlays \in Nat /\ plays <= MaxPlays
      /\ Pipes = 1 .. MaxPlays /\ NoPipe \notin Pipes
      /\ reader \in [Pipes -> BOOLEAN] /\ writer \in [Pipes -> BOOLEAN]
      /\ data \in [Pipes -> 0..PipeSize] /\ PipeSize \in Nat
      /\ pc \in [Callers -> RpcPcs] /\ pipe \in [Callers -> Pipes \cup {NoPipe}]
      /\ PipesOK
  BY PlayerAssumption DEF PlayerInv, TypeOK, Pipes
<1> USE DEF mpvVars, loopVars, pipeVars, rpcVars,
      counters, history, Goto
<1>1. CASE MpvOpens
  <2>1. CASE reader[file] /\ data[file] > 0
    BY <1>1, <1>a, <2>1 DEF MpvOpens, PipesOK, Streaming, BeforeData
  <2>2. CASE ~(reader[file] /\ data[file] > 0)
    BY <1>1, <1>a, <2>2, EndFileCloses DEF MpvOpens, PipesOK, Streaming, BeforeData
  <2> QED
    BY <2>1, <2>2
<1>2. CASE MpvReads
  <2>1. file \in Pipes /\ file <= plays /\ data[file] > 0 /\ file # NoPipe
    BY <1>2, <1>a DEF MpvReads, PlayerInv, QueueOK, PipesOK
  <2>2. \A p \in Pipes : p # file => data'[p] = data[p]
    BY <1>2, <1>a DEF MpvReads
  <2> QED
    BY <1>2, <1>a, <2>1, <2>2 DEF MpvReads, PipesOK, Streaming, BeforeData
<1>3. CASE MpvReachesEnd
  BY <1>3, <1>a, EndFileCloses DEF MpvReachesEnd, PipesOK, Streaming, BeforeData
<1>4. CASE LoopStep
  BY <1>4, <1>a DEF LoopStep, LoopTakesEvent, LoopTakesPause, LoopHandles, LoopGoesOn,
     PipesOK, Streaming, BeforeData
<1>5. ASSUME NEW c \in Callers, MakePipe(c) PROVE PipesOK'
  <2>1. PICK n \in Pipes : n = plays + 1
    BY <1>5, <1>a DEF MakePipe
  <2>2. /\ plays' = n /\ pipe' = [pipe EXCEPT ![c] = n]
        /\ reader' = [reader EXCEPT ![n] = TRUE] /\ writer' = [writer EXCEPT ![n] = TRUE]
        /\ pc[c] = "idle" /\ pc' = [pc EXCEPT ![c] = "input"]
        /\ UNCHANGED <<file, input, data, lost>>
    BY <1>5, <2>1 DEF MakePipe
  <2>3. data[n] = 0 /\ \A d \in Callers : pipe[d] # n
    BY <1>a, <2>1 DEF PipesOK
  <2>4. /\ file' \in 1..plays' \cup {NoPipe} /\ input' \in 1..plays' \cup {NoPipe}
        /\ \A p \in Pipes : p > plays' => data'[p] = 0
    BY <1>a, <2>1, <2>2 DEF PipesOK, Streaming, BeforeData
  <2>5. ASSUME NEW d \in Callers
        PROVE  /\ pipe'[d] \in 1..plays' \cup {NoPipe}
               /\ pc'[d] \in Streaming => pipe'[d] # NoPipe
               /\ pc'[d] \in BeforeData => data'[pipe'[d]] = 0
               /\ \A e \in Callers : pipe'[d] = pipe'[e] /\ pipe'[d] # NoPipe => d = e
    BY <1>a, <2>1, <2>2, <2>3 DEF PipesOK, Streaming, BeforeData
  <2>6. ASSUME NEW p \in Pipes \ lost'
        PROVE  /\ writer'[p] => \E d \in Callers : pipe'[d] = p /\ pc'[d] \in Streaming
               /\ reader'[p] => p = file' \/ \E d \in Callers :
                                   pipe'[d] = p /\ pc'[d] \in {"input", "load"}
    <3>1. CASE p = n
      <4>1. pipe'[c] = p /\ pc'[c] = "input"
        BY <1>a, <2>2, <3>1
      <4> QED
        BY <4>1 DEF Streaming
    <3>2. CASE p # n
      <4>1. /\ writer'[p] <=> writer[p]
            /\ reader'[p] <=> reader[p]
        BY <1>a, <2>2, <3>2
      <4>2. \A d \in Callers : pc[d] \in Streaming \/ pc[d] \in {"input", "load"} =>
                                 d # c /\ pipe'[d] = pipe[d] /\ pc'[d] = pc[d]
        BY <1>a, <2>2 DEF Streaming
      <4>3. ASSUME writer[p] PROVE \E d \in Callers : pipe'[d] = p /\ pc'[d] \in Streaming
        <5>1. PICK d \in Callers : pipe[d] = p /\ pc[d] \in Streaming
          BY <1>a, <2>2, <4>3 DEF PipesOK
        <5> QED
          BY <4>2, <5>1
      <4>4. ASSUME reader[p], p # file
            PROVE  \E d \in Callers : pipe'[d] = p /\ pc'[d] \in {"input", "load"}
        <5>1. PICK d \in Callers : pipe[d] = p /\ pc[d] \in {"input", "load"}
          BY <1>a, <2>2, <4>4 DEF PipesOK
        <5> QED
          BY <4>2, <5>1
      <4> QED
        BY <2>2, <4>1, <4>3, <4>4
    <3> QED
      BY <3>1, <3>2
  <2> QED
    BY <2>4, <2>5, <2>6 DEF PipesOK
<1>6. ASSUME NEW c \in Callers, Stop(c) PROVE PipesOK'
  <2>1. \A p \in Pipes : reader'[p] <=> reader[p] /\ p # file
    BY <1>6, EndFileCloses DEF Stop
  <2>2. UNCHANGED <<input, plays, writer, data, pc, pipe, lost>> /\ file' = NoPipe
    BY <1>6 DEF Stop
  <2>3. ASSUME NEW p \in Pipes, reader'[p], p \notin lost
        PROVE  \E d \in Callers : pipe'[d] = p /\ pc'[d] \in {"input", "load"}
    BY <1>a, <2>1, <2>2, <2>3 DEF PipesOK
  <2> QED
    BY <1>a, <2>2, <2>3 DEF PipesOK
<1>7. ASSUME NEW c \in Callers, TogglePause(c) PROVE PipesOK'
  <2>1. /\ UNCHANGED <<file, input, plays, reader, writer, data, pipe, lost>>
        /\ \A d \in Callers \ {c} : pc'[d] = pc[d]
        /\ pc[c] = "idle" /\ pc'[c] = "get"
    BY <1>7, <1>a DEF TogglePause
  <2>2. /\ pc'[c] \in Streaming <=> pc[c] \in Streaming
        /\ pc'[c] \in BeforeData => pc[c] \in BeforeData
        /\ pc'[c] \in {"input", "load"} <=> pc[c] \in {"input", "load"}
    BY <2>1 DEF Streaming, BeforeData
  <2> QED
    BY <1>a, <2>1, <2>2, PipesStay
<1>8. ASSUME NEW c \in Callers, Input(c) PROVE PipesOK'
  BY <1>8, <1>a DEF Input, PipesOK, Streaming, BeforeData
<1>9. ASSUME NEW c \in Callers, LoadFile(c) PROVE PipesOK'
  <2>1. \A p \in Pipes : reader'[p] <=> reader[p] /\ p # file
    BY <1>9, EndFileCloses DEF LoadFile
  <2>2. \A p \in Pipes \ lost' : p \notin lost /\ (p = pipe[c] => p = file')
    BY <1>9 DEF LoadFile
  <2> QED
    BY <1>9, <1>a, <2>1, <2>2 DEF LoadFile, PipesOK, Streaming, BeforeData
<1>10. ASSUME NEW c \in Callers, PlayFails(c) PROVE PipesOK'
  <2>1. \A p \in Pipes \ lost' : p \notin lost /\ p # pipe[c]
    BY <1>10 DEF PlayFails
  <2> QED
    BY <1>10, <1>a, <2>1 DEF PlayFails, PipesOK, Streaming, BeforeData
<1>11. ASSUME NEW c \in Callers, AskPause(c) PROVE PipesOK'
  BY <1>11, <1>a DEF AskPause, PipesOK, Streaming, BeforeData
<1>12. ASSUME NEW c \in Callers, ReadData(c) PROVE PipesOK'
  BY <1>12, <1>a DEF ReadData, PipesOK, Streaming, BeforeData
<1>13. ASSUME NEW c \in Callers, Write(c) PROVE PipesOK'
  <2>1. pipe[c] \in 1 .. plays
    BY <1>13, <1>a DEF Write, PipesOK, Streaming, BeforeData
  <2>2. \A p \in Pipes : p # pipe[c] => data'[p] = data[p]
    BY <1>13, <1>a DEF Write
  <2> QED
    BY <1>13, <1>a, <2>1, <2>2 DEF Write, PipesOK, Streaming, BeforeData
<1>14. ASSUME NEW c \in Callers, EndOfData(c) \/ BrokenPipe(c) PROVE PipesOK'
  <2>1. /\ pc[c] \in {"read", "write"} /\ pc' = [pc EXCEPT ![c] = "idle"]
        /\ writer' = [writer EXCEPT ![pipe[c]] = FALSE]
        /\ UNCHANGED <<file, input, plays, reader, data, pipe, lost>>
    BY <1>14 DEF EndOfData, BrokenPipe, CloseWriter
  <2>2. \A p \in Pipes : writer'[p] <=> writer[p] /\ p # pipe[c]
    BY <1>a, <2>1
  <2>3. pc'[c] = "idle" /\ \A d \in Callers \ {c} : pc'[d] = pc[d]
    BY <1>a, <2>1
  <2>4. ASSUME NEW p \in Pipes \ lost'
        PROVE  /\ writer'[p] => \E d \in Callers : pipe'[d] = p /\ pc'[d] \in Streaming
               /\ reader'[p] => p = file' \/ \E d \in Callers :
                                   pipe'[d] = p /\ pc'[d] \in {"input", "load"}
    <3>1. writer'[p] => \E d \in Callers \ {c} : pipe[d] = p /\ pc[d] \in Streaming
      BY <1>a, <2>1, <2>2 DEF PipesOK, Streaming, BeforeData
    <3>2. reader[p] => p = file \/ \E d \in Callers \ {c} :
                                     pipe[d] = p /\ pc[d] \in {"input", "load"}
      BY <1>a, <2>1 DEF PipesOK, Streaming, BeforeData
    <3> QED
      BY <2>1, <2>3, <3>1, <3>2
  <2> QED
    BY <1>a, <2>1, <2>3, <2>4 DEF PipesOK, Streaming, BeforeData
<1>15. ASSUME NEW c \in Callers, GetPause(c) PROVE PipesOK'
  <2>1. /\ UNCHANGED <<file, input, plays, reader, writer, data, pipe, lost>>
        /\ \A d \in Callers \ {c} : pc'[d] = pc[d]
        /\ \/ pc[c] = "get" /\ pc'[c] = "set"
           \/ pc[c] = "getThenRead" /\ pc'[c] = "setThenRead"
    BY <1>15, <1>a DEF GetPause
  <2>2. /\ pc'[c] \in Streaming <=> pc[c] \in Streaming
        /\ pc'[c] \in BeforeData => pc[c] \in BeforeData
        /\ pc'[c] \in {"input", "load"} <=> pc[c] \in {"input", "load"}
    BY <2>1 DEF Streaming, BeforeData
  <2> QED
    BY <1>a, <2>1, <2>2, PipesStay
<1>16. ASSUME NEW c \in Callers, SetPause(c) PROVE PipesOK'
  <2>1. /\ UNCHANGED <<file, input, plays, reader, writer, data, pipe, lost>>
        /\ \A d \in Callers \ {c} : pc'[d] = pc[d]
        /\ \/ pc[c] = "set" /\ pc'[c] = "idle"
           \/ pc[c] = "setThenRead" /\ pc'[c] = "read"
    BY <1>16, <1>a DEF SetPause
  <2>2. /\ pc'[c] \in Streaming <=> pc[c] \in Streaming
        /\ pc'[c] \in BeforeData => pc[c] \in BeforeData
        /\ pc'[c] \in {"input", "load"} <=> pc[c] \in {"input", "load"}
    BY <2>1 DEF Streaming, BeforeData
  <2> QED
    BY <1>a, <2>1, <2>2, PipesStay
<1>17. CASE MpvPlays
  BY <1>17, <1>a DEF MpvPlays, PipesOK, Streaming, BeforeData
<1>18. CASE UNCHANGED vars
  BY <1>18, <1>a DEF vars, PipesOK, Streaming, BeforeData
<1> QED
  BY <1>1, <1>2, <1>3, <1>4, <1>5, <1>6, <1>7, <1>8, <1>9, <1>10, <1>11, <1>12, <1>13,
     <1>14, <1>15, <1>16, <1>17, <1>18 DEF Next, MpvStep, Begin, Work

(***************************************************************************)
(* Every step keeps what InputOK says of the pipe in input_.               *)
(***************************************************************************)
LEMMA PlayerInputStep == PlayerInv /\ [Next]_vars => InputOK'
<1> SUFFICES ASSUME PlayerInv, [Next]_vars PROVE InputOK'
  OBVIOUS
<1>a. /\ Pipes = 1 .. MaxPlays /\ NoPipe \notin Pipes /\ plays \in Nat /\ MaxPlays \in Nat
      /\ file \in Pipes \cup {NoPipe} /\ input \in Pipes \cup {NoPipe}
      /\ reader \in [Pipes -> BOOLEAN] /\ data \in [Pipes -> 0..PipeSize]
      /\ pc \in [Callers -> RpcPcs] /\ pipe \in [Callers -> Pipes \cup {NoPipe}]
      /\ PipesOK /\ InputOK
  BY PlayerAssumption DEF PlayerInv, TypeOK, Pipes
<1>b. ASSUME input' = input, pipe' = pipe, data' = data,
             input # NoPipe /\ input # file' /\ reader'[input] => input # file /\ reader[input],
             \A d \in Callers : pc'[d] \in Streaming \ {"input", "load"}
                              => pc[d] \in Streaming \ {"input", "load"}
      PROVE  InputOK'
  BY <1>a, <1>b DEF InputOK
<1> USE DEF mpvVars, loopVars, pipeVars, rpcVars, counters, history, Goto
<1>1. ASSUME MpvStep PROVE InputOK'
  <2>1. CASE MpvReads
    <3>1. /\ UNCHANGED <<input, file, reader, pc, pipe>> /\ data[file] > 0
          /\ data' = [data EXCEPT ![file] = @ - 1]
      BY <2>1 DEF MpvReads
    <3>2. input # NoPipe /\ input # file => data'[input] = data[input]
      BY <1>a, <3>1
    <3> QED
      BY <1>a, <3>1, <3>2 DEF InputOK
  <2>2. CASE MpvPlays \/ (MpvOpens /\ reader[file] /\ data[file] > 0)
    BY <1>a, <1>b, <2>2 DEF MpvPlays, MpvOpens
  <2>3. CASE MpvReachesEnd \/ (MpvOpens /\ ~(reader[file] /\ data[file] > 0))
    <3>1. /\ UNCHANGED <<input, pc, pipe, data>>
          /\ \A p \in Pipes : reader'[p] <=> reader[p] /\ p # file
      BY <2>3, EndFileCloses DEF MpvReachesEnd, MpvOpens
    <3> QED
      BY <1>a, <1>b, <3>1
  <2> QED
    BY <1>1, <2>1, <2>2, <2>3 DEF MpvStep
<1>2. CASE LoopStep
  BY <1>2, <1>b DEF LoopStep, LoopTakesEvent, LoopTakesPause, LoopHandles, LoopGoesOn
<1>3. ASSUME NEW c \in Callers, MakePipe(c) PROVE InputOK'
  <2>1. PICK n \in Pipes : n = plays + 1
    BY <1>3, <1>a DEF MakePipe
  <2>2. /\ pipe' = [pipe EXCEPT ![c] = n] /\ reader' = [reader EXCEPT ![n] = TRUE]
        /\ pc[c] = "idle" /\ pc' = [pc EXCEPT ![c] = "input"]
        /\ UNCHANGED <<file, input, data>>
    BY <1>3, <2>1 DEF MakePipe
  <2>3. input # n
    BY <1>a, <2>1 DEF PipesOK
  <2>4. input # NoPipe => (reader'[input] <=> reader[input])
    BY <1>a, <2>2, <2>3
  <2>5. \A d \in Callers : pipe'[d] = input => d # c /\ pipe[d] = input /\ pc'[d] = pc[d]
    BY <1>a, <2>2, <2>3
  <2> QED
    BY <1>a, <2>2, <2>4, <2>5 DEF InputOK
<1>4. ASSUME NEW c \in Callers, Stop(c) PROVE InputOK'
  <2>1. /\ UNCHANGED <<input, pc, pipe, data>>
        /\ \A p \in Pipes : reader'[p] <=> reader[p] /\ p # file
    BY <1>4, EndFileCloses DEF Stop
  <2> QED
    BY <1>a, <1>b, <2>1
<1>5. ASSUME NEW c \in Callers, Input(c) PROVE InputOK'
  <2>1. /\ UNCHANGED <<file, reader, data, pipe>> /\ input' = pipe[c]
        /\ pc[c] = "input" /\ pc'[c] = "load"
    BY <1>5, <1>a DEF Input
  <2>2. data[pipe[c]] = 0
    BY <1>a, <2>1 DEF PipesOK, BeforeData
  <2>3. \A d \in Callers : pipe[d] = pipe[c] /\ pipe[c] # NoPipe => d = c
    BY <1>a DEF PipesOK
  <2> QED
    BY <2>1, <2>2, <2>3 DEF InputOK
<1>6. ASSUME NEW c \in Callers, LoadFile(c) PROVE InputOK'
  BY <1>6 DEF LoadFile, InputOK
<1>7. ASSUME NEW c \in Callers, Write(c) PROVE InputOK'
  <2>1. /\ UNCHANGED <<file, input, reader, pipe>> /\ pc[c] = "write" /\ pc'[c] = "read"
        /\ \A d \in Callers \ {c} : pc'[d] = pc[d]
        /\ data' = [data EXCEPT ![pipe[c]] = @ + 1]
    BY <1>7, <1>a DEF Write
  <2>2. input # NoPipe /\ pipe[c] # input => data'[input] = data[input]
    BY <1>a, <2>1
  <2> QED
    BY <1>a, <2>1, <2>2 DEF InputOK, Streaming
<1>8. ASSUME NEW c \in Callers,
             \/ TogglePause(c) \/ PlayFails(c) \/ AskPause(c) \/ ReadData(c)
             \/ EndOfData(c) \/ BrokenPipe(c) \/ GetPause(c) \/ SetPause(c)
      PROVE  InputOK'
  <2>1. UNCHANGED <<file, input, reader, data, pipe>>
    BY <1>8 DEF TogglePause, PlayFails, AskPause, ReadData, EndOfData, BrokenPipe,
                CloseWriter, GetPause, SetPause
  <2>2. \A d \in Callers \ {c} : pc'[d] = pc[d]
    BY <1>8, <1>a DEF TogglePause, PlayFails, AskPause, ReadData, EndOfData, BrokenPipe,
                CloseWriter, GetPause, SetPause
  <2>3. pc'[c] \in Streaming \ {"input", "load"} => pc[c] \in Streaming \ {"input", "load"}
    BY <1>8, <1>a DEF TogglePause, PlayFails, AskPause, ReadData, EndOfData, BrokenPipe,
                CloseWriter, GetPause, SetPause, Streaming
  <2> QED
    BY <1>b, <2>1, <2>2, <2>3
<1>9. CASE UNCHANGED vars
  BY <1>9, <1>b DEF vars
<1> QED
  BY <1>1, <1>2, <1>3, <1>4, <1>5, <1>6, <1>7, <1>8, <1>9 DEF Next, Begin, Work

(***************************************************************************)
(* A file becomes Ready without being loaded only when its caller sees     *)
(* "pause" unset or unsets it: loadfile makes no file Ready, and no other  *)
(* step of a caller does.                                                  *)
(***************************************************************************)
LEMMA ReadyStays ==
    ASSUME file' = file, loaded' = loaded, pipe' = pipe, Ready',
           file # NoPipe /\ reader'[file] => reader[file],
           file # NoPipe /\ data'[file] > 0
             => data[file] > 0 \/ \E c \in Callers : pipe[c] = file /\ Asked(c),
           \A c \in Callers : Asked(c)' => Asked(c)
    PROVE  Ready
BY DEF Ready

LEMMA LoadedIsNotReady ==
    ASSUME PlayerInv, NEW c \in Callers, LoadFile(c)
    PROVE  ~Ready'
<1>1. /\ file' = input /\ loaded' = FALSE /\ UNCHANGED <<pipe, data, wasPaused>>
      /\ pc[c] = "load" /\ pc' = [pc EXCEPT ![c] = "ask"]
  BY DEF LoadFile, Goto
<1>2. /\ input \in Pipes \cup {NoPipe} /\ InputOK /\ pc \in [Callers -> RpcPcs]
      /\ data \in [Pipes -> 0..PipeSize]
  BY DEF PlayerInv, TypeOK
<1>3. input # NoPipe /\ reader'[input] => reader[input] /\ input # file
  BY <1>2, EndFileCloses DEF LoadFile
<1>4. \A d \in Callers : Asked(d)' => pc[d] \in Streaming \ {"input", "load"}
  BY <1>1, <1>2 DEF Asked, Streaming
<1>5. input # NoPipe /\ reader'[input] =>
        data[input] = 0 /\ \A d \in Callers : pipe[d] = input => ~Asked(d)'
  BY <1>2, <1>3, <1>4 DEF InputOK
<1>6. data'[input] = data[input] /\ \A d \in Callers : pipe'[d] = pipe[d]
  BY <1>1
<1> QED
  BY <1>1, <1>5, <1>6 DEF Ready

(***************************************************************************)
(* A step of mpv or a caller that reports nothing and makes nothing Ready  *)
(* keeps the reports in order.                                             *)
(***************************************************************************)
LEMMA ReportsStay ==
    ASSUME ReportsOK, loaded' = loaded, UNCHANGED <<events, event, told, state>>,
           \/ pause' = pause /\ (overtaken => overtaken')
           \/ overtaken',
           pause' => (Ready' => Ready)
    PROVE  ReportsOK'
BY DEF ReportsOK

(***************************************************************************)
(* Every step of mpv keeps the reports in order,                           *)
(***************************************************************************)
LEMMA ReportsMpvStep == PlayerInv /\ MpvStep => ReportsOK'
<1> SUFFICES ASSUME PlayerInv, MpvStep PROVE ReportsOK'
  OBVIOUS
<1>a. ReportsOK /\ events \in Seq(Queued) /\ (loaded => file # NoPipe)
  BY DEF PlayerInv, TypeOK, QueueOK
<1> USE DEF mpvVars, loopVars, rpcVars, history, playbackVars
<1>1. CASE MpvOpens /\ reader[file] /\ data[file] > 0
  <2>1. /\ loaded' = TRUE /\ events' = Append(events, "loaded") /\ Ready
        /\ UNCHANGED <<pause, told, event, state, overtaken>>
    BY <1>1 DEF MpvOpens, Ready
  <2>2. /\ events' # <<>> /\ events'[Len(events')] = "loaded"
        /\ \A i \in DOMAIN events' : \/ i \in DOMAIN events /\ events'[i] = events[i]
                                    \/ events'[i] = "loaded"
    BY <1>a, <2>1
  <2> QED
    BY <1>a, <2>1, <2>2 DEF ReportsOK, Ends
<1>2. CASE MpvReachesEnd \/ (MpvOpens /\ ~(reader[file] /\ data[file] > 0))
  BY <1>2 DEF MpvReachesEnd, MpvOpens, ReportsOK, Ready
<1>3. CASE MpvReads \/ MpvPlays
  <2>1. /\ loaded /\ UNCHANGED <<loaded, events, event, told, state, pause, overtaken>>
    BY <1>3 DEF MpvReads, MpvPlays
  <2> QED
    BY <1>a, <2>1, ReportsStay DEF Ready
<1> QED
  BY <1>1, <1>2, <1>3 DEF MpvStep

(***************************************************************************)
(* and so does every step of the event loop                                *)
(***************************************************************************)
LEMMA ReportsLoopStep == PlayerInv /\ LoopStep => ReportsOK'
<1> SUFFICES ASSUME PlayerInv, LoopStep PROVE ReportsOK'
  OBVIOUS
<1>a. ReportsOK /\ events \in Seq(Queued) /\ (loaded => file # NoPipe)
      /\ event \in Queued \cup PauseNews \cup {"none"}
      /\ (event \in PauseNews => told = event)
  BY DEF PlayerInv, TypeOK, QueueOK
<1> USE DEF mpvVars, loopVars, rpcVars, pipeVars, history
<1>b. UNCHANGED <<file, loaded, pause, pipe, reader, data>> /\ (Ready' => Ready)
  BY DEF LoopStep, LoopTakesEvent, LoopTakesPause, LoopHandles, LoopGoesOn, Ready, Asked
<1>1. CASE LoopTakesEvent
  <2>1. /\ event = "none" /\ events # <<>> /\ event' = Head(events)
        /\ events' = Tail(events) /\ UNCHANGED <<told, state, overtaken>>
    BY <1>1 DEF LoopTakesEvent, playbackVars
  <2>2. /\ event' = events[1] /\ 1 \in DOMAIN events
        /\ events' = <<>> => event' = events[Len(events)]
        /\ events' # <<>> => events'[Len(events')] = events[Len(events)]
        /\ \A i \in DOMAIN events' : i + 1 \in DOMAIN events /\ events'[i] = events[i + 1]
    BY <1>a, <2>1, TailFacts
  <2> QED
    BY <1>a, <1>b, <2>1, <2>2 DEF ReportsOK, Ends
<1>2. CASE LoopTakesPause
  <2>1. /\ events = <<>> /\ told' = PauseValue /\ event' = PauseValue
        /\ UNCHANGED <<events, state, overtaken>>
    BY <1>2 DEF LoopTakesPause, playbackVars
  <2> QED
    BY <1>a, <1>b, <2>1 DEF ReportsOK, PauseValue, Ends
<1>3. CASE LoopHandles
  <2>1. /\ event # "none" /\ event' = "none" /\ UNCHANGED <<events, told>>
        /\ overtaken' = (overtaken \/ (initial /\ event = "unpaused" /\ file # NoPipe))
        /\ NewStates(event) = {} => state' = state
        /\ \A s : NewStates(event) = {s} => state' = s
    <3>1. NewStates(event) = {} => state' = state
      BY <1>3 DEF LoopHandles, playbackVars
    <3>2. ASSUME NEW s, NewStates(event) = {s} PROVE state' = s
      BY <1>3, <3>2, NewStatesType DEF LoopHandles, SetStateStore
    <3> QED
      BY <1>3, <3>1, <3>2 DEF LoopHandles
  <2>2. told = "paused" /\ pause /\ event \notin Ends =>
          IF event = "paused" THEN state' = PAUSED ELSE state' = state
    BY <1>a, <2>1 DEF NewStates, Queued, PauseNews, Ends
  <2>3. /\ ~overtaken' /\ loaded /\ told = "unpaused" /\ ~pause /\ event \notin Ends
          => state' = PLAYING
    BY <1>a, <2>1 DEF NewStates, Queued, PauseNews, Ends
  <2>4. loaded /\ events = <<>> => event \notin Ends
    BY <1>a DEF ReportsOK
  <2>5. ~overtaken /\ Ready /\ told = "paused" /\ pause =>
          /\ event \notin Ends /\ (event = "paused" \/ state = PAUSED)
          /\ \A i \in DOMAIN events : events[i] \notin Ends
    BY <1>a DEF ReportsOK, Ends
  <2>6. ~overtaken' => ~overtaken
    BY <2>1
  <2> QED
    BY <1>a, <1>b, <2>1, <2>2, <2>3, <2>4, <2>5, <2>6 DEF ReportsOK, Ends
<1>4. CASE LoopGoesOn
  BY <1>4, <1>a, <1>b, ReportsStay DEF LoopGoesOn, SetStateReturn
<1> QED
  BY <1>1, <1>2, <1>3, <1>4 DEF LoopStep

(***************************************************************************)
(* and every step of a caller.                                             *)
(***************************************************************************)
LEMMA ReportsCallerStep ==
    ASSUME PlayerInv, NEW c \in Callers, Begin(c) \/ Work(c)
    PROVE  ReportsOK'
<1>a. /\ ReportsOK /\ PipesOK /\ plays \in Nat /\ NoPipe \notin Pipes
      /\ file \in Pipes \cup {NoPipe} /\ Pipes = 1 .. MaxPlays
      /\ reader \in [Pipes -> BOOLEAN] /\ data \in [Pipes -> 0..PipeSize]
      /\ pc \in [Callers -> RpcPcs] /\ pipe \in [Callers -> Pipes \cup {NoPipe}]
      /\ wasPaused \in [Callers -> BOOLEAN] /\ pause \in BOOLEAN
  BY PlayerAssumption DEF PlayerInv, TypeOK, Pipes
<1> USE DEF mpvVars, loopVars, rpcVars, pipeVars, history, playbackVars, Goto
<1>1. CASE MakePipe(c)
  <2>1. /\ UNCHANGED <<file, loaded, events, event, told, state, pause, overtaken, data,
                       wasPaused>>
        /\ pipe' = [pipe EXCEPT ![c] = plays + 1]
        /\ reader' = [reader EXCEPT ![plays + 1] = TRUE]
        /\ pc' = [pc EXCEPT ![c] = "input"]
    BY <1>1 DEF MakePipe
  <2>2. file # NoPipe => file # plays + 1
    BY <1>a DEF PipesOK
  <2>3. file # NoPipe /\ reader'[file] => reader[file]
    BY <1>a, <2>1, <2>2
  <2>4. \A d \in Callers : Asked(d)' => Asked(d) /\ pipe'[d] = pipe[d]
    BY <1>a, <2>1 DEF Asked
  <2>5. Ready' => Ready
    BY <2>1, <2>3, <2>4 DEF Ready
  <2> QED
    BY <1>a, <2>1, <2>5, ReportsStay
<1>2. CASE Stop(c)
  BY <1>2 DEF Stop, ReportsOK, Ready
<1>3. CASE LoadFile(c)
  <2>1. loaded' = FALSE /\ ~Ready'
    BY <1>3, LoadedIsNotReady DEF LoadFile
  <2> QED
    BY <2>1 DEF ReportsOK
<1>4. CASE TogglePause(c) \/ Input(c) \/ PlayFails(c) \/ ReadData(c) \/ EndOfData(c)
          \/ BrokenPipe(c) \/ Write(c)
  <2> USE DEF TogglePause, Input, PlayFails, ReadData, EndOfData, BrokenPipe, CloseWriter, Write
  <2>1. UNCHANGED <<file, loaded, events, event, told, state, pause, overtaken, pipe,
                    reader, wasPaused>>
    BY <1>4
  <2>2. \A d \in Callers : Asked(d)' => Asked(d)
    BY <1>4, <1>a DEF Asked
  <2>3. file # NoPipe /\ data'[file] > 0 => data[file] > 0 \/ (pipe[c] = file /\ Asked(c))
    BY <1>4, <1>a DEF Asked
  <2>4. Ready' => Ready
    BY <2>1, <2>2, <2>3, ReadyStays
  <2> QED
    BY <1>a, <2>1, <2>4, ReportsStay
<1>5. CASE AskPause(c) \/ GetPause(c)
  <2>1. UNCHANGED <<file, loaded, events, event, told, state, pause, overtaken, pipe,
                    reader, data>>
    BY <1>5 DEF AskPause, GetPause
  <2>2. pause => \A d \in Callers : Asked(d)' => Asked(d)
    BY <1>5, <1>a DEF AskPause, GetPause, Asked
  <2>3. pause => (Ready' => Ready)
    BY <2>1, <2>2, ReadyStays
  <2> QED
    BY <1>a, <2>1, <2>3, ReportsStay
<1>6. CASE SetPause(c)
  <2>1. UNCHANGED <<file, loaded, events, event, told, state, pipe, reader, data, wasPaused>>
    BY <1>6 DEF SetPause
  <2>2. /\ pause' = ~wasPaused[c]
        /\ overtaken' = (overtaken \/ (pause' # pause /\ told # PauseValue))
    BY <1>6 DEF SetPause
  <2>3. ~wasPaused[c] => \A d \in Callers : Asked(d)' => Asked(d)
    BY <1>6, <1>a DEF SetPause, Asked
  <2>4. pause' => (Ready' => Ready)
    BY <2>1, <2>2, <2>3, ReadyStays
  <2>5. CASE pause' = pause
    BY <1>a, <2>1, <2>2, <2>4, <2>5, ReportsStay
  <2>6. CASE pause' # pause /\ told # PauseValue
    BY <1>a, <2>1, <2>2, <2>4, <2>6, ReportsStay
  <2>7. CASE pause' # pause /\ told = PauseValue
    BY <1>a, <2>1, <2>2, <2>7 DEF ReportsOK, PauseValue
  <2> QED
    BY <2>5, <2>6, <2>7
<1> QED
  BY <1>1, <1>2, <1>3, <1>4, <1>5, <1>6 DEF Begin, Work

LEMMA PlayerReportsStep == PlayerInv /\ [Next]_vars => ReportsOK'
<1> SUFFICES ASSUME PlayerInv, [Next]_vars PROVE ReportsOK'
  OBVIOUS
<1>1. CASE UNCHANGED vars
  BY <1>1 DEF vars, mpvVars, loopVars, rpcVars, pipeVars, history, playbackVars, PlayerInv,
     ReportsOK, Ready, Asked
<1> QED
  BY <1>1, ReportsMpvStep, ReportsLoopStep, ReportsCallerStep DEF Next

(***************************************************************************)
(* The inductive invariant holds in every reachable state.                 *)
(***************************************************************************)
THEOREM PlayerInvariant == Spec => []PlayerInv
<1>1. PlayerInv /\ [Next]_vars => PlayerInv'
  BY PlayerTypeStep, PlayerQueueStep, PlayerPipesStep, PlayerInputStep,
     PlayerReportsStep DEF PlayerInv
<1> QED
  BY PlayerInit, <1>1, PTL DEF Spec

(***************************************************************************)
(* Every variable of the player and its callers keeps its type.            *)
(***************************************************************************)
THEOREM PlayerTypeCorrect == Spec => []TypeOK
<1>1. PlayerInv => TypeOK
  BY DEF PlayerInv
<1> QED
  BY <1>1, PlayerInvariant, PTL

(***************************************************************************)
(* Nothing is PLAYING on an idle player once the event loop has caught up  *)
(* (Player::mpv_event_loop).                                               *)
(***************************************************************************)
THEOREM IdleIsNotPlaying == Spec => []IdleState
<1>1. PlayerInv => IdleState
  BY DEF PlayerInv, QueueOK, IdleState, Settled, PauseValue, Ends
<1> QED
  BY <1>1, PlayerInvariant, PTL

(***************************************************************************)
(* The state of a player with a file is PLAYING or PAUSED as its "pause"   *)
(* says, once the event loop has caught up, unless a change of "pause" was *)
(* undone unreported (Player::mpv_event_loop, Play, TogglePause).          *)
(***************************************************************************)
THEOREM FileStateIsTrue == Spec => []FileState
<1>1. ASSUME PlayerInv, Settled, loaded, ~overtaken
      PROVE  state = IF pause THEN PAUSED ELSE PLAYING
  <2>1. /\ events = <<>> /\ event = "none" /\ Ready
        /\ told = IF pause THEN "paused" ELSE "unpaused"
    BY <1>1 DEF Settled, PauseValue, Ready
  <2> QED
    BY <1>1, <2>1 DEF PlayerInv, ReportsOK
<1>2. PlayerInv => FileState
  BY <1>1 DEF FileState
<1> QED
  BY <1>2, PlayerInvariant, PTL

(***************************************************************************)
(* A pipe that AudioStream had mpv load is closed at both ends once the    *)
(* RPC is over and the file has ended (AudioStream, Play).                 *)
(***************************************************************************)
THEOREM DescriptorsAreClosed == Spec => []DescriptorsClosed
<1>1. ASSUME PlayerInv, NEW p \in Pipes \ lost, writer[p]
      PROVE  \E c \in Callers : pipe[c] = p /\ pc[c] # "idle"
  <2>1. PICK c \in Callers : pipe[c] = p /\ pc[c] \in Streaming
    BY <1>1 DEF PlayerInv, PipesOK
  <2> QED
    BY <2>1 DEF Streaming
<1>2. ASSUME PlayerInv, NEW p \in Pipes \ lost, reader[p]
      PROVE  p = file \/ \E c \in Callers : pipe[c] = p /\ pc[c] \in {"input", "load"}
  BY <1>2 DEF PlayerInv, PipesOK
<1>3. PlayerInv => DescriptorsClosed
  BY <1>1, <1>2 DEF DescriptorsClosed
<1> QED
  BY <1>3, PlayerInvariant, PTL
=============================================================================
