------------------------------- MODULE Player -------------------------------
(***************************************************************************)
(* Player (Player.cpp) with the RPCs that drive it (AudioStream, Stop,     *)
(* TogglePause in PlayerServiceImpl.cpp) and the thread that turns mpv's   *)
(* events into the playback state.                                         *)
(*                                                                         *)
(* Each caller is an RPC thread working for one daemon, which makes one    *)
(* RPC at a time.  AudioStream makes a pipe, stores its name in the        *)
(* player's input_, has mpv load input_, takes back a pause, and copies    *)
(* the client's data into the pipe.  Nothing excludes another RPC between  *)
(* two of these steps.  The data race on input_ itself (a std::string) is  *)
(* abstracted: a read yields one of the values written.                    *)
(*                                                                         *)
(* External (libmpv): commands and properties are atomic; loading and      *)
(* playing are asynchronous and reported through a queue of events; a      *)
(* change of an observed property is reported when the queue is empty and  *)
(* only if the value differs from the one last reported; a file given by   *)
(* descriptor is closed when it ends.  mpv plays from what it has read     *)
(* ahead, and reads ahead only so far: while it is paused, a pipe fills up *)
(* and the write that feeds it blocks.                                     *)
(***************************************************************************)
EXTENDS PlaybackState, Sequences

CONSTANTS
    Callers,    \* RPC threads, one per daemon
    FirstReports, \* what the observer of "pause" was told before the first RPC
    NoPipe,     \* no file; input_ of a new player
    MaxPlays,   \* bound: AudioStream calls
    MaxCalls,   \* bound: Stop and TogglePause calls
    MaxFaults,  \* bound: calls of Play that fail
    PipeSize,   \* pieces of data a pipe holds
    ReadAhead   \* pieces of data mpv reads ahead

Pipes == 1..MaxPlays

ASSUME PlayerAssumption ==
    /\ {MaxPlays, MaxCalls, MaxFaults, PipeSize, ReadAhead} \subseteq Nat
    /\ PipeSize > 0 /\ ReadAhead > 0
    /\ FirstReports \subseteq {"never", "unpaused"}
    /\ NoPipe \notin Pipes

VARIABLES
    file,    \* the pipe mpv loads or plays, or NoPipe when it is idle
    loaded,  \* the file has been opened
    pause,   \* mpv's property "pause"
    ahead,   \* how much of the file mpv has read and not yet played
    events,  \* mpv's event queue
    told,    \* what the observer of "pause" was last told
    event,   \* the event loop: the event it is handling, or "none"
    initial, \* initial_state
    input,   \* input_
    plays,   \* how many pipes have been made
    reader,  \* a pipe's read end is open
    writer,  \* a pipe's write end is open
    data,    \* what is in a pipe
    pc,      \* where a caller's RPC is
    pipe,    \* a caller's pipefd
    wasPaused, \* a caller's is_paused
    calls, faults,
    lost,      \* history: pipes whose AudioStream was refused by mpv, or had mpv
               \* load another caller's pipe, or failed with Play after that
    overtaken \* history: a change of "pause" was undone before it was reported,
              \* or its first report came when a file was there

mpvVars  == <<file, loaded, pause, ahead, events>>
loopVars == <<told, event, initial, playbackVars>>
pipeVars == <<plays, reader, writer, data>>
rpcVars  == <<pc, pipe, wasPaused>>
counters == <<calls, faults>>
history  == <<lost, overtaken>>
vars == <<mpvVars, loopVars, input, pipeVars, rpcVars, counters, history>>

Queued == {"stop", "eof", "error", "loaded"}   \* END_FILE by reason, FILE_LOADED
PauseNews == {"paused", "unpaused"}            \* PROPERTY_CHANGE by value
RpcPcs == {"idle", "input", "load", "ask", "get", "set", "getThenRead",
           "setThenRead", "read", "write"}

TypeOK ==
    /\ PlaybackTypeOK
    /\ file \in Pipes \cup {NoPipe} /\ loaded \in BOOLEAN /\ pause \in BOOLEAN
    /\ ahead \in 0..ReadAhead
    /\ events \in Seq(Queued)
    /\ told \in PauseNews \cup {"never"}
    /\ event \in Queued \cup PauseNews \cup {"none"}
    /\ initial \in BOOLEAN
    /\ input \in Pipes \cup {NoPipe}
    /\ plays \in 0..MaxPlays
    /\ reader \in [Pipes -> BOOLEAN] /\ writer \in [Pipes -> BOOLEAN]
    /\ data \in [Pipes -> 0..PipeSize]
    /\ pc \in [Callers -> RpcPcs]
    /\ pipe \in [Callers -> Pipes \cup {NoPipe}]
    /\ wasPaused \in [Callers -> BOOLEAN]
    /\ calls \in 0..MaxCalls /\ faults \in 0..MaxFaults
    /\ lost \subseteq Pipes \cup {NoPipe} /\ overtaken \in BOOLEAN

(***************************************************************************)
(* The service exists and has registered its callback.  The observer is    *)
(* told the first value of "pause" before or after that.                   *)
(***************************************************************************)
Init ==
    /\ state = STOPPED /\ setting = Idle /\ callback = TRUE
    /\ file = NoPipe /\ loaded = FALSE /\ pause = FALSE /\ ahead = 0 /\ events = <<>>
    /\ told \in FirstReports /\ initial = (told = "never")
    /\ event = "none"
    /\ input = NoPipe
    /\ plays = 0
    /\ reader = [p \in Pipes |-> FALSE] /\ writer = [p \in Pipes |-> FALSE]
    /\ data = [p \in Pipes |-> 0]
    /\ pc = [c \in Callers |-> "idle"]
    /\ pipe = [c \in Callers |-> NoPipe]
    /\ wasPaused = [c \in Callers |-> FALSE]
    /\ calls = 0 /\ faults = 0 /\ lost = {} /\ overtaken = FALSE

Goto(c, next) == pc' = [pc EXCEPT ![c] = next]

-----------------------------------------------------------------------------
(***************************************************************************)
(* libmpv.                                                                 *)
(***************************************************************************)

\* The current file, if any, ends for this reason and is closed.
EndFile(reason) ==
    /\ events' = IF file = NoPipe THEN events ELSE Append(events, reason)
    /\ reader' = [p \in Pipes |-> reader[p] /\ p # file]

\* The file is opened: there must be data, and a descriptor that is open.
MpvOpens ==
    /\ file # NoPipe /\ ~loaded
    /\ IF reader[file] /\ data[file] > 0
         THEN /\ loaded' = TRUE /\ events' = Append(events, "loaded")
              /\ UNCHANGED <<file, reader>>
         ELSE /\ ~reader[file] \/ ~writer[file]
              /\ EndFile("error")
              /\ file' = NoPipe /\ UNCHANGED loaded
    /\ UNCHANGED <<pause, ahead, loopVars, input, plays, writer, data, rpcVars, counters, history>>

\* mpv reads ahead, also while it is paused, but not without end.
MpvReads ==
    /\ loaded /\ data[file] > 0 /\ ahead < ReadAhead
    /\ data' = [data EXCEPT ![file] = @ - 1]
    /\ ahead' = ahead + 1
    /\ UNCHANGED <<file, loaded, pause, events, loopVars, input, plays, reader, writer,
                   rpcVars, counters, history>>

MpvPlays ==
    /\ loaded /\ ~pause /\ ahead > 0
    /\ ahead' = ahead - 1
    /\ UNCHANGED <<file, loaded, pause, events, loopVars, input, pipeVars, rpcVars,
                   counters, history>>

MpvReachesEnd ==
    /\ loaded /\ ~pause /\ ahead = 0 /\ data[file] = 0 /\ ~writer[file]
    /\ EndFile("eof")
    /\ file' = NoPipe /\ loaded' = FALSE
    /\ UNCHANGED <<pause, ahead, loopVars, input, plays, writer, data, rpcVars, counters, history>>

-----------------------------------------------------------------------------
(***************************************************************************)
(* The event loop, Player::mpv_event_loop.                                 *)
(***************************************************************************)
LoopTakesEvent ==
    /\ event = "none" /\ setting = Idle /\ events # <<>>
    /\ event' = Head(events) /\ events' = Tail(events)
    /\ UNCHANGED <<file, loaded, pause, ahead, told, initial, playbackVars, input,
                   pipeVars, rpcVars, counters, history>>

PauseValue == IF pause THEN "paused" ELSE "unpaused"

LoopTakesPause ==
    /\ event = "none" /\ setting = Idle /\ events = <<>>
    /\ told # PauseValue
    /\ told' = PauseValue /\ event' = PauseValue
    /\ UNCHANGED <<mpvVars, initial, playbackVars, input, pipeVars, rpcVars, counters, history>>

\* Mutated: a file that has been loaded is taken to be playing.
NewStatesUnasked(e) ==
    CASE e \in {"stop", "eof", "error"} -> {STOPPED}
      [] e = "loaded"   -> {PLAYING}
      [] e = "paused"   -> {PAUSED}
      [] e = "unpaused" -> IF file # NoPipe /\ ~initial THEN {PLAYING} ELSE {STOPPED}

\* Mutated: "idle-active" is not asked for.
NewStatesIdle(e) ==
    CASE e \in {"stop", "eof", "error"} -> {STOPPED}
      [] e = "loaded"   -> IF pause THEN {} ELSE {PLAYING}
      [] e = "paused"   -> {PAUSED}
      [] e = "unpaused" -> IF ~initial THEN {PLAYING} ELSE {STOPPED}

\* SetState, or nothing: the handler reads "pause" and "idle-active" as they
\* are now, not as they were when the event was queued.
NewStates(e) ==
    CASE e \in {"stop", "eof", "error"} -> {STOPPED}
      [] e = "loaded"   -> IF pause THEN {} ELSE {PLAYING}
      [] e = "paused"   -> {PAUSED}
      [] e = "unpaused" -> IF file # NoPipe /\ ~initial THEN {PLAYING} ELSE {STOPPED}

LoopHandles ==
    /\ event # "none"
    /\ IF NewStates(event) = {} THEN UNCHANGED playbackVars
                                ELSE \E new \in NewStates(event) : SetStateStore(new)
    /\ overtaken' = (overtaken \/ (initial /\ event = "unpaused" /\ file # NoPipe))
    /\ initial' = (initial /\ event \notin PauseNews)
    /\ event' = "none"
    /\ UNCHANGED <<lost, mpvVars, told, input, pipeVars, rpcVars, counters>>

\* The callback has run; the loop waits for the next event.
LoopGoesOn ==
    /\ SetStateReturn
    /\ UNCHANGED <<mpvVars, told, event, initial, input, pipeVars, rpcVars, counters, history>>

-----------------------------------------------------------------------------
(***************************************************************************)
(* AudioStream.                                                            *)
(***************************************************************************)
MakePipe(c) ==
    /\ pc[c] = "idle" /\ plays < MaxPlays
    /\ plays' = plays + 1
    /\ pipe' = [pipe EXCEPT ![c] = plays']
    /\ reader' = [reader EXCEPT ![plays'] = TRUE]
    /\ writer' = [writer EXCEPT ![plays'] = TRUE]
    /\ Goto(c, "input")
    /\ UNCHANGED <<mpvVars, loopVars, input, data, wasPaused, counters, history>>

Input(c) ==
    /\ pc[c] = "input"
    /\ input' = pipe[c]
    /\ Goto(c, "load")
    /\ UNCHANGED <<mpvVars, loopVars, pipeVars, pipe, wasPaused, counters, history>>

\* The command "loadfile" for whatever is in input_.
LoadFile(c) ==
    /\ pc[c] = "load"
    /\ EndFile("stop")
    /\ file' = input /\ loaded' = FALSE /\ ahead' = 0
    /\ lost' = IF input = pipe[c] THEN lost ELSE lost \cup {pipe[c]}
    /\ Goto(c, "ask")
    /\ UNCHANGED <<pause, loopVars, input, plays, writer, data, pipe, wasPaused, counters,
                   overtaken>>

\* mpv refuses to load the file, to say whether it is paused, or to go on: ABORTED,
\* or what becomes of the exception; the write end of the pipe stays open, and so
\* does the read end of one that was not loaded.
PlayFails(c) ==
    /\ pc[c] \in {"load", "ask", "setThenRead"} /\ faults < MaxFaults
    /\ faults' = faults + 1
    /\ lost' = lost \cup {pipe[c]}
    /\ Goto(c, "idle")
    /\ UNCHANGED <<mpvVars, loopVars, input, pipeVars, pipe, wasPaused, calls, overtaken>>

\* if (get_property_bool_("pause")) return TogglePause();
AskPause(c) ==
    /\ pc[c] = "ask"
    /\ Goto(c, IF pause THEN "getThenRead" ELSE "read")
    /\ UNCHANGED <<mpvVars, loopVars, input, pipeVars, pipe, wasPaused, counters, history>>

\* reader->Read: a message, or FALSE when the client has no more or is gone.
ReadData(c) ==
    /\ pc[c] = "read"
    /\ Goto(c, "write")
    /\ UNCHANGED <<mpvVars, loopVars, input, pipeVars, pipe, wasPaused, counters, history>>

\* write blocks while the pipe is full.
Write(c) ==
    /\ pc[c] = "write" /\ reader[pipe[c]] /\ data[pipe[c]] < PipeSize
    /\ data' = [data EXCEPT ![pipe[c]] = @ + 1]
    /\ Goto(c, "read")
    /\ UNCHANGED <<mpvVars, loopVars, input, plays, reader, writer, pipe, wasPaused,
                   counters, history>>

CloseWriter(c) ==
    /\ writer' = [writer EXCEPT ![pipe[c]] = FALSE]
    /\ Goto(c, "idle")
    /\ UNCHANGED <<mpvVars, loopVars, input, plays, reader, data, pipe, wasPaused, counters, history>>

EndOfData(c) == pc[c] = "read" /\ CloseWriter(c)

\* Mutated: the write end is left open.
BrokenPipeUnclosed(c) ==
    /\ pc[c] = "write" /\ ~reader[pipe[c]]
    /\ Goto(c, "idle")
    /\ UNCHANGED <<mpvVars, loopVars, input, pipeVars, pipe, wasPaused, counters,
                   history>>

\* Mutated: a failed write is tried again.
BrokenPipeRetries(c) == pc[c] = "write" /\ ~reader[pipe[c]] /\ UNCHANGED vars

\* Nobody will read the pipe: write fails, ABORTED.
BrokenPipe(c) == pc[c] = "write" /\ ~reader[pipe[c]] /\ CloseWriter(c)

-----------------------------------------------------------------------------
(***************************************************************************)
(* Stop and TogglePause.                                                   *)
(***************************************************************************)
Called == calls < MaxCalls /\ calls' = calls + 1

Stop(c) ==
    /\ pc[c] = "idle" /\ Called
    /\ EndFile("stop")
    /\ file' = NoPipe /\ loaded' = FALSE /\ ahead' = 0
    /\ UNCHANGED <<pause, loopVars, input, plays, writer, data, rpcVars, faults, history>>

TogglePause(c) ==
    /\ pc[c] = "idle" /\ Called
    /\ Goto(c, "get")
    /\ UNCHANGED <<mpvVars, loopVars, input, pipeVars, pipe, wasPaused, faults, history>>

GetPause(c) ==
    /\ pc[c] \in {"get", "getThenRead"}
    /\ wasPaused' = [wasPaused EXCEPT ![c] = pause]
    /\ Goto(c, IF pc[c] = "get" THEN "set" ELSE "setThenRead")
    /\ UNCHANGED <<mpvVars, loopVars, input, pipeVars, pipe, counters, history>>

SetPause(c) ==
    /\ pc[c] \in {"set", "setThenRead"}
    /\ pause' = ~wasPaused[c]
    /\ overtaken' = (overtaken \/ (pause' # pause /\ told # PauseValue))
    /\ Goto(c, IF pc[c] = "set" THEN "idle" ELSE "read")
    /\ UNCHANGED <<file, loaded, ahead, events, loopVars, input, pipeVars, pipe, wasPaused,
                   counters, lost>>

-----------------------------------------------------------------------------
MpvStep  == MpvOpens \/ MpvReads \/ MpvPlays \/ MpvReachesEnd
LoopStep == LoopTakesEvent \/ LoopTakesPause \/ LoopHandles \/ LoopGoesOn
Begin(c) == MakePipe(c) \/ Stop(c) \/ TogglePause(c)
Work(c)  ==
    \/ Input(c) \/ LoadFile(c) \/ PlayFails(c) \/ AskPause(c)
    \/ ReadData(c) \/ Write(c) \/ EndOfData(c) \/ BrokenPipe(c)
    \/ GetPause(c) \/ SetPause(c)

Next ==
    \/ MpvStep \/ LoopStep
    \/ \E c \in Callers : Begin(c) \/ Work(c)

Spec == Init /\ [][Next]_vars

-----------------------------------------------------------------------------
\* Nothing is left to tell the event loop, and it has handled everything.
Settled ==
    /\ events = <<>> /\ event = "none" /\ setting = Idle
    /\ told = PauseValue

(***************************************************************************)
(* When the event loop has caught up and the player is idle, nothing is    *)
(* PLAYING, although the loop reads "pause" and "idle-active" later than   *)
(* the events it handles and callers change them meanwhile.  (An idle      *)
(* player that is told to pause is PAUSED.)                                *)
(***************************************************************************)
IdleState ==
    Settled /\ file = NoPipe =>
      /\ state # PLAYING
      /\ ~pause => state = STOPPED

(***************************************************************************)
(* When the event loop has caught up and a file is there, its state is the *)
(* player's: whatever the end of the previous file, the pause Play takes   *)
(* back and other callers do in between, unless a change of "pause" went   *)
(* unreported (`overtaken`).                                               *)
(***************************************************************************)
FileState ==
    Settled /\ loaded /\ ~overtaken =>
      state = IF pause THEN PAUSED ELSE PLAYING

(***************************************************************************)
(* The inductive invariant behind IdleState: the last event that mpv has   *)
(* queued for an idle player is the end of a file, and PAUSED is only left *)
(* standing while "paused" is the latest report.                           *)
(***************************************************************************)
Ends == {"stop", "eof", "error"}

QueueOK ==
    /\ loaded => file # NoPipe
    /\ state \in {PLAYING, PAUSED, STOPPED}
    /\ file = NoPipe => events = <<>> \/ events[Len(events)] \in Ends
    /\ file = NoPipe /\ events = <<>>
         => event \in Ends \/ (event # "loaded" /\ state # PLAYING)
    /\ event \in PauseNews => told = event
    /\ told # "paused" /\ event # "unpaused" => state # PAUSED

(***************************************************************************)
(* No descriptor is lost as long as AudioStream has mpv load its pipe and  *)
(* Play does not fail: an RPC that is over has closed its write end, and a *)
(* read end that is still open is the current file's, however often other  *)
(* callers' files replaced it meanwhile.                                   *)
(***************************************************************************)
DescriptorsClosed ==
    \A p \in Pipes \ lost :
       /\ writer[p] => \E c \in Callers : pipe[c] = p /\ pc[c] # "idle"
       /\ reader[p] => p = file \/ \E c \in Callers :
                                     pipe[c] = p /\ pc[c] \in {"input", "load"}

(***************************************************************************)
(* What DescriptorsClosed and FileState rest on.  A pipe is one caller's,  *)
(* and holds nothing until Play has returned to that caller.               *)
(***************************************************************************)
Streaming  == {"input", "load", "ask", "getThenRead", "setThenRead", "read", "write"}
BeforeData == {"input", "load", "ask", "getThenRead", "setThenRead"}

PipesOK ==
    /\ file \in 1..plays \cup {NoPipe} /\ input \in 1..plays \cup {NoPipe}
    /\ \A p \in Pipes : p > plays => data[p] = 0
    /\ \A c \in Callers :
         /\ pipe[c] \in 1..plays \cup {NoPipe}
         /\ pc[c] \in Streaming => pipe[c] # NoPipe
         /\ pc[c] \in BeforeData => data[pipe[c]] = 0
         /\ \A d \in Callers : pipe[c] = pipe[d] /\ pipe[c] # NoPipe => c = d
    /\ \A p \in Pipes \ lost :
         /\ writer[p] => \E c \in Callers : pipe[c] = p /\ pc[c] \in Streaming
         /\ reader[p] => p = file \/ \E c \in Callers :
                                       pipe[c] = p /\ pc[c] \in {"input", "load"}

\* A pipe in input_ that mpv has not been given and could still read is that of
\* a caller that has not come past loadfile.
InputOK ==
    input # NoPipe /\ input # file /\ reader[input] =>
      /\ data[input] = 0
      /\ \A c \in Callers : pipe[c] = input =>
                             pc[c] \notin Streaming \ {"input", "load"}

\* A caller has seen "pause" unset since its file was loaded, in AskPause or
\* TogglePause.
Asked(c) == pc[c] \in {"read", "write"} \/ (pc[c] = "setThenRead" /\ ~wasPaused[c])

\* mpv can play its file, or will be able to without its caller's looking at
\* "pause" again.
Ready ==
    \/ loaded
    \/ file # NoPipe /\ reader[file] /\ (data[file] > 0 \/ \E c \in Callers :
                                                   pipe[c] = file /\ Asked(c))

(***************************************************************************)
(* While the file is there, a "paused" that was reported and still holds   *)
(* was reported after the end of the previous file, so that no STOPPED     *)
(* covers it up; and PLAYING is left standing with "unpaused".             *)
(***************************************************************************)
ReportsOK ==
    /\ loaded /\ events # <<>> => events[Len(events)] = "loaded"
    /\ loaded /\ events = <<>> => event \notin Ends
    /\ ~overtaken /\ Ready /\ told = "paused" /\ pause =>
         /\ event = "paused" \/ (event \notin Ends /\ state = PAUSED)
         /\ \A i \in DOMAIN events : events[i] \notin Ends
    /\ ~overtaken /\ loaded /\ events = <<>> /\ event \notin {"loaded", "unpaused"}
       /\ told = "unpaused" /\ ~pause => state = PLAYING

\* With the types, they are inductive (PlayerProofs).
PlayerInv == TypeOK /\ QueueOK /\ PipesOK /\ InputOK /\ ReportsOK

(***************************************************************************)
(* emms-player-lrm.el:188-190 takes a "stopped" that the user did not ask  *)
(* for to mean that "the playback stopped automatically (e.g. song         *)
(* finished playing)": the state is not STOPPED while a file is playing.   *)
(***************************************************************************)
StoppedMeansStopped ==
    Settled /\ state = STOPPED => ~(loaded /\ ~pause)

-----------------------------------------------------------------------------
(***************************************************************************)
(* Threads run, mpv reads and, while it is not paused, plays its file, and *)
(* a client's data comes to an end.                                        *)
(***************************************************************************)
FairSpec ==
    /\ Spec
    /\ WF_vars(MpvStep) /\ WF_vars(LoopStep)
    /\ \A c \in Callers : WF_vars(Work(c)) /\ SF_vars(EndOfData(c))

\* A write into a full pipe that nobody empties: mpv was never given it, or plays it
\* and is paused.
Blocked(c) ==
    /\ pc[c] = "write" /\ data[pipe[c]] = PipeSize
    /\ pipe[c] \in lost \/ (pipe[c] = file /\ pause)

(***************************************************************************)
(* Every RPC returns, unless from some time on its write is blocked by one *)
(* pause that nobody ends or by a pipe that another caller's Input kept    *)
(* from being loaded.  A stream whose file is replaced or stopped, a       *)
(* toggle, and a stream that was only paused for a while return whatever   *)
(* other callers do.                                                       *)
(***************************************************************************)
StreamEnds ==
    \A c \in Callers : []<>(pc[c] = "idle") \/ <>[]Blocked(c)
=============================================================================
