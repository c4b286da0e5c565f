----------------------------- MODULE InfoStream -----------------------------
(***************************************************************************)
(* How the playback state and the volume of the player reach the clients:  *)
(*                                                                         *)
(*   - the mpv event loop calls PlaybackState::SetState on the player's    *)
(*     playback_state_ (module PlaybackState: state, setting, callback);   *)
(*   - the callback PlayerServiceImpl registers in its constructor copies  *)
(*     the new state into the service's own playback_state_ and notifies   *)
(*     playback_state_cv_;                                                 *)
(*   - one TimeInfoStream handler per client samples the state, composes a *)
(*     TimeInfo, writes it if it has news, and waits on the cv, WITHOUT a  *)
(*     predicate, until the next multiple of the client's interval;        *)
(*   - the handler's reader thread ends the stream when the client has     *)
(*     closed its side;                                                    *)
(*   - PlaybackSynchronizer::continuous_update on the client reads the     *)
(*     messages and keeps the latest one as base_playback_info.            *)
(*                                                                         *)
(* Times are abstracted to "carries the times" or not, the interval to     *)
(* "expires while somebody watches" (Timed) or not.  `log` and the stamps  *)
(* are history: log is the sequence of states the player has been in, a    *)
(* stamp is the position in log of the state it goes with (0: none).       *)
(***************************************************************************)
EXTENDS PlaybackState, Sequences

CONSTANTS
    Streams,           \* the TimeInfoStream calls, one per client
    FirstVolume,       \* mpv's volume when it starts
    Volumes,           \* volumes a Volume call can set
    Timed,             \* the interval is short enough to expire
    MaxChanges,        \* bound: SetState calls
    MaxDisturbances,   \* bound: Volume calls and mpv property reads that throw
    MaxWire            \* messages gRPC's flow control lets be in flight

ASSUME InfoStreamAssumption ==
    /\ Volumes \subseteq Nat /\ FirstVolume \in Nat
    /\ Timed \in BOOLEAN
    /\ {MaxChanges, MaxDisturbances, MaxWire} \subseteq Nat

\* TimeInfo.playback_state when the field is not set (its proto3 default).
NOT_CHANGED == "NOT_CHANGED"

\* The states Player hands to SetState, and so all that a handler can sample.
PlayerStates  == {PLAYING, PAUSED, STOPPED}
SampledStates == PlayerStates \cup {UNDEFINED}

VARIABLES
    log,          \* history: every state the player has had
    svcState,     \* PlayerServiceImpl::playback_state_
    svcStamp,     \* history: which entry of log svcState is
    volume,       \* mpv's volume
    volumeCalls, faults,  \* how many Volume calls and failing reads so far
    pc,           \* where the handler of a stream is
    sample,       \* new_state: [state, stamp]
    oldState,     \* old_state
    changed,      \* state_changed
    info,         \* time_info: [state, stamp, volume, timed]
    newVolume, oldVolume,  \* new_volume, old_volume
    closeStream,  \* close_stream
    readerDone,   \* the reader thread has returned
    link,         \* FALSE once the connection is lost
    wire,         \* messages on their way to the client
    requestsOpen, \* the client has not called WritesDone()
    clientPc,     \* where continuous_update is
    view          \* base_playback_info.info: [state, stamp, volume, timed]
                  \* and `settled`: more than one state has been received

serverVars  == <<log, svcState, svcStamp, volume, volumeCalls>>
handlerVars == <<pc, sample, oldState, changed, info, newVolume, oldVolume,
                 closeStream>>
clientVars  == <<requestsOpen, clientPc, view>>
vars == <<playbackVars, serverVars, faults, handlerVars, readerDone, link, wire,
          clientVars>>

MayDisturb == volumeCalls + faults < MaxDisturbances

Stamps   == Nat
Messages == [state : PlayerStates \cup {NOT_CHANGED}, stamp : Stamps,
             volume : Nat, timed : BOOLEAN]
Samples  == [state : SampledStates, stamp : Stamps]
Views    == [state : SampledStates, stamp : Stamps, volume : Nat, timed : BOOLEAN,
             settled : BOOLEAN]

HandlerPcs == {"none", "opening", "compose", "volume", "write", "wait",
               "woken", "join", "done"}

TypeOK ==
    /\ PlaybackTypeOK
    /\ state \in PlayerStates /\ setting \in PlayerStates \cup {Idle}
    /\ log \in Seq(PlayerStates)
    /\ svcState \in SampledStates /\ svcStamp \in Stamps
    /\ volume \in Nat /\ volumeCalls \in Nat /\ faults \in Nat
    /\ pc \in [Streams -> HandlerPcs]
    /\ sample \in [Streams -> Samples]
    /\ oldState \in [Streams -> SampledStates]
    /\ changed \in [Streams -> BOOLEAN]
    /\ info \in [Streams -> Messages]
    /\ newVolume \in [Streams -> Nat] /\ oldVolume \in [Streams -> Nat]
    /\ closeStream \in [Streams -> BOOLEAN]
    /\ readerDone \in [Streams -> BOOLEAN]
    /\ link \in [Streams -> BOOLEAN]
    /\ wire \in [Streams -> Seq(Messages)]
    /\ requestsOpen \in [Streams -> BOOLEAN]
    /\ clientPc \in [Streams -> {"idle", "reading", "ended"}]
    /\ view \in [Streams -> Views]

-----------------------------------------------------------------------------
EmptyInfo == [state |-> NOT_CHANGED, stamp |-> 0, volume |-> 0, timed |-> FALSE]
EmptyView == [state |-> UNDEFINED, stamp |-> 0, volume |-> 0, timed |-> FALSE,
              settled |-> FALSE]
NoSample  == [state |-> UNDEFINED, stamp |-> 0]

(***************************************************************************)
(* Player starts STOPPED and its event loop runs before PlayerServiceImpl  *)
(* has registered the callback; playback_state_ is UNDEFINED until the     *)
(* first callback.                                                         *)
(***************************************************************************)
Init ==
    /\ PlaybackInit(STOPPED)
    /\ log = <<STOPPED>>
    /\ svcState = UNDEFINED /\ svcStamp = 0
    /\ volume = FirstVolume /\ volumeCalls = 0 /\ faults = 0
    /\ pc = [st \in Streams |-> "none"]
    /\ sample = [st \in Streams |-> NoSample]
    /\ oldState = [st \in Streams |-> UNDEFINED]
    /\ changed = [st \in Streams |-> FALSE]
    /\ info = [st \in Streams |-> EmptyInfo]
    /\ newVolume = [st \in Streams |-> 0] /\ oldVolume = [st \in Streams |-> 0]
    /\ closeStream = [st \in Streams |-> FALSE]
    /\ readerDone = [st \in Streams |-> FALSE]
    /\ link = [st \in Streams |-> TRUE]
    /\ wire = [st \in Streams |-> <<>>]
    /\ requestsOpen = [st \in Streams |-> TRUE]
    /\ clientPc = [st \in Streams |-> "idle"]
    /\ view = [st \in Streams |-> EmptyView]

-----------------------------------------------------------------------------
\* playback_state_cv_.notify_all(): every waiting handler is woken; one that is
\* not waiting at this moment does not notice.
Notified(pcs) == [st \in Streams |-> IF pcs[st] = "wait" THEN "woken" ELSE pcs[st]]

(***************************************************************************)
(* The player's side.                                                      *)
(***************************************************************************)

\* SetState in the mpv event loop.  Before the service exists nothing can be
\* loaded, so only the first "pause" event, which yields STOPPED, can come.
PlayerSetsState(new) ==
    /\ Len(log) <= MaxChanges
    /\ ~callback => new = STOPPED
    /\ SetStateStore(new)
    /\ log' = Append(log, state')
    /\ UNCHANGED <<svcState, svcStamp, volume, volumeCalls, faults, handlerVars,
                   readerDone, link, wire, clientVars>>

\* Mutated: the lambda notifies without having stored the state.
CallbackForgetsState ==
    /\ SetStateReturn
    /\ pc' = IF callback THEN Notified(pc) ELSE pc
    /\ UNCHANGED <<log, svcState, svcStamp, volume, volumeCalls, faults, sample,
                   oldState, changed, info, newVolume, oldVolume, closeStream,
                   readerDone, link, wire, clientVars>>

\* The rest of SetState, with the lambda of PlayerServiceImpl's constructor.
CallbackRuns ==
    /\ SetStateReturn
    /\ IF callback
         THEN /\ svcState' = setting
              /\ svcStamp' = Len(log)
              /\ pc' = Notified(pc)
         ELSE UNCHANGED <<svcState, svcStamp, pc>>
    /\ UNCHANGED <<log, volume, volumeCalls, faults, sample, oldState, changed,
                   info, newVolume, oldVolume, closeStream, readerDone, link,
                   wire, clientVars>>

\* PlayerServiceImpl's constructor.
RegisterCallback ==
    /\ ~callback
    /\ SetStateChangeCallback
    /\ UNCHANGED <<serverVars, faults, handlerVars, readerDone, link, wire,
                   clientVars>>

\* The Volume RPC: set mpv's volume, then wake the streams.
VolumeCall(v) ==
    /\ callback
    /\ MayDisturb
    /\ volume' = v
    /\ volumeCalls' = volumeCalls + 1
    /\ pc' = Notified(pc)
    /\ UNCHANGED <<playbackVars, log, svcState, svcStamp, faults, sample,
                   oldState, changed, info, newVolume, oldVolume, closeStream,
                   readerDone, link, wire, clientVars>>

(***************************************************************************)
(* The handler thread of one stream.                                       *)
(***************************************************************************)

\* The handler has read the interval, starts its reader thread and takes its
\* first sample from the player itself, not from playback_state_.  A stream
\* that is lost before the interval arrives is ABORTED.
Open(st) ==
    /\ pc[st] = "opening"
    /\ \/ /\ link[st]
          /\ pc' = [pc EXCEPT ![st] = "compose"]
          /\ sample' = [sample EXCEPT ![st] = [state |-> state, stamp |-> Len(log)]]
          /\ UNCHANGED readerDone
       \/ /\ ~link[st]
          /\ pc' = [pc EXCEPT ![st] = "done"]
          /\ readerDone' = [readerDone EXCEPT ![st] = TRUE]
          /\ UNCHANGED sample
    /\ UNCHANGED <<playbackVars, serverVars, faults, oldState, changed, info,
                   newVolume, oldVolume, closeStream, link, wire, clientVars>>

\* The message's playback_state.  UNDEFINED has no value in TimeInfo and leaves
\* the field of the reused message as the previous iteration left it.
WithState(m, smp, isNew) ==
    IF ~isNew THEN [m EXCEPT !.state = NOT_CHANGED, !.stamp = 0]
    ELSE IF smp.state = UNDEFINED THEN m
    ELSE [m EXCEPT !.state = smp.state, !.stamp = smp.stamp]

\* Times are read while PLAYING and on a switch to PAUSED, else cleared.
WantsTimes(smp, isNew) ==
    smp.state = PLAYING \/ (smp.state = PAUSED /\ isNew)

\* Top of an iteration up to the volume; old_state is assigned here, before
\* anything has been sent.  A time that mpv cannot give clears all of them.
Compose(st) ==
    /\ pc[st] = "compose" /\ ~closeStream[st]
    /\ LET isNew  == sample[st].state # oldState[st]
           wanted == WantsTimes(sample[st], isNew)
       IN /\ changed' = [changed EXCEPT ![st] = isNew]
          /\ oldState' = [oldState EXCEPT ![st] = sample[st].state]
          /\ \E available \in BOOLEAN :
               /\ available \/ (wanted /\ MayDisturb)
               /\ faults' = IF available THEN faults ELSE faults + 1
               /\ info' = [info EXCEPT ![st] =
                             [WithState(info[st], sample[st], isNew) EXCEPT
                                !.timed = wanted /\ available]]
    /\ pc' = [pc EXCEPT ![st] = "volume"]
    /\ UNCHANGED <<playbackVars, serverVars, sample, newVolume, oldVolume,
                   closeStream, readerDone, link, wire, clientVars>>

LeaveLoop(st) ==
    /\ pc[st] = "compose" /\ closeStream[st]
    /\ pc' = [pc EXCEPT ![st] = "join"]
    /\ UNCHANGED <<playbackVars, serverVars, faults, sample, oldState, changed,
                   info, newVolume, oldVolume, closeStream, readerDone, link,
                   wire, clientVars>>

QueryVolume(st) ==
    /\ pc[st] = "volume"
    /\ newVolume' = [newVolume EXCEPT ![st] = volume]
    /\ info' = [info EXCEPT ![st].volume = volume]
    /\ pc' = [pc EXCEPT ![st] = "write"]
    /\ UNCHANGED <<playbackVars, serverVars, faults, sample, oldState, changed,
                   oldVolume, closeStream, readerDone, link, wire, clientVars>>

\* player.Volume() throws MpvException: the catch at the end of the loop logs it
\* and the loop starts over with the same new_state.
VolumeFails(st) ==
    /\ pc[st] = "volume"
    /\ MayDisturb
    /\ faults' = faults + 1
    /\ pc' = [pc EXCEPT ![st] = "compose"]
    /\ UNCHANGED <<playbackVars, serverVars, sample, oldState, changed, info,
                   newVolume, oldVolume, closeStream, readerDone, link, wire,
                   clientVars>>

\* Mutated: a change of state alone is not sent.
NewsIgnoresState(st) ==
    sample[st].state = PLAYING \/ newVolume[st] # oldVolume[st]

\* Mutated: a change of volume alone is not sent.
NewsIgnoresVolume(st) ==
    sample[st].state = PLAYING \/ changed[st]

\* Is there anything to send?
HasNews(st) ==
    \/ sample[st].state = PLAYING
    \/ changed[st]
    \/ newVolume[st] # oldVolume[st]

\* stream->Write(), or nothing to send.  Write blocks while the flow-control
\* window is full and fails when the connection is gone.
Write(st) ==
    /\ pc[st] = "write"
    /\ \/ /\ ~HasNews(st)
          /\ pc' = [pc EXCEPT ![st] = "wait"]
          /\ UNCHANGED <<wire, closeStream>>
       \/ /\ HasNews(st) /\ link[st] /\ Len(wire[st]) < MaxWire
          /\ wire' = [wire EXCEPT ![st] = Append(@, info[st])]
          /\ pc' = [pc EXCEPT ![st] = "wait"]
          /\ UNCHANGED closeStream
       \/ /\ HasNews(st) /\ ~link[st]
          /\ closeStream' = [closeStream EXCEPT ![st] = TRUE]
          /\ pc' = [pc EXCEPT ![st] = "join"]
          /\ UNCHANGED wire
    /\ UNCHANGED <<playbackVars, serverVars, faults, sample, oldState, changed,
                   info, newVolume, oldVolume, readerDone, link, clientVars>>

\* wait_until() returns and the next iteration's new_state is read from the
\* service's copy, still under playback_state_mtx_.
NextSample(st) ==
    /\ sample' = [sample EXCEPT ![st] = [state |-> svcState, stamp |-> svcStamp]]
    /\ oldVolume' = [oldVolume EXCEPT ![st] = newVolume[st]]
    /\ pc' = [pc EXCEPT ![st] = "compose"]
    /\ UNCHANGED <<playbackVars, serverVars, faults, oldState, changed, info,
                   newVolume, closeStream, readerDone, link, wire, clientVars>>

\* Mutated: a woken handler samples the player, as in Open.
WokenToPlayer(st) ==
    /\ pc[st] = "woken"
    /\ sample' = [sample EXCEPT ![st] = [state |-> state, stamp |-> Len(log)]]
    /\ oldVolume' = [oldVolume EXCEPT ![st] = newVolume[st]]
    /\ pc' = [pc EXCEPT ![st] = "compose"]
    /\ UNCHANGED <<playbackVars, serverVars, faults, oldState, changed, info,
                   newVolume, closeStream, readerDone, link, wire, clientVars>>

Woken(st) == pc[st] = "woken" /\ NextSample(st)

\* The deadline passes, or the wait returns spuriously.
TimesOut(st) == pc[st] = "wait" /\ NextSample(st)

Join(st) ==
    /\ pc[st] = "join" /\ readerDone[st]
    /\ pc' = [pc EXCEPT ![st] = "done"]
    /\ UNCHANGED <<playbackVars, serverVars, faults, sample, oldState, changed,
                   info, newVolume, oldVolume, closeStream, readerDone, link,
                   wire, clientVars>>

\* Mutated: the reader thread returns without setting close_stream.
ReaderForgetsFlag(st) ==
    /\ pc[st] \notin {"none", "opening", "done"} /\ ~readerDone[st]
    /\ ~requestsOpen[st] \/ ~link[st]
    /\ readerDone' = [readerDone EXCEPT ![st] = TRUE]
    /\ pc' = Notified(pc)
    /\ UNCHANGED <<playbackVars, serverVars, faults, sample, oldState, changed,
                   info, newVolume, oldVolume, closeStream, link, wire,
                   clientVars>>

\* The reader thread: Read() returns false, it sets close_stream and notifies.
ReaderEnds(st) ==
    /\ pc[st] \notin {"none", "opening", "done"} /\ ~readerDone[st]
    /\ ~requestsOpen[st] \/ ~link[st]
    /\ closeStream' = [closeStream EXCEPT ![st] = TRUE]
    /\ readerDone' = [readerDone EXCEPT ![st] = TRUE]
    /\ pc' = Notified(pc)
    /\ UNCHANGED <<playbackVars, serverVars, faults, sample, oldState, changed,
                   info, newVolume, oldVolume, link, wire, clientVars>>

(***************************************************************************)
(* The client: PlaybackSynchronizer::continuous_update and its writer.     *)
(***************************************************************************)
ClientOpens(st) ==
    /\ callback
    /\ clientPc[st] = "idle"
    /\ clientPc' = [clientPc EXCEPT ![st] = "reading"]
    /\ pc' = [pc EXCEPT ![st] = "opening"]
    /\ UNCHANGED <<playbackVars, serverVars, faults, sample, oldState, changed,
                   info, newVolume, oldVolume, closeStream, readerDone, link,
                   wire, requestsOpen, view>>

\* Mutated: NOT_CHANGED is translated and stored like any other state.
ShownUntested(v, m) ==
    [state |-> IF m.state = NOT_CHANGED THEN UNDEFINED ELSE m.state,
     stamp |-> IF m.state = NOT_CHANGED THEN v.stamp ELSE m.stamp,
     volume |-> m.volume, timed |-> m.timed,
     settled |-> v.settled \/ (m.state # NOT_CHANGED /\ v.stamp # 0)]

\* What base_playback_info becomes when message m is read.  current_state and
\* the stored playback_state are the same after every message.
Shown(v, m) ==
    LET news == m.state # NOT_CHANGED
    IN [state   |-> IF news THEN m.state ELSE v.state,
        stamp   |-> IF news THEN m.stamp ELSE v.stamp,
        volume  |-> m.volume,
        timed   |-> m.timed,
        settled |-> v.settled \/ (news /\ v.stamp # 0)]

ClientReads(st) ==
    /\ clientPc[st] = "reading" /\ wire[st] # <<>>
    /\ view' = [view EXCEPT ![st] = Shown(view[st], Head(wire[st]))]
    /\ wire' = [wire EXCEPT ![st] = Tail(@)]
    /\ UNCHANGED <<playbackVars, serverVars, faults, handlerVars, readerDone,
                   link, requestsOpen, clientPc>>

\* Read() returns false: the server has finished, or the connection is gone.
ClientEnds(st) ==
    /\ clientPc[st] = "reading" /\ wire[st] = <<>>
    /\ pc[st] = "done" \/ ~link[st]
    /\ clientPc' = [clientPc EXCEPT ![st] = "ended"]
    /\ UNCHANGED <<playbackVars, serverVars, faults, handlerVars, readerDone,
                   link, wire, requestsOpen, view>>

\* Stop() lets the writer thread call WritesDone().
ClientStops(st) ==
    /\ clientPc[st] # "idle" /\ requestsOpen[st]
    /\ requestsOpen' = [requestsOpen EXCEPT ![st] = FALSE]
    /\ UNCHANGED <<playbackVars, serverVars, faults, handlerVars, readerDone,
                   link, wire, clientPc, view>>

\* The connection breaks; a suffix of what was in flight is lost.
LinkDown(st) ==
    /\ clientPc[st] # "idle" /\ link[st]
    /\ link' = [link EXCEPT ![st] = FALSE]
    /\ \E kept \in 0 .. Len(wire[st]) :
         wire' = [wire EXCEPT ![st] = SubSeq(@, 1, kept)]
    /\ UNCHANGED <<playbackVars, serverVars, faults, handlerVars, readerDone,
                   clientVars>>

-----------------------------------------------------------------------------
PlayerStep ==
    \/ \E new \in PlayerStates : PlayerSetsState(new)
    \/ CallbackRuns
    \/ RegisterCallback
    \/ \E v \in Volumes : VolumeCall(v)

HandlerStep(st) ==
    \/ Open(st) \/ Compose(st) \/ LeaveLoop(st) \/ QueryVolume(st)
    \/ Write(st) \/ Woken(st) \/ Join(st)

ClientStep(st) ==
    \/ ClientOpens(st) \/ ClientReads(st) \/ ClientEnds(st) \/ ClientStops(st)

Next ==
    \/ PlayerStep
    \/ \E st \in Streams :
         \/ HandlerStep(st) \/ VolumeFails(st) \/ TimesOut(st)
         \/ ReaderEnds(st) \/ ClientStep(st) \/ LinkDown(st)

Spec == Init /\ [][Next]_vars

(***************************************************************************)
(* Threads that can run do run, and a deadline passes if the interval is   *)
(* short enough to be waited for.  No RPC, loss of a connection, failing   *)
(* mpv property or spurious wakeup has to happen.                          *)
(***************************************************************************)
Fairness ==
    /\ WF_vars(CallbackRuns) /\ WF_vars(RegisterCallback)
    /\ \A st \in Streams :
         /\ WF_vars(HandlerStep(st)) /\ WF_vars(ReaderEnds(st))
         /\ WF_vars(ClientReads(st)) /\ WF_vars(ClientEnds(st))
         /\ WF_vars(Timed /\ TimesOut(st))

FairSpec == Spec /\ Fairness

-----------------------------------------------------------------------------
\* The handler still serves this stream and the client still listens.
Live(st) == link[st] /\ requestsOpen[st] /\ clientPc[st] = "reading"

\* Everything the handler has written has been read.
Drained(st) == wire[st] = <<>> /\ clientPc[st] = "reading" /\ link[st]

(***************************************************************************)
(* The service's copy of the state lags the player by at most the SetState *)
(* in progress, and is UNDEFINED only as long as the player is STOPPED or  *)
(* in its first SetState: nobody reads a state from it that has been       *)
(* replaced twice (callback in PlayerServiceImpl's constructor).           *)
(***************************************************************************)
CopyLagsByOne ==
    /\ svcStamp = 0 =>
         \A i \in 1 .. Len(log) :
            i < Len(log) \/ setting = Idle => log[i] = STOPPED
    /\ svcStamp # 0 =>
         /\ svcState = log[svcStamp]
         /\ svcStamp = IF setting = Idle THEN Len(log) ELSE Len(log) - 1

(***************************************************************************)
(* A state that a client shows, or that is on its way to it, is a state    *)
(* the player was really in: reusing one TimeInfo for all messages, and    *)
(* leaving its state field alone for UNDEFINED, never sends a made-up one. *)
(***************************************************************************)
IsActual(r, none) ==
    IF r.stamp = 0 THEN r.state = none
    ELSE r.stamp \in DOMAIN log /\ r.state = log[r.stamp]

ReportedWasActual ==
    \A st \in Streams :
       /\ IsActual(view[st], UNDEFINED)
       /\ \A i \in DOMAIN wire[st] : IsActual(wire[st][i], NOT_CHANGED)

(***************************************************************************)
(* What the two above rest on: log ends in the player's state, nothing but *)
(* STOPPED happens before the callback is registered, and a handler's      *)
(* sample and the message it is composing are states from log.             *)
(***************************************************************************)
HistoryOK ==
    /\ log # <<>> /\ state = log[Len(log)]
    /\ setting # Idle => setting = state
    /\ svcStamp = 0 => svcState = UNDEFINED
    /\ ~callback => svcStamp = 0 /\ \A i \in DOMAIN log : log[i] = STOPPED

HandlersOK ==
    \A st \in Streams :
       IsActual(sample[st], UNDEFINED) /\ IsActual(info[st], NOT_CHANGED)

(***************************************************************************)
(* The order in which a client gets states.  Position 0 is what it shows,  *)
(* the others are what is on the wire; only the first state it ever gets   *)
(* may be followed by the one before it in log, since only the first       *)
(* sample comes from the player: all others come from the copy, whose      *)
(* stamp never decreases (NextCopy is what it will be at least).           *)
(***************************************************************************)
Stamp(st, i) == IF i = 0 THEN view[st].stamp ELSE wire[st][i].stamp
News(st) == {i \in 0 .. Len(wire[st]) : Stamp(st, i) # 0}
IsFirst(st, i) == ~view[st].settled /\ \A k \in News(st) : i <= k
MayFollow(st, i, s) ==
    s >= Stamp(st, i) \/ (IsFirst(st, i) /\ s + 1 >= Stamp(st, i))

NextCopy == IF svcStamp = 0 THEN Len(log) ELSE svcStamp

WireInOrder(st) ==
    /\ view[st].settled => view[st].stamp # 0
    /\ \A i, j \in News(st) : i < j => MayFollow(st, i, Stamp(st, j))
    /\ \A i \in News(st) : IsFirst(st, i) \/ Stamp(st, i) <= NextCopy

\* The message being composed, and the sample it will be composed from: an
\* UNDEFINED one (stamp 0) sends the state of the previous message again.
HandlerInOrder(st) ==
    /\ clientPc[st] = "idle" => pc[st] = "none"
    /\ pc[st] \in {"none", "opening"} => News(st) = {} /\ info[st].stamp = 0
    /\ pc[st] \in {"volume", "write"} => oldState[st] = sample[st].state
    /\ info[st].stamp # 0 => \A i \in News(st) : MayFollow(st, i, info[st].stamp)
    /\ pc[st] = "compose" /\ sample[st].stamp # 0 /\ sample[st].state # oldState[st]
         => \A i \in News(st) : MayFollow(st, i, sample[st].stamp)
    /\ pc[st] \in {"volume", "write"} /\ News(st) # {} => info[st].stamp <= NextCopy
    /\ pc[st] \in {"compose", "volume"} /\ News(st) # {}
         => sample[st].stamp <= NextCopy
    /\ pc[st] \in {"compose", "volume", "write"} /\ sample[st].stamp = 0
         => info[st].stamp <= NextCopy

OrderOK == \A st \in Streams : WireInOrder(st) /\ HandlerInOrder(st)

(***************************************************************************)
(* What the messages add up to.  On a connection that is not lost, the     *)
(* last message carries the volume of the last iteration that is over, and *)
(* the last one with a state carries old_state, as long as no property has *)
(* failed.                                                                 *)
(***************************************************************************)
LastVolume(st) ==
    IF wire[st] = <<>> THEN view[st].volume ELSE wire[st][Len(wire[st])].volume

VolumeKnown(st) ==
    /\ pc[st] \in {"wait", "woken"} => LastVolume(st) = newVolume[st]
    /\ pc[st] \in {"none", "opening", "compose", "volume", "write"}
         => LastVolume(st) = oldVolume[st]
    /\ pc[st] = "write" => info[st].volume = newVolume[st]

StateAt(st, i) == IF i = 0 THEN view[st].state ELSE wire[st][i].state

LastStateIs(st, s) ==
    \E i \in 0 .. Len(wire[st]) :
       /\ StateAt(st, i) = s
       /\ \A j \in DOMAIN wire[st] : j > i => wire[st][j].state = NOT_CHANGED

StateKnown(st) ==
    oldState[st] # UNDEFINED =>
      /\ pc[st] \in {"none", "opening", "compose", "wait", "woken"}
           => LastStateIs(st, oldState[st])
      /\ pc[st] \in {"volume", "write"} =>
           IF changed[st] THEN info[st].state = oldState[st]
           ELSE info[st].state = NOT_CHANGED /\ LastStateIs(st, oldState[st])

EncodingOK ==
    \A st \in Streams :
       link[st] => VolumeKnown(st) /\ (faults = 0 => StateKnown(st))

(***************************************************************************)
(* All of it is inductive, and the safety properties and the refinement of *)
(* the status feed follow from it (InfoStreamProofs).                      *)
(***************************************************************************)
SafetyInv ==
    /\ TypeOK /\ HistoryOK /\ CopyLagsByOne /\ HandlersOK /\ ReportedWasActual
    /\ OrderOK /\ EncodingOK

(***************************************************************************)
(* The delta encoding is sound: once a client has read what a waiting      *)
(* handler wrote, it has the state the handler believes it told it         *)
(* (old_state), although most messages say NOT_CHANGED.                    *)
(***************************************************************************)
ClientKnowsState ==
    \A st \in Streams :
       pc[st] \in {"wait", "woken"} /\ Drained(st) =>
          oldState[st] \in {UNDEFINED, view[st].state}

(***************************************************************************)
(* Likewise the volume: the handler sends nothing when the volume it read  *)
(* is the one of its previous iteration, and the client then has it.       *)
(***************************************************************************)
ClientKnowsVolume ==
    \A st \in Streams :
       pc[st] \in {"wait", "woken"} /\ Drained(st) =>
          view[st].volume = newVolume[st]

(***************************************************************************)
(* The former holds as long as no mpv property fails (a failing one has    *)
(* the handler forget a state it has not sent).                            *)
(***************************************************************************)
ClientKnowsStateUnlessFault == faults = 0 => ClientKnowsState

(***************************************************************************)
(* "the playback state change makes it run early" (the comment over the    *)
(* loop): after the last change, a client that stays connected shows the   *)
(* player's state and volume and keeps showing them.                       *)
(***************************************************************************)
Converges ==
    \A st \in Streams :
       <>[]Live(st) => <>[](view[st].state = state /\ view[st].volume = volume)

\* The same as long as no mpv property fails.
ConvergesUnlessFault == [](faults = 0) => Converges

(***************************************************************************)
(* A stream whose client has stopped, or whose connection is lost, does    *)
(* not keep its handler and reader threads.                                *)
(***************************************************************************)
Terminates ==
    \A st \in Streams :
       (pc[st] # "none" /\ (~requestsOpen[st] \/ ~link[st])) ~> (pc[st] = "done")

(***************************************************************************)
(* The stream implements the status feed.                                  *)
(***************************************************************************)
Feed == INSTANCE StatusFeed WITH
    Clients <- Streams, PlaybackStates <- PlayerStates, NoState <- UNDEFINED,
    at      <- [st \in Streams |-> view[st].stamp],
    shown   <- [st \in Streams |-> view[st].state],
    settled <- [st \in Streams |-> view[st].settled]

FeedSpec == Feed!Spec
=============================================================================
